----------------------------- MODULE Dashboard -----------------------------
(***************************************************************************)
(* internal/orchestrator/dashboard.go and its callers: the live display of *)
(* a run.  Workers report to it under one mutex.  A render moves the       *)
(* cursor up by what the last one printed and prints over it, line by      *)
(* line: the new log line, the box, and blanks over what is left.  The     *)
(* mutex is held until the last of these lines is out.                     *)
(*                                                                         *)
(* The screen is the sequence of lines above the cursor since the          *)
(* dashboard was created.  Two others have to do with it: the logger,      *)
(* whose lines (retries, throttle, cache) go to standard error at any      *)
(* moment, for it does not take the mutex, and the terminal, which cannot  *)
(* move the cursor above its top.  What a row says of a worker is left     *)
(* out: a row is its place in the box and the number of files done.        *)
(***************************************************************************)
EXTENDS Integers, FiniteSets, Sequences, SequencesExt

CONSTANTS
  MaxWorkers, MaxFiles,
  FrameRows,            \* rows of the box beside the workers', 9 in the code
  Rows,                 \* lines of the terminal
  MaxWarnings           \* bound on the logger's lines

ASSUME DashboardAssumption ==
  /\ MaxWorkers \in Nat \ {0} /\ MaxFiles \in Nat /\ MaxWarnings \in Nat
  /\ Rows \in Nat \ {0} /\ FrameRows \in Nat \ {0}

VARIABLES
  crew,                 \* workerCount; 0 without a dashboard
  queue,                \* how many jobs are in the channel
  at,                   \* where the goroutine of each worker is
  doneFiles,
  screen,
  text,                 \* what the render under way still has to print
  under,                \* how many lines from the cursor on are to be overwritten
  lastPrintedLines,
  warned                \* how many lines the logger wrote

dash == <<crew, queue, at, doneFiles, screen, text, under, lastPrintedLines, warned>>

Workers == 1..MaxWorkers

\* Header and metrics, with a row for each worker.
BoxHeight == FrameRows + crew

NoDashboard ==
  /\ crew = 0 /\ queue = 0
  /\ at = [w \in Workers |-> "gone"]
  /\ doneFiles = 0
  /\ screen = <<>> /\ text = <<>> /\ under = 0
  /\ lastPrintedLines = 0 /\ warned = 0

-----------------------------------------------------------------------------
(* doRender *)

AtMost(m, n) == IF m < n THEN m ELSE n
AtLeast(m, n) == IF m < n THEN n ELSE m

\* Mutant: the cursor stops a line short.
UpOneShort(n) == IF n = 0 THEN 0 ELSE n - 1

\* escCursorUp, as far as the terminal goes.
Up(n) == AtMost(n, Rows - 1)

\* Line n of a render that shows h files done, the first of the box being 1: a
\* log line before the box, blanks below it.
Line(n, height, h) ==
  [kind |-> IF n < 1 THEN "log" ELSE IF n <= height THEN "box" ELSE "blank",
   n |-> n, done |-> h]

\* A line once another render has begun.
Aged(line) == IF line.kind = "warn" THEN line ELSE [kind |-> "old", n |-> 0, done |-> 0]

\* escCursorUp, and the text there is to print; l is 1 if there is a log line.
Render(h, height, l) ==
  LET kept == Len(screen) - Up(lastPrintedLines)
      length == AtLeast(l + height, lastPrintedLines)
  IN  /\ screen' = [i \in 1..kept |-> Aged(screen[i])]
      /\ under' = Up(lastPrintedLines)
      /\ text' = [i \in 1..length |-> Line(i - l, height, h)]
      /\ lastPrintedLines' = length

NoRender == UNCHANGED <<screen, text, under, lastPrintedLines>>

\* The mutex is free.
Unlocked == text = <<>>

\* A line goes out where the cursor is, which is below it then.
Writes(line) == screen' = Append(screen, line) /\ under' = AtLeast(0, under - 1)

\* One Printf of the render under way.
PrintLine ==
  /\ ~Unlocked
  /\ Writes(Head(text)) /\ text' = Tail(text)
  /\ UNCHANGED <<crew, queue, at, doneFiles, lastPrintedLines, warned>>

\* The logger, as long as the run has a dashboard: before, between and after the
\* lines of a render.
Warn ==
  /\ crew > 0 /\ warned < MaxWarnings
  /\ warned' = warned + 1
  /\ Writes([kind |-> "warn", n |-> 0, done |-> 0])
  /\ UNCHANGED <<crew, queue, at, doneFiles, text, lastPrintedLines>>

-----------------------------------------------------------------------------
(* The calls *)

\* newDashboard and its first render, for n files and at most c workers.
NewDashboard(c, n) ==
  /\ crew' = AtMost(c, n) /\ queue' = n
  /\ at' = [w \in Workers |-> IF w <= AtMost(c, n) THEN "new" ELSE "gone"]
  /\ doneFiles' = 0 /\ warned' = 0
  /\ Render(0, FrameRows + AtMost(c, n), 0)

\* The goroutines, once that render is out.
StartWorkers ==
  /\ Unlocked /\ \E w \in Workers : at[w] = "new"
  /\ at' = [w \in Workers |-> IF at[w] = "new" THEN "loop" ELSE at[w]]
  /\ UNCHANGED <<crew, queue, doneFiles, warned>> /\ NoRender

Goto(w, from, to) == at[w] = from /\ at' = [at EXCEPT ![w] = to]

\* for job := range jobs: on to the next file, or the end of the goroutine.
Receive(w, cancelled) ==
  /\ IF queue = 0
     THEN Goto(w, "loop", "gone") /\ UNCHANGED queue
     ELSE Goto(w, "loop", IF cancelled THEN "gone" ELSE "file") /\ queue' = queue - 1
  /\ UNCHANGED <<crew, doneFiles, warned>> /\ NoRender

\* setWorkerFile
SetWorkerFile(w) ==
  /\ Unlocked /\ Goto(w, "file", "lines")
  /\ Render(doneFiles, BoxHeight, 0)
  /\ UNCHANGED <<crew, queue, doneFiles, warned>>

\* setWorkerProgress; within 200 ms of another render nothing is printed.
SetWorkerProgress(w) ==
  /\ Unlocked /\ at[w] = "lines"
  /\ NoRender \/ Render(doneFiles, BoxHeight, 0)
  /\ UNCHANGED <<crew, queue, at, doneFiles, warned>>

\* markWorkerDone, also of a file that could not be read or has no text.
MarkWorkerDone(w) ==
  /\ Unlocked
  /\ Goto(w, "file", "marked") \/ Goto(w, "lines", "marked")
  /\ doneFiles' = doneFiles + 1
  /\ Render(doneFiles', BoxHeight, 1)
  /\ UNCHANGED <<crew, queue, warned>>

\* setWorkerIdle renders nothing.
SetWorkerIdle(w) ==
  /\ Unlocked /\ Goto(w, "marked", "loop")
  /\ UNCHANGED <<crew, queue, doneFiles, warned>> /\ NoRender

AllGone == crew > 0 /\ \A w \in Workers : at[w] = "gone"

\* finish, after wg.Wait; the last box stays on the screen.
FinishDashboard ==
  /\ AllGone /\ Unlocked
  /\ Render(doneFiles, BoxHeight, 0)
  /\ UNCHANGED <<crew, queue, at, doneFiles, warned>>

\* Run returns.
DropDashboard ==
  /\ crew' = 0 /\ queue' = 0
  /\ at' = [w \in Workers |-> "gone"]
  /\ doneFiles' = 0 /\ warned' = 0
  /\ screen' = <<>> /\ text' = <<>> /\ under' = 0 /\ lastPrintedLines' = 0

WorkerStep(w, cancelled) ==
  Receive(w, cancelled) \/ SetWorkerFile(w) \/ MarkWorkerDone(w) \/ SetWorkerIdle(w)

DashboardStep(cancelled) ==
  \/ StartWorkers
  \/ \E w \in Workers : WorkerStep(w, cancelled) \/ SetWorkerProgress(w)

-----------------------------------------------------------------------------
(* Properties *)

Lines == [kind : {"box", "log", "blank", "old", "warn"}, n : Nat, done : 0..MaxFiles]

DashboardTypeOK ==
  /\ crew \in 0..MaxWorkers /\ queue \in 0..MaxFiles
  /\ at \in [Workers -> {"new", "loop", "file", "lines", "marked", "gone"}]
  /\ doneFiles \in 0..MaxFiles /\ warned \in 0..MaxWarnings
  /\ screen \in Seq(Lines) /\ text \in Seq(Lines) /\ under \in Nat
  /\ lastPrintedLines \in 0..(BoxHeight + 1)

\* A box that fits the terminal together with a log line.
Fits == BoxHeight + 1 < Rows

\* The lines of the last render that are on the screen, and those of earlier ones.
Newest == {i \in DOMAIN screen : screen[i].kind \in {"box", "log", "blank"}}
Remains == {i \in DOMAIN screen : screen[i].kind = "old"}

\* dashboard.go:127: on a terminal it fits, a render leaves the whole box, its
\* rows in order, with the number of files done, and nothing but lines of the
\* logger between or after its rows; and of all earlier renders no more lines are
\* left than the logger wrote.  Each of the logger's lines pushes one row out of
\* the next render's reach, whenever it is written.
BoxIsWhole ==
  crew > 0 /\ Fits /\ Unlocked =>
    /\ under = 0
    /\ \A q \in 1..BoxHeight : \E i \in DOMAIN screen : screen[i] = Line(q, BoxHeight, doneFiles)
    /\ \A i \in Newest, j \in DOMAIN screen : i < j =>
         /\ j \notin Remains
         /\ j \in Newest => screen[i].n < screen[j].n
    /\ Cardinality(Remains) <= warned

=============================================================================
