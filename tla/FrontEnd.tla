------------------------------ MODULE FrontEnd ------------------------------
(***************************************************************************)
(* What the user meets: cmd/main.go with internal/config, the menus and    *)
(* the directory browser of internal/tui, the health check a run begins    *)
(* with, and its dashboard.  A session reads the command line and either   *)
(* runs once or shows the menus, which end in the same run.                *)
(*                                                                         *)
(* Of a run's inside only the dashboard's calls are here (Dashboard); what *)
(* it does to files is Pipeline.  A menu is one step, its choice free.     *)
(* SIGINT and SIGTERM have the same effect: main's context is done, and    *)
(* with it the run's, which has one of its own under the menus.            *)
(***************************************************************************)
EXTENDS Dashboard, Functions

CONSTANTS
  Dirs,                 \* directories
  Parent,               \* filepath.Dir
  Listing,              \* their folders, sorted
  Here,                 \* the working directory
  Dot,                  \* "." as a path
  Nowhere,              \* a path nothing is at
  Drives,               \* listDrives(); <<>> but on Windows
  MaxVisible,
  ValidURL, BadURL,
  CommandLines,         \* the command lines considered
  MaxAttempts,          \* maxRetries of HealthCheck, 30 in the code
  MaxHistory,           \* bound on the browser's stacks
  MaxGone               \* bound on the directories that disappear

ASSUME FrontEndAssumption ==
  /\ Parent \in [Dirs -> Dirs] /\ Listing \in [Dirs -> Seq(Dirs)]
  /\ Here \in Dirs /\ {Dot, Nowhere} \cap Dirs = {}
  /\ MaxVisible \in Nat \ {0} /\ MaxAttempts \in Nat \ {0}
  /\ \A c \in CommandLines :
       /\ DOMAIN c = {"version", "interactive", "hasFile", "flags", "file"}
       /\ \A given \in {c.flags, c.file} :
            "concurrency" \in DOMAIN given => given["concurrency"] \in Int

VARIABLES
  where,                \* what the program is at
  errand,               \* what a directory is asked for, or "cli"
  args,                 \* the command line, until it is parsed
  cfg,
  ctx, runCtx,          \* whether main's context, and the run's, is done
  probe, attempt,       \* HealthCheck
  late,                 \* how many of its probes went out after the run was cancelled
  browser,
  gone                  \* directories that have disappeared

front == <<where, errand, args, cfg, ctx, runCtx, probe, attempt, late, browser, gone>>
vars == <<front, dash>>

Default == [dir |-> Dot, api |-> ValidURL, concurrency |-> 1, overwrite |-> FALSE,
            adaptive |-> TRUE]

Parsed == [version |-> FALSE, interactive |-> FALSE, hasFile |-> FALSE, flags |-> <<>>,
           file |-> <<>>]

Closed == [current |-> Here, cursor |-> 1, scroll |-> 0, back |-> <<>>, fwd |-> <<>>,
           entries |-> <<>>]

Init ==
  /\ where = "shell" /\ errand = "cli"
  /\ args \in CommandLines
  /\ cfg = Default
  /\ ctx = FALSE /\ runCtx = FALSE
  /\ probe = "none" /\ attempt = 0 /\ late = 0
  /\ browser = Closed /\ gone = {}
  /\ NoDashboard

Exists(d) == d = Dot \/ d \in Dirs \ gone

-----------------------------------------------------------------------------
(* Command line and configuration *)

\* What was given, over what there is.
Overlay(given, base) ==
  [f \in DOMAIN given \cup DOMAIN base |-> IF f \in DOMAIN given THEN given[f] ELSE base[f]]

\* What LoadFromFile takes over: numbers above zero, switches that are on, and
\* nothing about adaptive throttling.
Counts(file, f) ==
  CASE f = "concurrency" -> file[f] > 0
    [] f = "overwrite" -> file[f]
    [] f = "adaptive" -> FALSE
    [] OTHER -> TRUE

LoadFromFile(file) == Overlay(Restrict(file, {f \in DOMAIN file : Counts(file, f)}), Default)

\* Mutant: a flag that only switches off is taken for one that is not there.
ReappliedIfSet(flags) == Restrict(flags, {f \in DOMAIN flags : Counts(flags, f)})

\* flag.Visit, over a list that has all flags but -adaptive.
Reapplied(flags) == Restrict(flags, DOMAIN flags \ {"adaptive"})

Validate(c) == Exists(c.dir) /\ c.api = ValidURL /\ c.concurrency > 0

StartsInteractive(c) == c.interactive \/ (DOMAIN c.flags = {} /\ ~c.hasFile)

\* orchestrator.Run is called, with a context that is not done.
BeginRun ==
  where' = "checking" /\ probe' = "top" /\ attempt' = 1 /\ late' = 0 /\ runCtx' = FALSE

NoRun == UNCHANGED <<runCtx, probe, attempt, late>>

Enters(place) == where' = place /\ NoRun

\* Back in the main loop, which looks at the context before it shows the menu.
BackToMain == Enters(IF ctx THEN "left" ELSE "main")

\* run: flags, file, flags again, Validate; -version and errors end it.
ParseFlags ==
  /\ where = "shell"
  /\ \/ /\ args.version
        /\ Enters("left") /\ UNCHANGED <<errand, cfg>>
     \/ /\ ~args.version /\ StartsInteractive(args)
        /\ cfg' = Overlay(args.flags, Default)
        /\ errand' = "none"
        /\ Enters("main")
     \/ /\ ~args.version /\ ~StartsInteractive(args) /\ args.hasFile   \* it cannot be read
        /\ Enters("left") /\ UNCHANGED <<errand, cfg>>
     \/ /\ ~args.version /\ ~StartsInteractive(args)
        /\ cfg' = IF args.hasFile THEN Overlay(Reapplied(args.flags), LoadFromFile(args.file))
                                  ELSE Overlay(args.flags, Default)
        /\ IF Validate(cfg') THEN BeginRun ELSE Enters("left")
        /\ UNCHANGED errand
  /\ args' = Parsed
  /\ UNCHANGED <<ctx, browser, gone, dash>>

-----------------------------------------------------------------------------
(* The menus; a choice with Enter, Esc, or an end of the input, which counts *)
(* as Esc.                                                                   *)

MenuKeeps == UNCHANGED <<args, ctx, browser, gone, dash>>

MainMenu ==
  /\ where = "main"
  /\ \/ Enters("left") /\ UNCHANGED errand
     \/ \E e \in {"scan", "translate"} : errand' = e /\ Enters("method")
     \/ BackToMain /\ UNCHANGED errand      \* showSettings
     \/ errand' = "dir" /\ Enters("settings")
  /\ UNCHANGED cfg /\ MenuKeeps


\* Scan or translate in directory d, as typed, browsed or kept.  The preview may
\* fail to scan or find no file.
DirChosen(d) ==
  IF errand # "dir" /\ ~Exists(d)
  THEN BackToMain /\ UNCHANGED cfg
  ELSE /\ cfg' = [cfg EXCEPT !.dir = d]
       /\ BackToMain \/ (errand = "translate" /\ Enters("confirm"))

\* chooseDirectory, but for the browser.
ChooseDirectory ==
  /\ where = "method"
  /\ \/ BackToMain /\ UNCHANGED cfg
     \/ cfg.dir # Dot /\ Exists(cfg.dir) /\ DirChosen(cfg.dir)
     \/ Enters("typing") /\ UNCHANGED cfg
  /\ UNCHANGED errand /\ MenuKeeps

\* promptWithDefault: an empty line is the directory there is; a read error.
TypeDirectory ==
  /\ where = "typing"
  /\ \/ \E d \in Dirs \cup {Dot, Nowhere, cfg.dir} : DirChosen(d)
     \/ BackToMain /\ UNCHANGED cfg
  /\ UNCHANGED errand /\ MenuKeeps

\* The run gets a context of its own, whatever has become of main's.
Confirm ==
  /\ where = "confirm"
  /\ \/ BackToMain
     \/ IF Validate(cfg) THEN BeginRun ELSE BackToMain
  /\ UNCHANGED <<errand, cfg>> /\ MenuKeeps

\* changeSettings: any text is taken for the URL, only a positive number for
\* the concurrency (as for the batch size); a switch is turned over.
ChangeSettings ==
  /\ where = "settings"
  /\ \/ UNCHANGED cfg
     \/ \E u \in {ValidURL, BadURL} : cfg' = [cfg EXCEPT !.api = u]
     \/ \E n \in 1..MaxWorkers : cfg' = [cfg EXCEPT !.concurrency = n]
     \/ cfg' = [cfg EXCEPT !.overwrite = ~@]
  /\ BackToMain
  /\ UNCHANGED errand /\ MenuKeeps

\* pauseForEnter
Pause ==
  /\ where = "pause"
  /\ BackToMain
  /\ UNCHANGED <<errand, cfg>> /\ MenuKeeps

-----------------------------------------------------------------------------
(* browseDirectory.  The cursor counts from 1, the folders above the window  *)
(* from 0.                                                                   *)

\* listFolders: those that are left, in order; a directory that cannot be opened
\* has none.
Folders(d) ==
  LET all == IF d \in Dirs \ gone THEN Listing[d] ELSE <<>>
      left == {i \in DOMAIN all : Exists(all[i])}
      Place(i) == Cardinality({j \in left : j <= i})
  IN  [n \in 1..Cardinality(left) |-> all[CHOOSE i \in left : Place(i) = n]]

Between(low, n, high) == IF n > high THEN high ELSE IF n < low THEN low ELSE n

\* Mutant: the window follows the cursor downwards only.
ScrolledDown(cursor, scroll) ==
  IF cursor > scroll + MaxVisible THEN cursor - MaxVisible ELSE scroll

Scrolled(cursor, scroll) ==
  IF cursor <= scroll THEN cursor - 1
  ELSE IF cursor > scroll + MaxVisible THEN cursor - MaxVisible
  ELSE scroll

\* The top of the loop: list, clamp the cursor, adjust the window.
Shown(b) ==
  LET entries == Folders(b.current)
      cursor == Between(1, b.cursor, IF entries = <<>> THEN 1 ELSE Len(entries))
  IN  [b EXCEPT !.entries = entries, !.cursor = cursor,
                !.scroll = Scrolled(cursor, b.scroll)]

\* Where the browser starts: at a drive, or at the parent of a directory chosen
\* before, with the cursor on it.
Starts ==
  LET here == Parent[cfg.dir]
      known == {n \in DOMAIN Folders(here) : Folders(here)[n] = cfg.dir}
  IN  IF cfg.dir = Dot
      THEN {[Closed EXCEPT !.current = d] : d \in IF Drives = <<>> THEN {Here} ELSE Range(Drives)}
      ELSE {[Closed EXCEPT !.current = here,
                           !.cursor = IF known = {} THEN 1 ELSE CHOOSE n \in known : TRUE]}

OpenBrowser ==
  /\ where \in {"method", "settings"}
  /\ \E b \in Starts : browser' = Shown(b)
  /\ Enters("browse")
  /\ UNCHANGED <<errand, cfg, args, ctx, gone, dash>>

At(b, d) == [b EXCEPT !.current = d, !.cursor = 1, !.scroll = 0]

\* On to d, with the directory left behind on the stack.
Visited(b, d) == [At(b, d) EXCEPT !.back = Append(@, b.current), !.fwd = <<>>]

IsRoot(d) == Parent[d] = d

Up1(b) == [b EXCEPT !.cursor = Between(1, @ - 1, @)]
Down1(b) == [b EXCEPT !.cursor = Between(1, @ + 1, IF b.entries = <<>> THEN 1 ELSE Len(b.entries))]

\* Enter; the folder may be gone by now.
Entered(b) ==
  IF b.entries # <<>> /\ Exists(b.entries[b.cursor])
  THEN Visited(b, b.entries[b.cursor]) ELSE b

\* Backspace
ToParent(b) == IF IsRoot(b.current) THEN b ELSE Visited(b, Parent[b.current])

\* b: to the parent; at a root, to the directory last left.
Back(b) ==
  IF IsRoot(b.current) /\ b.back # <<>>
  THEN [At(b, Last(b.back)) EXCEPT !.back = Front(b.back), !.fwd = Append(@, b.current)]
  ELSE ToParent(b)

\* n
Forward(b) ==
  IF b.fwd = <<>> THEN b
  ELSE [At(b, Last(b.fwd)) EXCEPT !.fwd = Front(b.fwd), !.back = Append(@, b.current)]

\* A key, and the next turn of the loop.
BrowserKey ==
  /\ where = "browse"
  /\ \E b \in {Up1(browser), Down1(browser), Entered(browser), ToParent(browser),
               Back(browser), Forward(browser)}
             \cup {Visited(browser, d) : d \in Range(Drives)} :
       Len(b.back) <= MaxHistory /\ browser' = Shown(b)
  /\ UNCHANGED <<where, errand, args, cfg, ctx, runCtx, probe, attempt, late, gone, dash>>

\* s, q or Esc
CloseBrowser ==
  /\ where = "browse"
  /\ DirChosen(browser.current) \/ (BackToMain /\ UNCHANGED cfg)
  /\ browser' = Closed
  /\ UNCHANGED <<errand, args, ctx, gone, dash>>

\* Somebody else removes a directory, from the inside out.
Disappear(d) ==
  /\ where \notin {"shell", "left"}
  /\ ~IsRoot(d) /\ d # Here /\ d \notin gone /\ Range(Listing[d]) \subseteq gone
  /\ Cardinality(gone) < MaxGone
  /\ gone' = gone \cup {d}
  /\ UNCHANGED <<where, errand, args, cfg, ctx, runCtx, probe, attempt, late, browser, dash>>

-----------------------------------------------------------------------------
(* The run *)

\* Run is back in its caller, with statistics or an error.
RunReturns ==
  /\ where' = IF errand = "cli" THEN "left" ELSE "pause"
  /\ probe' = "none" /\ attempt' = 0 /\ late' = 0 /\ runCtx' = FALSE

Probing(p) == where = "checking" /\ probe = p

Probes(p) == probe' = p /\ UNCHANGED <<where, runCtx>>

RunKeeps == UNCHANGED <<errand, args, cfg, ctx, browser, gone>>

\* Mutant: the context is looked at only while waiting.
CheckNothing ==
  /\ Probing("top")
  /\ Probes("checked") /\ UNCHANGED <<attempt, late>>
  /\ UNCHANGED dash /\ RunKeeps

\* HealthCheck, the top of the loop.
CheckContext ==
  /\ Probing("top")
  /\ IF runCtx THEN RunReturns ELSE Probes("checked") /\ UNCHANGED <<attempt, late>>
  /\ UNCHANGED dash /\ RunKeeps

\* The request, whatever has become of the context since.
SendProbe ==
  /\ Probing("checked")
  /\ Probes("sent") /\ UNCHANGED attempt
  /\ late' = IF runCtx THEN late + 1 ELSE late
  /\ UNCHANGED dash /\ RunKeeps

\* 200: Run goes on to scan.  It may fail to, find nothing to do or be told to do
\* nothing (--dry-run); else the workers start.
ProbeSucceeds ==
  /\ Probing("sent")
  /\ \/ RunReturns /\ UNCHANGED dash
     \/ \E n \in 1..MaxFiles :
          /\ NewDashboard(cfg.concurrency, n)
          /\ where' = "running" /\ probe' = "none" /\ attempt' = 0 /\ late' = 0
          /\ UNCHANGED runCtx
  /\ RunKeeps

\* Any other status, an error, or five seconds without an answer.
ProbeFails ==
  /\ Probing("sent")
  /\ IF attempt < MaxAttempts
     THEN Probes("waiting") /\ UNCHANGED <<attempt, late>>
     ELSE RunReturns
  /\ UNCHANGED dash /\ RunKeeps

\* Mutant: the attempts are not counted.
RetryDelayEndsUncounted ==
  /\ Probing("waiting")
  /\ Probes("top") /\ UNCHANGED <<attempt, late>>
  /\ UNCHANGED dash /\ RunKeeps

\* The two seconds are over; select may take this case although the context is
\* done as well.
RetryDelayEnds ==
  /\ Probing("waiting")
  /\ Probes("top") /\ attempt' = attempt + 1 /\ UNCHANGED late
  /\ UNCHANGED dash /\ RunKeeps

CheckCancelled ==
  /\ Probing("waiting") /\ runCtx
  /\ RunReturns
  /\ UNCHANGED dash /\ RunKeeps

HealthCheck ==
  CheckContext \/ SendProbe \/ ProbeSucceeds \/ ProbeFails \/ RetryDelayEnds \/ CheckCancelled

Work == where = "running" /\ DashboardStep(runCtx) /\ UNCHANGED front

\* A line of the terminal, from the dashboard or the logger.
Draw == (PrintLine \/ Warn) /\ UNCHANGED front

PrintNext == PrintLine /\ UNCHANGED front

Start == where = "running" /\ StartWorkers /\ UNCHANGED front

WorkOf(w) == where = "running" /\ WorkerStep(w, runCtx) /\ UNCHANGED front

Finish ==
  /\ where = "running" /\ FinishDashboard
  /\ where' = "finished" /\ UNCHANGED <<probe, attempt, late, runCtx>> /\ RunKeeps

\* The final cache save, the job state's removal, the report.
Report ==
  /\ where = "finished" /\ Unlocked
  /\ RunReturns /\ DropDashboard /\ RunKeeps

\* SIGTERM at any time, SIGINT but in a menu, where Ctrl-C is a key.  Before the
\* contexts are there, it ends the process.  A run from the menus listens itself,
\* also when main's context is done already.
Signal ==
  LET inRun == where \in {"checking", "running", "finished"}
  IN  /\ where \notin {"shell", "left"} /\ (~ctx \/ (inRun /\ ~runCtx))
      /\ ctx' = TRUE /\ runCtx' = inRun
      /\ UNCHANGED <<where, errand, args, cfg, probe, attempt, late, browser, gone, dash>>

Menus ==
  \/ MainMenu \/ ChooseDirectory \/ TypeDirectory \/ Confirm \/ ChangeSettings \/ Pause
  \/ OpenBrowser \/ BrowserKey \/ CloseBrowser

Next ==
  \/ ParseFlags \/ Menus
  \/ HealthCheck \/ Work \/ Draw \/ Finish \/ Report
  \/ Signal
  \/ \E d \in Dirs : Disappear(d)

Spec == Init /\ [][Next]_vars

\* A probe has a deadline and so has a file (cfg.Timeout); goroutines that can
\* run do.  A worker whose file is at its end is let in between the renders of the
\* others: sync.Mutex hands over to one that has waited for a millisecond.  The
\* user need not press any key.
FairSpec ==
  /\ Spec
  /\ WF_vars(HealthCheck) /\ WF_vars(Start) /\ WF_vars(PrintNext)
  /\ WF_vars(Finish) /\ WF_vars(Report)
  /\ \A w \in Workers : SF_vars(WorkOf(w))

-----------------------------------------------------------------------------
(* Properties *)

Places == {"shell", "main", "method", "typing", "confirm", "settings", "browse", "checking",
           "running", "finished", "pause", "left"}

TypeOK ==
  /\ DashboardTypeOK
  /\ where \in Places /\ errand \in {"cli", "none", "scan", "translate", "dir"}
  /\ args \in CommandLines \cup {Parsed}
  /\ cfg \in [dir : Dirs \cup {Dot, Nowhere}, api : {ValidURL, BadURL}, concurrency : Int,
              overwrite : BOOLEAN, adaptive : BOOLEAN]
  /\ ctx \in BOOLEAN /\ runCtx \in BOOLEAN
  /\ probe \in {"none", "top", "checked", "sent", "waiting"} /\ attempt \in 0..MaxAttempts
  /\ late \in 0..MaxAttempts
  /\ browser \in [current : Dirs, cursor : Nat \ {0}, scroll : Nat, back : Seq(Dirs),
                  fwd : Seq(Dirs), entries : Seq(Dirs)]
  /\ gone \subseteq Dirs

\* main.go:98: "defaults -> config file -> CLI flags (flags override file)", for
\* every setting but the one the list at main.go:111 lacks.
FlagsOverrideFile ==
  [][where = "shell" /\ where' = "checking" =>
       \A f \in DOMAIN Default \ {"adaptive"} :
         cfg'[f] = CASE f \in DOMAIN args.flags -> args.flags[f]
                     [] f \notin DOMAIN args.flags /\ args.hasFile /\ f \in DOMAIN args.file
                        /\ Counts(args.file, f) -> args.file[f]
                     [] OTHER -> Default[f]]_vars

\* browser.go:79-93: whatever was opened, left or removed, the highlighted
\* folder is one of those listed and among the at most MaxVisible on the screen.
CursorVisible ==
  where = "browse" /\ browser.entries # <<>> =>
    /\ browser.cursor \in DOMAIN browser.entries
    /\ browser.scroll < browser.cursor /\ browser.cursor <= browser.scroll + MaxVisible

\* health.go:32-34: of the probes still to come, at most one goes out once the run
\* is cancelled, the one whose check was passed just before; also when the delay
\* between two probes ends at the moment of the cancellation.
AtMostOneLateProbe == late <= 1

\* A run comes back to its caller: out of the health check, of an API that never
\* answers too, and out of the workers, cancelled or not.
RunComesBack == where \in {"checking", "running", "finished"} ~> where \in {"pause", "left"}

=============================================================================
