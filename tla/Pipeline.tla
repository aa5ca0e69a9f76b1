------------------------------ MODULE Pipeline ------------------------------
(***************************************************************************)
(* internal/orchestrator with internal/scanner: one invocation of the      *)
(* program after another, each over a directory of its own choice (-dir or *)
(* the menus), all with the same job state file.  Run scans, loads the job *)
(* state, filters by --resume, fills a closed channel of jobs and starts   *)
(* at most MaxConcurrency workers on it; each worker runs processFile,     *)
(* records the outcome in the job state and then counts it; after wg.Wait  *)
(* the job state is deleted if nothing failed, with the records of other   *)
(* directories in it.  The context can be cancelled and the process can    *)
(* stop at any moment; outputs and job state are all that is left then.    *)
(*                                                                         *)
(* The job state is the ledger JobState implements (ResumeLedger).  The    *)
(* translation of a file is one step with an outcome: TranslateTexts       *)
(* touches nothing here but the cache.  An output is what a later run can  *)
(* see of it: absent, partial (created, not wholly written) or complete.   *)
(***************************************************************************)
EXTENDS Integers, FiniteSets

CONSTANTS
  Files,            \* all *_en.srt files
  Trees,            \* those under each directory cfg.InputDir can name
  Empty,            \* those without a line of text to translate
  Workers,          \* ids of the workers: 1..cfg.MaxConcurrency
  None,             \* no status, no job
  Promises          \* what the environment may keep to, see promise

ASSUME FilesAssumption == IsFiniteSet(Files) /\ Empty \subseteq Files
ASSUME TreesAssumption == Trees \subseteq SUBSET Files
ASSUME WorkersAssumption == Workers \subseteq Nat /\ 1 \in Workers
ASSUME NoneAssumption == None \notin Files \cup {"success", "failed"}
ASSUME PromisesAssumption == Promises \subseteq {"whole writes", "no overwrite"}

\* What Run reads of cfg: tree stands for InputDir.
Options == [tree : Trees, resume : BOOLEAN, overwrite : BOOLEAN, dryRun : BOOLEAN]
NoOptions == [tree |-> {}, resume |-> FALSE, overwrite |-> FALSE, dryRun |-> FALSE]

VARIABLES
  promise,     \* environment: no output is ever cut short, or none ever overwritten
  \* on disk
  output,      \* the *_en.vi.srt of each file
  durable,     \* the job state the next run reads
  \* jobState of the running process
  live, attached,
  \* the running process
  phase,       \* where Run is; "off" when no process runs
  opts,        \* cfg of this run
  cancelled,   \* ctx.Err() != nil
  todo,        \* filesToProcess
  skipped,     \* result.Skipped and, with --resume, the files already done
  jobs,        \* files still in the jobs channel, which is filled and closed
  wpc, wjob, wok,   \* each worker: where it is, its job, err == nil
  succeeded,   \* stats.Succeeded
  failedFiles  \* stats.FailedFiles (stats.Failed is its length)

disk == <<output, durable>>
ledger == <<live, durable, attached>>
stats == <<succeeded, failedFiles>>
workers == <<wpc, wjob, wok>>
vars == <<promise, output, durable, live, attached, phase, opts, cancelled, todo, skipped,
          jobs, wpc, wjob, wok, succeeded, failedFiles>>

\* Writing an output can fail halfway, or be broken off with the process.
WriteMayStop == promise # "whole writes"

\* A run may be started with --overwrite.
MayOverwrite == promise # "no overwrite"

Ledger == INSTANCE ResumeLedger

NoWorkers ==
  /\ wpc = [w \in Workers |-> "gone"]
  /\ wjob = [w \in Workers |-> None]
  /\ wok = [w \in Workers |-> FALSE]

\* The memory of a process that is not there.
Blank ==
  /\ phase = "off" /\ opts = NoOptions /\ cancelled = FALSE
  /\ todo = {} /\ skipped = {} /\ jobs = {}
  /\ NoWorkers
  /\ succeeded = 0 /\ failedFiles = {}

Init ==
  /\ promise \in Promises
  /\ output = [f \in Files |-> "absent"]
  /\ Ledger!LedgerInit
  /\ durable = Ledger!NoEntries
  /\ Blank

-----------------------------------------------------------------------------
(* Run, in the main goroutine. *)

\* main and HealthCheck: a failed check leaves before anything is read.
Start(o) ==
  /\ phase = "off"
  /\ o.overwrite => MayOverwrite
  /\ opts' = o
  /\ phase' = "scan"
  /\ UNCHANGED <<promise, output, ledger, cancelled, todo, skipped, jobs, workers, stats>>

\* Mutant: the scanner overwrites although it was not asked to.
NeedsNoWorkAlways(f) == FALSE

\* scanner.Scan: without --overwrite a file whose output exists is skipped.
NeedsNoWork(f) == ~opts.overwrite /\ output[f] # "absent"

Scan ==
  /\ phase = "scan"
  /\ skipped' = {f \in opts.tree : NeedsNoWork(f)}
  /\ todo' = opts.tree \ skipped'
  /\ phase' = "load"
  /\ UNCHANGED <<promise, output, ledger, opts, cancelled, jobs, workers, stats>>

\* Load; when the snapshot cannot be read, Run goes on with the empty table and
\* without a log it had before.
Load ==
  /\ phase = "load"
  /\ Ledger!Open \/ UNCHANGED ledger
  /\ phase' = "resume"
  /\ UNCHANGED <<promise, output, opts, cancelled, todo, skipped, jobs, workers, stats>>

\* Mutant: any entry counts as done, a failed one too.
IsDoneIfPresent(f) == live[f] # None

\* jobState.IsDone
IsDone(f) == live[f] = "success"

\* workers = min(MaxConcurrency, totalFiles) goroutines are started.
SpawnWorkers(n) ==
  wpc' = [w \in Workers |-> IF w <= n THEN "receive" ELSE "gone"]

\* The --resume filter and what follows it: return when nothing is left to do
\* or for --dry-run, else fill the channel and start the workers.
Resume ==
  /\ phase = "resume"
  /\ LET done == IF opts.resume THEN {f \in todo : IsDone(f)} ELSE {}
         rest == todo \ done
     IN  /\ todo' = rest
         /\ skipped' = skipped \cup done
         /\ IF rest = {} \/ opts.dryRun
            THEN phase' = "report" /\ UNCHANGED <<jobs, workers>>
            ELSE /\ phase' = "work"
                 /\ jobs' = rest
                 /\ SpawnWorkers(Cardinality(rest))
                 /\ UNCHANGED <<wjob, wok>>
  /\ UNCHANGED <<promise, output, ledger, opts, cancelled, stats>>

\* wg.Wait, the end of the flusher and the final cache save.
Wait ==
  /\ phase = "work"
  /\ \A w \in Workers : wpc[w] = "gone"
  /\ phase' = "cleanup"
  /\ UNCHANGED <<promise, output, ledger, opts, cancelled, todo, skipped, jobs, workers, stats>>

\* Mutant: a cancelled run counts as a successful one.
FullySuccessfulIgnoringCancel == failedFiles = {}

\* Mutant: failures of the run do not keep the job state.
FullySuccessfulIgnoringFailures == ~cancelled

\* stats.Failed == 0 && ctx.Err() == nil
FullySuccessful == failedFiles = {} /\ ~cancelled

\* jobState.Delete: the handle is closed, then the two files go one by one;
\* between them the log alone decides, so some statuses are gone already.
\* They are those of every directory, and either removal can fail.
Cleanup ==
  /\ phase = "cleanup"
  /\ IF FullySuccessful
     THEN /\ phase' = "delete" /\ Ledger!Detach
     ELSE /\ phase' = "report" /\ UNCHANGED ledger
  /\ UNCHANGED <<promise, output, opts, cancelled, todo, skipped, jobs, workers, stats>>

DeleteSome ==
  /\ phase = "delete"
  /\ \E S \in SUBSET Files : Ledger!Forget(S)
  /\ phase' = "delete2"
  /\ UNCHANGED <<promise, output, opts, cancelled, todo, skipped, jobs, workers, stats>>

DeleteRest ==
  /\ phase = "delete2"
  /\ \E S \in SUBSET Files : Ledger!Forget(S)
  /\ phase' = "report"
  /\ UNCHANGED <<promise, output, opts, cancelled, todo, skipped, jobs, workers, stats>>

Exited ==
  /\ phase' = "off" /\ opts' = NoOptions /\ cancelled' = FALSE
  /\ todo' = {} /\ skipped' = {} /\ jobs' = {}
  /\ wpc' = [w \in Workers |-> "gone"]
  /\ wjob' = [w \in Workers |-> None]
  /\ wok' = [w \in Workers |-> FALSE]
  /\ succeeded' = 0 /\ failedFiles' = {}
  /\ Ledger!Stop
  /\ UNCHANGED <<promise, output>>

\* report.Print and exit.
Report == phase = "report" /\ Exited

\* The process is killed, or the machine stops, or Scan returns an error, which
\* ends Run at once.
Crash ==
  /\ phase \notin {"off", "report"}
  /\ WriteMayStop \/ \A w \in Workers : wpc[w] # "write"
  /\ Exited

\* SIGINT or SIGTERM.
Cancel ==
  /\ phase \in {"scan", "load", "resume", "work", "cleanup"}
  /\ ~cancelled
  /\ cancelled' = TRUE
  /\ UNCHANGED <<promise, output, ledger, phase, opts, todo, skipped, jobs, workers, stats>>

-----------------------------------------------------------------------------
(* A worker. *)

WorkerKeeps == UNCHANGED <<promise, phase, opts, cancelled, todo, skipped>>

Goto(w, pc) == wpc' = [wpc EXCEPT ![w] = pc]

\* Mutant: the channel is read but the job is not taken out of it.
TakenTwice(f) == jobs

Taken(f) == jobs \ {f}

\* Mutant: nobody closes the channel, so an empty one blocks.
ReceiveBlocks(w) ==
  /\ wpc[w] = "receive"
  /\ \E f \in jobs :
       /\ jobs' = Taken(f)
       /\ wjob' = [wjob EXCEPT ![w] = f]
       /\ Goto(w, "check")
  /\ WorkerKeeps /\ UNCHANGED <<output, ledger, wok, stats>>

\* job := <-jobs; the loop ends when the closed channel is empty.
Receive(w) ==
  /\ wpc[w] = "receive"
  /\ IF jobs = {}
     THEN Goto(w, "gone") /\ UNCHANGED <<jobs, wjob>>
     ELSE \E f \in jobs :
            /\ jobs' = Taken(f)
            /\ wjob' = [wjob EXCEPT ![w] = f]
            /\ Goto(w, "check")
  /\ WorkerKeeps /\ UNCHANGED <<output, ledger, wok, stats>>

\* if ctx.Err() != nil { return }: the job is dropped without a trace.
CheckContext(w) ==
  /\ wpc[w] = "check"
  /\ IF cancelled
     THEN Goto(w, "gone") /\ wjob' = [wjob EXCEPT ![w] = None]
     ELSE Goto(w, "parse") /\ UNCHANGED wjob
  /\ WorkerKeeps /\ UNCHANGED <<output, ledger, jobs, wok, stats>>

Finish(w, ok) == Goto(w, "mark") /\ wok' = [wok EXCEPT ![w] = ok]

\* os.Open and srt.Parse; a file without text succeeds without an output.
Parse(w) ==
  /\ wpc[w] = "parse"
  /\ \/ Finish(w, FALSE)
     \/ wjob[w] \in Empty /\ Finish(w, TRUE)
     \/ wjob[w] \notin Empty /\ Goto(w, "translate") /\ UNCHANGED wok
  /\ WorkerKeeps /\ UNCHANGED <<output, ledger, jobs, wjob, stats>>

\* client.TranslateTexts: an error from the API, the per-file timeout or the
\* cancelled context; or the translated lines.
Translate(w) ==
  /\ wpc[w] = "translate"
  /\ \/ Finish(w, FALSE)
     \/ Goto(w, "create") /\ UNCHANGED wok
  /\ WorkerKeeps /\ UNCHANGED <<output, ledger, jobs, wjob, stats>>

\* os.Create truncates whatever was there.
Create(w) ==
  /\ wpc[w] = "create"
  /\ \/ Finish(w, FALSE) /\ UNCHANGED output
     \/ /\ output' = [output EXCEPT ![wjob[w]] = "partial"]
        /\ Goto(w, "write") /\ UNCHANGED wok
  /\ WorkerKeeps /\ UNCHANGED <<ledger, jobs, wjob, stats>>

\* srt.Write, several writes; an error leaves the part already written.
Write(w) ==
  /\ wpc[w] = "write"
  /\ \/ /\ output' = [output EXCEPT ![wjob[w]] = "complete"]
        /\ Finish(w, TRUE)
     \/ WriteMayStop /\ Finish(w, FALSE) /\ UNCHANGED output
  /\ WorkerKeeps /\ UNCHANGED <<ledger, jobs, wjob, stats>>

\* Mutant: the outcome is recorded without looking at the error.
OutcomeAlwaysSuccess(w) == "success"

Outcome(w) == IF wok[w] THEN "success" ELSE "failed"

\* MarkSuccess or MarkFailed, before the stats and outside their mutex.
Mark(w) ==
  /\ wpc[w] = "mark"
  /\ Ledger!Record(wjob[w], Outcome(w))
  /\ Goto(w, "count")
  /\ WorkerKeeps /\ UNCHANGED <<output, jobs, wjob, wok, stats>>

\* Mutant: a failed file is counted among the succeeded ones as well.
CountBoth(w) ==
  /\ wpc[w] = "count"
  /\ succeeded' = succeeded + 1
  /\ failedFiles' = IF wok[w] THEN failedFiles ELSE failedFiles \cup {wjob[w]}
  /\ wjob' = [wjob EXCEPT ![w] = None]
  /\ wok' = [wok EXCEPT ![w] = FALSE]
  /\ Goto(w, "receive")
  /\ WorkerKeeps /\ UNCHANGED <<output, ledger, jobs>>

\* The stats, under mu; then the worker is idle and loops.
Count(w) ==
  /\ wpc[w] = "count"
  /\ IF wok[w] THEN succeeded' = succeeded + 1 /\ UNCHANGED failedFiles
               ELSE failedFiles' = failedFiles \cup {wjob[w]} /\ UNCHANGED succeeded
  /\ wjob' = [wjob EXCEPT ![w] = None]
  /\ wok' = [wok EXCEPT ![w] = FALSE]
  /\ Goto(w, "receive")
  /\ WorkerKeeps /\ UNCHANGED <<output, ledger, jobs>>

-----------------------------------------------------------------------------
MainStep ==
  \/ Scan \/ Load \/ Resume \/ Wait \/ Cleanup \/ DeleteSome \/ DeleteRest \/ Report

WorkerStep(w) ==
  \/ Receive(w) \/ CheckContext(w) \/ Parse(w) \/ Translate(w)
  \/ Create(w) \/ Write(w) \/ Mark(w) \/ Count(w)

Next ==
  \/ \E o \in Options : Start(o)
  \/ MainStep
  \/ \E w \in Workers : WorkerStep(w)
  \/ Cancel
  \/ Crash

Spec == Init /\ [][Next]_vars

\* As long as a goroutine can run, the scheduler runs one of them; a translation
\* ends because its context has a deadline (cfg.Timeout).  That is enough: nothing
\* here waits by taking steps.  Nobody has to start a run.
FairSpec == Spec /\ WF_vars(MainStep \/ \E w \in Workers : WorkerStep(w))

-----------------------------------------------------------------------------
(* Properties *)

WorkerPCs == {"gone", "receive", "check", "parse", "translate", "create", "write",
              "mark", "count"}

TypeOK ==
  /\ promise \in Promises
  /\ output \in [Files -> {"absent", "partial", "complete"}]
  /\ durable \in Ledger!Table /\ live \in Ledger!Table /\ attached \in BOOLEAN
  /\ phase \in {"off", "scan", "load", "resume", "work", "cleanup", "delete",
                "delete2", "report"}
  /\ opts \in Options \cup {NoOptions}
  /\ cancelled \in BOOLEAN
  /\ todo \subseteq Files /\ skipped \subseteq Files /\ jobs \subseteq Files
  /\ wpc \in [Workers -> WorkerPCs]
  /\ wjob \in [Workers -> Files \cup {None}]
  /\ wok \in [Workers -> BOOLEAN]
  /\ succeeded \in 0..Cardinality(Files)
  /\ failedFiles \subseteq Files

Held == {wjob[w] : w \in Workers} \ {None}

\* A file is worked on by at most one worker, and only while it is not queued:
\* two workers never write the same output or record the same path at once.
OneWorkerPerFile ==
  /\ Held \cap jobs = {}
  /\ Held \cup jobs \subseteq todo
  /\ \A v, w \in Workers : v # w /\ wjob[v] # None => wjob[v] # wjob[w]

\* orchestrator.go:181-207: report and job state tell the same story although
\* they are written by two different steps.  When the workers are done, the files
\* recorded as failed in this run are the reported ones, every other file that was
\* not dropped by a cancellation is a success, and the counts add up to the files
\* found.
ReportMatchesLedger ==
  LET reported == succeeded + Cardinality(failedFiles) + Cardinality(skipped)
  IN  /\ \A f \in failedFiles : live[f] = "failed"
      /\ phase \in {"cleanup", "delete", "delete2"} =>
           /\ reported <= Cardinality(opts.tree)
           /\ ~cancelled => /\ reported = Cardinality(opts.tree)
                            /\ \A f \in todo \ failedFiles : live[f] = "success"

\* The job state is deleted only if every file of the run succeeded, however
\* late the cancellation came (orchestrator.go:226).
DeletedOnlyAfterSuccess ==
  phase \in {"delete", "delete2"} => \A f \in todo : live[f] = "success"

\* jobstate.go:23: a recorded success means "the file was translated
\* successfully": its output is there in full, or it had nothing to translate,
\* as long as no run rewrites it in place.
SuccessMeansTranslated ==
  ~MayOverwrite => \A f \in Files \ Empty : durable[f] = "success" => output[f] = "complete"

\* jobstate.go:137: "IsDone reports whether the file has been successfully
\* translated", so --resume skips only files whose translation is there, unless
\* writing an output was cut short.
ResumeSkipsOnlyTranslated ==
  [][phase = "resume" /\ phase' # "off" /\ ~WriteMayStop =>
       \A f \in (skipped' \ skipped) \ Empty : output[f] = "complete"]_vars

RetriesFailed ==
  phase = "resume" /\ phase' # "off" /\ opts.resume =>
    \A f \in opts.tree \ Empty :
      durable[f] = "failed" /\ output[f] # "complete" => f \in todo'

\* jobstate.go:155-156: a file recorded as failed "on the next --resume run
\* will be retried automatically" - unless its translation is there after all.
FailedIsRetried == [][RetriesFailed]_vars

\* Where writing an output was never cut short that is so, and not for recorded
\* failures alone: a file the job state does not call a success is retried, also
\* when a clean run over another directory deleted its failure with the shared
\* state file (config.go:57), or Load could not read it.
UnfinishedIsRetried ==
  [][phase = "resume" /\ phase' # "off" /\ ~WriteMayStop =>
       \A f \in opts.tree \ Empty :
         durable[f] # "success" /\ output[f] # "complete" => f \in todo']_vars

\* The end of a run drops a recorded failure of its own directory only after the
\* file was translated, unless writing an output was cut short.  Failures of other
\* directories go with the state file: for them UnfinishedIsRetried has to do.
FailureNotForgotten ==
  [][~WriteMayStop =>
       \A f \in opts.tree \ Empty :
         durable[f] = "failed" /\ durable'[f] = None => output[f] = "complete"]_vars

\* A run that was not cancelled and reports no failure leaves every file of its
\* directory translated, whatever earlier runs, here or elsewhere, crashes and
\* options came before it, unless writing an output was cut short.
CleanRunMeansAllTranslated ==
  phase \in {"cleanup", "delete", "delete2", "report"} /\ ~cancelled
  /\ failedFiles = {} /\ ~opts.dryRun /\ ~WriteMayStop
    => \A f \in opts.tree \ Empty : output[f] = "complete"

\* Every run comes to its end: the channel is closed and drained, cancelled
\* workers leave, and wg.Wait returns.
RunEnds == phase # "off" ~> phase = "off"

=============================================================================
