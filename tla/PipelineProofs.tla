--------------------------- MODULE PipelineProofs ---------------------------
(***************************************************************************)
(* Proofs about Pipeline, for every finite set of files and every number   *)
(* of workers: no file has two workers, the job state is deleted only      *)
(* after every file of the run succeeded, a recorded success stands for a  *)
(* complete output, report and job state agree, and --resume neither skips *)
(* nor forgets a file that still has to be translated.                     *)
(*                                                                         *)
(* None of these is inductive.  What they need beside each other is where  *)
(* a file of the run can be: still queued, held by a worker, reported as   *)
(* failed or recorded as a success (Accounted, Recorded), and what its     *)
(* output looks like there (Written, Whole).  What the number of successes *)
(* stands for is stored nowhere: it is the set Over (Counted).             *)
(***************************************************************************)
EXTENDS Pipeline, FiniteSetTheorems, TLAPS

-----------------------------------------------------------------------------
(* The inductive invariant. *)

Shape ==
  /\ output \in [Files -> {"absent", "partial", "complete"}]
  /\ durable \in Ledger!Table /\ live \in Ledger!Table
  /\ opts \in Options \cup {NoOptions} /\ opts.tree \subseteq Files
  /\ todo \subseteq Files /\ jobs \subseteq Files
  /\ wpc \in [Workers -> WorkerPCs]
  /\ wjob \in [Workers -> Files \cup {None}]
  /\ wok \in [Workers -> BOOLEAN]

\* A worker has a job exactly between receiving and counting it, and workers
\* and queued jobs exist only while Run waits for them.
Jobs ==
  /\ \A w \in Workers : wjob[w] = None <=> wpc[w] \in {"gone", "receive"}
  /\ phase # "work" => \A w \in Workers : wpc[w] = "gone"
  /\ phase \in {"off", "scan", "load", "resume"} => jobs = {}

\* OneWorkerPerFile, worker by worker.
Apart ==
  /\ jobs \subseteq todo
  /\ \A w \in Workers : wjob[w] # None => wjob[w] \in todo \ jobs
  /\ \A v, w \in Workers : v # w /\ wjob[v] # None => wjob[v] # wjob[w]

\* Where a file of the run can be as long as nobody cancels it.
Accounted ==
  phase \in {"work", "cleanup"} /\ ~cancelled =>
    /\ \A f \in todo :
         \/ f \in jobs
         \/ \E w \in Workers : wjob[w] = f
         \/ f \in failedFiles
         \/ live[f] = "success"
    /\ jobs # {} => \E w \in Workers : wpc[w] # "gone"

\* Between Mark and Count the ledger already says what will be counted.
Recorded ==
  \A w \in Workers : wpc[w] = "count" => live[wjob[w]] = Outcome(w)

\* Without --overwrite a file with text that is waiting for its translation has
\* no output, and one that is about to be recorded as a success has all of it.
Written ==
  promise = "no overwrite" =>
    /\ ~opts.overwrite
    /\ phase \in {"load", "resume"} => \A f \in todo : output[f] = "absent"
    /\ \A f \in jobs : output[f] = "absent"
    /\ \A w \in Workers :
         /\ wpc[w] \in {"check", "parse", "translate", "create"} =>
              output[wjob[w]] = "absent"
         /\ wpc[w] = "mark" /\ wok[w] /\ wjob[w] \notin Empty =>
              output[wjob[w]] = "complete"

IInv ==
  /\ Shape /\ Jobs /\ Apart /\ Accounted /\ Recorded /\ Written
  /\ DeletedOnlyAfterSuccess /\ SuccessMeansTranslated

-----------------------------------------------------------------------------
(* Init, and the parts of a step that several lemmas need. *)

\* The memory of a process that is not there satisfies every part.
LEMMA IInvInit == Init => IInv
<1> SUFFICES ASSUME Init PROVE IInv
  OBVIOUS
<1> USE DEF Init, Blank, NoWorkers, NoOptions, Options, Ledger!LedgerInit,
            Ledger!NoEntries, Ledger!Table, Ledger!Status
<1>1. Shape
  BY DEF Shape, WorkerPCs
<1>2. Jobs /\ Apart /\ Accounted /\ Recorded
  BY DEF Jobs, Apart, Accounted, Recorded
<1>3. Written
  BY DEF Written
<1>4. DeletedOnlyAfterSuccess
  BY DEF DeletedOnlyAfterSuccess
<1>5. SuccessMeansTranslated
  BY NoneAssumption DEF SuccessMeansTranslated
<1> QED BY <1>1, <1>2, <1>3, <1>4, <1>5 DEF IInv

\* The stop of a process leaves the outputs and the durable table alone.
LEMMA ExitedKeepsIInv ==
  ASSUME IInv, Exited
  PROVE  IInv'
<1> USE DEF IInv, Exited, NoOptions, Options, Ledger!Stop,
            Ledger!NoEntries, Ledger!Table, Ledger!Status
<1>1. Shape'
  BY DEF Shape, WorkerPCs
<1>2. Jobs' /\ Apart' /\ Accounted' /\ Recorded'
  BY DEF Jobs, Apart, Accounted, Recorded
<1>3. Written'
  BY DEF Written
<1>4. DeletedOnlyAfterSuccess'
  BY DEF DeletedOnlyAfterSuccess
<1>5. SuccessMeansTranslated'
  BY DEF SuccessMeansTranslated, MayOverwrite
<1> QED BY <1>1, <1>2, <1>3, <1>4, <1>5

\* Run's own steps up to the start of the workers.
LEMMA PrepareKeepsIInv ==
  ASSUME IInv, (\E o \in Options : Start(o)) \/ Scan \/ Load
  PROVE  IInv'
<1> USE DEF IInv, Shape, workers, stats, ledger
<1>1. CASE \E o \in Options : Start(o)
  <2>1. PICK o \in Options : Start(o)
    BY <1>1
  <2>2. Shape'
    BY <2>1, TreesAssumption DEF Start, Options
  <2>3. Jobs' /\ Apart' /\ Accounted' /\ Recorded'
    BY <2>1 DEF Start, Jobs, Apart, Accounted, Recorded, Outcome
  <2>4. Written'
    BY <2>1 DEF Start, Written, Jobs, MayOverwrite
  <2>5. DeletedOnlyAfterSuccess' /\ SuccessMeansTranslated'
    BY <2>1 DEF Start, DeletedOnlyAfterSuccess, SuccessMeansTranslated, MayOverwrite
  <2> QED BY <2>2, <2>3, <2>4, <2>5
<1>2. CASE Scan
  <2>1. todo' = opts.tree \ skipped' /\ \A f \in todo' : ~NeedsNoWork(f)
    BY <1>2 DEF Scan
  <2>2. Shape'
    BY <1>2 DEF Scan
  <2>3. Jobs' /\ Recorded'
    BY <1>2 DEF Scan, Jobs, Recorded, Outcome
  <2>4. Apart' /\ Accounted'
    BY <1>2 DEF Scan, Jobs, Apart, Accounted
  <2>5. Written'
    BY <1>2, <2>1 DEF Scan, Written, Jobs, NeedsNoWork
  <2>6. DeletedOnlyAfterSuccess' /\ SuccessMeansTranslated'
    BY <1>2 DEF Scan, DeletedOnlyAfterSuccess, SuccessMeansTranslated, MayOverwrite
  <2> QED BY <2>2, <2>3, <2>4, <2>5, <2>6
<1>3. CASE Load
  <2> USE DEF Load, Ledger!Open
  <2>1. Shape'
    BY <1>3
  <2>2. Jobs' /\ Apart' /\ Accounted' /\ Recorded'
    BY <1>3 DEF Jobs, Apart, Accounted, Recorded
  <2>3. Written'
    BY <1>3 DEF Written, Jobs
  <2>4. DeletedOnlyAfterSuccess' /\ SuccessMeansTranslated'
    BY <1>3 DEF DeletedOnlyAfterSuccess, SuccessMeansTranslated, MayOverwrite
  <2> QED BY <2>1, <2>2, <2>3, <2>4
<1> QED BY <1>1, <1>2, <1>3

\* The --resume filter and the start of the workers.
LEMMA ResumeKeepsIInv ==
  ASSUME IInv, Resume
  PROVE  IInv'
<1> USE DEF IInv, Shape, workers, stats, ledger
<1> DEFINE done == IF opts.resume THEN {f \in todo : IsDone(f)} ELSE {}
           rest == todo \ done
<1>1. /\ phase = "resume" /\ todo' = rest /\ jobs = {}
      /\ UNCHANGED <<promise, output, live, durable, opts, cancelled, wjob, wok, failedFiles>>
      /\ \/ phase' = "report" /\ UNCHANGED <<jobs, wpc>>
         \/ phase' = "work" /\ rest # {} /\ jobs' = rest /\ SpawnWorkers(Cardinality(rest))
  BY DEF Resume, Jobs
<1>2. \A w \in Workers : wpc[w] = "gone" /\ wjob[w] = None
  BY <1>1 DEF Jobs
<1>3. CASE phase' = "report" /\ UNCHANGED <<jobs, wpc>>
  <2>1. Shape'
    BY <1>1, <1>3
  <2>2. Jobs' /\ Apart' /\ Accounted' /\ Recorded'
    BY <1>1, <1>2, <1>3 DEF Jobs, Apart, Accounted, Recorded
  <2>3. Written'
    BY <1>1, <1>2, <1>3 DEF Written
  <2>4. DeletedOnlyAfterSuccess' /\ SuccessMeansTranslated'
    BY <1>1, <1>3 DEF DeletedOnlyAfterSuccess, SuccessMeansTranslated, MayOverwrite
  <2> QED BY <2>1, <2>2, <2>3, <2>4
<1>4. CASE phase' = "work" /\ rest # {} /\ jobs' = rest /\ SpawnWorkers(Cardinality(rest))
  <2>1. Cardinality(rest) \in Nat /\ Cardinality(rest) # 0
    <3>1. IsFiniteSet(rest)
      BY FS_Subset, FilesAssumption
    <3> QED BY <3>1, <1>4, FS_CardinalityType, FS_EmptySet
  <2>2. 1 \in Workers /\ wpc'[1] = "receive"
    <3> HIDE DEF rest
    <3> QED BY <2>1, <1>4, WorkersAssumption DEF SpawnWorkers
  <2>3. wpc' \in [Workers -> {"receive", "gone"}]
    <3> HIDE DEF rest
    <3> QED BY <1>4 DEF SpawnWorkers
  <2>4. Shape'
    BY <1>1, <1>4, <2>3 DEF WorkerPCs
  <2>5. Jobs' /\ Apart' /\ Recorded'
    BY <1>1, <1>2, <1>4, <2>3 DEF Jobs, Apart, Recorded
  <2>6. Accounted'
    BY <1>1, <1>4, <2>2 DEF Accounted
  <2>7. Written'
    BY <1>1, <1>4, <2>3 DEF Written
  <2>8. DeletedOnlyAfterSuccess' /\ SuccessMeansTranslated'
    BY <1>1, <1>4 DEF DeletedOnlyAfterSuccess, SuccessMeansTranslated, MayOverwrite
  <2> QED BY <2>4, <2>5, <2>6, <2>7, <2>8
<1> QED BY <1>1, <1>3, <1>4

\* Run's steps once the workers are gone, and the signal handler.
LEMMA EndKeepsIInv ==
  ASSUME IInv, Wait \/ Cleanup \/ DeleteSome \/ DeleteRest \/ Cancel
  PROVE  IInv'
<1> USE DEF IInv, workers, stats, ledger, Ledger!Detach, Ledger!Forget
<1>1. Shape'
  BY DEF Shape, Wait, Cleanup, DeleteSome, DeleteRest, Cancel, Ledger!Table
<1>2. Jobs' /\ Apart'
  BY DEF Jobs, Apart, Wait, Cleanup, DeleteSome, DeleteRest, Cancel
<1>3. Accounted'
  BY DEF Jobs, Accounted, Wait, Cleanup, DeleteSome, DeleteRest, Cancel
<1>4. Recorded'
  BY DEF Recorded, Outcome, Wait, Cleanup, DeleteSome, DeleteRest, Cancel
<1>5. Written'
  BY DEF Jobs, Written, Wait, Cleanup, DeleteSome, DeleteRest, Cancel
<1>6. DeletedOnlyAfterSuccess'
  <2>1. CASE Cleanup
    <3>1. \A w \in Workers : wpc[w] = "gone" /\ wjob[w] = None
      BY <2>1 DEF Cleanup, Jobs
    <3>2. CASE phase' = "delete"
      <4>1. failedFiles = {} /\ ~cancelled /\ phase = "cleanup"
        BY <2>1, <3>2 DEF Cleanup, FullySuccessful
      <4>2. jobs = {}
        BY <3>1, <4>1 DEF Accounted
      <4>3. \A f \in todo : f \in Files /\ f # None
        BY NoneAssumption DEF Shape
      <4>4. \A f \in todo : live[f] = "success"
        BY <3>1, <4>1, <4>2, <4>3 DEF Accounted
      <4> QED BY <2>1, <3>2, <4>4 DEF Cleanup, DeletedOnlyAfterSuccess
    <3>3. CASE phase' = "report"
      BY <3>3 DEF DeletedOnlyAfterSuccess
    <3> QED BY <2>1, <3>2, <3>3 DEF Cleanup
  <2>2. CASE Wait \/ DeleteSome \/ DeleteRest \/ Cancel
    BY <2>2 DEF Wait, DeleteSome, DeleteRest, Cancel, DeletedOnlyAfterSuccess
  <2> QED BY <2>1, <2>2
<1>7. SuccessMeansTranslated'
  BY NoneAssumption
  DEF Shape, SuccessMeansTranslated, MayOverwrite, Wait, Cleanup, DeleteSome, DeleteRest, Cancel
<1> QED BY <1>1, <1>2, <1>3, <1>4, <1>5, <1>6, <1>7

-----------------------------------------------------------------------------
(* The steps of a worker. *)

\* A worker that is not gone works for Run, and knows its file from receiving
\* it to counting it.
LEMMA BusyWorker ==
  ASSUME IInv, NEW w \in Workers, wpc[w] # "gone"
  PROVE  /\ phase = "work"
         /\ wpc[w] # "receive" => wjob[w] \in Files /\ wjob[w] # None
BY DEF IInv, Jobs, Shape

\* Taking a job moves its file from the queue to one worker.
LEMMA ReceiveKeepsIInv ==
  ASSUME IInv, NEW w \in Workers, Receive(w)
  PROVE  IInv'
<1> USE DEF IInv, Shape, WorkerKeeps, Goto, stats, ledger
<1>1. phase = "work" /\ wpc[w] = "receive" /\ wjob[w] = None
  BY DEF Receive, Jobs
<1>2. CASE jobs = {}
  <2>1. wpc' = [wpc EXCEPT ![w] = "gone"] /\ jobs' = {} /\ wjob' = wjob
    BY <1>2 DEF Receive
  <2> USE DEF Receive
  <2>2. Shape' /\ Jobs' /\ Apart'
    BY <1>1, <1>2, <2>1 DEF Jobs, Apart, WorkerPCs
  <2>3. Accounted' /\ Recorded'
    BY <1>1, <1>2, <2>1 DEF Accounted, Recorded, Outcome
  <2>4. Written'
    BY <1>1, <1>2, <2>1 DEF Written
  <2>5. DeletedOnlyAfterSuccess' /\ SuccessMeansTranslated'
    BY <1>1 DEF DeletedOnlyAfterSuccess, SuccessMeansTranslated, MayOverwrite
  <2> QED BY <2>2, <2>3, <2>4, <2>5
<1>3. CASE jobs # {}
  <2>1. PICK f \in jobs : /\ jobs' = jobs \ {f}
                          /\ wjob' = [wjob EXCEPT ![w] = f]
                          /\ wpc' = [wpc EXCEPT ![w] = "check"]
    BY <1>3 DEF Receive, Taken
  <2>2. f \in Files /\ f # None
    BY <2>1, NoneAssumption
  <2> USE DEF Receive
  <2>3. Shape' /\ Jobs'
    BY <1>1, <2>1, <2>2 DEF Jobs, WorkerPCs
  <2>4. Apart'
    BY <1>1, <2>1, <2>2 DEF Apart
  <2>5. Accounted'
    <3>1. UNCHANGED <<phase, cancelled, todo, live, failedFiles>>
      OBVIOUS
    <3>2. /\ wjob'[w] = f /\ wpc'[w] # "gone"
          /\ \A v \in Workers : wjob[v] # None => wjob'[v] = wjob[v]
      BY <1>1, <2>1
    <3>3. \A g \in todo : g # None
      BY NoneAssumption
    <3> HIDE DEF Receive, Shape
    <3> QED BY <3>1, <3>2, <3>3, <2>1 DEF Accounted
  <2>8. Recorded'
    BY <1>1, <2>1, <2>2 DEF Recorded, Outcome
  <2>6. Written'
    <3>1. UNCHANGED <<promise, opts, phase, todo, output, wok>>
      OBVIOUS
    <3>2. ASSUME promise = "no overwrite", NEW v \in Workers
          PROVE  /\ wpc'[v] \in {"check", "parse", "translate", "create"} =>
                      output[wjob'[v]] = "absent"
                 /\ wpc'[v] = "mark" => wpc[v] = "mark" /\ wjob'[v] = wjob[v]
      <4> HIDE DEF Receive
      <4>1. CASE v = w
        BY <4>1, <3>2, <2>1, <2>2 DEF Written
      <4>2. CASE v # w
        BY <4>2, <3>2, <2>1, <2>2 DEF Written
      <4> QED BY <4>1, <4>2
    <3> HIDE DEF Receive, Shape
    <3>3. promise = "no overwrite" => ~opts.overwrite /\ \A g \in jobs' : output[g] = "absent"
      BY <2>1 DEF Written
    <3>4. promise = "no overwrite" =>
            \A v \in Workers : wpc'[v] = "mark" /\ wok[v] /\ wjob'[v] \notin Empty =>
              output[wjob'[v]] = "complete"
      BY <3>2 DEF Written
    <3> QED BY <3>1, <3>2, <3>3, <3>4, <1>1 DEF Written
  <2>7. DeletedOnlyAfterSuccess' /\ SuccessMeansTranslated'
    BY <1>1 DEF DeletedOnlyAfterSuccess, SuccessMeansTranslated, MayOverwrite
  <2> QED BY <2>3, <2>4, <2>5, <2>6, <2>7, <2>8
<1> QED BY <1>2, <1>3

\* A worker drops its file only in a cancelled run.
LEMMA CheckContextKeepsIInv ==
  ASSUME IInv, NEW w \in Workers, CheckContext(w)
  PROVE  IInv'
<1> USE DEF IInv, Shape, WorkerKeeps, Goto, stats, ledger, CheckContext
<1>1. phase = "work" /\ wpc[w] = "check" /\ wjob[w] \in Files /\ wjob[w] # None
  BY BusyWorker
<1>2. Shape' /\ Jobs'
  BY <1>1 DEF Jobs, WorkerPCs
<1>3. Apart'
  BY <1>1 DEF Apart
<1>4. Accounted' /\ Recorded'
  BY <1>1 DEF Accounted, Recorded, Outcome
<1>5. Written'
  BY <1>1 DEF Written
<1>6. DeletedOnlyAfterSuccess' /\ SuccessMeansTranslated'
  BY <1>1 DEF DeletedOnlyAfterSuccess, SuccessMeansTranslated, MayOverwrite
<1> QED BY <1>2, <1>3, <1>4, <1>5, <1>6

\* processFile: a worker that keeps its file and touches at most its output.
\* What the step did to Written and to the outputs is left to the caller.
LEMMA ProcessKeepsPlaces ==
  ASSUME IInv, NEW w \in Workers, Parse(w) \/ Translate(w) \/ Create(w) \/ Write(w)
  PROVE  /\ phase = "work" /\ wjob[w] \in Files /\ wjob[w] # None
         /\ Shape' /\ Jobs' /\ Apart' /\ Accounted' /\ Recorded'
         /\ DeletedOnlyAfterSuccess'
         /\ UNCHANGED <<promise, opts, phase, todo, jobs, wjob, durable>>
         /\ \A v \in Workers : v # w => wpc'[v] = wpc[v] /\ wok'[v] = wok[v]
<1> USE DEF IInv, Shape, WorkerKeeps, Goto, Finish, stats, ledger
<1> USE DEF Parse, Translate, Create, Write
<1>1. phase = "work" /\ wjob[w] \in Files /\ wjob[w] # None
  BY BusyWorker
<1>2. /\ \E pc \in WorkerPCs \ {"gone", "receive", "count"} :
           wpc' = [wpc EXCEPT ![w] = pc]
      /\ \E ok \in BOOLEAN : wok' = [wok EXCEPT ![w] = ok]
      /\ output' \in [Files -> {"absent", "partial", "complete"}]
      /\ wpc[w] \notin {"gone", "receive", "count"}
  <2>1. \E pc \in WorkerPCs \ {"gone", "receive", "count"} :
           wpc' = [wpc EXCEPT ![w] = pc]
    BY DEF WorkerPCs
  <2>2. \E ok \in BOOLEAN : wok' = [wok EXCEPT ![w] = ok]
    <3>1. CASE UNCHANGED wok
      <4>1. wok[w] \in BOOLEAN /\ wok = [wok EXCEPT ![w] = wok[w]]
        OBVIOUS
      <4> QED BY ONLY <3>1, <4>1
    <3>2. CASE ~UNCHANGED wok
      <4>1. wok' = [wok EXCEPT ![w] = TRUE] \/ wok' = [wok EXCEPT ![w] = FALSE]
        BY <3>2
      <4> QED BY ONLY <4>1
    <3> QED BY <3>1, <3>2
  <2>3. output' \in [Files -> {"absent", "partial", "complete"}]
    BY <1>1
  <2> QED BY <2>1, <2>2, <2>3
<1>3. UNCHANGED <<promise, phase, cancelled, todo, jobs, wjob, live, durable, opts, failedFiles>>
  OBVIOUS
<1> HIDE DEF Parse, Translate, Create, Write
<1>4. Shape' /\ Jobs'
  BY <1>1, <1>2, <1>3 DEF Jobs
<1>5. Apart' /\ Accounted'
  BY <1>1, <1>2, <1>3 DEF Apart, Accounted
<1>6. Recorded'
  BY <1>1, <1>2, <1>3 DEF Recorded, Outcome
<1>7. DeletedOnlyAfterSuccess'
  BY <1>1, <1>3 DEF DeletedOnlyAfterSuccess
<1>8. \A v \in Workers : v # w => wpc'[v] = wpc[v] /\ wok'[v] = wok[v]
  BY <1>2
<1> QED BY <1>1, <1>3, <1>4, <1>5, <1>6, <1>7, <1>8

\* The output of a file passes from absent to partial to complete in the hands
\* of its one worker, who says "ok" only at the end.
LEMMA ProcessKeepsIInv ==
  ASSUME IInv, NEW w \in Workers, Parse(w) \/ Translate(w) \/ Create(w) \/ Write(w)
  PROVE  IInv'
<1>1. /\ phase = "work" /\ wjob[w] \in Files /\ wjob[w] # None
      /\ Shape' /\ Jobs' /\ Apart' /\ Accounted' /\ Recorded' /\ DeletedOnlyAfterSuccess'
      /\ UNCHANGED <<promise, opts, phase, todo, jobs, wjob, durable>>
      /\ \A v \in Workers : v # w => wpc'[v] = wpc[v] /\ wok'[v] = wok[v]
  BY ProcessKeepsPlaces
<1>2. /\ wjob[w] \notin jobs
      /\ \A v \in Workers : v # w => wjob[v] # wjob[w]
  BY <1>1 DEF IInv, Apart
<1>3. \A v \in Workers : wpc[v] \in {"check", "parse", "translate", "create", "mark"}
                           => wjob[v] \in Files
  BY BusyWorker
<1> DEFINE Rest == \A f \in Files : f # wjob[w] => output'[f] = output[f]
           Own == /\ wpc'[w] \in {"check", "parse", "translate", "create"} =>
                       output'[wjob[w]] = "absent"
                  /\ wpc'[w] = "mark" /\ wok'[w] /\ wjob[w] \notin Empty =>
                       output'[wjob[w]] = "complete"
<1>4. ASSUME Rest, promise = "no overwrite" => Own PROVE Written'
  <2>1. ASSUME promise = "no overwrite", NEW v \in Workers
        PROVE  /\ wpc'[v] \in {"check", "parse", "translate", "create"} =>
                    output'[wjob[v]] = "absent"
               /\ wpc'[v] = "mark" /\ wok'[v] /\ wjob[v] \notin Empty =>
                    output'[wjob[v]] = "complete"
    <3>1. CASE v = w
      BY <3>1, <2>1, <1>4
    <3>2. CASE v # w
      <4>1. wpc'[v] = wpc[v] /\ wok'[v] = wok[v] /\ wjob[v] # wjob[w]
        BY <3>2, <1>1, <1>2
      <4>2. wpc[v] \in {"check", "parse", "translate", "create", "mark"} =>
              output'[wjob[v]] = output[wjob[v]]
        BY <4>1, <1>3, <1>4
      <4> QED BY <4>1, <4>2, <2>1 DEF IInv, Written
    <3> QED BY <3>1, <3>2
  <2>2. \A f \in jobs : f \in Files /\ output'[f] = output[f]
    BY <1>2, <1>4 DEF IInv, Shape
  <2> QED BY <2>1, <2>2, <1>1 DEF IInv, Written
<1>5. wpc[w] \in {"parse", "translate", "create"} /\ promise = "no overwrite" =>
        output[wjob[w]] = "absent"
  BY DEF IInv, Written
<1> USE DEF Goto, Finish, IInv, Shape
<1>6. CASE Parse(w) \/ Translate(w)
  <2>1. output' = output
    BY <1>6 DEF Parse, Translate
  <2>2. wpc[w] \in {"parse", "translate"}
    BY <1>6 DEF Parse, Translate
  <2>3. /\ wpc'[w] = "mark" => (wok'[w] = FALSE \/ wjob[w] \in Empty)
        /\ wpc'[w] \in {"mark", "translate", "create"}
    BY <1>6 DEF Parse, Translate
  <2>4. Written'
    BY <2>1, <2>2, <2>3, <1>4, <1>5
  <2>5. SuccessMeansTranslated'
    BY <2>1, <1>1 DEF SuccessMeansTranslated, MayOverwrite
  <2> QED BY <1>1, <2>4, <2>5
<1>7. CASE Create(w)
  <2>1. Rest /\ output' \in [Files -> {"absent", "partial", "complete"}]
    BY <1>1, <1>7 DEF Create
  <2>2. wpc[w] = "create" /\ (wpc'[w] = "write" \/ (wpc'[w] = "mark" /\ wok'[w] = FALSE))
    <3>1. wpc[w] = "create" /\ (Finish(w, FALSE) \/ Goto(w, "write"))
      BY <1>7 DEF Create
    <3>2. wpc \in [Workers -> WorkerPCs] /\ wok \in [Workers -> BOOLEAN]
      OBVIOUS
    <3> HIDE DEF IInv, Shape
    <3> QED BY <3>1, <3>2
  <2>3. Written'
    BY <2>1, <2>2, <1>4
  <2>4. SuccessMeansTranslated'
    BY <1>1, <1>5, <2>1, <2>2 DEF SuccessMeansTranslated, MayOverwrite
  <2> QED BY <1>1, <2>3, <2>4
<1>8. CASE Write(w)
  <2>1. /\ Rest
        /\ output'[wjob[w]] \in {output[wjob[w]], "complete"}
    BY <1>1, <1>8 DEF Write
  <2>2. wpc'[w] = "mark" /\ (wok'[w] => output'[wjob[w]] = "complete")
    BY <1>1, <1>8 DEF Write
  <2>3. Written'
    BY <2>1, <2>2, <1>4
  <2>4. SuccessMeansTranslated'
    BY <1>1, <2>1 DEF SuccessMeansTranslated, MayOverwrite
  <2> QED BY <1>1, <2>3, <2>4
<1> QED BY <1>6, <1>7, <1>8

\* Recording the outcome: a success only for a file whose output is complete.
LEMMA MarkKeepsIInv ==
  ASSUME IInv, NEW w \in Workers, Mark(w)
  PROVE  IInv'
<1> USE DEF IInv, WorkerKeeps, Goto, stats, Mark, Ledger!Record
<1>1. phase = "work" /\ wpc[w] = "mark" /\ wjob[w] \in Files /\ wjob[w] # None
  BY BusyWorker
<1>2. Outcome(w) \in {"success", "failed"} /\ (Outcome(w) = "success" => wok[w])
  BY DEF Outcome
<1>3. /\ live' = [live EXCEPT ![wjob[w]] = Outcome(w)]
      /\ durable' \in {durable, [durable EXCEPT ![wjob[w]] = Outcome(w)]}
      /\ wpc' = [wpc EXCEPT ![w] = "count"]
      /\ UNCHANGED <<promise, phase, opts, cancelled, todo, output, jobs, wjob, wok, failedFiles>>
  OBVIOUS
<1>4. \A v \in Workers : v # w => wjob[v] # wjob[w]
  BY <1>1 DEF Apart
<1> HIDE DEF Mark
<1>5. Shape'
  <2> HIDE DEF Ledger!Record
  <2>1. live' \in Ledger!Table /\ durable' \in Ledger!Table
    BY <1>1, <1>2, <1>3 DEF Shape, Ledger!Table, Ledger!Status
  <2> QED BY <2>1, <1>3 DEF Shape, WorkerPCs
<1>6. Jobs' /\ Apart'
  BY <1>1, <1>3 DEF Shape, Jobs, Apart
<1>7. Accounted'
  BY <1>1, <1>3, <1>4 DEF Shape, Ledger!Table, Accounted
<1>8. Recorded'
  <2>1. ASSUME NEW v \in Workers, wpc'[v] = "count"
        PROVE  live'[wjob'[v]] = Outcome(v)'
    <3>1. Outcome(v)' = Outcome(v)
      BY <1>3 DEF Outcome
    <3>2. CASE v = w
      BY <1>1, <1>3, <3>1, <3>2 DEF Shape, Ledger!Table
    <3>3. CASE v # w
      <4>1. wpc[v] = "count" /\ wjob[v] \in Files
        BY <2>1, <1>3, <3>3, BusyWorker DEF Shape
      <4> QED BY <4>1, <3>1, <3>3, <1>3, <1>4 DEF Shape, Ledger!Table, Recorded
    <3> QED BY <3>2, <3>3
  <2> QED BY <2>1 DEF Recorded
<1>9. Written'
  BY <1>1, <1>3 DEF Shape, Written
<1>10. DeletedOnlyAfterSuccess'
  BY <1>1, <1>3 DEF DeletedOnlyAfterSuccess
<1>11. SuccessMeansTranslated'
  <2>1. ASSUME ~MayOverwrite, NEW f \in Files \ Empty, durable'[f] = "success"
        PROVE  output[f] = "complete"
    <3>1. CASE f = wjob[w] /\ durable' # durable
      BY <3>1, <2>1, <1>1, <1>2, <1>3 DEF Shape, Ledger!Table, Written, MayOverwrite
    <3>2. CASE f # wjob[w] \/ durable' = durable
      BY <3>2, <2>1, <1>1, <1>3 DEF Shape, Ledger!Table, SuccessMeansTranslated
    <3> QED BY <3>1, <3>2
  <2> QED BY <2>1, <1>3 DEF SuccessMeansTranslated, MayOverwrite
<1> QED BY <1>5, <1>6, <1>7, <1>8, <1>9, <1>10, <1>11

\* Counting: the ledger already holds the outcome, so the file stays accounted
\* for when the worker lets go of it.
LEMMA CountKeepsIInv ==
  ASSUME IInv, NEW w \in Workers, Count(w)
  PROVE  IInv'
<1> USE DEF IInv, WorkerKeeps, Goto, ledger
<1>1. phase = "work" /\ wpc[w] = "count" /\ wjob[w] \in Files /\ wjob[w] # None
  BY BusyWorker DEF Count
<1>2. /\ wpc' = [wpc EXCEPT ![w] = "receive"]
      /\ wjob' = [wjob EXCEPT ![w] = None]
      /\ wok' = [wok EXCEPT ![w] = FALSE]
      /\ failedFiles \subseteq failedFiles'
      /\ ~wok[w] => wjob[w] \in failedFiles'
      /\ UNCHANGED <<promise, phase, opts, cancelled, todo, output, live, durable, jobs>>
  BY DEF Count
<1>3. wok[w] => live[wjob[w]] = "success"
  BY <1>1 DEF Recorded, Outcome
<1>4. Shape' /\ Jobs'
  BY <1>1, <1>2 DEF Shape, WorkerPCs, Jobs
<1>5. Apart' /\ Recorded'
  BY <1>1, <1>2 DEF Shape, Apart, Recorded, Outcome
<1>6. Accounted'
  BY <1>1, <1>2, <1>3 DEF Shape, Accounted
<1>7. Written'
  BY <1>1, <1>2 DEF Shape, Written
<1>8. DeletedOnlyAfterSuccess' /\ SuccessMeansTranslated'
  BY <1>1, <1>2 DEF DeletedOnlyAfterSuccess, SuccessMeansTranslated, MayOverwrite
<1> QED BY <1>4, <1>5, <1>6, <1>7, <1>8

-----------------------------------------------------------------------------
(* The theorems. *)

LEMMA IInvNext == IInv /\ [Next]_vars => IInv'
<1> SUFFICES ASSUME IInv, [Next]_vars PROVE IInv'
  OBVIOUS
<1>1. CASE UNCHANGED vars
  <2> USE <1>1 DEF vars, IInv
  <2>1. Shape' /\ Jobs' /\ Apart'
    BY DEF Shape, Jobs, Apart
  <2>2. Accounted' /\ Recorded'
    BY DEF Accounted, Recorded, Outcome
  <2>3. Written'
    BY DEF Written
  <2>4. DeletedOnlyAfterSuccess' /\ SuccessMeansTranslated'
    BY DEF DeletedOnlyAfterSuccess, SuccessMeansTranslated, MayOverwrite
  <2> QED BY <2>1, <2>2, <2>3, <2>4
<1>2. CASE (\E o \in Options : Start(o)) \/ Scan \/ Load
  BY <1>2, PrepareKeepsIInv
<1>3. CASE Resume
  BY <1>3, ResumeKeepsIInv
<1>4. CASE Wait \/ Cleanup \/ DeleteSome \/ DeleteRest \/ Cancel
  BY <1>4, EndKeepsIInv
<1>5. CASE Report \/ Crash
  BY <1>5, ExitedKeepsIInv DEF Report, Crash
<1>6. ASSUME NEW w \in Workers, WorkerStep(w) PROVE IInv'
  <2>1. CASE Parse(w) \/ Translate(w) \/ Create(w) \/ Write(w)
    BY <2>1, ProcessKeepsIInv
  <2> QED BY <1>6, <2>1, ReceiveKeepsIInv, CheckContextKeepsIInv, MarkKeepsIInv,
             CountKeepsIInv DEF WorkerStep
<1> QED BY <1>1, <1>2, <1>3, <1>4, <1>5, <1>6 DEF Next, MainStep

\* The inductive invariant holds throughout.
THEOREM IInvAlways == Spec => []IInv
<1> QED BY IInvInit, IInvNext, PTL DEF Spec

\* However many workers there are, the channel gives every file to one of them
\* (orchestrator.go:144-156): no output is written by two workers.
THEOREM OneWorkerAlways == Spec => []OneWorkerPerFile
<1>1. IInv => OneWorkerPerFile
  BY DEF IInv, Apart, OneWorkerPerFile, Held
<1> QED BY <1>1, IInvAlways, PTL

\* A cancellation that comes at any moment leaves the job state on disk: Delete
\* is reached only when every file of the run is a recorded success
\* (orchestrator.go:226).
THEOREM DeleteSafe == Spec => []DeletedOnlyAfterSuccess
<1>1. IInv => DeletedOnlyAfterSuccess
  BY DEF IInv
<1> QED BY <1>1, IInvAlways, PTL

\* Without --overwrite, what the job state calls a success is a complete output,
\* after any number of runs, crashes, cancellations and half-written files.
THEOREM SuccessSound == Spec => []SuccessMeansTranslated
<1>1. IInv => SuccessMeansTranslated
  BY DEF IInv
<1> QED BY <1>1, IInvAlways, PTL

-----------------------------------------------------------------------------
(* A clean run translated everything, where no write is ever cut short: the  *)
(* second invariant, on top of the first.                                    *)

\* An output never becomes absent again, and it is partial only in the hands of
\* a worker that writes it; whoever skips a file or calls it a success has seen
\* an output.  A run neglects no file of its directory: it skips it or puts it on
\* its list.
Whole ==
  /\ skipped \subseteq Files
  /\ promise = "whole writes" =>
      /\ \A f \in Files : output[f] = "partial" =>
           \E w \in Workers : wpc[w] = "write" /\ wjob[w] = f
      /\ \A f \in Files \ Empty :
           live[f] = "success" \/ durable[f] = "success" => output[f] # "absent"
      /\ \A w \in Workers :
           wpc[w] = "mark" /\ wok[w] /\ wjob[w] \notin Empty => output[wjob[w]] # "absent"
      /\ \A f \in skipped \ Empty : output[f] # "absent"
      /\ phase \notin {"off", "scan"} => opts.tree \subseteq todo \cup skipped

WInv == IInv /\ Whole /\ CleanRunMeansAllTranslated

LEMMA WInvInit == Init => WInv
<1> SUFFICES ASSUME Init PROVE WInv
  OBVIOUS
<1>1. IInv
  BY IInvInit
<1>2. Whole
  BY NoneAssumption DEF Init, Blank, NoWorkers, Ledger!LedgerInit, Ledger!NoEntries, Whole
<1>3. CleanRunMeansAllTranslated
  BY DEF Init, Blank, CleanRunMeansAllTranslated
<1> QED BY <1>1, <1>2, <1>3 DEF WInv

\* A process that stops takes no half-written output with it.
LEMMA ExitedKeepsWhole ==
  ASSUME WInv, Report \/ Crash
  PROVE  Whole' /\ CleanRunMeansAllTranslated'
<1> USE DEF Report, Crash, Exited, Ledger!Stop, Ledger!NoEntries
<1>1. promise = "whole writes" => \A w \in Workers : wpc[w] # "write"
  BY DEF WInv, IInv, Jobs, WriteMayStop
<1>2. Whole'
  BY <1>1, NoneAssumption DEF WInv, Whole
<1>3. CleanRunMeansAllTranslated'
  BY DEF CleanRunMeansAllTranslated
<1> QED BY <1>2, <1>3

\* Scan and the --resume filter skip only files that have an output.
LEMMA PrepareKeepsWhole ==
  ASSUME WInv, (\E o \in Options : Start(o)) \/ Scan \/ Load \/ Resume
  PROVE  Whole' /\ CleanRunMeansAllTranslated'
<1> USE DEF WInv, workers, stats, ledger, Ledger!Open
<1>1. /\ UNCHANGED <<promise, output, durable, wjob, wok>>
      /\ phase \in {"off", "scan", "load", "resume"}
      /\ live' = live \/ live' = durable
  BY DEF Start, Scan, Load, Resume
<1>2. \A w \in Workers : wpc[w] = "gone"
  BY <1>1 DEF IInv, Jobs
<1>3. wpc' \in [Workers -> {"gone", "receive"}]
  <2>1. CASE UNCHANGED wpc
    BY <2>1, <1>2 DEF IInv, Shape
  <2>2. CASE Resume /\ \E n : SpawnWorkers(n)
    BY <2>2 DEF SpawnWorkers
  <2> QED BY <2>1, <2>2 DEF Start, Scan, Load, Resume
<1>4. \A f \in skipped' \ skipped :
        \/ Scan /\ output[f] # "absent"
        \/ Resume /\ f \in todo /\ live[f] = "success"
  BY DEF Start, Scan, Load, Resume, NeedsNoWork, IsDone
<1>5. skipped' \subseteq Files
  BY DEF Start, Scan, Load, Resume, IInv, Shape, Whole
<1>6. promise = "whole writes" => \A f \in skipped' \ Empty : output[f] # "absent"
  BY <1>4, <1>5 DEF Whole
<1>7. /\ phase \notin {"off", "scan"} /\ opts.tree \subseteq todo \cup skipped =>
           opts'.tree \subseteq todo' \cup skipped'
      /\ phase = "scan" => opts'.tree \subseteq todo' \cup skipped'
      /\ phase = "off" => phase' = "scan"
  BY <1>1 DEF Start, Scan, Load, Resume
<1>8. Whole'
  BY <1>1, <1>2, <1>3, <1>5, <1>6, <1>7 DEF Whole
<1>9. CleanRunMeansAllTranslated'
  <2>1. CASE Resume /\ phase' = "report"
    <3>1. ~opts'.dryRun => todo' = {}
      BY <2>1 DEF Resume
    <3>2. ASSUME promise = "whole writes", ~opts'.dryRun, NEW f \in opts'.tree \ Empty
          PROVE  output[f] = "complete"
      <4>4. f \in Files
        BY <3>2, <2>1 DEF Resume, IInv, Shape
      <4>1. f \in skipped'
        BY <2>1, <3>1, <3>2, <1>8, <1>1 DEF Whole
      <4>2. output[f] # "absent"
        BY <4>1, <3>2, <1>6
      <4>3. output[f] # "partial"
        BY <3>2, <4>4, <1>2 DEF Whole
      <4> QED BY <4>2, <4>3, <4>4 DEF IInv, Shape
    <3> QED BY <3>2, <1>1 DEF CleanRunMeansAllTranslated, WriteMayStop
  <2>2. CASE phase' \notin {"cleanup", "delete", "delete2", "report"}
    BY <2>2 DEF CleanRunMeansAllTranslated
  <2> QED BY <2>1, <2>2 DEF Start, Scan, Load, Resume
<1> QED BY <1>8, <1>9

\* When the workers are gone, a clean run has a success for every file it did
\* not skip.
LEMMA EndKeepsWhole ==
  ASSUME WInv, Wait \/ Cleanup \/ DeleteSome \/ DeleteRest \/ Cancel
  PROVE  Whole' /\ CleanRunMeansAllTranslated'
<1> USE DEF WInv, workers, stats, ledger, Ledger!Detach, Ledger!Forget
<1>1. /\ UNCHANGED <<promise, output, live, skipped, todo, wpc, wjob, wok, failedFiles, opts>>
      /\ phase \notin {"off", "scan"} \/ phase' = phase
      /\ \A f \in Files : durable'[f] \in {durable[f], None}
      /\ ~cancelled' => ~cancelled
      /\ \/ Wait
         \/ phase' = phase
         \/ phase \in {"cleanup", "delete", "delete2", "report"}
  BY DEF Wait, Cleanup, DeleteSome, DeleteRest, Cancel
<1>4. Whole'
  BY <1>1, NoneAssumption DEF Whole
<1>2. CASE Wait
  <2>1. \A w \in Workers : wpc[w] = "gone" /\ wjob[w] = None
    BY <1>2 DEF Wait, IInv, Jobs
  <2>2. ASSUME promise = "whole writes", ~cancelled, failedFiles = {},
               NEW f \in opts.tree \ Empty
        PROVE  output[f] = "complete"
    <3>4. f \in Files
      BY DEF IInv, Shape
    <3>1. f \in todo \cup skipped /\ f # None /\ jobs = {} /\ phase = "work"
      BY <3>4, <1>2, <2>1, <2>2, NoneAssumption DEF Wait, Whole, IInv, Accounted
    <3>2. f \in skipped \/ live[f] = "success"
      BY <2>1, <2>2, <3>1 DEF IInv, Accounted
    <3>3. output[f] # "absent" /\ output[f] # "partial"
      BY <2>1, <2>2, <3>2, <3>4 DEF Whole
    <3> QED BY <3>3, <3>4 DEF IInv, Shape
  <2> HIDE DEF WInv
  <2> QED BY <1>1, <1>4, <2>2 DEF CleanRunMeansAllTranslated, WriteMayStop
<1>3. CASE ~Wait
  <2>1. CleanRunMeansAllTranslated
    OBVIOUS
  <2> HIDE DEF WInv
  <2> QED BY <1>1, <1>3, <1>4, <2>1 DEF CleanRunMeansAllTranslated, WriteMayStop
<1> QED BY <1>2, <1>3, <1>4

\* A worker leaves no half-written output behind, and no output disappears.
LEMMA WorkerKeepsWhole ==
  ASSUME WInv, NEW w \in Workers, WorkerStep(w), IInv'
  PROVE  Whole' /\ CleanRunMeansAllTranslated'
<1> USE DEF WInv, WorkerKeeps, stats, ledger
<1>1. phase = "work" /\ UNCHANGED <<promise, phase, opts, todo, skipped>>
  BY BusyWorker DEF WorkerStep, Receive, CheckContext, Parse, Translate, Create, Write,
                    Mark, Count
<1>2. CleanRunMeansAllTranslated'
  BY <1>1 DEF CleanRunMeansAllTranslated
<1>3. wpc \in [Workers -> WorkerPCs] /\ wok \in [Workers -> BOOLEAN]
      /\ wjob \in [Workers -> Files \cup {None}]
      /\ output \in [Files -> {"absent", "partial", "complete"}]
      /\ live \in Ledger!Table /\ durable \in Ledger!Table
  BY DEF IInv, Shape
<1>4. wpc[w] \notin {"gone", "receive"} => wjob[w] \in Files
  BY BusyWorker
<1>5. CASE Receive(w) \/ CheckContext(w) \/ Count(w)
  <2>1. UNCHANGED <<output, live, durable>>
    BY <1>5 DEF Receive, CheckContext, Count
  <2>2. \A v \in Workers : wpc'[v] \in {"write", "mark"} \/ wpc[v] \in {"write", "mark"} =>
          wpc'[v] = wpc[v] /\ wjob'[v] = wjob[v] /\ wok'[v] = wok[v]
    BY <1>3, <1>5 DEF Receive, CheckContext, Count, Goto
  <2>3. Whole
    OBVIOUS
  <2> HIDE DEF WInv
  <2>4. /\ \A v \in Workers : wpc[v] = "write" => wpc'[v] = "write" /\ wjob'[v] = wjob[v]
        /\ \A v \in Workers : wpc'[v] = "mark" /\ wok'[v] =>
             wpc[v] = "mark" /\ wok[v] /\ wjob'[v] = wjob[v]
    BY <2>2
  <2>5. promise = "whole writes" =>
          /\ \A f \in Files : output[f] = "partial" =>
               \E v \in Workers : wpc'[v] = "write" /\ wjob'[v] = f
          /\ \A v \in Workers : wpc'[v] = "mark" /\ wok'[v] /\ wjob'[v] \notin Empty =>
               output[wjob'[v]] # "absent"
    <3>1. ASSUME promise = "whole writes", NEW v \in Workers,
                 wpc'[v] = "mark", wok'[v], wjob'[v] \notin Empty
          PROVE  output[wjob'[v]] # "absent"
      <4>1. wpc[v] = "mark" /\ wok[v] /\ wjob'[v] = wjob[v]
        BY <3>1, <2>4
      <4> QED BY <4>1, <3>1, <2>3 DEF Whole
    <3>2. ASSUME promise = "whole writes", NEW f \in Files, output[f] = "partial"
          PROVE  \E v \in Workers : wpc'[v] = "write" /\ wjob'[v] = f
      <4>1. PICK v \in Workers : wpc[v] = "write" /\ wjob[v] = f
        BY <3>2, <2>3 DEF Whole
      <4> QED BY <4>1, <2>4
    <3> QED BY <3>1, <3>2
  <2> QED BY <2>1, <2>3, <2>5, <1>1, <1>2 DEF Whole
<1>6. CASE Parse(w) \/ Translate(w)
  <2>1. UNCHANGED <<output, live, durable, wjob>>
    BY <1>6 DEF Parse, Translate
  <2>2. /\ \A v \in Workers : wpc[v] = "write" => wpc'[v] = "write"
        /\ \A v \in Workers : wpc'[v] = "mark" /\ wok'[v] /\ wjob[v] \notin Empty =>
             wpc[v] = "mark" /\ wok[v]
    <3>1. CASE Parse(w)
      BY <3>1, <1>3 DEF Parse, Goto, Finish
    <3>2. CASE Translate(w)
      BY <3>2, <1>3 DEF Translate, Goto, Finish
    <3> QED BY <3>1, <3>2, <1>6
  <2> QED BY <2>1, <2>2, <1>1, <1>2 DEF Whole
<1>7. CASE Create(w)
  <2>1. CASE Finish(w, FALSE) /\ UNCHANGED output
    <3>1. UNCHANGED <<output, live, durable, wjob>>
      BY <1>7, <2>1 DEF Create
    <3>2. /\ \A v \in Workers : wpc[v] = "write" => wpc'[v] = "write"
          /\ \A v \in Workers : wpc'[v] = "mark" /\ wok'[v] => wpc[v] = "mark" /\ wok[v]
      BY <1>7, <2>1, <1>3 DEF Create, Goto, Finish
    <3> QED BY <3>1, <3>2, <1>1, <1>2 DEF Whole
  <2>2. CASE output' = [output EXCEPT ![wjob[w]] = "partial"] /\ Goto(w, "write") /\ UNCHANGED wok
    <3>1. UNCHANGED <<live, durable, wjob>>
      BY <1>7 DEF Create
    <3>2. /\ wpc'[w] = "write"
          /\ \A v \in Workers : wpc[v] = "write" => wpc'[v] = "write"
          /\ \A v \in Workers : wpc'[v] = "mark" => wpc[v] = "mark"
      BY <2>2, <1>3 DEF Goto
    <3>3. \A f \in Files : output[f] # "absent" => output'[f] # "absent"
      BY <2>2, <1>3
    <3>4. \A f \in Files : output'[f] = "partial" => output[f] = "partial" \/ f = wjob[w]
      BY <2>2, <1>3
    <3>5. \A v \in Workers : wpc[v] = "mark" => wjob[v] \in Files
      BY BusyWorker
    <3>6. promise = "whole writes" => \A f \in Files : output'[f] = "partial" =>
            \E v \in Workers : wpc'[v] = "write" /\ wjob'[v] = f
      BY <3>1, <3>2, <3>4 DEF Whole
    <3>7. promise = "whole writes" =>
            /\ \A f \in skipped \ Empty : output'[f] # "absent"
            /\ \A f \in Files \ Empty :
                 live[f] = "success" \/ durable[f] = "success" => output'[f] # "absent"
      BY <3>3 DEF Whole
    <3>8. promise = "whole writes" => \A v \in Workers :
            wpc'[v] = "mark" /\ wok[v] /\ wjob[v] \notin Empty => output'[wjob[v]] # "absent"
      BY <3>2, <3>3, <3>5 DEF Whole
    <3>9. UNCHANGED wok
      BY <2>2
    <3> QED BY <3>1, <3>6, <3>7, <3>8, <3>9, <1>1, <1>2 DEF Whole
  <2> QED BY <1>7, <2>1, <2>2 DEF Create
<1>8. CASE Write(w)
  <2>1. UNCHANGED <<live, durable, wjob>> /\ wjob[w] \in Files
    BY <1>4, <1>8 DEF Write
  <2>2. CASE WriteMayStop /\ Finish(w, FALSE) /\ UNCHANGED output
    BY <2>2, <1>1, <1>2 DEF Whole, WriteMayStop
  <2>3. CASE output' = [output EXCEPT ![wjob[w]] = "complete"] /\ Finish(w, TRUE)
    <3>1. /\ output'[wjob[w]] = "complete"
          /\ \A f \in Files : f # wjob[w] => output'[f] = output[f]
      BY <2>1, <2>3, <1>3
    <3>2. \A v \in Workers : v # w => wpc'[v] = wpc[v] /\ wok'[v] = wok[v]
      BY <2>3, <1>3 DEF Finish, Goto
    <3>3. promise = "whole writes" => \A f \in Files : output'[f] = "partial" =>
            \E v \in Workers : wpc'[v] = "write" /\ wjob[v] = f
      <4>1. ASSUME promise = "whole writes", NEW f \in Files, output'[f] = "partial"
            PROVE  \E v \in Workers : wpc'[v] = "write" /\ wjob[v] = f
        <5>1. f # wjob[w] /\ output[f] = "partial"
          BY <4>1, <3>1
        <5>2. PICK v \in Workers : wpc[v] = "write" /\ wjob[v] = f
          BY <4>1, <5>1 DEF Whole
        <5> QED BY <5>1, <5>2, <3>2
      <4> QED BY <4>1
    <3>4. promise = "whole writes" => \A v \in Workers :
            wpc'[v] = "mark" /\ wok'[v] /\ wjob[v] \notin Empty => output'[wjob[v]] # "absent"
      <4>1. \A v \in Workers : wpc[v] = "mark" => wjob[v] \in Files
        BY BusyWorker
      <4>2. ASSUME promise = "whole writes", NEW v \in Workers, v # w,
                   wpc'[v] = "mark", wok'[v], wjob[v] \notin Empty
            PROVE  output'[wjob[v]] # "absent"
        <5>1. wjob[v] \in Files /\ output[wjob[v]] # "absent"
          BY <4>1, <4>2, <3>2 DEF Whole
        <5> QED BY <5>1, <3>1
      <4> QED BY <4>2, <3>1
    <3>5. promise = "whole writes" =>
            /\ \A f \in skipped \ Empty : output'[f] # "absent"
            /\ \A f \in Files \ Empty :
                 live[f] = "success" \/ durable[f] = "success" => output'[f] # "absent"
      BY <3>1 DEF Whole
    <3> QED BY <2>1, <3>3, <3>4, <3>5, <1>1, <1>2 DEF Whole
  <2> QED BY <1>8, <2>2, <2>3 DEF Write
<1>9. CASE Mark(w)
  <2>1. /\ UNCHANGED <<output, wjob, wok>> /\ wpc[w] = "mark" /\ wjob[w] \in Files
        /\ \A v \in Workers : v # w => wpc'[v] = wpc[v]
        /\ wpc'[w] = "count"
    BY <1>3, <1>4, <1>9 DEF Mark, Goto
  <2>2. /\ \A f \in Files : f # wjob[w] => live'[f] = live[f] /\ durable'[f] = durable[f]
        /\ live'[wjob[w]] = Outcome(w)
        /\ durable'[wjob[w]] \in {durable[wjob[w]], Outcome(w)}
    BY <1>3, <2>1, <1>9 DEF Mark, Ledger!Record, Ledger!Table
  <2>3. promise = "whole writes" => \A f \in Files \ Empty :
          live'[f] = "success" \/ durable'[f] = "success" => output[f] # "absent"
    <3>1. Outcome(w) = "success" => wok[w]
      BY DEF Outcome
    <3>2. ASSUME promise = "whole writes", NEW f \in Files \ Empty,
                 live'[f] = "success" \/ durable'[f] = "success"
          PROVE  output[f] # "absent"
      <4>1. CASE live[f] = "success" \/ durable[f] = "success"
        BY <4>1, <3>2 DEF Whole
      <4>2. CASE ~(live[f] = "success" \/ durable[f] = "success")
        <5>1. f = wjob[w] /\ Outcome(w) = "success"
          BY <4>2, <3>2, <2>2
        <5> QED BY <5>1, <3>1, <3>2, <2>1 DEF Whole
      <4> QED BY <4>1, <4>2
    <3> QED BY <3>2
  <2>4. /\ \A v \in Workers : wpc'[v] = "mark" => wpc[v] = "mark"
        /\ \A v \in Workers : wpc[v] = "write" => wpc'[v] = "write"
    BY <2>1
  <2> HIDE DEF WInv, IInv
  <2>5. Whole
    BY DEF WInv
  <2> QED BY <2>1, <2>3, <2>4, <2>5, <1>1, <1>2 DEF Whole
<1> QED BY <1>5, <1>6, <1>7, <1>8, <1>9 DEF WorkerStep

LEMMA WInvNext == WInv /\ [Next]_vars => WInv'
<1> SUFFICES ASSUME WInv, [Next]_vars PROVE WInv'
  OBVIOUS
<1>1. IInv'
  BY IInvNext DEF WInv
<1>2. CASE UNCHANGED vars
  BY <1>1, <1>2 DEF vars, WInv, Whole, CleanRunMeansAllTranslated, WriteMayStop
<1>3. CASE Next
  <2>1. Whole' /\ CleanRunMeansAllTranslated'
    BY <1>1, <1>3, ExitedKeepsWhole, PrepareKeepsWhole, EndKeepsWhole, WorkerKeepsWhole
    DEF Next, MainStep
  <2> QED BY <1>1, <2>1 DEF WInv
<1> QED BY <1>2, <1>3

LEMMA AlwaysWInv == Spec => []WInv
BY WInvInit, WInvNext, PTL DEF Spec

\* A run that was not cancelled and reports no failure leaves every output
\* complete, whatever runs, crashes, cancellations and options came before it,
\* as long as no write was ever cut short.
THEOREM CleanRunSound == Spec => []CleanRunMeansAllTranslated
<1>1. WInv => CleanRunMeansAllTranslated
  BY DEF WInv
<1> QED BY <1>1, AlwaysWInv, PTL

-----------------------------------------------------------------------------
(* The report, the types and the steps: the third invariant, beside the two. *)

\* The files a worker has let go of without a failure.
Over == todo \ (jobs \cup Held \cup failedFiles)

AtOnce == {"off", "scan", "load", "resume"}

Phases == AtOnce \cup {"work", "cleanup", "delete", "delete2", "report"}

\* A file is counted once, when its worker lets go of it; one that a cancelled
\* worker dropped is not counted.
Counted ==
  /\ succeeded \in Nat /\ succeeded <= Cardinality(Over)
  /\ phase \in AtOnce => succeeded = 0 /\ failedFiles = {}
  /\ phase \in {"work", "cleanup", "delete", "delete2"} /\ ~cancelled =>
       succeeded = Cardinality(Over)

\* A reported failure is one of the job state, and nobody works on it any more.
Reported ==
  /\ failedFiles \subseteq todo \ (jobs \cup Held)
  /\ \A f \in failedFiles : live[f] = "failed"

\* What Run has decided for the rest of the run.
Decided ==
  /\ promise \in Promises /\ phase \in Phases
  /\ cancelled \in BOOLEAN /\ attached \in BOOLEAN
  /\ phase \notin {"off", "scan"} => skipped \subseteq opts.tree /\ todo = opts.tree \ skipped
  /\ phase \in {"work", "cleanup", "delete", "delete2"} => ~opts.dryRun
  /\ phase \in {"delete", "delete2"} => ~cancelled /\ failedFiles = {} /\ jobs = {}

CInv == Counted /\ Reported /\ Decided

-----------------------------------------------------------------------------
(* Steps of Run. *)

LEMMA FinitePart ==
  ASSUME NEW S \in SUBSET Files
  PROVE  /\ IsFiniteSet(S) /\ Cardinality(S) \in Nat
         /\ Cardinality(Files) \in Nat /\ Cardinality(S) <= Cardinality(Files)
BY FS_Subset, FS_CardinalityType, FilesAssumption

\* Nothing is counted yet, or no longer.
LEMMA CountedFromZero ==
  ASSUME Shape', succeeded' = 0, failedFiles' = {},
         phase' \in {"work", "cleanup", "delete", "delete2"} => Over' = {}
  PROVE  Counted' /\ Reported'
<1>1. PICK S \in SUBSET Files : S = Over'
  BY DEF Shape, Over
<1>2. Cardinality(S) \in Nat /\ Cardinality({}) = 0
  BY FinitePart, FS_EmptySet
<1>3. 0 \in Nat /\ 0 <= Cardinality(S)
  BY <1>2
<1> QED BY <1>1, <1>2, <1>3 DEF Counted, Reported

LEMMA CInvInit == Init => CInv
<1> SUFFICES ASSUME Init PROVE CInv
  OBVIOUS
<1>1. Shape
  BY IInvInit DEF IInv
<1>2. phase = "off" /\ succeeded = 0 /\ failedFiles = {}
  BY DEF Init, Blank
<1>3. Counted
  <2>1. Over \in SUBSET Files
    BY <1>1 DEF Shape, Over
  <2>2. Cardinality(Over) \in Nat
    BY <2>1, FinitePart
  <2>3. 0 \in Nat /\ 0 <= Cardinality(Over)
    BY <2>2
  <2> QED BY <2>3, <1>2 DEF Counted
<1>4. Reported
  BY <1>2 DEF Reported
<1>5. Decided
  BY DEF Init, Blank, Decided, Phases, AtOnce, Ledger!LedgerInit
<1> QED BY <1>3, <1>4, <1>5 DEF CInv

LEMMA PrepareKeepsCounts ==
  ASSUME CInv, IInv',
         (\E o \in Options : Start(o)) \/ Scan \/ Load \/ Report \/ Crash
  PROVE  CInv'
<1>1. succeeded' = 0 /\ failedFiles' = {} /\ phase' \in AtOnce
  BY DEF CInv, Counted, Start, Scan, Load, Report, Crash, Exited, AtOnce, stats
<1>2. Counted' /\ Reported'
  <2>1. phase' \notin {"work", "cleanup", "delete", "delete2"}
    BY <1>1 DEF AtOnce
  <2> QED BY <1>1, <2>1, CountedFromZero DEF IInv
<1>3. Decided'
  <2>1. CASE (\E o \in Options : Start(o)) \/ Report \/ Crash
    BY <2>1 DEF CInv, Decided, Start, Report, Crash, Exited, Phases, AtOnce, Ledger!Stop, ledger
  <2>2. CASE Scan
    BY <2>2 DEF CInv, Decided, Scan, Phases, AtOnce, ledger
  <2>3. CASE Load
    BY <2>3 DEF CInv, Decided, Load, Phases, AtOnce, Ledger!Open, ledger
  <2> QED BY <2>1, <2>2, <2>3
<1> QED BY <1>2, <1>3 DEF CInv

\* The workers start with every file of the run in the queue.
LEMMA ResumeKeepsCounts ==
  ASSUME IInv, CInv, IInv', Resume
  PROVE  CInv'
<1>1. /\ phase = "resume" /\ succeeded' = 0 /\ failedFiles' = {}
      /\ \/ phase' = "report"
         \/ phase' = "work" /\ jobs' = todo' /\ ~opts'.dryRun
  <2>1. phase = "resume" /\ succeeded' = 0 /\ failedFiles' = {}
    BY DEF Resume, CInv, Counted, AtOnce, stats
  <2>2. phase' = "report" \/ (phase' = "work" /\ jobs' = todo' /\ ~opts'.dryRun)
    BY DEF Resume
  <2> QED BY <2>1, <2>2
<1>2. Counted' /\ Reported'
  <2>1. phase' = "work" => Over' = {}
    BY <1>1 DEF Over
  <2>2. phase' \notin {"cleanup", "delete", "delete2"}
    BY <1>1
  <2> QED BY <1>1, <2>1, <2>2, CountedFromZero DEF IInv
<1>3. Decided'
  <2>1. /\ \E done \in SUBSET todo : todo' = todo \ done /\ skipped' = skipped \cup done
        /\ UNCHANGED <<promise, cancelled, attached>>
    <3> DEFINE done == IF opts.resume THEN {f \in todo : IsDone(f)} ELSE {}
    <3>1. done \in SUBSET todo /\ todo' = todo \ done /\ skipped' = skipped \cup done
      BY DEF Resume
    <3>2. UNCHANGED <<promise, cancelled, attached>>
      BY DEF Resume, ledger
    <3> HIDE DEF done
    <3> QED BY <3>1, <3>2
  <2>2. skipped \subseteq opts.tree /\ todo = opts.tree \ skipped /\ promise \in Promises
        /\ cancelled \in BOOLEAN /\ attached \in BOOLEAN
    BY <1>1 DEF CInv, Decided
  <2>3. skipped' \subseteq opts'.tree /\ todo' = opts'.tree \ skipped'
    BY <2>1, <2>2 DEF Resume
  <2> QED BY <1>1, <2>1, <2>2, <2>3 DEF Decided, Phases, AtOnce
<1> QED BY <1>2, <1>3 DEF CInv

\* Steps of Run that leave the files where they are.
LEMMA EndKeepsCounts ==
  ASSUME IInv, CInv, Wait \/ Cleanup \/ DeleteSome \/ DeleteRest \/ Cancel
  PROVE  CInv'
<1>1. /\ UNCHANGED <<promise, opts, todo, skipped, jobs, wjob, live, succeeded, failedFiles>>
      /\ ~cancelled' => ~cancelled
      /\ phase' \in AtOnce => phase \in AtOnce
      /\ phase' \in {"work", "cleanup", "delete", "delete2"} =>
           phase \in {"work", "cleanup", "delete", "delete2"}
  BY DEF Wait, Cleanup, DeleteSome, DeleteRest, Cancel, AtOnce, workers, stats, ledger,
         Ledger!Detach, Ledger!Forget
<1>2. Over' = Over /\ Held' = Held
  BY <1>1 DEF Over, Held
<1>3. Counted' /\ Reported'
  BY <1>1, <1>2 DEF CInv, Counted, Reported
<1>4. Decided'
  <2>1. /\ promise' \in Promises /\ phase' \in Phases
        /\ cancelled' \in BOOLEAN /\ attached' \in BOOLEAN
        /\ phase' \notin {"off", "scan"} => phase \notin {"off", "scan"}
    BY DEF CInv, Decided, Phases, AtOnce, Wait, Cleanup, DeleteSome, DeleteRest, Cancel, ledger,
           Ledger!Detach, Ledger!Forget
  <2>2. phase' \in {"delete", "delete2"} => ~cancelled' /\ failedFiles' = {} /\ jobs' = {}
    <3>1. CASE Cleanup
      <4>1. SUFFICES ASSUME phase' = "delete"
            PROVE  ~cancelled' /\ failedFiles' = {} /\ jobs' = {}
        BY <3>1 DEF Cleanup
      <4>2. failedFiles = {} /\ ~cancelled /\ cancelled' = cancelled /\ phase = "cleanup"
        BY <3>1, <4>1 DEF Cleanup, FullySuccessful
      <4>3. jobs = {}
        BY <4>2 DEF IInv, Jobs, Accounted
      <4> QED BY <4>2, <4>3, <1>1
    <3>2. CASE Wait \/ DeleteSome \/ DeleteRest \/ Cancel
      BY <3>2, <1>1 DEF CInv, Decided, Wait, DeleteSome, DeleteRest, Cancel
    <3> QED BY <3>1, <3>2
  <2> QED BY <1>1, <2>1, <2>2 DEF CInv, Decided
<1> QED BY <1>3, <1>4 DEF CInv

-----------------------------------------------------------------------------
(* Steps of a worker. *)

\* Run decides nothing while the workers are at it.
LEMMA WorkerLeavesDecided ==
  ASSUME IInv, CInv, NEW w \in Workers, WorkerStep(w)
  PROVE  /\ phase = "work" /\ UNCHANGED <<phase, cancelled, todo>>
         /\ Decided'
<1>1. phase = "work"
  BY BusyWorker DEF WorkerStep, Receive, CheckContext, Parse, Translate, Create, Write,
                    Mark, Count
<1>2. UNCHANGED <<promise, phase, opts, cancelled, todo, skipped, attached>>
  BY DEF WorkerStep, Receive, CheckContext, Parse, Translate, Create, Write, Mark, Count,
         WorkerKeeps, ledger, Ledger!Record
<1> QED BY <1>1, <1>2 DEF CInv, Decided

\* A step that counts nothing and lets go of no file but in a cancelled run.
LEMMA NothingCounted ==
  ASSUME IInv, CInv, NEW w \in Workers, WorkerStep(w), IInv',
         UNCHANGED <<succeeded, failedFiles>>,
         jobs' \cup Held' \subseteq jobs \cup Held,
         ~cancelled => jobs' \cup Held' = jobs \cup Held,
         \A f \in failedFiles : live'[f] = "failed"
  PROVE  CInv'
<1>1. phase = "work" /\ UNCHANGED <<phase, cancelled, todo>> /\ Decided'
  BY WorkerLeavesDecided
<1>2. Reported'
  BY <1>1 DEF CInv, Reported
<1>3. PICK O \in SUBSET Files : O = Over
  BY DEF IInv, Shape, Over
<1>4. PICK P \in SUBSET Files : P = Over'
  BY DEF IInv, Shape, Over
<1>5. O \subseteq P /\ (~cancelled => O = P)
  BY <1>1, <1>3, <1>4 DEF Over
<1>6. /\ Cardinality(O) \in Nat /\ Cardinality(P) \in Nat /\ Cardinality(O) <= Cardinality(P)
  BY <1>5, FinitePart, FS_Subset
<1>7. /\ succeeded \in Nat /\ succeeded <= Cardinality(O)
      /\ ~cancelled => succeeded = Cardinality(O)
  BY <1>1, <1>3 DEF CInv, Counted
<1>8. /\ succeeded \in Nat /\ succeeded <= Cardinality(P)
      /\ ~cancelled => succeeded = Cardinality(P)
  BY <1>5, <1>6, <1>7
<1>9. Counted'
  BY <1>1, <1>4, <1>8 DEF Counted, AtOnce
<1> QED BY <1>1, <1>2, <1>9 DEF CInv

\* Receiving moves a file from the queue to a worker, or changes nothing.
LEMMA ReceiveKeepsCounts ==
  ASSUME IInv, CInv, NEW w \in Workers, Receive(w), IInv'
  PROVE  CInv'
<1>1. UNCHANGED <<succeeded, failedFiles, live>> /\ WorkerStep(w)
  BY DEF Receive, stats, ledger, WorkerStep
<1>2. wjob[w] = None
  BY DEF IInv, Jobs, Receive
<1>3. jobs' \cup Held' = jobs \cup Held
  <2>1. CASE jobs = {}
    BY <2>1 DEF Receive, Held
  <2>2. CASE jobs # {}
    <3>1. PICK f \in jobs : jobs' = jobs \ {f} /\ wjob' = [wjob EXCEPT ![w] = f]
      BY <2>2 DEF Receive, Taken
    <3>2. f # None /\ wjob \in [Workers -> Files \cup {None}]
      BY NoneAssumption DEF IInv, Shape
    <3>3. wjob'[w] = f /\ \A v \in Workers : v # w => wjob'[v] = wjob[v]
      BY <3>1, <3>2
    <3>4. Held' = Held \cup {f}
      <4>1. Held' \subseteq Held \cup {f}
        BY <3>3 DEF Held
      <4>2. Held \cup {f} \subseteq Held'
        BY <1>2, <3>2, <3>3 DEF Held
      <4> QED BY <4>1, <4>2
    <3> QED BY <3>1, <3>4
  <2> QED BY <2>1, <2>2
<1>4. \A f \in failedFiles : live'[f] = "failed"
  BY <1>1 DEF CInv, Reported
<1> QED BY <1>1, <1>3, <1>4, NothingCounted

\* Only a cancelled worker drops its file.
LEMMA CheckKeepsCounts ==
  ASSUME IInv, CInv, NEW w \in Workers, CheckContext(w), IInv'
  PROVE  CInv'
<1>1. UNCHANGED <<succeeded, failedFiles, live, jobs>> /\ WorkerStep(w)
  BY DEF CheckContext, stats, ledger, WorkerStep
<1>2. Held' \subseteq Held /\ (~cancelled => Held' = Held)
  <2>1. CASE cancelled
    BY <2>1 DEF CheckContext, Held, IInv, Shape
  <2>2. CASE ~cancelled
    BY <2>2 DEF CheckContext, Held
  <2> QED BY <2>1, <2>2
<1>3. \A f \in failedFiles : live'[f] = "failed"
  BY <1>1 DEF CInv, Reported
<1> QED BY <1>1, <1>2, <1>3, NothingCounted

LEMMA ProcessKeepsCounts ==
  ASSUME IInv, CInv, NEW w \in Workers, IInv',
         Parse(w) \/ Translate(w) \/ Create(w) \/ Write(w)
  PROVE  CInv'
<1>1. UNCHANGED <<succeeded, failedFiles, live, jobs, wjob>> /\ WorkerStep(w)
  BY DEF Parse, Translate, Create, Write, stats, ledger, WorkerStep
<1>2. \A f \in failedFiles : live'[f] = "failed"
  BY <1>1 DEF CInv, Reported
<1>3. Held' = Held
  BY <1>1 DEF Held
<1> QED BY <1>1, <1>2, <1>3, NothingCounted

\* A worker records the outcome of the file it holds, which is no reported one.
LEMMA MarkKeepsCounts ==
  ASSUME IInv, CInv, NEW w \in Workers, Mark(w), IInv'
  PROVE  CInv'
<1>1. UNCHANGED <<succeeded, failedFiles, jobs, wjob>> /\ WorkerStep(w)
  BY DEF Mark, stats, WorkerStep
<1>2. wjob[w] \in Held /\ live \in [Files -> Ledger!Status \cup {None}]
  BY BusyWorker DEF Mark, Held, IInv, Shape, Ledger!Table
<1>3. live' = [live EXCEPT ![wjob[w]] = Outcome(w)]
  BY DEF Mark, Ledger!Record
<1>4. \A f \in failedFiles : f # wjob[w] /\ f \in Files /\ live[f] = "failed"
  BY <1>2 DEF CInv, Reported, IInv, Shape
<1>5. \A f \in failedFiles : live'[f] = "failed"
  BY <1>2, <1>3, <1>4
<1>6. Held' = Held
  BY <1>1 DEF Held
<1> QED BY <1>1, <1>5, <1>6, NothingCounted

\* The file a worker lets go of is counted here, as one or the other.
LEMMA CountKeepsCounts ==
  ASSUME IInv, CInv, NEW w \in Workers, Count(w), IInv'
  PROVE  CInv'
<1>1. phase = "work" /\ UNCHANGED <<phase, cancelled, todo>> /\ Decided'
  BY WorkerLeavesDecided DEF WorkerStep
<1>2. PICK f : f = wjob[w]
  OBVIOUS
<1>3. f \in Files /\ f # None /\ f \in Held /\ f \in todo \ jobs /\ f \notin failedFiles
  <2>1. wpc[w] = "count"
    BY DEF Count
  <2>2. f \in Files /\ f # None
    BY <1>2, <2>1, BusyWorker
  <2>3. f \in Held /\ f \in todo \ jobs
    BY <1>2, <2>2 DEF Held, IInv, Apart
  <2> QED BY <2>2, <2>3 DEF CInv, Reported
<1>4. jobs' = jobs /\ live' = live /\ Held' = Held \ {f}
  <2>1. wjob' = [wjob EXCEPT ![w] = None] /\ wjob \in [Workers -> Files \cup {None}]
    BY DEF Count, IInv, Shape
  <2>2. wjob'[w] = None /\ \A v \in Workers : v # w => wjob'[v] = wjob[v]
    BY <2>1
  <2>3. \A v \in Workers : v # w => wjob[v] # f
    BY <1>2, <1>3 DEF IInv, Apart
  <2>4. Held' = Held \ {f}
    <3>1. Held' \subseteq Held \ {f}
      BY <2>2, <2>3 DEF Held
    <3>2. Held \ {f} \subseteq Held'
      BY <1>2, <2>2 DEF Held
    <3> QED BY <3>1, <3>2
  <2> QED BY <2>4 DEF Count, ledger
<1>5. PICK O \in SUBSET Files : O = Over
  BY DEF IInv, Shape, Over
<1>6. PICK P \in SUBSET Files : P = Over'
  BY DEF IInv, Shape, Over
<1>7. Cardinality(O) \in Nat /\ Cardinality(P) \in Nat
  BY FinitePart
<1>8. PICK n \in Nat : n = succeeded /\ n <= Cardinality(O) /\ (~cancelled => n = Cardinality(O))
  BY <1>1, <1>5 DEF CInv, Counted
<1>9. CASE wok[w]
  <2>1. failedFiles' = failedFiles /\ succeeded' = n + 1
    BY <1>8, <1>9 DEF Count
  <2>2. P = O \cup {f} /\ f \notin O
    <3>1. f \notin O
      BY <1>3, <1>5 DEF Over
    <3>2. P = O \cup {f}
      BY <1>1, <1>3, <1>4, <1>5, <1>6, <2>1 DEF Over
    <3> QED BY <3>1, <3>2
  <2>3. Cardinality(P) = Cardinality(O) + 1
    BY <2>2, FinitePart, FS_AddElement
  <2>4. n + 1 \in Nat /\ n + 1 <= Cardinality(P) /\ (~cancelled => n + 1 = Cardinality(P))
    BY <2>3, <1>7, <1>8
  <2>5. Counted'
    BY <2>1, <2>4, <1>1, <1>6 DEF Counted, AtOnce
  <2>6. Reported'
    BY <2>1, <1>1, <1>4 DEF CInv, Reported
  <2> QED BY <2>5, <2>6, <1>1 DEF CInv
<1>10. CASE ~wok[w]
  <2>1. failedFiles' = failedFiles \cup {f} /\ succeeded' = n
    BY <1>2, <1>8, <1>10 DEF Count
  <2>2. P = O
    BY <1>1, <1>3, <1>4, <1>5, <1>6, <2>1 DEF Over
  <2>3. Counted'
    BY <2>1, <2>2, <1>1, <1>6, <1>8 DEF Counted, AtOnce
  <2>4. live[f] = "failed"
    BY <1>2, <1>10 DEF Count, IInv, Recorded, Outcome
  <2>5. Reported'
    BY <2>1, <2>4, <1>1, <1>3, <1>4 DEF CInv, Reported
  <2> QED BY <2>3, <2>5, <1>1 DEF CInv
<1> QED BY <1>9, <1>10

LEMMA CInvNext == IInv /\ CInv /\ [Next]_vars => CInv'
<1> SUFFICES ASSUME IInv, CInv, [Next]_vars PROVE CInv'
  OBVIOUS
<1>1. IInv'
  BY IInvNext
<1>2. CASE UNCHANGED vars
  <2>1. Over' = Over /\ Held' = Held
    BY <1>2 DEF vars, Over, Held
  <2> QED BY <1>2, <2>1 DEF vars, CInv, Counted, Reported, Decided
<1>3. CASE (\E o \in Options : Start(o)) \/ Scan \/ Load \/ Report \/ Crash
  BY <1>1, <1>3, PrepareKeepsCounts
<1>4. CASE Resume
  BY <1>1, <1>4, ResumeKeepsCounts
<1>5. CASE Wait \/ Cleanup \/ DeleteSome \/ DeleteRest \/ Cancel
  BY <1>5, EndKeepsCounts
<1>6. ASSUME NEW w \in Workers, WorkerStep(w) PROVE CInv'
  <2>1. CASE Parse(w) \/ Translate(w) \/ Create(w) \/ Write(w)
    BY <1>1, <2>1, ProcessKeepsCounts
  <2> QED BY <1>1, <1>6, <2>1, ReceiveKeepsCounts, CheckKeepsCounts, MarkKeepsCounts,
             CountKeepsCounts DEF WorkerStep
<1> QED BY <1>2, <1>3, <1>4, <1>5, <1>6 DEF Next, MainStep

-----------------------------------------------------------------------------
(* The theorems on states. *)

\* All that is known of every state.
Known == WInv /\ CInv

LEMMA AlwaysKnown == Spec => []Known
<1>1. Init => Known
  BY WInvInit, CInvInit DEF Known
<1>2. Known /\ [Next]_vars => Known'
  BY WInvNext, CInvNext DEF Known, WInv
<1> QED BY <1>1, <1>2, PTL DEF Spec

\* Pipeline keeps its types through any number of runs, and stats.Succeeded
\* never counts more files than there are (orchestrator.go:181-207).
THEOREM TypeCorrect == Spec => []TypeOK
<1>1. ASSUME Known PROVE TypeOK
  <2>1. /\ Shape /\ Decided /\ Counted /\ failedFiles \subseteq todo /\ skipped \subseteq Files
    BY <1>1 DEF Known, WInv, IInv, CInv, Reported, Whole
  <2>2. succeeded \in 0..Cardinality(Files)
    <3>1. PICK O \in SUBSET Files : O = Over
      BY <2>1 DEF Shape, Over
    <3>2. /\ Cardinality(O) \in Nat /\ Cardinality(Files) \in Nat
          /\ Cardinality(O) <= Cardinality(Files)
      BY FinitePart
    <3>3. succeeded \in Nat /\ succeeded <= Cardinality(O)
      BY <2>1, <3>1 DEF Counted
    <3> QED BY <3>2, <3>3
  <2> QED BY <2>1, <2>2 DEF Shape, Decided, Phases, AtOnce, TypeOK
<1> QED BY <1>1, AlwaysKnown, PTL

\* The report and the job state tell the same story, with any number of workers
\* that mark and count in any order: reported failures are recorded failures,
\* no file is counted twice, and unless the run was cancelled none is missing
\* from the counts and every other file of the run is a recorded success
\* (orchestrator.go:181-207).
THEOREM ReportSound == Spec => []ReportMatchesLedger
<1>1. ASSUME Known PROVE ReportMatchesLedger
  <2>1. IInv /\ Counted /\ Reported /\ Decided
    BY <1>1 DEF Known, WInv, CInv
  <2>2. \A f \in failedFiles : live[f] = "failed"
    BY <2>1 DEF Reported
  <2>3. ASSUME phase \in {"cleanup", "delete", "delete2"}
        PROVE  LET reported == succeeded + Cardinality(failedFiles) + Cardinality(skipped)
               IN  /\ reported <= Cardinality(opts.tree)
                   /\ ~cancelled => /\ reported = Cardinality(opts.tree)
                                    /\ \A f \in todo \ failedFiles : live[f] = "success"
    <3>1. /\ skipped \subseteq opts.tree /\ todo = opts.tree \ skipped
          /\ failedFiles \subseteq todo /\ opts.tree \in SUBSET Files
      BY <2>1, <2>3 DEF Decided, Reported, IInv, Shape
    <3>2. Held = {}
      BY <2>1, <2>3 DEF IInv, Jobs, Held
    <3>3. Over \in SUBSET opts.tree /\ Over \cap failedFiles = {}
          /\ (Over \cup failedFiles) \cap skipped = {}
      BY <3>1 DEF Over
    <3>4. /\ IsFiniteSet(Over) /\ IsFiniteSet(failedFiles) /\ IsFiniteSet(skipped)
          /\ Cardinality(Over) \in Nat /\ Cardinality(failedFiles) \in Nat
          /\ Cardinality(skipped) \in Nat
      BY <3>1, <3>3, FinitePart
    <3>5. /\ IsFiniteSet(Over \cup failedFiles)
          /\ Cardinality(Over \cup failedFiles) = Cardinality(Over) + Cardinality(failedFiles)
      <4>1. /\ IsFiniteSet(Over \cup failedFiles)
            /\ Cardinality(Over \cup failedFiles) =
                 Cardinality(Over) + Cardinality(failedFiles) - Cardinality(Over \cap failedFiles)
        BY <3>4, FS_Union
      <4>2. Cardinality(Over \cap failedFiles) = 0
        BY <3>3, FS_EmptySet
      <4> QED BY <4>1, <4>2, <3>4
    <3>6. Cardinality(Over \cup failedFiles \cup skipped) =
            Cardinality(Over) + Cardinality(failedFiles) + Cardinality(skipped)
      <4>1. Cardinality((Over \cup failedFiles) \cup skipped) =
              Cardinality(Over \cup failedFiles) + Cardinality(skipped)
                - Cardinality((Over \cup failedFiles) \cap skipped)
        BY <3>4, <3>5, FS_Union
      <4>2. Cardinality((Over \cup failedFiles) \cap skipped) = 0
        BY <3>3, FS_EmptySet
      <4> QED BY <4>1, <4>2, <3>4, <3>5
    <3>7. /\ Cardinality(opts.tree) \in Nat
          /\ Cardinality(Over \cup failedFiles \cup skipped) <= Cardinality(opts.tree)
      <4>1. Over \cup failedFiles \cup skipped \subseteq opts.tree
        BY <3>1, <3>3
      <4>2. IsFiniteSet(opts.tree) /\ Cardinality(opts.tree) \in Nat
        BY <3>1, FinitePart
      <4> QED BY <4>1, <4>2, FS_Subset
    <3>8. succeeded \in Nat /\ succeeded <= Cardinality(Over)
      BY <2>1 DEF Counted
    <3>9. succeeded + Cardinality(failedFiles) + Cardinality(skipped) <= Cardinality(opts.tree)
      BY <3>4, <3>6, <3>7, <3>8
    <3>10. ASSUME ~cancelled
           PROVE  /\ succeeded + Cardinality(failedFiles) + Cardinality(skipped) = Cardinality(opts.tree)
                  /\ \A f \in todo \ failedFiles : live[f] = "success"
      <4>1. jobs = {} /\ \A f \in todo \ failedFiles : live[f] = "success"
        <5>1. CASE phase = "cleanup"
          <6>1. \A w \in Workers : wpc[w] = "gone" /\ wjob[w] = None
            BY <2>1, <5>1 DEF IInv, Jobs
          <6>2. jobs = {}
            BY <2>1, <5>1, <6>1, <3>10 DEF IInv, Accounted
          <6>3. \A f \in todo : f # None
            BY <3>1, NoneAssumption
          <6> QED BY <2>1, <5>1, <6>1, <6>2, <6>3, <3>10 DEF IInv, Accounted
        <5>2. CASE phase # "cleanup"
          BY <2>1, <2>3, <5>2 DEF IInv, Decided, DeletedOnlyAfterSuccess
        <5> QED BY <5>1, <5>2
      <4>2. Over \cup failedFiles \cup skipped = opts.tree
        BY <4>1, <3>1, <3>2 DEF Over
      <4>3. succeeded = Cardinality(Over)
        BY <2>1, <2>3, <3>10 DEF Counted
      <4> QED BY <4>1, <4>2, <4>3, <3>6
    <3> QED BY <3>9, <3>10
  <2> QED BY <2>2, <2>3 DEF ReportMatchesLedger
<1> QED BY <1>1, AlwaysKnown, PTL

-----------------------------------------------------------------------------
(* The theorems on steps. *)

\* Where no write is cut short, an output that is there while nobody works is
\* all there.
LEMMA WholeAtRest ==
  ASSUME Known, ~WriteMayStop, phase # "work", NEW f \in Files, output[f] # "absent"
  PROVE  output[f] = "complete"
<1>1. promise = "whole writes" /\ IInv /\ Whole
  BY DEF WriteMayStop, Known, WInv
<1>2. \A w \in Workers : wpc[w] # "write"
  BY <1>1 DEF IInv, Jobs
<1>3. output[f] # "partial"
  BY <1>1, <1>2 DEF Whole
<1> QED BY <1>1, <1>3 DEF IInv, Shape

\* In phase "resume" only the filter itself, a signal and the end of the process
\* can happen.
LEMMA StepsOfResume ==
  ASSUME Known, phase = "resume", Next, phase' # "off"
  PROVE  Resume \/ UNCHANGED <<todo, skipped>>
<1>1. ASSUME NEW w \in Workers PROVE ~WorkerStep(w)
  <2>1. wpc[w] = "gone"
    BY DEF Known, WInv, IInv, Jobs
  <2> QED BY <2>1 DEF WorkerStep, Receive, CheckContext, Parse, Translate, Create, Write,
                      Mark, Count
<1> QED BY <1>1 DEF Next, MainStep, Start, Scan, Load, Wait, Cleanup, DeleteSome, DeleteRest,
                    Report, Crash, Exited, Cancel

\* --resume skips a file only if its translation is there (jobstate.go:137),
\* after any runs, crashes and failures, as long as no write was cut short.
THEOREM ResumeSkipSound == Spec => ResumeSkipsOnlyTranslated
<1>1. ASSUME Known, [Next]_vars
      PROVE  phase = "resume" /\ phase' # "off" /\ ~WriteMayStop =>
               \A f \in (skipped' \ skipped) \ Empty : output[f] = "complete"
  <2> SUFFICES ASSUME phase = "resume", phase' # "off", ~WriteMayStop,
                      NEW f \in (skipped' \ skipped) \ Empty
               PROVE  output[f] = "complete"
    OBVIOUS
  <2>1. Resume
    BY <1>1, StepsOfResume DEF vars
  <2>2. f \in todo /\ live[f] = "success"
    BY <2>1 DEF Resume, IsDone
  <2>3. f \in Files \ Empty /\ Whole /\ promise = "whole writes"
    BY <1>1, <2>2 DEF Known, WInv, IInv, Shape, WriteMayStop
  <2>4. output[f] # "absent"
    BY <2>2, <2>3 DEF Whole
  <2> QED BY <1>1, <2>3, <2>4, WholeAtRest
<1> QED BY <1>1, AlwaysKnown, PTL DEF Spec, ResumeSkipsOnlyTranslated

\* What Load found: until the filter has run, the table is the one on disk, or
\* empty where Load failed.
Loaded ==
  /\ phase \in {"off", "scan", "load"} => live = Ledger!NoEntries
  /\ phase = "resume" => \A f \in Files : live[f] \in {durable[f], None}

LEMMA AlwaysLoaded == Spec => []Loaded
<1>1. Init => Loaded
  BY DEF Init, Blank, Loaded, Ledger!LedgerInit
<1>2. Known /\ Loaded /\ [Next]_vars => Loaded'
  <2> SUFFICES ASSUME Known, Loaded, [Next]_vars PROVE Loaded'
    OBVIOUS
  <2>1. CASE \E w \in Workers : WorkerStep(w)
    <3>1. phase' = "work"
      BY <2>1, WorkerLeavesDecided DEF Known, WInv
    <3> QED BY <3>1 DEF Loaded
  <2>2. CASE Load
    BY <2>2 DEF Loaded, Load, ledger, Ledger!Open, Ledger!NoEntries
  <2>3. CASE Report \/ Crash
    BY <2>3 DEF Loaded, Report, Crash, Exited, Ledger!Stop
  <2>4. CASE (\E o \in Options : Start(o)) \/ Scan \/ Resume \/ Cancel \/ UNCHANGED vars
    BY <2>4 DEF Loaded, Start, Scan, Resume, Cancel, vars, ledger
  <2>5. CASE Wait \/ Cleanup \/ DeleteSome \/ DeleteRest
    BY <2>5 DEF Loaded, Wait, Cleanup, DeleteSome, DeleteRest
  <2> QED BY <2>1, <2>2, <2>3, <2>4, <2>5 DEF Next, MainStep
<1> QED BY <1>1, <1>2, AlwaysKnown, PTL DEF Spec

\* A file of the run's directory that the job state on disk does not call a
\* success is on the list of the next run unless its translation is there
\* (jobstate.go:155-156): whether its failure is recorded, was deleted by a clean
\* run over another directory (orchestrator.go:226), or could not be read
\* (jobstate.go:64), as long as no write was cut short.
THEOREM UnfinishedSound == Spec => UnfinishedIsRetried
<1>1. ASSUME Known, Loaded, [Next]_vars
      PROVE  phase = "resume" /\ phase' # "off" /\ ~WriteMayStop =>
               \A f \in opts.tree \ Empty :
                 durable[f] # "success" /\ output[f] # "complete" => f \in todo'
  <2> SUFFICES ASSUME ~WriteMayStop, phase = "resume", phase' # "off",
                      NEW f \in opts.tree \ Empty, durable[f] # "success",
                      output[f] # "complete"
               PROVE  f \in todo'
    OBVIOUS
  <2>1. f \in Files /\ live[f] # "success"
    BY <1>1, NoneAssumption DEF Loaded, Known, WInv, IInv, Shape
  <2>2. f \in todo
    <3>1. output[f] = "absent"
      BY <1>1, <2>1, WholeAtRest
    <3> QED BY <3>1, <1>1 DEF Known, WInv, Whole, WriteMayStop
  <2>3. Resume \/ todo' = todo
    BY <1>1, StepsOfResume DEF vars
  <2>4. CASE Resume
    BY <2>1, <2>2, <2>4 DEF Resume, IsDone
  <2> QED BY <2>2, <2>3, <2>4
<1> QED BY <1>1, AlwaysKnown, AlwaysLoaded, PTL DEF Spec, UnfinishedIsRetried

\* Delete (orchestrator.go:226) drops a recorded failure of the run's own
\* directory only after the file was translated, as long as no write was cut short.
\* The state file may hold failures of other directories (config.go:57); Delete
\* drops them too, and UnfinishedSound says what is left of them.
THEOREM FailureKept == Spec => FailureNotForgotten
<1>1. ASSUME Known, [Next]_vars
      PROVE  ~WriteMayStop =>
               \A f \in opts.tree \ Empty :
                 durable[f] = "failed" /\ durable'[f] = None => output[f] = "complete"
  <2> SUFFICES ASSUME ~WriteMayStop, NEW f \in opts.tree \ Empty,
                      durable[f] = "failed", durable'[f] = None
               PROVE  output[f] = "complete"
    OBVIOUS
  <2>1. "failed" # None /\ "success" # None /\ durable' # durable
    BY NoneAssumption
  <2>6. f \in Files
    BY <1>1 DEF Known, WInv, IInv, Shape
  <2>2. \A w \in Workers : ~WorkerStep(w)
    <3>1. ASSUME NEW w \in Workers, Mark(w) PROVE FALSE
      <4>1. durable' = durable \/ durable' = [durable EXCEPT ![wjob[w]] = Outcome(w)]
        BY <3>1 DEF Mark, Ledger!Record
      <4>2. durable \in [Files -> Ledger!Status \cup {None}] /\ Outcome(w) # None
        BY <1>1, <2>1 DEF Known, WInv, IInv, Shape, Ledger!Table, Outcome
      <4>3. durable'[f] = durable[f] \/ durable'[f] = Outcome(w)
        BY <2>6, <4>1, <4>2
      <4> QED BY <4>2, <4>3, <2>1
    <3> QED BY <3>1, <2>1 DEF WorkerStep, Receive, CheckContext, Parse, Translate, Create,
                              Write, Count, ledger
  <2>3. DeleteSome \/ DeleteRest
    BY <1>1, <2>1, <2>2 DEF Next, MainStep, Start, Scan, Load, Resume, Wait, Cleanup, Report,
                            Crash, Exited, Cancel, vars, ledger, Ledger!Open, Ledger!Detach,
                            Ledger!Stop
  <2>4. phase \in {"delete", "delete2"}
    BY <2>3 DEF DeleteSome, DeleteRest
  <2>5. ~cancelled /\ failedFiles = {} /\ ~opts.dryRun
    BY <1>1, <2>4 DEF Known, CInv, Decided
  <2> QED BY <1>1, <2>4, <2>5 DEF Known, WInv, CleanRunMeansAllTranslated
<1> QED BY <1>1, AlwaysKnown, PTL DEF Spec, FailureNotForgotten

-----------------------------------------------------------------------------
(* Run and the ledger. *)

\* The log handle is closed while the files of the job state are deleted.
Closed == phase \in {"delete", "delete2"} => ~attached

\* Forget asks for a closed handle; that guard never holds Run up, because
\* Delete closes it first (jobstate.go:233) and nobody opens it before the exit.
THEOREM DeletesClosed == Spec => []Closed
<1>1. Init => Closed
  BY DEF Init, Blank, Closed
<1>2. Known /\ Closed /\ [Next]_vars => Closed'
  <2> SUFFICES ASSUME Known, Closed, [Next]_vars PROVE Closed'
    OBVIOUS
  <2>1. CASE \E w \in Workers : WorkerStep(w)
    <3>1. PICK w \in Workers : WorkerStep(w)
      BY <2>1
    <3>2. wpc[w] # "gone"
      BY <3>1 DEF WorkerStep, Receive, CheckContext, Parse, Translate, Create, Write, Mark,
                  Count
    <3>3. phase = "work"
      BY <3>2, BusyWorker DEF Known, WInv
    <3>4. phase' = phase
      BY <3>1 DEF WorkerStep, Receive, CheckContext, Parse, Translate, Create, Write, Mark,
                  Count, WorkerKeeps
    <3> QED BY <3>3, <3>4 DEF Closed
  <2>2. CASE MainStep
    BY <2>2 DEF Closed, MainStep, Scan, Load, Resume, Wait, Cleanup, DeleteSome, DeleteRest,
                Report, Exited, Ledger!Detach, Ledger!Forget, ledger
  <2>3. CASE (\E o \in Options : Start(o)) \/ Cancel \/ UNCHANGED vars
    BY <2>3 DEF Closed, Start, Cancel, vars, ledger
  <2>4. CASE Crash
    BY <2>4 DEF Closed, Crash, Exited
  <2> QED BY <2>1, <2>2, <2>3, <2>4 DEF Next
<1> QED BY <1>1, <1>2, AlwaysKnown, PTL DEF Spec

\* Run uses the ledger only in ways the ledger allows: whatever the workers, a
\* signal and a crash do, a mark always names the file of the worker, one of the
\* run (MarkSuccess and MarkFailed, jobstate.go:148-161, take any string).
THEOREM PipelineUsesLedger == Spec => Ledger!LedgerSpec
<1> USE DEF ledger, Ledger!LedgerNext, Ledger!ledgerVars
<1>1. Init => Ledger!LedgerInit
  BY DEF Init
<1>2. Known /\ [Next]_vars => [Ledger!LedgerNext]_(Ledger!ledgerVars)
  <2> SUFFICES ASSUME Known, [Next]_vars
               PROVE  Ledger!LedgerNext \/ UNCHANGED Ledger!ledgerVars
    OBVIOUS
  <2>1. CASE \E w \in Workers : WorkerStep(w)
    <3>1. PICK w \in Workers : WorkerStep(w)
      BY <2>1
    <3>2. CASE Mark(w)
      <4>1. wjob[w] \in Files
        BY <3>2, BusyWorker DEF Mark, Known, WInv
      <4>2. Outcome(w) \in Ledger!Status
        BY DEF Outcome, Ledger!Status
      <4> QED BY <3>2, <4>1, <4>2 DEF Mark
    <3>3. CASE ~Mark(w)
      BY <3>1, <3>3 DEF WorkerStep, Receive, CheckContext, Parse, Translate, Create, Write,
                        Count
    <3> QED BY <3>2, <3>3
  <2>2. CASE MainStep
    <3>1. CASE Load
      BY <3>1 DEF Load
    <3>2. CASE Cleanup
      BY <3>2 DEF Cleanup
    <3>3. CASE DeleteSome
      BY <3>3 DEF DeleteSome
    <3>4. CASE DeleteRest
      BY <3>4 DEF DeleteRest
    <3>5. CASE Scan \/ Resume \/ Wait
      BY <3>5 DEF Scan, Resume, Wait
    <3>6. CASE Report
      BY <3>6 DEF Report, Exited
    <3> QED BY <2>2, <3>1, <3>2, <3>3, <3>4, <3>5, <3>6 DEF MainStep
  <2>3. CASE (\E o \in Options : Start(o)) \/ Cancel \/ UNCHANGED vars
    BY <2>3 DEF Start, Cancel, vars
  <2>4. CASE Crash
    BY <2>4 DEF Crash, Exited
  <2> QED BY <2>1, <2>2, <2>3, <2>4 DEF Next
<1> QED BY <1>1, <1>2, AlwaysKnown, PTL DEF Spec, Ledger!LedgerSpec

=============================================================================
