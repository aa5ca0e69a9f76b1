---------------------------- MODULE ResumeLedger ----------------------------
(***************************************************************************)
(* What internal/jobstate promises its only caller, the orchestrator:      *)
(* a durable table (path -> last recorded status) that the next process    *)
(* reads, kept in step with the live table of the current process.         *)
(*                                                                         *)
(* The promise is about staleness.  Whatever the implementation does with  *)
(* its snapshot and its log, and wherever the process stops, the durable   *)
(* status of a file only ever becomes the live one or disappears: a status *)
(* that was overwritten never comes back.                                  *)
(***************************************************************************)
CONSTANTS Files,    \* source paths the ledger can mention
          None      \* no status: the file is not in the table

Status == {"success", "failed"}

Table == [Files -> Status \cup {None}]
NoEntries == [f \in Files |-> None]

VARIABLES live,      \* the table of the running process
          durable,   \* the table the next process would read
          attached   \* whether a mark also reaches the disk

ledgerVars == <<live, durable, attached>>

LedgerInit ==
  /\ live = NoEntries
  /\ durable \in Table
  /\ attached = FALSE

\* A new process reads the durable table; it may fail to attach to the log.
Open ==
  /\ live' = durable
  /\ attached' \in BOOLEAN
  /\ UNCHANGED durable

\* A status is recorded: on disk too when attached, otherwise only in memory.
Record(f, s) ==
  /\ live' = [live EXCEPT ![f] = s]
  /\ durable' = IF attached THEN [durable EXCEPT ![f] = s] ELSE durable
  /\ UNCHANGED attached

\* Statuses recorded while detached reach the disk late.
CatchUp(S) ==
  /\ durable' = [f \in Files |-> IF f \in S THEN live[f] ELSE durable[f]]
  /\ UNCHANGED <<live, attached>>

\* The log handle goes away; nothing on disk moves.
Detach ==
  /\ attached' = FALSE
  /\ UNCHANGED <<live, durable>>

\* Durable statuses are dropped, never rewritten.
Forget(S) ==
  /\ ~attached
  /\ durable' = [f \in Files |-> IF f \in S THEN None ELSE durable[f]]
  /\ UNCHANGED <<live, attached>>

\* The process stops.
Stop ==
  /\ live' = NoEntries
  /\ attached' = FALSE
  /\ UNCHANGED durable

LedgerNext ==
  \/ Open
  \/ \E f \in Files, s \in Status : Record(f, s)
  \/ \E S \in SUBSET Files : CatchUp(S)
  \/ Detach
  \/ \E S \in SUBSET Files : Forget(S)
  \/ Stop

LedgerSpec == LedgerInit /\ [][LedgerNext]_ledgerVars

=============================================================================
