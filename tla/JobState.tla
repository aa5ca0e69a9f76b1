------------------------------ MODULE JobState ------------------------------
(***************************************************************************)
(* internal/jobstate/jobstate.go: a map path -> status backed by a JSON    *)
(* snapshot and an append-only log (the WAL).  One State lives in one      *)
(* process; its mutex makes IsDone, MarkSuccess, MarkFailed and Close one  *)
(* step each.  Compact and Delete make several system calls under that     *)
(* mutex, so nothing else of the State interleaves with them, but the      *)
(* process can stop between any two of the calls.                          *)
(*                                                                         *)
(* The bytes of the two files are abstracted to what Load reads from them: *)
(* a snapshot is the table loadSnapshot returns (absent, unparsable and    *)
(* empty files are the same table, and so are the old and the new format), *)
(* the log is the sequence of its well-formed lines.  Failing system calls *)
(* and torn lines are in JobStateFaults, except for the one failure Load   *)
(* swallows: not being able to open the log.                               *)
(***************************************************************************)
EXTENDS Integers, Sequences

CONSTANTS Files,    \* source paths
          None,     \* a path the table does not mention
          MaxWal    \* bound: lines the log may hold

Status == {"success", "failed"}

ASSUME NoneAssumption == None \notin Status
ASSUME MaxWalAssumption == MaxWal \in Nat

\* One log line (walEntry).
Line == [path : Files, status : Status]

\* The contents of State.entries, and of a snapshot.
Table == [Files -> Status \cup {None}]
NoEntries == [f \in Files |-> None]

VARIABLES
  pc,        \* "down", "idle", or the next system call of Compact or Delete
  entries,   \* State.entries
  walFile,   \* State.walFile: "open" or "nil"
  snapshot,  \* the table stored at State.path
  wal        \* the lines stored at State.path + ".wal"

vars == <<pc, entries, walFile, snapshot, wal>>

-----------------------------------------------------------------------------
(* Replaying a log.  The code assigns the lines in order; the outcome is    *)
(* that the last line about a path decides, or the table below if none is.  *)

Mentions(w, f) == {i \in DOMAIN w : w[i].path = f}

IsLastMention(w, f, i) ==
  /\ i \in Mentions(w, f)
  /\ \A j \in Mentions(w, f) : j <= i

LastStatus(w, f) == w[CHOOSE i \in Mentions(w, f) : IsLastMention(w, f, i)].status

\* Mutant: the first line about a path decides.
ReplayFirstWins(base, w) ==
  [f \in Files |->
     IF Mentions(w, f) = {} THEN base[f]
     ELSE w[CHOOSE i \in Mentions(w, f) : \A j \in Mentions(w, f) : i <= j].status]

Replay(base, w) ==
  [f \in Files |-> IF Mentions(w, f) = {} THEN base[f] ELSE LastStatus(w, f)]

\* What the next Load would put into entries.
Recovered == Replay(snapshot, wal)

\* Mutant: only successes reach the log.
AppendSuccessOnly(w, f, s) ==
  IF s = "success" THEN Append(w, [path |-> f, status |-> s]) ELSE w

\* Mutant: the two fields of the line are swapped.
AppendSwapped(w, f, s) == Append(w, [path |-> s, status |-> f])

\* appendWALLocked, on an open handle.
AppendLine(w, f, s) == Append(w, [path |-> f, status |-> s])

-----------------------------------------------------------------------------
Init ==
  /\ pc = "down"
  /\ entries = NoEntries
  /\ walFile = "nil"
  /\ snapshot \in Table
  /\ wal = <<>>

\* Load: snapshot, then the log on top, then the log is opened for appending.
\* A failure to open it is dropped: Load still returns a nil error.
Load ==
  /\ pc = "down"
  /\ entries' = Replay(snapshot, wal)
  /\ walFile' \in {"open", "nil"}
  /\ pc' = "idle"
  /\ UNCHANGED <<snapshot, wal>>

\* IsDone: what --resume skips.
IsDone(f) == entries[f] = "success"

\* MarkSuccess and MarkFailed: the map first, then the log, under one lock.
Mark(f, s) ==
  /\ pc = "idle"
  /\ entries' = [entries EXCEPT ![f] = s]
  /\ \/ /\ walFile = "open"
        /\ Len(wal) < MaxWal
        /\ wal' = AppendLine(wal, f, s)
     \/ /\ walFile = "nil"
        /\ wal' = wal
  /\ UNCHANGED <<pc, walFile, snapshot>>

Close ==
  /\ pc = "idle"
  /\ walFile = "open"
  /\ walFile' = "nil"
  /\ UNCHANGED <<pc, entries, snapshot, wal>>

\* Mutant: the snapshot is rewritten in place, which empties it first.
CompactTmpInPlace ==
  /\ pc = "idle"
  /\ pc' = "compact_rename"
  /\ snapshot' = NoEntries
  /\ UNCHANGED <<entries, walFile, wal>>

\* Compact writes its table to State.path + ".tmp", which Load never reads.
CompactTmp ==
  /\ pc = "idle"
  /\ pc' = "compact_rename"
  /\ UNCHANGED <<entries, walFile, snapshot, wal>>

CompactRename ==
  /\ pc = "compact_rename"
  /\ snapshot' = entries
  /\ pc' = "compact_close"
  /\ UNCHANGED <<entries, walFile, wal>>

CompactClose ==
  /\ pc = "compact_close"
  /\ walFile' = "nil"
  /\ pc' = "compact_remove"
  /\ UNCHANGED <<entries, snapshot, wal>>

CompactRemove ==
  /\ pc = "compact_remove"
  /\ wal' = <<>>
  /\ pc' = "idle"
  /\ UNCHANGED <<entries, walFile, snapshot>>

DeleteClose ==
  /\ pc = "idle"
  /\ walFile' = "nil"
  /\ pc' = "delete_snapshot"
  /\ UNCHANGED <<entries, snapshot, wal>>

\* Mutant: the log goes first, so an old snapshot speaks again.
DeleteLogFirst ==
  /\ pc = "delete_snapshot"
  /\ wal' = <<>>
  /\ pc' = "delete_wal"
  /\ UNCHANGED <<entries, walFile, snapshot>>

DeleteSnapshot ==
  /\ pc = "delete_snapshot"
  /\ snapshot' = NoEntries
  /\ pc' = "delete_wal"
  /\ UNCHANGED <<entries, walFile, wal>>

DeleteWal ==
  /\ pc = "delete_wal"
  /\ wal' = <<>>
  /\ pc' = "idle"
  /\ UNCHANGED <<entries, walFile, snapshot>>

\* The process ends: at exit, or in the middle of Compact or Delete.
Stop ==
  /\ pc # "down"
  /\ pc' = "down"
  /\ entries' = NoEntries
  /\ walFile' = "nil"
  /\ UNCHANGED <<snapshot, wal>>

Next ==
  \/ Load
  \/ \E f \in Files, s \in Status : Mark(f, s)
  \/ Close
  \/ CompactTmp \/ CompactRename \/ CompactClose \/ CompactRemove
  \/ DeleteClose \/ DeleteSnapshot \/ DeleteWal
  \/ Stop

Spec == Init /\ [][Next]_vars

-----------------------------------------------------------------------------
(* Properties *)

TypeOK ==
  /\ pc \in {"down", "idle", "compact_rename", "compact_close", "compact_remove",
             "delete_snapshot", "delete_wal"}
  /\ entries \in Table
  /\ walFile \in {"open", "nil"}
  /\ snapshot \in Table
  /\ wal \in Seq(Line)
  /\ Len(wal) <= MaxWal

\* As long as the log is open, stopping the process at any moment, also in the
\* middle of Compact, loses nothing: a Load would rebuild the very table the
\* process has in memory (jobstate.go, Load against MarkSuccess/MarkFailed).
NothingLostWhileOpen == walFile = "open" => Recovered = entries

\* Why the above survives Compact and Delete: which file holds what between
\* two of their system calls.
PhaseOK ==
  /\ pc = "down" => walFile = "nil" /\ entries = NoEntries
  /\ pc \in {"compact_close", "compact_remove"} => snapshot = entries
  /\ pc \in {"compact_remove", "delete_snapshot", "delete_wal"} => walFile = "nil"
  /\ pc = "delete_wal" => snapshot = NoEntries

\* The inductive invariant.
IInv == TypeOK /\ PhaseOK /\ NothingLostWhileOpen

\* Snapshot and log together implement the ledger: no step, crash or partial
\* Compact or Delete ever brings back a status that was overwritten.
Ledger == INSTANCE ResumeLedger
            WITH live <- entries, durable <- Recovered, attached <- (walFile = "open")

ImplementsLedger == Ledger!LedgerSpec

=============================================================================
