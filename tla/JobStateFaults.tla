--------------------------- MODULE JobStateFaults ---------------------------
(***************************************************************************)
(* JobState with the failures its error paths are about: reads, writes,    *)
(* renames and removals that fail, and log lines that are only partly on   *)
(* disk, because the write was short or the machine stopped during it.     *)
(*                                                                         *)
(* A partly written line is the tail of the log.  The handle is opened     *)
(* with O_APPEND and nothing repairs the tail, so the next line is glued   *)
(* to it; the glued line does not parse and replayWAL skips it whole.      *)
(***************************************************************************)
EXTENDS JobState

ASSUME NonePathAssumption == None \notin Files

VARIABLES
  tail,      \* what follows the last newline of the log
  damaged    \* history: paths whose record a failure may have cost

faultVars == <<pc, entries, walFile, snapshot, wal, tail, damaged>>

JunkLine == [path |-> None, status |-> None]

NoTail == <<>>
JunkTail == <<JunkLine>>
TailTypes == {NoTail, JunkTail} \cup {<<line>> : line \in Line}

\* A tail that is a whole line without its newline still parses at the end of
\* the file.
ReadableWal == IF tail = JunkTail THEN wal ELSE wal \o tail
RecoveredNow == Replay(snapshot, ReadableWal)

TailPaths == {tail[i].path : i \in DOMAIN tail} \ {None}

-----------------------------------------------------------------------------
FaultInit == Init /\ tail = NoTail /\ damaged = {}

FaultLoad ==
  /\ pc = "down"
  /\ entries' = RecoveredNow
  /\ walFile' \in {"open", "nil"}
  /\ pc' = "idle"
  /\ damaged' = {}
  /\ UNCHANGED <<snapshot, wal, tail>>

\* loadSnapshot fails: Load returns an empty State, with an error the
\* orchestrator only logs, and never looks at the log.
LoadUnreadable ==
  /\ pc = "down"
  /\ entries' = NoEntries
  /\ walFile' = "nil"
  /\ pc' = "idle"
  /\ damaged' = Files
  /\ UNCHANGED <<snapshot, wal, tail>>

\* What quarantining a log read up to line n costs: the lines that were applied
\* live in memory only, the rest is not even there.
QuarantineCost(n) == {ReadableWal[i].path : i \in DOMAIN ReadableWal}

\* replayWAL stops with an error after n lines (a read error, or a line longer
\* than the scanner's buffer).  Those lines stay applied; the file is set aside
\* as .corrupt and a new log is started.
LoadQuarantine(n) ==
  /\ pc = "down"
  /\ n \in 0..Len(ReadableWal)
  /\ entries' = Replay(snapshot, SubSeq(ReadableWal, 1, n))
  /\ damaged' = QuarantineCost(n)
  /\ \/ wal' = <<>> /\ tail' = NoTail
     \/ UNCHANGED <<wal, tail>>       \* the rename fails, also ignored
  /\ walFile' \in {"open", "nil"}
  /\ pc' = "idle"
  /\ UNCHANGED snapshot

\* A glued line costs the record it carries and the one it is glued to.
GluedCost(f) == damaged \cup {f} \cup TailPaths

\* A mark whose write succeeds.
FaultMark(f, s) ==
  \/ /\ tail = NoTail \/ walFile = "nil"
     /\ Mark(f, s)
     /\ damaged' = damaged \ {f}
     /\ UNCHANGED tail
  \/ /\ pc = "idle"
     /\ tail # NoTail
     /\ walFile = "open"
     /\ entries' = [entries EXCEPT ![f] = s]
     /\ damaged' = GluedCost(f)
     /\ tail' = NoTail
     /\ UNCHANGED <<pc, walFile, snapshot, wal>>

\* What a write that stops early leaves at the end of the log: nothing more
\* than before, an unparsable piece, or the line without its newline.
TornTails(f, s) ==
  IF tail = NoTail THEN {NoTail, JunkTail, <<[path |-> f, status |-> s]>>}
  ELSE {tail, JunkTail}

\* The record is lost, and with it the one whose newline was still missing.
TornCost(f) == damaged \cup {f} \cup TailPaths

\* A mark whose write fails or is short: Write returns an error, which the
\* orchestrator ignores.
TornMark(f, s) ==
  /\ pc = "idle"
  /\ walFile = "open"
  /\ entries' = [entries EXCEPT ![f] = s]
  /\ tail' \in TornTails(f, s)
  /\ damaged' = TornCost(f)
  /\ UNCHANGED <<pc, walFile, snapshot, wal>>

\* The machine stops in the middle of that write.
TornStop(f, s) ==
  /\ pc = "idle"
  /\ walFile = "open"
  /\ tail' \in TornTails(f, s)
  /\ pc' = "down" /\ entries' = NoEntries /\ walFile' = "nil" /\ damaged' = {}
  /\ UNCHANGED <<snapshot, wal>>

\* WriteFile or Rename fails: Compact returns the error before it has touched
\* the handle or the log.
CompactFails ==
  /\ pc = "compact_rename"
  /\ pc' = "idle"
  /\ UNCHANGED <<entries, walFile, snapshot, wal, tail, damaged>>

\* Removing the log fails; Compact drops that error, Delete returns it.
RemoveWalFails ==
  /\ pc \in {"compact_remove", "delete_wal"}
  /\ pc' = "idle"
  /\ UNCHANGED <<entries, walFile, snapshot, wal, tail, damaged>>

\* Removing the snapshot fails; Delete still removes the log.
RemoveSnapshotFails ==
  /\ pc = "delete_snapshot"
  /\ pc' = "delete_wal"
  /\ UNCHANGED <<entries, walFile, snapshot, wal, tail, damaged>>

RemoveWal ==
  /\ CompactRemove \/ DeleteWal
  /\ tail' = NoTail
  /\ UNCHANGED damaged

FaultStop == Stop /\ damaged' = {} /\ UNCHANGED tail

FaultNext ==
  \/ FaultLoad
  \/ LoadUnreadable
  \/ \E n \in 0..MaxWal+1 : LoadQuarantine(n)
  \/ \E f \in Files, s \in Status : FaultMark(f, s) \/ TornMark(f, s) \/ TornStop(f, s)
  \/ /\ Close \/ CompactTmp \/ CompactRename \/ CompactClose
        \/ DeleteClose \/ DeleteSnapshot
     /\ UNCHANGED <<tail, damaged>>
  \/ RemoveWal
  \/ CompactFails \/ RemoveWalFails \/ RemoveSnapshotFails
  \/ FaultStop

FaultSpec == FaultInit /\ [][FaultNext]_faultVars

-----------------------------------------------------------------------------
(* Properties *)

FaultTypeOK ==
  /\ TypeOK
  /\ tail \in TailTypes
  /\ damaged \subseteq Files

\* How far a failure reaches: a torn line costs its own record, the record
\* glued to it and the one before it whose newline was missing, and a later
\* clean mark of the same path repairs it.  Every other path is read back as
\* the process has it (appendWALLocked and replayWAL, with torn writes).
DamageConfined ==
  walFile = "open" => \A f \in Files \ damaged : RecoveredNow[f] = entries[f]

\* jobstate.go:2: the package "persists per-file status" - a mark on an open
\* log that returned no error is read back by the next Load.
NilErrorMeansPersisted ==
  [][\A f \in Files, s \in Status :
       FaultMark(f, s) /\ walFile = "open" => RecoveredNow'[f] = s]_faultVars

=============================================================================
