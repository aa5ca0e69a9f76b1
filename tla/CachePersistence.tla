-------------------------- MODULE CachePersistence --------------------------
(***************************************************************************)
(* internal/translator/cache_persist.go with Put of cache.go, as Run uses  *)
(* them: workers Put translations, each in two separately locked steps     *)
(* (the shard, then the log); a flusher goroutine calls Save every five    *)
(* minutes; after the workers are done Run closes the flusher's channel,   *)
(* without waiting for it, and calls Save itself.  The process can stop    *)
(* anywhere, and the next one Loads snapshot and log.                      *)
(*                                                                         *)
(* A translation is taken to depend on its text only, so the cache, the    *)
(* snapshot and the log are the sets of keys they hold; which entry a full *)
(* shard evicts is left open.  Save's temporary file has one fixed name:   *)
(* what a file descriptor refers to is tracked across the renames, because *)
(* two Saves can have that file open at once.                              *)
(***************************************************************************)
EXTENDS Integers, FiniteSets

CONSTANTS
  Keys,
  Shards, ShardOf,      \* shards, and the shard of each key (shardFor)
  Capacity,             \* entries a shard may hold
  Workers,
  Flusher, Main         \* the two callers of Save

ASSUME CacheAssumption ==
  /\ Shards \subseteq Nat
  /\ ShardOf \in [Keys -> Shards]
  /\ Capacity \in Nat \ {0}
  /\ Flusher # Main

Savers == {Flusher, Main}

\* What a reader finds under a name.
Absent == [kind |-> "absent", keys |-> {}]
Torn == [kind |-> "torn", keys |-> {}]
Whole(S) == [kind |-> "whole", keys |-> S]
Contents == {Absent, Torn} \cup {Whole(S) : S \in SUBSET Keys}

VARIABLES
  snapshot, tmp, wal,   \* the files: path, path.tmp, path.wal
  cut,                  \* whether the log ends in a line without its newline
  mem,                  \* the entries of all shards
  walFile,              \* Cache.walFile: "open" or "nil"
  phase,                \* "off", "run", or "final" when the workers are done
  pending,              \* per worker: the key it has yet to append, as a set
  spc,                  \* per saver: its next step in Save
  left,                 \* per saver: shards it has yet to collect
  shot,                 \* per saver: the entries it has collected
  fd,                   \* per saver: the name its temporary file has now
  exposed,              \* history: keys a crash may cost, see Append
  overlapped            \* history: whether two Saves of this process overlapped

files == <<snapshot, tmp, wal, cut>>
saving == <<spc, left, shot, fd>>
vars == <<snapshot, tmp, wal, cut, mem, walFile, phase, pending, spc, left, shot, fd, exposed,
          overlapped>>

SaversIdle ==
  /\ spc = [s \in Savers |-> "idle"]
  /\ left = [s \in Savers |-> {}]
  /\ shot = [s \in Savers |-> {}]
  /\ fd = [s \in Savers |-> "none"]

Init ==
  /\ snapshot = Absent /\ tmp = Absent /\ wal = {} /\ cut = FALSE
  /\ mem = {} /\ walFile = "nil" /\ phase = "off"
  /\ pending = [w \in Workers |-> {}]
  /\ SaversIdle
  /\ exposed = {} /\ overlapped = FALSE

\* The keys Load finds: a torn snapshot does not parse and is set aside.
Recoverable == snapshot.keys \cup wal

-----------------------------------------------------------------------------
InShard(S, i) == {k \in S : ShardOf[k] = i}

\* What fits of S: every shard is filled up to its capacity.
Fits(S) ==
  {M \in SUBSET S : \A i \in Shards :
     LET n == Cardinality(InShard(S, i))
     IN  Cardinality(InShard(M, i)) = IF n <= Capacity THEN n ELSE Capacity}

\* Load: snapshot and log are read and the log is opened for appending.  A log
\* the scanner gives up on (a line beyond its buffer) is set aside, whatever was
\* replayed of it until then stays in memory only.
Load ==
  /\ phase = "off"
  /\ phase' = "run"
  /\ snapshot' = IF snapshot = Torn THEN Absent ELSE snapshot
  /\ \/ mem' \in Fits(Recoverable) /\ exposed' = {} /\ UNCHANGED <<wal, cut>>
     \/ /\ \E replayed \in SUBSET wal : mem' \in Fits(snapshot.keys \cup replayed)
        /\ wal # {}
        /\ wal' = {} /\ cut' = FALSE
        /\ exposed' = mem' \ snapshot.keys
  /\ walFile' \in {"open", "nil"}
  /\ UNCHANGED <<tmp, pending, saving, overlapped>>

\* The snapshot cannot be read: Load gives up and Run goes on with an empty
\* cache and no log.
LoadFails ==
  /\ phase = "off"
  /\ snapshot # Absent
  /\ phase' = "run"
  /\ UNCHANGED <<files, mem, walFile, pending, saving, exposed, overlapped>>

\* The entries after a key was pushed to the front of its shard: a full shard
\* gives up one other entry.
Pushed(k) ==
  LET new == InShard(mem \cup {k}, ShardOf[k])
  IN  IF Cardinality(new) <= Capacity THEN {mem \cup {k}}
      ELSE {(mem \cup {k}) \ {old} : old \in new \ {k}}

\* Put, under the shard's lock.
Put(w, k) ==
  /\ phase = "run"
  /\ pending[w] = {}
  /\ pending' = [pending EXCEPT ![w] = {k}]
  /\ mem' \in Pushed(k)
  /\ UNCHANGED <<files, walFile, phase, saving, exposed, overlapped>>

\* Get of an entry older than the TTL removes it; any other Get changes nothing.
Expire(k) ==
  /\ phase = "run"
  /\ k \in mem
  /\ mem' = mem \ {k}
  /\ UNCHANGED <<files, walFile, phase, pending, saving, exposed, overlapped>>

\* A Save that will truncate the log but has passed the key's shard before the
\* key got there.
Passed(s, k) ==
  /\ spc[s] \in {"collect", "open", "write", "rename", "truncate"}
  /\ ShardOf[k] \notin left[s]
  /\ k \notin shot[s]

\* Mutant: the line is not written.
AppendNothing(k) == wal

Appended(k) == IF walFile = "open" /\ ~cut THEN wal \cup {k} ELSE wal

\* Put, after the shard's lock is released: appendWAL under walMu.  A line glued
\* to one that was cut short is unreadable, but ends it.  The key is exposed if
\* it was not written so, or if a Save that missed it is on its way to truncate
\* the log.
Append(w) ==
  /\ \E k \in pending[w] :
       /\ wal' = Appended(k)
       /\ exposed' = IF walFile = "nil" \/ cut \/ \E s \in Savers : Passed(s, k)
                     THEN exposed \cup {k} ELSE exposed \ {k}
  /\ cut' = (cut /\ walFile = "nil")
  /\ pending' = [pending EXCEPT ![w] = {}]
  /\ UNCHANGED <<snapshot, tmp, mem, walFile, phase, saving, overlapped>>

\* The write fails, perhaps halfway; appendWAL ignores it.
AppendFails(w) ==
  /\ walFile = "open"
  /\ pending[w] # {}
  /\ exposed' = exposed \cup pending[w]
  /\ cut' \in {cut, TRUE}
  /\ pending' = [pending EXCEPT ![w] = {}]
  /\ UNCHANGED <<snapshot, tmp, wal, mem, walFile, phase, saving, overlapped>>

\* wg.Wait returns: no worker is inside Put any more.
WorkersDone ==
  /\ phase = "run"
  /\ \A w \in Workers : pending[w] = {}
  /\ phase' = "final"
  /\ UNCHANGED <<files, mem, walFile, pending, saving, exposed, overlapped>>

-----------------------------------------------------------------------------
(* Save *)

Step(s, pc) == spc' = [spc EXCEPT ![s] = pc]

\* The flusher's select may take a tick although its channel is closed by now.
MayStart(s) == phase = "final" \/ (s = Flusher /\ phase = "run")

\* Its snapshot is not in place yet.
Unsettled(s) == spc[s] \in {"collect", "open", "write", "rename"}

StartSave(s) ==
  /\ MayStart(s)
  /\ spc[s] = "idle"
  /\ overlapped' = (overlapped \/ \E other \in Savers : Unsettled(other))
  /\ Step(s, "collect")
  /\ left' = [left EXCEPT ![s] = Shards]
  /\ shot' = [shot EXCEPT ![s] = {}]
  /\ UNCHANGED <<files, mem, walFile, phase, pending, fd, exposed>>

\* One shard after the other, each under its own lock.
CollectShard(s, i) ==
  /\ spc[s] = "collect"
  /\ i \in left[s] /\ \A j \in left[s] : i <= j
  /\ left' = [left EXCEPT ![s] = @ \ {i}]
  /\ shot' = [shot EXCEPT ![s] = @ \cup {k \in mem : ShardOf[k] = i}]
  /\ IF left'[s] = {} THEN Step(s, "open") ELSE UNCHANGED spc
  /\ UNCHANGED <<files, mem, walFile, phase, pending, fd, exposed, overlapped>>

\* Mutant: the snapshot is rewritten in place.
OpenInPlace(s) ==
  /\ spc[s] = "open"
  /\ snapshot' = Torn
  /\ fd' = [fd EXCEPT ![s] = "snapshot"]
  /\ Step(s, "write")
  /\ UNCHANGED <<tmp, wal, cut, mem, walFile, phase, pending, left, shot, exposed, overlapped>>

\* os.WriteFile(tmp): open with O_TRUNC, then write.
OpenTmp(s) ==
  /\ spc[s] = "open"
  /\ tmp' = Torn
  /\ fd' = [fd EXCEPT ![s] = "tmp"]
  /\ Step(s, "write")
  /\ UNCHANGED <<snapshot, wal, cut, mem, walFile, phase, pending, left, shot, exposed,
                 overlapped>>

\* Written over what another Save wrote to the same file, the result is only
\* whole if this content is not the shorter one.
Written(old, S) == IF old = Torn THEN {Whole(S)} ELSE {Whole(S), Torn}

WriteTmp(s) ==
  /\ spc[s] = "write"
  /\ \/ fd[s] = "tmp" /\ tmp' \in Written(tmp, shot[s]) /\ UNCHANGED snapshot
     \/ fd[s] = "snapshot" /\ snapshot' \in Written(snapshot, shot[s]) /\ UNCHANGED tmp
     \/ fd[s] = "replaced" /\ UNCHANGED <<snapshot, tmp>>
  /\ fd' = [fd EXCEPT ![s] = "none"]
  /\ Step(s, "rename")
  /\ UNCHANGED <<wal, cut, mem, walFile, phase, pending, left, shot, exposed, overlapped>>

\* Renaming the file moves it under every descriptor that has it open.
Moved(s) ==
  [v \in Savers |-> CASE fd[v] = "tmp" -> "snapshot"
                      [] fd[v] = "snapshot" -> "replaced"
                      [] OTHER -> fd[v]]

\* Mutant: the log is truncated before the rename.
RenameAfterTruncate(s) ==
  /\ spc[s] = "rename"
  /\ wal' = {}
  /\ Step(s, "truncate")
  /\ UNCHANGED <<snapshot, tmp, cut, fd, mem, walFile, phase, pending, left, shot, exposed,
                 overlapped>>

Rename(s) ==
  /\ spc[s] = "rename"
  /\ tmp # Absent
  /\ snapshot' = tmp
  /\ tmp' = Absent
  /\ fd' = Moved(s)
  /\ Step(s, "truncate")
  /\ UNCHANGED <<wal, cut, mem, walFile, phase, pending, left, shot, exposed, overlapped>>

\* WriteFile or Rename returns an error (the latter also when another Save has
\* renamed the file away): Save gives up and leaves the log alone.
SaveFails(s) ==
  /\ spc[s] \in {"open", "write", "rename"}
  /\ fd' = [fd EXCEPT ![s] = "none"]
  /\ Step(s, "failed")
  /\ UNCHANGED <<files, mem, walFile, phase, pending, left, shot, exposed, overlapped>>

\* The log's handle is closed and the log reopened with O_TRUNC, under walMu; if
\* that fails the log stays as it is, without a handle.
Truncate(s) ==
  /\ spc[s] = "truncate"
  /\ \/ walFile' = "open" /\ wal' = {} /\ cut' = FALSE
     \/ walFile' = "nil" /\ UNCHANGED <<wal, cut>>
  /\ Step(s, "saved")
  /\ exposed' = exposed \ shot[s]
  /\ UNCHANGED <<snapshot, tmp, mem, phase, pending, left, shot, fd, overlapped>>

\* Save returns; the flusher goes back to its select.
SaveReturns(s) ==
  /\ s = Flusher
  /\ spc[s] \in {"saved", "failed"}
  /\ Step(s, "idle")
  /\ shot' = [shot EXCEPT ![s] = {}]
  /\ UNCHANGED <<files, mem, walFile, phase, pending, left, fd, exposed, overlapped>>

\* The process ends: normally once Run's own Save has returned, or anywhere.  A
\* temporary file it leaves is opened with O_TRUNC before anything else is done
\* with it, which is as good as none.
Stop ==
  /\ phase # "off"
  /\ phase' = "off"
  /\ mem' = {} /\ walFile' = "nil" /\ exposed' = {} /\ overlapped' = FALSE
  /\ pending' = [w \in Workers |-> {}]
  /\ spc' = [s \in Savers |-> "idle"]
  /\ left' = [s \in Savers |-> {}]
  /\ shot' = [s \in Savers |-> {}]
  /\ fd' = [s \in Savers |-> "none"]
  /\ cut' \in {cut, cut \/ (walFile = "open" /\ \E w \in Workers : pending[w] # {})}
  /\ tmp' = Absent
  /\ UNCHANGED <<snapshot, wal>>

Save(s) ==
  \/ StartSave(s) \/ \E i \in Shards : CollectShard(s, i)
  \/ OpenTmp(s) \/ WriteTmp(s) \/ Rename(s) \/ SaveFails(s)
  \/ Truncate(s) \/ SaveReturns(s)

Next ==
  \/ Load \/ LoadFails
  \/ \E w \in Workers : (\E k \in Keys : Put(w, k)) \/ Append(w) \/ AppendFails(w)
  \/ \E k \in Keys : Expire(k)
  \/ WorkersDone
  \/ \E s \in Savers : Save(s)
  \/ Stop

Spec == Init /\ [][Next]_vars

-----------------------------------------------------------------------------
(* Properties *)

TypeOK ==
  /\ snapshot \in Contents /\ tmp \in Contents
  /\ wal \subseteq Keys /\ mem \subseteq Keys /\ exposed \subseteq Keys
  /\ \A i \in Shards : Cardinality(InShard(mem, i)) <= Capacity
  /\ cut \in BOOLEAN /\ overlapped \in BOOLEAN
  /\ walFile \in {"open", "nil"} /\ phase \in {"off", "run", "final"}
  /\ pending \in [Workers -> SUBSET Keys]
  /\ spc \in [Savers -> {"idle", "collect", "open", "write", "rename", "truncate",
                         "saved", "failed"}]
  /\ left \in [Savers -> SUBSET Shards] /\ shot \in [Savers -> SUBSET Keys]
  /\ fd \in [Savers -> {"none", "tmp", "snapshot", "replaced"}]

Pending == UNION {pending[w] : w \in Workers}

\* cache_persist.go:164: Save writes the entries "atomically (write to temp file
\* then rename)": whoever stops whenever, the snapshot is whole or absent.
SnapshotIsWhole == snapshot # Torn

\* That much is true of it: whoever stops and whatever fails, only two Saves that
\* overlap (orchestrator.go:219 does not wait for the flusher's) tear a snapshot.
TornOnlyByOverlap == [][snapshot' = Torn => snapshot = Torn \/ overlapped]_vars

\* The entries a stop can cost are confined to the window of a Save: unless two
\* Saves overlapped, an entry whose Put has returned is recovered, but for one
\* whose line went to the log behind the back of a Save that was about to
\* truncate it, or to no log.
LossConfined ==
  phase # "off" /\ ~overlapped => mem \ (Pending \cup exposed) \subseteq Recoverable

\* When Run's own Save has returned without error, everything is on disk and
\* stays there, unless the flusher's Save overlapped it: that one can put its
\* older snapshot in the place of Run's when the log is empty.
FinalSaveIsComplete == spc[Main] = "saved" /\ ~overlapped => mem \subseteq Recoverable

=============================================================================
