-------------------------- MODULE TranslationCache --------------------------
(***************************************************************************)
(* The translation cache with its values and its order: cache.go and       *)
(* cache_persist.go.  A shard is its recency list, most recent entry       *)
(* first; the log is the sequence of its lines; Save collects pointers to  *)
(* the entries, which Put goes on rewriting in place, and reads through    *)
(* them when it marshals.                                                  *)
(*                                                                         *)
(* Here no two Saves overlap, Run's own is the last one and no system call *)
(* fails: CachePersistence has those cases, without values and order, and  *)
(* this module implements it.  The code does not keep the Saves apart      *)
(* (orchestrator.go:219), so what is said here holds of the executions in  *)
(* which they happen not to overlap.  The snapshot, a list of all shards   *)
(* one after the other, is kept as one list per shard: Load sorts the      *)
(* entries into their shards again.                                        *)
(***************************************************************************)
EXTENDS Integers, FiniteSets, Sequences, SequencesExt

CONSTANTS
  Keys, Values,
  Answers,              \* per key, the values the server may answer with
  Shards, ShardOf,
  Capacity,
  Workers,
  Flusher, Main,
  Garbage,              \* the text a torn read of a string leaves
  MaxLog                \* bound on the lines of the log

ASSUME TranslationCacheAssumption ==
  /\ Shards \subseteq Nat
  /\ ShardOf \in [Keys -> Shards]
  /\ Capacity \in Nat \ {0}
  /\ MaxLog \in Nat
  /\ Answers \in [Keys -> SUBSET Values]
  /\ Garbage \notin Values
  /\ Flusher # Main

VARIABLES
  shards,               \* the shards' lists
  published,            \* whether the snapshot exists
  snapshot,             \* its lists
  wal,                  \* the entries of the log
  phase,                \* "off", "run", or "final" when the workers are done
  pending,              \* per worker: the entry it has yet to append, if any
  saver, spc,           \* who saves, and the next step of Save
  left,                 \* the shards Save has yet to collect
  shot,                 \* what it has collected, as lists of entries
  linked,               \* keys of which that is still the shard's own entry
  drift,                \* history: how a shard differs from what Load would build
  exposed               \* history: as in CachePersistence

files == <<published, snapshot, wal>>
saving == <<saver, spc, left, shot, linked>>
vars == <<shards, published, snapshot, wal, phase, pending, saver, spc, left, shot, linked,
          drift, exposed>>

Entry(k, v) == [key |-> k, val |-> v]
NoEntries == [i \in Shards |-> <<>>]

Held(l) == {l[n].key : n \in DOMAIN l}
HeldIn(s) == UNION {Held(s[i]) : i \in Shards}

Init ==
  /\ shards = NoEntries
  /\ published = FALSE /\ snapshot = NoEntries /\ wal = <<>>
  /\ phase = "off"
  /\ pending = [w \in Workers |-> <<>>]
  /\ saver = Flusher /\ spc = "idle" /\ left = {}
  /\ shot = NoEntries /\ linked = {}
  /\ drift = [i \in Shards |-> "none"] /\ exposed = {}

-----------------------------------------------------------------------------
(* The lists *)

Trimmed(l) == SubSeq(l, 1, IF Len(l) < Capacity THEN Len(l) ELSE Capacity)

\* shard.data: where in the list the entry of a key is.
At(l, k) == CHOOSE n \in DOMAIN l : l[n].key = k

Without(l, k) == IF k \in Held(l) THEN RemoveAt(l, At(l, k)) ELSE l

\* Put on a shard's list: the entry comes to the front, with the value it has
\* now, and what exceeds the capacity falls off the end.
Pushed(l, e) == Trimmed(<<e>> \o Without(l, e.key))

\* Mutant: a line about a key that is there is not applied.
PutInternalIfAbsent(l, e) == IF e.key \in Held(l) THEN l ELSE Pushed(l, e)

\* putInternal: replayWAL does the same with a line of the log.
PutInternal(l, e) == Pushed(l, e)

\* Mutant: the entries are pushed as they stand in the file.
ReadForward(l) == Reverse(l)

\* loadSnapshot: from the least recent entry on, each is pushed to the front, as
\* long as there is room.
Read(l) == SubSeq(l, IF Len(l) > Capacity THEN Len(l) - Capacity + 1 ELSE 1, Len(l))

\* replayWAL: the lines of the log, each put into its shard.
Replayed(lists, e) == [lists EXCEPT ![ShardOf[e.key]] = PutInternal(@, e)]

Rebuild(s, log) == FoldLeft(Replayed, [i \in Shards |-> Read(s[i])], log)

\* What Load would build from the files as they are.
Rebuilt == Rebuild(snapshot, wal)

-----------------------------------------------------------------------------
(* Get and Put *)

Load ==
  /\ phase = "off"
  /\ phase' = "run"
  /\ shards' = Rebuilt
  /\ UNCHANGED <<files, pending, saving, drift, exposed>>

Drifted(i) == drift' = [drift EXCEPT ![i] = "drifted"]

\* A hit moves the entry to the front; nothing of it goes to the log.
Get(k) ==
  LET i == ShardOf[k]
  IN  /\ phase = "run"
      /\ k \in Held(shards[i]) /\ Head(shards[i]).key # k
      /\ shards' = [shards EXCEPT ![i] = <<@[At(@, k)]>> \o Without(@, k)]
      /\ Drifted(i)
      /\ UNCHANGED <<files, phase, pending, saving, exposed>>

\* A Get that finds the entry too old removes it.
Expire(k) ==
  LET i == ShardOf[k]
  IN  /\ phase = "run"
      /\ k \in Held(shards[i])
      /\ shards' = [shards EXCEPT ![i] = Without(@, k)]
      /\ linked' = linked \ {k}
      /\ Drifted(i)
      /\ UNCHANGED <<files, phase, pending, saver, spc, left, shot, exposed>>

PendingIn(i) == {w \in Workers : pending[w] # <<>> /\ ShardOf[pending[w][1].key] = i}

\* What a collected entry of a shard becomes when its value is rewritten in
\* place.  While json.Marshal reads it that is a data race.
Rewritten(old, v) ==
  {Entry(old.key, x) : x \in IF spc = "marshal" /\ old.val # v THEN {old.val, v, Garbage} ELSE {v}}

\* Put, under the shard's lock.  A second Put in the shard before the first has
\* written its line lets the lines come in another order.
Put(w, k, v) ==
  LET i == ShardOf[k]
  IN  /\ phase = "run"
      /\ pending[w] = <<>>
      /\ shards' = [shards EXCEPT ![i] = Pushed(@, Entry(k, v))]
      /\ pending' = [pending EXCEPT ![w] = <<Entry(k, v)>>]
      /\ IF k \in linked
         THEN \E n \in DOMAIN shot[i] :
                /\ shot[i][n].key = k
                /\ \E e \in Rewritten(shot[i][n], v) : shot' = [shot EXCEPT ![i][n] = e]
         ELSE UNCHANGED shot
      /\ linked' = linked \cap HeldIn(shards')
      /\ IF PendingIn(i) # {} THEN Drifted(i) ELSE UNCHANGED drift
      /\ UNCHANGED <<files, phase, saver, spc, left, exposed>>

\* Save has been at the shard and will truncate the log.
Passed(i) ==
  i \notin left /\ spc \in {"collect", "marshal", "write", "rename", "truncate"}

\* Put, after the lock is released: appendWAL.  The line is lost to a Save that
\* truncates the log and has collected the shard without it at the front.
AppendLine(w) ==
  /\ pending[w] # <<>> /\ Len(wal) < MaxLog
  /\ LET e == pending[w][1]
         i == ShardOf[e.key]
     IN  /\ wal' = wal \o pending[w]
         /\ exposed' = IF Passed(i) /\ e.key \notin Held(shot[i])
                       THEN exposed \cup {e.key} ELSE exposed \ {e.key}
         /\ IF Passed(i) /\ (shot[i] = <<>> \/ Head(shot[i]) # e)
            THEN Drifted(i) ELSE UNCHANGED drift
  /\ pending' = [pending EXCEPT ![w] = <<>>]
  /\ UNCHANGED <<shards, published, snapshot, phase, saving>>

\* wg.Wait returns.  The flusher may be in Save, nothing waits for it.
WorkersDone ==
  /\ phase = "run"
  /\ \A w \in Workers : pending[w] = <<>>
  /\ phase' = "final"
  /\ UNCHANGED <<shards, files, pending, saving, drift, exposed>>

-----------------------------------------------------------------------------
(* Save *)

\* Both callers, with no other Save under way: the scope of this module.
StartSave(s) ==
  /\ spc = "idle"
  /\ phase = "final" \/ (s = Flusher /\ phase = "run")
  /\ saver' = s /\ spc' = "collect" /\ left' = Shards
  /\ shot' = NoEntries /\ linked' = {}
  /\ UNCHANGED <<shards, files, phase, pending, drift, exposed>>

\* The shards in order, each from front to back, under its lock.
CollectShard(i) ==
  /\ spc = "collect"
  /\ i \in left /\ \A j \in left : i <= j
  /\ left' = left \ {i}
  /\ shot' = [shot EXCEPT ![i] = shards[i]]
  /\ linked' = linked \cup Held(shards[i])
  /\ spc' = IF left' = {} THEN "marshal" ELSE "collect"
  /\ drift' = [drift EXCEPT ![i] =
                 IF @ = "drifted" /\ PendingIn(i) = {} THEN "collected" ELSE @]
  /\ UNCHANGED <<shards, files, phase, pending, saver, exposed>>

\* json.Marshal returns and os.WriteFile opens the file with O_TRUNC: from here
\* on the text is fixed.
OpenTmp ==
  /\ spc = "marshal"
  /\ spc' = "write" /\ linked' = {}
  /\ UNCHANGED <<shards, published, snapshot, wal, phase, pending, saver, left, shot,
                 drift, exposed>>

WriteTmp ==
  /\ spc = "write"
  /\ spc' = "rename"
  /\ UNCHANGED <<shards, published, snapshot, wal, phase, pending, saver, left, shot,
                 linked, drift, exposed>>

\* Mutant: the log is emptied before the snapshot is in place.
RenameLast ==
  /\ spc = "rename"
  /\ wal' = <<>>
  /\ spc' = "truncate"
  /\ UNCHANGED <<shards, published, snapshot, phase, pending, saver, left, shot, linked,
                 drift, exposed>>

Rename ==
  /\ spc = "rename"
  /\ published' = TRUE /\ snapshot' = shot
  /\ spc' = "truncate"
  /\ UNCHANGED <<shards, wal, phase, pending, saver, left, shot, linked, drift, exposed>>

\* The log is reopened with O_TRUNC.
Truncate ==
  /\ spc = "truncate"
  /\ wal' = <<>>
  /\ spc' = "saved"
  /\ drift' = [i \in Shards |-> IF drift[i] = "collected" THEN "none" ELSE drift[i]]
  /\ exposed' = exposed \ HeldIn(shot)
  /\ UNCHANGED <<shards, published, snapshot, phase, pending, saver, left, shot, linked>>

\* Save returns; the flusher goes back to its select.
SaveReturns ==
  /\ spc = "saved" /\ saver = Flusher
  /\ spc' = "idle" /\ shot' = NoEntries
  /\ UNCHANGED <<shards, files, phase, pending, saver, left, linked, drift, exposed>>

\* The process ends, at the end of Run or anywhere.
Stop ==
  /\ phase # "off"
  /\ phase' = "off"
  /\ shards' = NoEntries
  /\ pending' = [w \in Workers |-> <<>>]
  /\ saver' = Flusher /\ spc' = "idle" /\ left' = {} /\ shot' = NoEntries /\ linked' = {}
  /\ drift' = [i \in Shards |-> "none"] /\ exposed' = {}
  /\ UNCHANGED files

Save ==
  \/ \E s \in {Flusher, Main} : StartSave(s)
  \/ \E i \in Shards : CollectShard(i)
  \/ OpenTmp \/ WriteTmp \/ Rename \/ Truncate \/ SaveReturns

Next ==
  \/ Load
  \/ \E k \in Keys : Get(k) \/ Expire(k) \/ \E w \in Workers, v \in Answers[k] : Put(w, k, v)
  \/ \E w \in Workers : AppendLine(w)
  \/ WorkersDone
  \/ Save
  \/ Stop

Spec == Init /\ [][Next]_vars

-----------------------------------------------------------------------------
(* Properties *)

Entries == [key : Keys, val : Values \cup {Garbage}]

\* A shard's list names no key twice and does not exceed its capacity.
IsList(l, i) ==
  /\ l \in Seq(Entries) /\ Len(l) <= Capacity
  /\ \A n \in DOMAIN l : ShardOf[l[n].key] = i
  /\ Cardinality(Held(l)) = Len(l)

TypeOK ==
  /\ \A i \in Shards :
       /\ IsList(shards[i], i) /\ IsList(shot[i], i)
       /\ IsList(snapshot[i], i)
  /\ wal \in Seq([key : Keys, val : Values])
  /\ linked \subseteq HeldIn(shot) \cap HeldIn(shards)
  /\ drift \in [Shards -> {"none", "drifted", "collected"}]

\* cache_persist.go:85-104: at any stop, also between the rename of a snapshot
\* and the truncation of the log, Load rebuilds a shard in its order and with
\* its latest values, unless a Get or an expiry has changed it (neither is
\* logged), Puts into it overlapped (cache.go:147), or a Save passed between
\* the two halves of a Put.
LogRebuildsCache ==
  \A i \in Shards :
    phase # "off" /\ drift[i] = "none" /\ PendingIn(i) = {} => Rebuilt[i] = shards[i]

\* cache_persist.go:164-167: what Run's own Save leaves on disk is the cache, in
\* its order and with its values, whatever Puts raced with each other and with
\* Saves of the flusher that ended before it began.  A Save that overlaps Run's
\* own is not covered: it can leave an older snapshot, or a torn one.
FinalSaveRestoresCache == saver = Main /\ spc = "saved" => Rebuilt = shards

\* Forgetting values and order, this is CachePersistence.
File(kind, S) == [kind |-> kind, keys |-> S]
ForSaver(s, x, none) == IF s = saver THEN x ELSE none

Persistence ==
  INSTANCE CachePersistence WITH
    overlapped <- FALSE,
    snapshot <- IF published THEN File("whole", HeldIn(snapshot)) ELSE File("absent", {}),
    tmp <- CASE spc = "write" -> File("torn", {})
             [] spc = "rename" -> File("whole", HeldIn(shot))
             [] OTHER -> File("absent", {}),
    wal <- Held(wal), cut <- FALSE,
    mem <- HeldIn(shards),
    walFile <- IF phase = "off" THEN "nil" ELSE "open",
    pending <- [w \in Workers |-> Held(pending[w])],
    spc <- [s \in {Flusher, Main} |->
              ForSaver(s, IF spc = "marshal" THEN "open" ELSE spc, "idle")],
    left <- [s \in {Flusher, Main} |-> ForSaver(s, left, {})],
    shot <- [s \in {Flusher, Main} |-> ForSaver(s, HeldIn(shot), {})],
    fd <- [s \in {Flusher, Main} |-> ForSaver(s, IF spc = "write" THEN "tmp" ELSE "none", "none")]

\* cache.go:37-43: which entries a shard keeps, which value a key has and in
\* which order the log names them make no difference to what CachePersistence
\* says of the loss of entries.
ImplementsPersistence == Persistence!Spec

=============================================================================
