----------------------- MODULE CachePersistenceProofs -----------------------
(***************************************************************************)
(* Proofs about CachePersistence, for every set of keys, shards and        *)
(* workers, and every capacity: only two Saves that overlap tear the       *)
(* snapshot, and as long as none do a stop costs no entry but the exposed  *)
(* ones, and what Run's own Save leaves on disk is the whole cache.        *)
(*                                                                         *)
(* Nothing is assumed about when the two callers of Save run: the flusher  *)
(* may be anywhere in its Save when Run begins its own, and may begin      *)
(* another one after that.  The invariant says what is true of the files   *)
(* until the first overlap.                                                *)
(***************************************************************************)
EXTENDS CachePersistence, FiniteSetTheorems, TLAPS

USE CacheAssumption

-----------------------------------------------------------------------------
(* The inductive invariant. *)

\* Only finitely many entries are anywhere at any time.
Finite ==
  /\ IsFiniteSet(mem) /\ IsFiniteSet(wal)
  /\ IsFiniteSet(snapshot.keys) /\ IsFiniteSet(tmp.keys)
  /\ \A s \in Savers : IsFiniteSet(shot[s])

\* Who can be at work: nobody while no process runs; no worker, but either
\* saver, once the workers are done.
Alone ==
  /\ phase = "off" =>
       /\ mem = {} /\ exposed = {} /\ ~overlapped
       /\ \A w \in Workers : pending[w] = {}
       /\ \A s \in Savers : spc[s] = "idle"
  /\ spc[Main] # "idle" => phase = "final"
  /\ phase = "final" => \A w \in Workers : pending[w] = {}
  /\ \A w \in Workers : \A a, b \in pending[w] : a = b

\* One Save at a time has a snapshot to put in place.
OneAtATime == ~(Unsettled(Flusher) /\ Unsettled(Main))

\* What the two files of a Save hold between its steps.  Before one Save has
\* truncated the log the other one may have put a newer snapshot in place.
SaveSteps ==
  \A s \in Savers :
    /\ spc[s] \in {"open", "write", "rename", "truncate"} => left[s] = {}
    /\ fd[s] = IF spc[s] = "write" THEN "tmp" ELSE "none"
    /\ spc[s] = "write" => tmp = Torn
    /\ spc[s] = "rename" => tmp = Whole(shot[s])
    /\ spc[s] = "truncate" => \/ snapshot = Whole(shot[s])
                              \/ phase = "final" /\ mem \subseteq snapshot.keys

\* A Save that will truncate the log has collected every entry it has passed,
\* but for the exposed ones, or the other one has.
NoneMissed ==
  \A s \in Savers :
    \/ \A k \in mem \ (Pending \cup exposed) : ~Passed(s, k)
    \/ spc[s] = "truncate" /\ phase = "final" /\ mem \subseteq snapshot.keys

\* A Save that began with no worker around misses nothing, and once Main has put
\* its snapshot in place, no later one lacks an entry.
AllCollected ==
  /\ spc[Main] # "idle" => \A s \in Savers : Unsettled(s) => \A k \in mem : ~Passed(s, k)
  /\ spc[Main] \in {"truncate", "saved"} => mem \subseteq snapshot.keys

Undisturbed == OneAtATime /\ SaveSteps /\ NoneMissed /\ AllCollected /\ LossConfined

IInv == TypeOK /\ Finite /\ Alone /\ (~overlapped => Undisturbed)

-----------------------------------------------------------------------------
(* What a file can hold, and what a shard does when an entry is put into it. *)

LEMMA ContentFacts ==
  /\ Absent \in Contents /\ Torn \in Contents
  /\ Absent.keys = {} /\ Torn.keys = {} /\ Absent # Torn
  /\ \A S \in SUBSET Keys : Whole(S) \in Contents
  /\ \A S : Whole(S).keys = S /\ Whole(S) # Torn /\ Whole(S) # Absent
  /\ \A c \in Contents : c.keys \subseteq Keys
<1>1. /\ Absent \in Contents /\ Torn \in Contents
      /\ \A S \in SUBSET Keys : Whole(S) \in Contents
  BY DEF Contents
<1>2. Absent.keys = {} /\ Torn.keys = {} /\ Absent # Torn
  BY DEF Absent, Torn
<1>3. \A S : Whole(S).keys = S /\ Whole(S) # Torn /\ Whole(S) # Absent
  BY DEF Absent, Torn, Whole
<1>4. \A c \in Contents : c.keys \subseteq Keys
  BY <1>2, <1>3 DEF Contents
<1> QED BY <1>1, <1>2, <1>3, <1>4

\* No shard of nothing holds anything.
LEMMA NothingFits ==
  \A i \in Shards : Cardinality(InShard({}, i)) <= Capacity
<1>1. \A i : InShard({}, i) = {}
  BY DEF InShard
<1>2. Cardinality({}) <= Capacity
  BY FS_EmptySet
<1> QED BY <1>1, <1>2, Zenon

\* Filling the shards takes nothing that was not offered, and respects the
\* capacity.
LEMMA FitsFacts ==
  ASSUME NEW S \in SUBSET Keys, IsFiniteSet(S), NEW M \in Fits(S)
  PROVE  /\ M \subseteq S /\ IsFiniteSet(M)
         /\ \A i \in Shards : Cardinality(InShard(M, i)) <= Capacity
<1>1. M \subseteq S /\ IsFiniteSet(M)
  BY FS_Subset DEF Fits
<1>2. ASSUME NEW i \in Shards PROVE Cardinality(InShard(M, i)) <= Capacity
  <2>1. Cardinality(InShard(S, i)) \in Nat
    <3>1. IsFiniteSet(InShard(S, i))
      BY FS_Subset DEF InShard
    <3> QED BY <3>1, FS_CardinalityType
  <2>2. Cardinality(InShard(M, i)) =
          IF Cardinality(InShard(S, i)) <= Capacity THEN Cardinality(InShard(S, i)) ELSE Capacity
    BY DEF Fits
  <2> QED BY <2>1, <2>2
<1> QED BY <1>1, <1>2

\* Put adds its key, loses at most another one of the same shard, and respects
\* the capacity.
LEMMA PushedFacts ==
  ASSUME TypeOK, Finite, NEW k \in Keys, NEW M \in Pushed(k)
  PROVE  /\ M \subseteq mem \cup {k} /\ k \in M /\ IsFiniteSet(M)
         /\ \A i \in Shards : Cardinality(InShard(M, i)) <= Capacity
<1> DEFINE new == InShard(mem \cup {k}, ShardOf[k])
<1>1. /\ M \subseteq mem \cup {k} /\ k \in M
      /\ \/ M = mem \cup {k} /\ Cardinality(new) <= Capacity
         \/ ~(Cardinality(new) <= Capacity) /\ \E old \in new \ {k} : M = (mem \cup {k}) \ {old}
  BY DEF Pushed
<1>2. IsFiniteSet(mem \cup {k})
  BY FS_AddElement DEF Finite
<1>3. IsFiniteSet(M)
  BY <1>1, <1>2, FS_Subset
<1>4. ASSUME NEW i \in Shards PROVE Cardinality(InShard(M, i)) <= Capacity
  <2>1. CASE i # ShardOf[k]
    <3>1. InShard(M, i) \subseteq InShard(mem, i)
      BY <1>1, <2>1 DEF InShard
    <3>2. IsFiniteSet(InShard(mem, i))
      BY FS_Subset DEF InShard, Finite
    <3>3. Cardinality(InShard(mem, i)) <= Capacity
      BY DEF TypeOK
    <3>4. /\ Cardinality(InShard(M, i)) <= Cardinality(InShard(mem, i))
          /\ IsFiniteSet(InShard(M, i))
      BY <3>1, <3>2, FS_Subset
    <3> QED BY <3>2, <3>3, <3>4, FS_CardinalityType
  <2>2. CASE i = ShardOf[k] /\ M = mem \cup {k} /\ Cardinality(new) <= Capacity
    BY <2>2
  <2>3. CASE i = ShardOf[k] /\ ~(Cardinality(new) <= Capacity)
    <3>1. PICK old \in new \ {k} : M = (mem \cup {k}) \ {old}
      BY <1>1, <2>3
    <3>2. InShard(M, i) = new \ {old} /\ new = InShard(mem, i) \cup {k}
      BY <2>3, <3>1 DEF InShard
    <3>3. IsFiniteSet(InShard(mem, i)) /\ IsFiniteSet(new)
      BY <1>2, <2>3, FS_Subset DEF InShard, Finite
    <3>4. Cardinality(new) <= Cardinality(InShard(mem, i)) + 1
      <4> HIDE DEF new
      <4>1. Cardinality(InShard(mem, i)) \in Nat
        BY <3>3, FS_CardinalityType
      <4>2. Cardinality(InShard(mem, i) \cup {k}) \in
              {Cardinality(InShard(mem, i)), Cardinality(InShard(mem, i)) + 1}
        BY <3>3, FS_AddElement
      <4> QED BY <3>2, <4>1, <4>2
    <3>5. Cardinality(new \ {old}) = Cardinality(new) - 1
      BY <3>1, <3>3, FS_RemoveElement
    <3>6. Cardinality(InShard(mem, i)) <= Capacity
      BY DEF TypeOK
    <3>7. Cardinality(new) \in Nat /\ Cardinality(InShard(mem, i)) \in Nat
      BY <3>3, FS_CardinalityType
    <3> HIDE DEF new
    <3> QED BY <3>2, <3>4, <3>5, <3>6, <3>7
  <2> QED BY <1>1, <2>1, <2>2, <2>3
<1> QED BY <1>1, <1>3, <1>4

\* Fewer entries respect the capacity as well.
LEMMA FewerFit ==
  ASSUME Finite, NEW M \in SUBSET mem, NEW i \in Shards,
         Cardinality(InShard(mem, i)) <= Capacity
  PROVE  IsFiniteSet(M) /\ Cardinality(InShard(M, i)) <= Capacity
<1>1. IsFiniteSet(M) /\ IsFiniteSet(InShard(mem, i))
  BY FS_Subset DEF Finite, InShard
<1>2. InShard(M, i) \in SUBSET InShard(mem, i)
  BY DEF InShard
<1>3. IsFiniteSet(InShard(M, i)) /\ Cardinality(InShard(M, i)) <= Cardinality(InShard(mem, i))
  BY <1>1, <1>2, FS_Subset
<1> QED BY <1>1, <1>3, FS_CardinalityType

-----------------------------------------------------------------------------
(* Init and the steps outside Save. *)

LEMMA IInvInit == Init => IInv
<1> SUFFICES ASSUME Init PROVE IInv
  OBVIOUS
<1> USE DEF Init, SaversIdle
<1>1. IsFiniteSet({})
  BY FS_EmptySet
<1>2. TypeOK
  <2>1. mem = {}
    OBVIOUS
  <2>2. \A i \in Shards : Cardinality(InShard(mem, i)) <= Capacity
    BY <2>1, NothingFits, Zenon
  <2> QED BY <2>2, ContentFacts DEF TypeOK
<1>3. Finite
  BY <1>1, ContentFacts DEF Finite
<1>4. Alone /\ OneAtATime /\ SaveSteps /\ AllCollected
  BY DEF Alone, OneAtATime, Unsettled, SaveSteps, AllCollected, Savers
<1>5. NoneMissed /\ LossConfined
  BY DEF NoneMissed, LossConfined
<1> QED BY <1>2, <1>3, <1>4, <1>5 DEF IInv, Undisturbed

\* The end of a process leaves the snapshot and the log alone.
LEMMA StopKeepsIInv ==
  ASSUME IInv, Stop
  PROVE  IInv'
<1> USE DEF IInv, Stop
<1>1. IsFiniteSet({})
  BY FS_EmptySet
<1>2. TypeOK'
  <2>1. mem' = {}
    OBVIOUS
  <2>2. \A i \in Shards : Cardinality(InShard(mem', i)) <= Capacity
    BY <2>1, NothingFits, Zenon
  <2> QED BY <2>2, ContentFacts DEF TypeOK
<1>3. Finite'
  BY <1>1, ContentFacts DEF Finite
<1>4. Alone' /\ OneAtATime' /\ SaveSteps' /\ AllCollected'
  BY DEF Alone, OneAtATime, Unsettled, SaveSteps, AllCollected, Savers
<1>5. NoneMissed' /\ LossConfined'
  BY DEF NoneMissed, LossConfined
<1> QED BY <1>2, <1>3, <1>4, <1>5 DEF Undisturbed

\* What is loaded is on disk, or exposed because the log was set aside.
LEMMA LoadKeepsIInv ==
  ASSUME IInv, Load \/ LoadFails
  PROVE  IInv'
<1> USE DEF IInv, saving, files
<1>1. /\ phase = "off" /\ phase' = "run"
      /\ UNCHANGED <<tmp, pending, spc, left, shot, fd, overlapped>>
      /\ \A s \in Savers : spc[s] = "idle"
      /\ mem = {} /\ exposed = {} /\ ~overlapped
      /\ \A w \in Workers : pending[w] = {}
  BY DEF Load, LoadFails, Alone
<1>2. /\ snapshot' \in Contents /\ snapshot'.keys = snapshot.keys
      /\ snapshot.keys \subseteq Keys
  BY ContentFacts DEF Load, LoadFails, TypeOK
<1>3. Alone' /\ OneAtATime' /\ SaveSteps' /\ AllCollected' /\ NoneMissed'
  <2>1. \A s \in Savers : fd[s] = "none"
    BY <1>1 DEF Undisturbed, SaveSteps
  <2>2. \A s \in Savers : spc'[s] = "idle" /\ fd'[s] = "none"
    BY <1>1, <2>1
  <2> QED BY <1>1, <2>2
      DEF Alone, OneAtATime, Unsettled, SaveSteps, AllCollected, NoneMissed, Passed, Savers
<1>4. CASE LoadFails
  <2>1. UNCHANGED <<snapshot, wal, cut, mem, walFile, exposed>>
    BY <1>4 DEF LoadFails
  <2>2. TypeOK' /\ Finite' /\ LossConfined'
    BY <1>1, <2>1 DEF TypeOK, Finite, LossConfined
  <2> QED BY <1>3, <2>2 DEF Undisturbed
<1>5. CASE Load
  <2>1. /\ wal' \subseteq wal /\ IsFiniteSet(wal')
        /\ mem' \subseteq Keys /\ IsFiniteSet(mem')
        /\ \A i \in Shards : Cardinality(InShard(mem', i)) <= Capacity
        /\ exposed' \subseteq mem'
        /\ mem' \ exposed' \subseteq snapshot.keys \cup wal'
    <3>1. ASSUME NEW S \in SUBSET wal
          PROVE  IsFiniteSet(snapshot.keys \cup S) /\ snapshot.keys \cup S \in SUBSET Keys
      <4>1. IsFiniteSet(S)
        BY FS_Subset DEF Finite
      <4> QED BY <4>1, <1>2, FS_Union DEF Finite, TypeOK
    <3>2. CASE mem' \in Fits(Recoverable) /\ exposed' = {} /\ UNCHANGED <<wal, cut>>
      <4>1. /\ mem' \subseteq Recoverable /\ IsFiniteSet(mem')
            /\ \A i \in Shards : Cardinality(InShard(mem', i)) <= Capacity
        BY <3>1, <3>2, FitsFacts DEF Recoverable
      <4> QED BY <3>1, <3>2, <4>1 DEF Recoverable, Finite
    <3>3. CASE /\ \E replayed \in SUBSET wal : mem' \in Fits(snapshot.keys \cup replayed)
               /\ wal' = {} /\ exposed' = mem' \ snapshot.keys
      <4>1. PICK replayed \in SUBSET wal : mem' \in Fits(snapshot.keys \cup replayed)
        BY <3>3
      <4>2. /\ mem' \subseteq snapshot.keys \cup replayed /\ IsFiniteSet(mem')
            /\ \A i \in Shards : Cardinality(InShard(mem', i)) <= Capacity
        BY <4>1, <3>1, FitsFacts
      <4> QED BY <3>1, <3>3, <4>2, FS_EmptySet
    <3> QED BY <1>5, <3>2, <3>3 DEF Load
  <2>2. cut' \in BOOLEAN /\ walFile' \in {"open", "nil"}
    BY <1>5 DEF Load, TypeOK
  <2>3. TypeOK'
    BY <1>1, <1>2, <2>1, <2>2 DEF TypeOK
  <2>4. Finite'
    BY <1>1, <1>2, <2>1 DEF Finite
  <2>5. LossConfined'
    BY <1>2, <2>1 DEF LossConfined, Recoverable
  <2> QED BY <1>3, <2>3, <2>4, <2>5 DEF Undisturbed
<1> QED BY <1>4, <1>5

\* A key that has been put is pending; the one it pushes out is not missed.
LEMMA PutKeepsIInv ==
  ASSUME IInv, NEW w \in Workers, NEW k \in Keys, Put(w, k)
  PROVE  IInv'
<1> USE DEF IInv, Put, saving, files
<1>1. /\ mem' \subseteq mem \cup {k} /\ IsFiniteSet(mem')
      /\ \A i \in Shards : Cardinality(InShard(mem', i)) <= Capacity
  BY PushedFacts
<1>2. pending' = [pending EXCEPT ![w] = {k}] /\ pending[w] = {} /\ phase = "run"
  OBVIOUS
<1>3. TypeOK' /\ Finite'
  BY <1>1 DEF TypeOK, Finite
<1>4. Alone'
  BY <1>2 DEF Alone, TypeOK
<1>5. Pending' = Pending \cup {k}
  BY <1>2 DEF Pending, TypeOK
<1>6. ASSUME ~overlapped' PROVE Undisturbed'
  <2>1. Undisturbed /\ spc[Main] = "idle"
    BY <1>6, <1>2 DEF Alone
  <2>2. OneAtATime' /\ SaveSteps' /\ AllCollected'
    BY <1>2, <2>1 DEF Undisturbed, OneAtATime, Unsettled, SaveSteps, AllCollected
  <2>3. NoneMissed'
    BY <1>1, <1>2, <1>5, <2>1 DEF Undisturbed, NoneMissed, Passed
  <2>4. LossConfined'
    BY <1>1, <1>2, <1>5, <1>6, <2>1 DEF Undisturbed, LossConfined, Recoverable
  <2> QED BY <2>2, <2>3, <2>4 DEF Undisturbed
<1> QED BY <1>3, <1>4, <1>6

LEMMA ExpireKeepsIInv ==
  ASSUME IInv, NEW k \in Keys, Expire(k)
  PROVE  IInv'
<1> USE DEF IInv, Expire, saving, files
<1>1. mem' \subseteq mem /\ phase = "run"
  OBVIOUS
<1>2. TypeOK' /\ Finite'
  <2>1. \A i \in Shards : IsFiniteSet(mem') /\ Cardinality(InShard(mem', i)) <= Capacity
    BY <1>1, FewerFit DEF TypeOK
  <2>2. IsFiniteSet(mem')
    BY FS_Subset, <1>1 DEF Finite
  <2> QED BY <1>1, <2>1, <2>2 DEF TypeOK, Finite
<1>3. Alone'
  BY <1>1 DEF Alone
<1>4. ASSUME ~overlapped' PROVE Undisturbed'
  <2>1. Undisturbed /\ spc[Main] = "idle"
    BY <1>4, <1>1 DEF Alone
  <2>2. OneAtATime' /\ SaveSteps' /\ AllCollected'
    BY <1>1, <2>1 DEF Undisturbed, OneAtATime, Unsettled, SaveSteps, AllCollected
  <2>3. NoneMissed' /\ LossConfined'
    BY <1>1, <1>4, <2>1 DEF Undisturbed, NoneMissed, Passed, LossConfined, Recoverable, Pending
  <2> QED BY <2>2, <2>3 DEF Undisturbed
<1> QED BY <1>2, <1>3, <1>4

\* The line a Put writes is read back, or its key is exposed.
LEMMA AppendKeepsIInv ==
  ASSUME IInv, NEW w \in Workers, Append(w) \/ AppendFails(w)
  PROVE  IInv'
<1> USE DEF IInv, saving
<1>1. /\ pending' = [pending EXCEPT ![w] = {}] /\ pending[w] # {}
      /\ UNCHANGED <<snapshot, tmp, mem, walFile, phase, spc, left, shot, fd, overlapped>>
      /\ cut' \in BOOLEAN
  BY DEF Append, AppendFails, TypeOK
<1>2. phase = "run"
  BY <1>1 DEF Alone, TypeOK
<1>3. PICK k \in pending[w] : TRUE
  BY <1>1
<1>4. pending[w] = {k} /\ k \in Keys
  BY <1>3 DEF Alone, TypeOK
<1>5. Pending \subseteq Pending' \cup {k}
  BY <1>1, <1>4 DEF Pending, TypeOK
<1>6. /\ wal \subseteq wal' /\ wal' \subseteq wal \cup {k}
      /\ exposed \subseteq exposed' \cup {k} /\ exposed' \subseteq exposed \cup {k}
      /\ k \in exposed' \/ (k \in wal' /\ \A s \in Savers : ~Passed(s, k))
  <2>1. CASE Append(w)
    BY <2>1, <1>4 DEF Append, Appended, TypeOK
  <2>2. CASE AppendFails(w)
    BY <2>2, <1>4 DEF AppendFails
  <2> QED BY <2>1, <2>2
<1>7. TypeOK'
  BY <1>1, <1>4, <1>6 DEF TypeOK
<1>8. Finite'
  <2>1. IsFiniteSet(wal \cup {k})
    BY FS_AddElement DEF Finite
  <2>2. IsFiniteSet(wal')
    BY <2>1, <1>6, FS_Subset
  <2> QED BY <2>2, <1>1 DEF Finite
<1>9. Alone'
  BY <1>1, <1>2 DEF Alone, TypeOK
<1>10. ASSUME ~overlapped' PROVE Undisturbed'
  <2>1. Undisturbed /\ spc[Main] = "idle" /\ spc'[Main] = "idle"
    BY <1>10, <1>1, <1>2 DEF Alone
  <2>2. OneAtATime' /\ SaveSteps' /\ AllCollected'
    BY <1>1, <2>1 DEF Undisturbed, OneAtATime, Unsettled, SaveSteps, AllCollected
  <2>3. NoneMissed'
    <3>1. ASSUME NEW s \in Savers, NEW x \in mem' \ (Pending' \cup exposed') PROVE ~Passed(s, x)'
      <4>1. Passed(s, x)' = Passed(s, x)
        BY <1>1 DEF Passed
      <4>2. CASE x = k
        BY <4>1, <4>2, <3>1, <1>6
      <4>3. CASE x # k
        BY <4>1, <4>3, <3>1, <2>1, <1>1, <1>2, <1>5, <1>6 DEF Undisturbed, NoneMissed
      <4> QED BY <4>2, <4>3
    <3> QED BY <3>1 DEF NoneMissed
  <2>4. LossConfined'
    BY <1>1, <1>2, <1>5, <1>6, <2>1, <1>10 DEF Undisturbed, LossConfined, Recoverable
  <2> QED BY <2>2, <2>3, <2>4 DEF Undisturbed
<1> QED BY <1>7, <1>8, <1>9, <1>10

\* When the workers are done nothing is pending; the flusher may be in Save.
LEMMA WorkersDoneKeepsIInv ==
  ASSUME IInv, WorkersDone
  PROVE  IInv'
<1> USE DEF IInv, WorkersDone, saving, files
<1>1. spc[Main] = "idle" /\ spc'[Main] = "idle"
  BY DEF Alone
<1>2. TypeOK' /\ Finite' /\ Alone'
  BY <1>1 DEF TypeOK, Finite, Alone
<1>3. ASSUME ~overlapped' PROVE Undisturbed'
  <2>1. Undisturbed
    BY <1>3
  <2>2. OneAtATime' /\ SaveSteps' /\ AllCollected'
    BY <1>1, <2>1 DEF Undisturbed, OneAtATime, Unsettled, SaveSteps, AllCollected
  <2>3. NoneMissed' /\ LossConfined'
    BY <2>1, <1>3 DEF Undisturbed, NoneMissed, Passed, Pending, LossConfined, Recoverable
  <2> QED BY <2>2, <2>3 DEF Undisturbed
<1> QED BY <1>2, <1>3

-----------------------------------------------------------------------------
(* The steps of Save. *)

\* What the steps of Save have in common: they leave the cache, the workers and
\* the other saver alone, and two savers are only at work in the final phase.
LEMMA SaveLeavesCache ==
  ASSUME IInv, NEW s \in Savers, Save(s)
  PROVE  /\ UNCHANGED <<mem, phase, pending>> /\ Pending' = Pending
         /\ overlapped => overlapped'
         /\ ~StartSave(s) => overlapped' = overlapped
         /\ spc[Main] # "idle" \/ s = Main => phase = "final"
         /\ phase # "off"
         /\ \A v \in Savers : v # s => /\ spc'[v] = spc[v]
                                      /\ left'[v] = left[v] /\ shot'[v] = shot[v]
<1> USE DEF IInv, TypeOK, Alone, Savers, Step, MayStart
<1> USE DEF Save, StartSave, CollectShard, OpenTmp, WriteTmp, Rename, SaveFails, Truncate, SaveReturns
<1>1. UNCHANGED <<mem, phase, pending>>
  OBVIOUS
<1>2. (overlapped => overlapped') /\ (~StartSave(s) => overlapped' = overlapped)
  OBVIOUS
<1>3. (spc[Main] # "idle" \/ s = Main => phase = "final") /\ phase # "off"
  OBVIOUS
<1>4. ASSUME NEW v \in Savers, v # s
      PROVE  /\ spc'[v] = spc[v]
             /\ left'[v] = left[v] /\ shot'[v] = shot[v]
  BY <1>4
<1> QED BY <1>1, <1>2, <1>3, <1>4 DEF Pending

\* A Save begins having passed no key.
LEMMA StartSaveKeepsIInv ==
  ASSUME IInv, NEW s \in Savers, StartSave(s)
  PROVE  IInv'
<1> USE DEF IInv, Step, files
<1>1. /\ UNCHANGED <<mem, phase, pending>> /\ Pending' = Pending
      /\ overlapped => overlapped'
      /\ s = Main => phase = "final"
      /\ phase # "off"
      /\ \A v \in Savers : v # s => /\ spc'[v] = spc[v]
                                   /\ left'[v] = left[v] /\ shot'[v] = shot[v]
  BY SaveLeavesCache DEF Save
<1>2. /\ spc[s] = "idle" /\ spc'[s] = "collect" /\ left'[s] = Shards /\ shot'[s] = {}
      /\ UNCHANGED <<snapshot, tmp, wal, fd, exposed>>
  BY DEF StartSave, TypeOK
<1>3. TypeOK'
  BY DEF StartSave, TypeOK
<1>4. Finite'
  BY <1>1, <1>2, FS_EmptySet DEF Finite
<1>5. Alone'
  BY <1>1, <1>2 DEF Alone, Savers
<1>6. ASSUME ~overlapped' PROVE Undisturbed'
  <2>1. Undisturbed /\ ~overlapped /\ \A v \in Savers : ~Unsettled(v)
    BY <1>6, <1>1 DEF StartSave
  <2>2. \A v \in Savers : v # s => ~Unsettled(v)'
    BY <1>1, <2>1 DEF Unsettled
  <2>3. OneAtATime'
    BY <2>2 DEF OneAtATime, Savers
  <2>4. SaveSteps'
    BY <1>1, <1>2, <2>1 DEF Undisturbed, SaveSteps
  <2>5. \A k \in mem : ~Passed(s, k)'
    BY <1>2 DEF Passed, TypeOK
  <2>6. \A v \in Savers : v # s => \A k \in mem : Passed(v, k)' = Passed(v, k)
    BY <1>1 DEF Passed
  <2>7. NoneMissed'
    BY <1>1, <1>2, <2>1, <2>5, <2>6 DEF Undisturbed, NoneMissed
  <2>8. AllCollected'
    BY <1>1, <1>2, <2>1, <2>2, <2>5 DEF Undisturbed, AllCollected, Savers
  <2>9. LossConfined'
    BY <1>1, <1>2, <2>1 DEF Undisturbed, LossConfined, Recoverable
  <2> QED BY <2>3, <2>4, <2>7, <2>8, <2>9 DEF Undisturbed
<1> QED BY <1>3, <1>4, <1>5, <1>6

\* A shard that has been passed has been collected.
LEMMA CollectKeepsIInv ==
  ASSUME IInv, NEW s \in Savers, NEW i \in Shards, CollectShard(s, i)
  PROVE  IInv'
<1> USE DEF IInv, Step, files
<1>1. /\ UNCHANGED <<mem, phase, pending>> /\ Pending' = Pending
      /\ s = Main => phase = "final"
      /\ phase # "off"
      /\ \A v \in Savers : v # s => /\ spc'[v] = spc[v]
                                   /\ left'[v] = left[v] /\ shot'[v] = shot[v]
  BY SaveLeavesCache DEF Save
<1>2. /\ spc[s] = "collect" /\ left'[s] = left[s] \ {i}
      /\ shot'[s] = shot[s] \cup {k \in mem : ShardOf[k] = i}
      /\ spc'[s] = IF left'[s] = {} THEN "open" ELSE "collect"
      /\ UNCHANGED <<snapshot, tmp, wal, fd, exposed, overlapped>>
  BY DEF CollectShard, TypeOK
<1>3. TypeOK'
  BY DEF CollectShard, TypeOK
<1>4. Finite'
  <2>1. IsFiniteSet({k \in mem : ShardOf[k] = i})
    BY FS_Subset DEF Finite
  <2>2. IsFiniteSet(shot[s] \cup {k \in mem : ShardOf[k] = i})
    BY <2>1, FS_Union DEF Finite
  <2> QED BY <1>1, <1>2, <2>2 DEF Finite
<1>5. Alone'
  BY <1>1, <1>2 DEF Alone, Savers
<1>6. ASSUME ~overlapped' PROVE Undisturbed'
  <2>1. Undisturbed
    BY <1>6, <1>2
  <2>2. \A v \in Savers : /\ Unsettled(v)' = Unsettled(v)
                          /\ \A k \in mem : Passed(v, k)' => Passed(v, k)
    BY <1>1, <1>2 DEF Unsettled, Passed
  <2>3. OneAtATime' /\ SaveSteps'
    BY <1>1, <1>2, <2>1, <2>2 DEF Undisturbed, OneAtATime, SaveSteps, Savers
  <2>4. NoneMissed' /\ AllCollected'
    BY <1>1, <1>2, <2>1, <2>2 DEF Undisturbed, NoneMissed, AllCollected, Savers
  <2>5. LossConfined'
    BY <1>1, <1>2, <2>1 DEF Undisturbed, LossConfined, Recoverable
  <2> QED BY <2>3, <2>4, <2>5 DEF Undisturbed
<1> QED BY <1>3, <1>4, <1>5, <1>6

\* Unless Saves overlap, the temporary file is opened and written by nobody else,
\* so what is renamed is what was collected.
LEMMA WriteKeepsIInv ==
  ASSUME IInv, NEW s \in Savers, OpenTmp(s) \/ WriteTmp(s) \/ SaveFails(s)
  PROVE  /\ IInv'
         /\ ~overlapped => UNCHANGED snapshot
<1> USE DEF IInv, Step, files
<1>1. /\ UNCHANGED <<mem, phase, pending>> /\ Pending' = Pending
      /\ s = Main => phase = "final"
      /\ phase # "off"
      /\ \A v \in Savers : v # s => /\ spc'[v] = spc[v]
                                   /\ left'[v] = left[v] /\ shot'[v] = shot[v]
  BY SaveLeavesCache DEF Save
<1>2. UNCHANGED <<wal, cut, walFile, left, shot, exposed, overlapped>>
  BY DEF OpenTmp, WriteTmp, SaveFails
<1>3. /\ spc[s] \in {"open", "write", "rename"} /\ spc'[s] \in {"write", "rename", "failed"}
      /\ \A v \in Savers : v # s => fd'[v] = fd[v]
      /\ tmp' \in {tmp, Torn, Whole(shot[s])}
      /\ snapshot' \in {snapshot, Torn, Whole(shot[s])}
  BY DEF OpenTmp, WriteTmp, SaveFails, Written, TypeOK
<1>4. shot[s] \in SUBSET Keys /\ IsFiniteSet(shot[s])
  BY DEF TypeOK, Finite
<1>5. TypeOK'
  <2>1. tmp' \in Contents /\ snapshot' \in Contents
    BY <1>3, <1>4, ContentFacts DEF TypeOK
  <2>2. spc' \in [Savers -> {"idle", "collect", "open", "write", "rename", "truncate",
                             "saved", "failed"}]
        /\ fd' \in [Savers -> {"none", "tmp", "snapshot", "replaced"}]
    BY DEF OpenTmp, WriteTmp, SaveFails, TypeOK
  <2> QED BY <1>1, <1>2, <2>1, <2>2 DEF TypeOK
<1>6. Finite'
  BY <1>1, <1>2, <1>3, <1>4, ContentFacts, FS_EmptySet DEF Finite
<1>7. Alone'
  BY <1>1, <1>2, <1>3 DEF Alone, Savers
<1>8. ASSUME ~overlapped PROVE Undisturbed' /\ snapshot' = snapshot
  <2>1. Undisturbed
    BY <1>8
  <2>2. /\ \/ spc[s] = "open" /\ spc'[s] = "write" /\ tmp' = Torn /\ fd'[s] = "tmp"
           \/ spc[s] = "write" /\ spc'[s] = "rename" /\ tmp' = Whole(shot[s]) /\ fd'[s] = "none"
           \/ spc'[s] = "failed" /\ tmp' = tmp /\ fd'[s] = "none"
        /\ UNCHANGED snapshot
    <3>1. CASE OpenTmp(s)
      BY <3>1 DEF OpenTmp, TypeOK
    <3>2. CASE WriteTmp(s)
      <4>1. spc[s] = "write" /\ fd[s] = "tmp" /\ tmp = Torn
        BY <3>2, <2>1 DEF WriteTmp, Undisturbed, SaveSteps
      <4> QED BY <3>2, <4>1 DEF WriteTmp, TypeOK, Written
    <3>3. CASE SaveFails(s)
      BY <3>3 DEF SaveFails, TypeOK
    <3> QED BY <3>1, <3>2, <3>3
  <2>3. \A v \in Savers : /\ Unsettled(v)' => Unsettled(v)
                          /\ \A k \in mem : Passed(v, k)' => Passed(v, k)
    BY <1>1, <1>2, <1>3 DEF Unsettled, Passed
  <2>4. \A v \in Savers : v # s => ~Unsettled(v)
    BY <2>1, <1>3 DEF Undisturbed, OneAtATime, Unsettled, Savers
  <2>5. OneAtATime'
    BY <2>1, <2>3 DEF Undisturbed, OneAtATime, Savers
  <2>6. SaveSteps'
    <3>1. ASSUME NEW v \in Savers, v # s
          PROVE  /\ spc'[v] = spc[v] /\ fd'[v] = fd[v] /\ left'[v] = left[v]
                 /\ shot'[v] = shot[v]
                 /\ spc[v] \notin {"write", "rename"}
      BY <3>1, <1>1, <1>3, <2>4 DEF Unsettled
    <3> QED BY <3>1, <1>1, <1>2, <1>3, <2>1, <2>2 DEF Undisturbed, SaveSteps
  <2>7. NoneMissed'
    BY <1>1, <1>2, <1>3, <2>1, <2>2, <2>3 DEF Undisturbed, NoneMissed
  <2>8. AllCollected'
    BY <1>1, <1>3, <2>1, <2>2, <2>3 DEF Undisturbed, AllCollected, Savers
  <2>9. LossConfined'
    BY <1>1, <1>2, <2>1, <2>2 DEF Undisturbed, LossConfined, Recoverable
  <2> QED BY <2>2, <2>5, <2>6, <2>7, <2>8, <2>9 DEF Undisturbed
<1> QED BY <1>2, <1>5, <1>6, <1>7, <1>8

\* The new snapshot holds every entry that is not pending or exposed, and every
\* one if the workers were done before its Save began.
LEMMA RenameKeepsIInv ==
  ASSUME IInv, NEW s \in Savers, Rename(s)
  PROVE  /\ IInv'
         /\ ~overlapped => snapshot' # Torn
<1> USE DEF IInv, Step
<1>1. /\ UNCHANGED <<mem, phase, pending>> /\ Pending' = Pending
      /\ s = Main \/ spc[Main] # "idle" => phase = "final"
      /\ phase # "off"
      /\ \A v \in Savers : v # s => /\ spc'[v] = spc[v]
                                   /\ left'[v] = left[v] /\ shot'[v] = shot[v]
  BY SaveLeavesCache DEF Save
<1>2. /\ snapshot' = tmp /\ tmp' = Absent /\ spc[s] = "rename" /\ spc'[s] = "truncate"
      /\ UNCHANGED <<wal, left, shot, exposed, overlapped>>
      /\ fd' = Moved(s)
  BY DEF Rename, TypeOK
<1>3. TypeOK'
  <2>1. fd' \in [Savers -> {"none", "tmp", "snapshot", "replaced"}]
    BY <1>2 DEF TypeOK, Moved
  <2> QED BY <2>1, ContentFacts DEF Rename, TypeOK
<1>4. Finite'
  BY <1>1, <1>2, ContentFacts, FS_EmptySet DEF Finite
<1>5. Alone'
  BY <1>1, <1>2 DEF Alone, Savers
<1>6. ASSUME ~overlapped PROVE Undisturbed' /\ snapshot' # Torn
  <2>1. Undisturbed
    BY <1>6
  <2>2. /\ snapshot' = Whole(shot[s]) /\ snapshot'.keys = shot[s] /\ snapshot' # Torn
        /\ left[s] = {}
    BY <1>2, <2>1, ContentFacts DEF Undisturbed, SaveSteps
  <2>3. \A v \in Savers : v # s => ~Unsettled(v)
    BY <1>2, <2>1 DEF Undisturbed, OneAtATime, Unsettled, Savers
  <2>4. \A v \in Savers : fd'[v] = "none"
    <3>1. \A v \in Savers : fd[v] = "none"
      BY <1>2, <2>1, <2>3 DEF Undisturbed, SaveSteps, Unsettled
    <3> QED BY <3>1, <1>2 DEF Moved
  <2>5. \A v \in Savers : /\ ~Unsettled(v)'
                          /\ \A k \in mem : Passed(v, k)' => Passed(v, k)
    BY <1>1, <1>2, <2>3 DEF Unsettled, Passed
  <2>6. \A k \in mem \ (Pending \cup exposed) : k \in shot[s]
    BY <1>2, <2>1, <2>2 DEF Undisturbed, NoneMissed, Passed, TypeOK
  <2>7. spc[Main] # "idle" => mem \subseteq snapshot'.keys
    BY <1>2, <2>1, <2>2 DEF Undisturbed, AllCollected, Unsettled, Passed, TypeOK
  <2>8. OneAtATime'
    BY <2>5 DEF OneAtATime, Savers
  <2>9. SaveSteps'
    <3>1. ASSUME NEW v \in Savers, v # s, spc[v] = "truncate"
          PROVE  phase = "final" /\ mem \subseteq snapshot'.keys
      BY <3>1, <1>1, <1>2, <2>7 DEF Savers
    <3>2. ASSUME NEW v \in Savers, v # s
          PROVE  spc'[v] = spc[v] /\ left'[v] = left[v] /\ ~Unsettled(v)
      BY <3>2, <1>1, <2>3
    <3> QED BY <3>1, <3>2, <1>1, <1>2, <2>1, <2>2, <2>4 DEF Undisturbed, SaveSteps, Unsettled
  <2>10. NoneMissed'
    <3>1. ASSUME NEW v \in Savers, v # s, spc[v] = "truncate"
          PROVE  phase = "final" /\ mem \subseteq snapshot'.keys
      BY <3>1, <1>1, <1>2, <2>7 DEF Savers
    <3>2. ASSUME NEW v \in Savers, v # s, spc[v] # "truncate"
          PROVE  \A k \in mem : ~Passed(v, k)
      BY <3>2, <2>3 DEF Unsettled, Passed
    <3>3. \A k \in mem \ (Pending \cup exposed) : ~Passed(s, k)
      BY <2>6 DEF Passed
    <3> QED BY <3>1, <3>2, <3>3, <1>1, <1>2, <2>5 DEF NoneMissed
  <2>11. AllCollected'
    BY <1>1, <1>2, <2>5, <2>7 DEF AllCollected, Savers
  <2>12. LossConfined'
    BY <1>1, <1>2, <2>2, <2>6 DEF LossConfined, Recoverable
  <2> QED BY <2>2, <2>8, <2>9, <2>10, <2>11, <2>12 DEF Undisturbed
<1> QED BY <1>2, <1>3, <1>4, <1>5, <1>6

\* The log may go: what it held and the snapshot lacks is pending or exposed.
LEMMA TruncateKeepsIInv ==
  ASSUME IInv, NEW s \in Savers, Truncate(s)
  PROVE  IInv'
<1> USE DEF IInv, Step
<1>1. /\ UNCHANGED <<mem, phase, pending>> /\ Pending' = Pending
      /\ spc[Main] # "idle" \/ s = Main => phase = "final"
      /\ phase # "off"
      /\ \A v \in Savers : v # s => /\ spc'[v] = spc[v]
                                   /\ left'[v] = left[v] /\ shot'[v] = shot[v]
  BY SaveLeavesCache DEF Save
<1>2. /\ spc[s] = "truncate" /\ spc'[s] = "saved" /\ exposed' = exposed \ shot[s]
      /\ UNCHANGED <<snapshot, tmp, left, shot, fd, overlapped>>
      /\ wal' \in {wal, {}} /\ cut' \in {cut, FALSE} /\ walFile' \in {"open", "nil"}
  BY DEF Truncate, TypeOK
<1>3. TypeOK'
  BY <1>2 DEF Truncate, TypeOK
<1>4. Finite'
  BY <1>1, <1>2, FS_EmptySet DEF Finite
<1>5. Alone'
  BY <1>1, <1>2 DEF Alone, Savers
<1>6. ASSUME ~overlapped' PROVE Undisturbed'
  <2>1. Undisturbed
    BY <1>6, <1>2
  <2>2. \A v \in Savers : /\ Unsettled(v)' = Unsettled(v)
                          /\ \A k \in mem : Passed(v, k)' => v # s /\ Passed(v, k)
    BY <1>1, <1>2 DEF Unsettled, Passed
  <2>3. OneAtATime' /\ SaveSteps'
    BY <1>1, <1>2, <2>1, <2>2 DEF Undisturbed, OneAtATime, SaveSteps, Savers
  <2>4. \A v \in Savers : v # s /\ Unsettled(v) => \A k \in mem : ~Passed(v, k)
    BY <1>2, <2>1 DEF Undisturbed, AllCollected, Unsettled, Savers
  <2>5. ASSUME NEW v \in Savers, v # s, spc[v] = "truncate"
        PROVE  phase = "final" /\ mem \subseteq snapshot.keys
    BY <2>5, <1>1, <1>2, <2>1 DEF Undisturbed, AllCollected, Savers
  <2>6. NoneMissed'
    <3>1. ASSUME NEW v \in Savers, v # s, ~Unsettled(v), spc[v] # "truncate"
          PROVE  \A k \in mem : ~Passed(v, k)
      BY <3>1 DEF Unsettled, Passed
    <3> QED BY <3>1, <1>1, <1>2, <2>2, <2>4, <2>5 DEF NoneMissed
  <2>7. AllCollected'
    BY <1>1, <1>2, <2>1, <2>2 DEF Undisturbed, AllCollected, Savers
  <2>8. mem \ (Pending \cup exposed') \subseteq snapshot.keys
    <3>1. CASE phase = "final" /\ mem \subseteq snapshot.keys
      BY <3>1
    <3>2. CASE ~(phase = "final" /\ mem \subseteq snapshot.keys)
      <4>1. snapshot.keys = shot[s] /\ left[s] = {}
        BY <3>2, <1>2, <2>1, ContentFacts DEF Undisturbed, SaveSteps
      <4>2. \A k \in mem \ (Pending \cup exposed) : k \in shot[s]
        BY <3>2, <4>1, <1>2, <2>1 DEF Undisturbed, NoneMissed, Passed, TypeOK
      <4> QED BY <4>1, <4>2, <1>2
    <3> QED BY <3>1, <3>2
  <2>9. LossConfined'
    BY <1>1, <1>2, <2>8 DEF LossConfined, Recoverable
  <2> QED BY <2>3, <2>6, <2>7, <2>9 DEF Undisturbed
<1> QED BY <1>3, <1>4, <1>5, <1>6

LEMMA SaveReturnsKeepsIInv ==
  ASSUME IInv, NEW s \in Savers, SaveReturns(s)
  PROVE  IInv'
<1> USE DEF IInv, Step, files
<1>1. /\ UNCHANGED <<mem, phase, pending>> /\ Pending' = Pending
      /\ phase # "off"
      /\ \A v \in Savers : v # s => /\ spc'[v] = spc[v]
                                   /\ left'[v] = left[v] /\ shot'[v] = shot[v]
  BY SaveLeavesCache DEF Save
<1>2. /\ s = Flusher /\ spc[s] \in {"saved", "failed"} /\ spc'[s] = "idle" /\ shot'[s] = {}
      /\ UNCHANGED <<snapshot, tmp, wal, left, fd, exposed, overlapped>>
  BY DEF SaveReturns, TypeOK
<1>3. TypeOK'
  BY DEF SaveReturns, TypeOK
<1>4. Finite'
  BY <1>1, <1>2, FS_EmptySet DEF Finite
<1>5. Alone'
  BY <1>1, <1>2 DEF Alone, Savers
<1>6. ASSUME ~overlapped' PROVE Undisturbed'
  <2>1. Undisturbed
    BY <1>6, <1>2
  <2>2. \A v \in Savers : /\ Unsettled(v)' = Unsettled(v)
                          /\ \A k \in mem : Passed(v, k)' => v # s /\ Passed(v, k)
    BY <1>1, <1>2 DEF Unsettled, Passed
  <2>3. OneAtATime' /\ SaveSteps'
    BY <1>1, <1>2, <2>1, <2>2 DEF Undisturbed, OneAtATime, SaveSteps, Savers
  <2>4. NoneMissed' /\ AllCollected'
    BY <1>1, <1>2, <2>1, <2>2 DEF Undisturbed, NoneMissed, AllCollected, Savers
  <2>5. LossConfined'
    BY <1>1, <1>2, <2>1 DEF Undisturbed, LossConfined, Recoverable
  <2> QED BY <2>3, <2>4, <2>5 DEF Undisturbed
<1> QED BY <1>3, <1>4, <1>5, <1>6

-----------------------------------------------------------------------------
(* The theorems. *)

LEMMA IInvNext ==
  ASSUME IInv, [Next]_vars
  PROVE  IInv'
<1>1. CASE UNCHANGED vars
  <2> USE <1>1 DEF vars, IInv, Undisturbed
  <2>1. TypeOK' /\ Finite' /\ Alone' /\ (~overlapped => OneAtATime' /\ SaveSteps')
    BY DEF TypeOK, Finite, Alone, OneAtATime, Unsettled, SaveSteps
  <2>2. ~overlapped => NoneMissed' /\ AllCollected' /\ LossConfined'
    BY DEF NoneMissed, AllCollected, Unsettled, Passed, Pending, LossConfined, Recoverable
  <2> QED BY <2>1, <2>2
<1>2. ASSUME NEW w \in Workers,
             (\E k \in Keys : Put(w, k)) \/ Append(w) \/ AppendFails(w)
      PROVE  IInv'
  BY <1>2, PutKeepsIInv, AppendKeepsIInv
<1>3. ASSUME NEW s \in Savers, Save(s) PROVE IInv'
  BY <1>3, StartSaveKeepsIInv, CollectKeepsIInv, WriteKeepsIInv, RenameKeepsIInv,
     TruncateKeepsIInv, SaveReturnsKeepsIInv DEF Save
<1>4. CASE Load \/ LoadFails \/ (\E k \in Keys : Expire(k)) \/ WorkersDone \/ Stop
  BY <1>4, LoadKeepsIInv, ExpireKeepsIInv, WorkersDoneKeepsIInv, StopKeepsIInv
<1> QED BY <1>1, <1>2, <1>3, <1>4 DEF Next

LEMMA IInvAlways == Spec => []IInv
<1>1. IInv /\ [Next]_vars => IInv'
  BY IInvNext
<1> QED BY IInvInit, <1>1, PTL DEF Spec

\* Every variable keeps its type, and no shard ever holds more than its capacity,
\* whatever is put, expires, or is loaded (cache.go:155, cache_persist.go:92).
THEOREM TypeCorrect == Spec => []TypeOK
<1>1. IInv => TypeOK
  BY DEF IInv
<1> QED BY IInvAlways, <1>1, PTL

\* No step makes a torn file the snapshot, whatever fails or stops, unless two
\* Saves of the process have overlapped: the file that is renamed was opened,
\* written and closed by the one Save that renames it (cache_persist.go:164).
THEOREM OnlyOverlapTears == Spec => TornOnlyByOverlap
<1>1. ASSUME IInv, [Next]_vars, snapshot' = Torn, snapshot # Torn
      PROVE  overlapped
  <2>1. PICK s \in Savers : WriteTmp(s) \/ Rename(s)
    <3>1. CASE Load
      BY <3>1, <1>1, ContentFacts DEF Load
    <3>2. CASE \E s \in Savers : Save(s)
      BY <3>2, <1>1 DEF Save, StartSave, CollectShard, OpenTmp, SaveFails, Truncate,
         SaveReturns, files
    <3> QED BY <3>1, <3>2, <1>1 DEF Next, vars, LoadFails, Put, Append, AppendFails, Expire,
            WorkersDone, Stop, files
  <2> QED BY <1>1, <2>1, WriteKeepsIInv, RenameKeepsIInv
<1>2. IInv /\ [Next]_vars => [snapshot' = Torn => snapshot = Torn \/ overlapped]_vars
  BY <1>1
<1> QED BY IInvAlways, <1>2, PTL DEF Spec, TornOnlyByOverlap

\* As long as no two Saves have overlapped, an entry whose Put has returned
\* survives any stop, unless its line was not written or came behind the back of
\* a Save (cache_persist.go:202).
THEOREM LossIsConfined == Spec => []LossConfined
<1>1. IInv => LossConfined
  BY DEF IInv, Undisturbed, LossConfined
<1> QED BY IInvAlways, <1>1, PTL

\* When Run's own Save has returned without an error every entry is on disk, the
\* exposed ones too, and stays there, unless the flusher's Save overlapped it
\* (orchestrator.go:219 does not wait for that one): also when the flusher begins
\* another Save afterwards.
THEOREM FinalSaveCompletes == Spec => []FinalSaveIsComplete
<1>1. IInv => FinalSaveIsComplete
  BY DEF IInv, Undisturbed, AllCollected, FinalSaveIsComplete, Recoverable
<1> QED BY IInvAlways, <1>1, PTL

=============================================================================
