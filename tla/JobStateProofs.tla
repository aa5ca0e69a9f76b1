--------------------------- MODULE JobStateProofs ---------------------------
(***************************************************************************)
(* Proofs about JobState, for every set of paths and every bound on the    *)
(* log: its type invariant, that an open log loses nothing, that snapshot  *)
(* and log together implement ResumeLedger, and that the declarative       *)
(* Replay is what the loop computes.  Then about JobStateFaults: how far a *)
(* failing or torn write reaches.  There Replay is used path by path,      *)
(* since only the paths outside of damaged are read back as they are in    *)
(* memory.                                                                 *)
(***************************************************************************)
EXTENDS MCJobState, JobStateFaults, WellFoundedInduction, SequenceTheorems, TLAPS

-----------------------------------------------------------------------------
(* Folds.  Induction is by the well-foundedness of < over the set of numbers *)
(* for which something fails.  FoldLeft takes an operator, which a lemma     *)
(* cannot be instantiated with: that its recursion has a solution is stated  *)
(* for the operator as a function.                                           *)

\* Induction: what holds for 0 and goes on to the next number holds up to n.
LEMMA UpTo ==
  ASSUME NEW n \in Nat, NEW S, 0 \in S, \A k \in 1..n : k - 1 \in S => k \in S
  PROVE  0..n \subseteq S
<1> DEFINE T == {k \in 0..n : k \notin S}
<1>1. SUFFICES ASSUME T # {} PROVE FALSE
  OBVIOUS
<1>2. T \subseteq Nat
  OBVIOUS
<1>3. PICK k \in T : \A j \in T : ~(<<j, k>> \in OpToRel(<, Nat))
  <2> HIDE DEF T
  <2> QED BY <1>1, <1>2, NatLessThanWellFounded, WFMin
<1>4. k \in 0..n /\ k # 0 /\ k \notin S
  BY <1>3
<1>5. k - 1 \in 0..n /\ k \in 1..n
  BY <1>4
<1>6. k - 1 \in S
  <2>1. ASSUME k - 1 \in T PROVE FALSE
    <3>1. ~(k - 1 < k)
      BY <2>1, <1>2, <1>3 DEF OpToRel
    <3> QED BY <3>1, <1>4
  <2> QED BY <2>1, <1>5
<1> QED BY <1>4, <1>5, <1>6

\* A set of numbers up to n that is not empty has a greatest.
LEMMA MaxOfBounded ==
  ASSUME NEW n \in Nat, NEW s \in SUBSET (1..n), s # {}
  PROVE  Max(s) \in s /\ \A j \in s : j <= Max(s)
<1> DEFINE FromEnd == {n - i : i \in s}
<1>1. FromEnd \subseteq Nat /\ FromEnd # {}
  <2>1. \A i \in s : n - i \in Nat
    OBVIOUS
  <2> QED BY <2>1
<1>2. PICK d \in FromEnd : \A e \in FromEnd : ~(<<e, d>> \in OpToRel(<, Nat))
  <2> HIDE DEF FromEnd
  <2> QED BY <1>1, NatLessThanWellFounded, WFMin
<1>3. PICK i \in s : d = n - i
  BY <1>2
<1>4. \A j \in s : j <= i
  <2> SUFFICES ASSUME NEW j \in s PROVE j <= i
    OBVIOUS
  <2>1. n - j \in FromEnd
    OBVIOUS
  <2>2. ~(n - j < d)
    BY <2>1, <1>1, <1>2 DEF OpToRel
  <2>3. n \in Int /\ i \in Int /\ j \in Int
    OBVIOUS
  <2> QED BY ONLY <2>2, <2>3, <1>3
<1>5. \E x \in s : \A y \in s : x >= y
  BY <1>4
<1> QED BY <1>5 DEF Max

\* The greatest of the numbers up to k, and of those that have k + 1.
LEMMA MaxUpTo ==
  ASSUME NEW k \in Nat, k # 0
  PROVE  1..k # {} /\ Max(1..k) = k /\ (1..k) \ {k} = 1..(k - 1)
<1>1. k \in 1..k /\ \A y \in 1..k : k >= y
  OBVIOUS
<1>2. Max(1..k) = k
  BY <1>1 DEF Max
<1> QED BY <1>1, <1>2

\* What the fold of w from the left, by Op, of every part of w is.
IsFold(h, X, base, w, Op) ==
  /\ h \in [SUBSET DOMAIN w -> X]
  /\ \A s \in SUBSET DOMAIN w :
       /\ s = {} => h[s] = base
       /\ s # {} => /\ Max(s) \in DOMAIN w
                    /\ h[s] = Op[<<h[s \ {Max(s)}], w[Max(s)]>>]

\* The recursion of a fold has a solution.
LEMMA FoldExists ==
  ASSUME NEW X, NEW Y, NEW base \in X, NEW w \in Seq(Y), NEW Op \in [X \X Y -> X]
  PROVE  \E h : IsFold(h, X, base, w, Op)
<1> DEFINE Solves(h, k) ==
      /\ h \in [SUBSET (1..k) -> X]
      /\ \A s \in SUBSET (1..k) :
           /\ s = {} => h[s] = base
           /\ s # {} => /\ Max(s) \in 1..k
                        /\ h[s] = Op[<<h[s \ {Max(s)}], w[Max(s)]>>]
           S == {k \in 0..Len(w) : \E h : Solves(h, k)}
<1>1. Len(w) \in Nat /\ DOMAIN w = 1..Len(w) /\ \A i \in 1..Len(w) : w[i] \in Y
  OBVIOUS
<1>2. 0 \in S
  <2>0. \A s \in SUBSET (1..0) : s = {}
    OBVIOUS
  <2>1. Solves([s \in SUBSET (1..0) |-> base], 0)
    BY <2>0
  <2> QED BY <2>1, <1>1
<1>3. ASSUME NEW k \in 1..Len(w), k - 1 \in S PROVE k \in S
  <2>1. PICK h : Solves(h, k - 1)
    BY <1>3
  <2> DEFINE g == [s \in SUBSET (1..k) |->
                     IF k \in s THEN Op[<<h[s \ {k}], w[k]>>] ELSE h[s]]
  <2>2. ASSUME NEW s \in SUBSET (1..k)
        PROVE  /\ k \in s => Max(s) = k /\ s \ {k} \in SUBSET (1..(k - 1))
               /\ k \notin s => s \in SUBSET (1..(k - 1))
    <3>1. ASSUME k \in s PROVE Max(s) = k
      <4>1. k \in Nat /\ s # {}
        BY <3>1
      <4>2. Max(s) \in s /\ k <= Max(s)
        BY <4>1, <3>1, MaxOfBounded
      <4>3. Max(s) \in 1..k
        BY <4>2
      <4> QED BY ONLY <4>1, <4>2, <4>3
    <3> QED BY <3>1
  <2>3. g \in [SUBSET (1..k) -> X]
    <3> SUFFICES ASSUME NEW s \in SUBSET (1..k)
                 PROVE  (IF k \in s THEN Op[<<h[s \ {k}], w[k]>>] ELSE h[s]) \in X
      OBVIOUS
    <3> QED BY <1>1, <2>1, <2>2
  <2>4. ASSUME NEW s \in SUBSET (1..k), s # {}
        PROVE  Max(s) \in 1..k /\ g[s] = Op[<<g[s \ {Max(s)}], w[Max(s)]>>]
    <3>1. CASE k \in s
      <4>1. Max(s) = k /\ s \ {k} \in SUBSET (1..k) /\ k \notin s \ {k}
        BY <2>2, <3>1
      <4>2. g[s \ {k}] = h[s \ {k}]
        BY <4>1
      <4>3. g[s] = Op[<<h[s \ {k}], w[k]>>]
        BY <3>1
      <4> QED BY <4>1, <4>2, <4>3
    <3>2. CASE k \notin s
      <4>1. s \in SUBSET (1..(k - 1)) /\ g[s] = h[s]
        BY <2>2, <3>2
      <4>2. Max(s) \in 1..(k - 1) /\ h[s] = Op[<<h[s \ {Max(s)}], w[Max(s)]>>]
        BY <2>1, <2>4, <4>1
      <4>3. s \ {Max(s)} \in SUBSET (1..k) /\ k \notin s \ {Max(s)}
        BY <3>2
      <4>4. g[s \ {Max(s)}] = h[s \ {Max(s)}]
        BY <4>3
      <4> HIDE DEF g
      <4>5. Max(s) \in 1..k
        BY <4>2
      <4> QED BY ONLY <4>1, <4>2, <4>4, <4>5
    <3> QED BY <3>1, <3>2
  <2>5. g[{}] = base
    BY <2>1
  <2>6. Solves(g, k)
    <3> HIDE DEF g
    <3> QED BY <2>3, <2>4, <2>5
  <2> HIDE DEF Solves
  <2> QED BY <2>6
<1>4. Len(w) \in S
  <2> HIDE DEF S
  <2>1. 0..Len(w) \subseteq S
    BY <1>1, <1>2, <1>3, UpTo
  <2> QED BY <1>1, <2>1
<1>5. PICK h : Solves(h, Len(w))
  BY <1>4
<1> QED BY <1>1, <1>5 DEF IsFold

-----------------------------------------------------------------------------
(* Replay. *)

\* A log that mentions a path mentions it a last time.
LEMMA LastMentionExists ==
  ASSUME NEW w \in Seq(Line), NEW f \in Files, Mentions(w, f) # {}
  PROVE  \E i \in Mentions(w, f) : IsLastMention(w, f, i)
<1> DEFINE FromEnd == {Len(w) - i : i \in Mentions(w, f)}
<1>1. Mentions(w, f) \subseteq 1..Len(w)
  BY DEF Mentions
<1>2. Len(w) \in Nat
  OBVIOUS
<1>3. FromEnd \subseteq Nat /\ FromEnd # {}
  BY <1>1, <1>2
<1>4. PICK d \in FromEnd : \A e \in FromEnd : ~(<<e, d>> \in OpToRel(<, Nat))
  <2> HIDE DEF FromEnd
  <2> QED BY <1>3, NatLessThanWellFounded, WFMin
<1>5. PICK i \in Mentions(w, f) : d = Len(w) - i
  BY <1>4
<1>6. ASSUME NEW j \in Mentions(w, f) PROVE j <= i
  <2>1. Len(w) - j \in FromEnd
    OBVIOUS
  <2>2. ~(Len(w) - j < d)
    BY <2>1, <1>3, <1>4 DEF OpToRel
  <2> QED BY <2>2, <1>1, <1>2, <1>5
<1> QED BY <1>5, <1>6 DEF IsLastMention

\* The last mention is unique, so LastStatus is the status of that line.
LEMMA LastStatusIs ==
  ASSUME NEW w \in Seq(Line), NEW f \in Files,
         NEW i, IsLastMention(w, f, i)
  PROVE  LastStatus(w, f) = w[i].status
<1>1. Mentions(w, f) \subseteq Int /\ i \in Mentions(w, f)
  BY DEF Mentions, IsLastMention
<1>2. ASSUME NEW j \in Mentions(w, f), IsLastMention(w, f, j) PROVE j = i
  BY <1>1, <1>2 DEF IsLastMention
<1> QED BY <1>1, <1>2 DEF LastStatus

\* Replaying well-formed lines over a table gives a table.
LEMMA ReplayType ==
  ASSUME NEW base \in Table, NEW w \in Seq(Line)
  PROVE  Replay(base, w) \in Table
<1>1. ASSUME NEW f \in Files, Mentions(w, f) # {} PROVE LastStatus(w, f) \in Status
  <2>1. PICK i \in Mentions(w, f) : IsLastMention(w, f, i)
    BY <1>1, LastMentionExists
  <2>2. w[i] \in Line
    BY <2>1 DEF Mentions
  <2> QED BY <2>1, <2>2, LastStatusIs DEF Line
<1> QED BY <1>1 DEF Replay, Table

\* An empty log leaves the table as it is.
LEMMA ReplayEmpty ==
  ASSUME NEW base \in Table
  PROVE  Replay(base, <<>>) = base
BY DEF Replay, Table, Mentions

\* One more line is one more assignment.
LEMMA ReplayAppend ==
  ASSUME NEW base \in Table, NEW w \in Seq(Line), NEW f \in Files, NEW s \in Status
  PROVE  Replay(base, AppendLine(w, f, s)) = [Replay(base, w) EXCEPT ![f] = s]
<1> DEFINE line == [path |-> f, status |-> s]
<1> DEFINE v == Append(w, line)
<1>1. line \in Line
  BY DEF Line
<1>2. /\ v \in Seq(Line)
      /\ Len(v) = Len(w) + 1
      /\ DOMAIN v = 1..(Len(w) + 1)
      /\ DOMAIN w = 1..Len(w)
      /\ \A i \in 1..Len(w) : v[i] = w[i]
      /\ v[Len(w) + 1] = line
  BY <1>1
<1>3. Len(w) \in Nat
  OBVIOUS
<1>4. IsLastMention(v, f, Len(w) + 1)
  <2> HIDE DEF v
  <2>1. Len(w) + 1 \in Mentions(v, f)
    BY <1>2, <1>3 DEF Mentions
  <2> QED BY <2>1, <1>2, <1>3 DEF IsLastMention, Mentions
<1>5. LastStatus(v, f) = s /\ Mentions(v, f) # {}
  <2> HIDE DEF v
  <2> QED BY <1>2, <1>4, LastStatusIs DEF IsLastMention
<1>6. ASSUME NEW g \in Files, g # f
      PROVE  /\ Mentions(v, g) = Mentions(w, g)
             /\ Mentions(w, g) # {} => LastStatus(v, g) = LastStatus(w, g)
  <2> HIDE DEF v
  <2>1. v[Len(w) + 1].path # g
    BY <1>2, <1>6
  <2>2. Mentions(v, g) = Mentions(w, g)
    BY <2>1, <1>2, <1>3 DEF Mentions
  <2>3. ASSUME Mentions(w, g) # {} PROVE LastStatus(v, g) = LastStatus(w, g)
    <3>1. PICK i \in Mentions(w, g) : IsLastMention(w, g, i)
      BY <2>3, LastMentionExists
    <3>2. IsLastMention(v, g, i)
      BY <3>1, <2>2 DEF IsLastMention
    <3>3. v[i] = w[i]
      BY <3>1, <1>2 DEF Mentions
    <3> QED BY <1>2, <3>1, <3>2, <3>3, LastStatusIs
  <2> QED BY <2>2, <2>3
<1>7. ASSUME NEW g \in Files
      PROVE  Replay(base, v)[g] = [Replay(base, w) EXCEPT ![f] = s][g]
  <2> HIDE DEF v
  <2>1. CASE g = f
    BY <2>1, <1>5 DEF Replay
  <2>2. CASE g # f
    BY <2>2, <1>6 DEF Replay
  <2> QED BY <2>1, <2>2
<1> QED BY <1>7 DEF Replay, AppendLine

\* Replaying a log over a table that already contains it changes nothing: this
\* is what makes the moment between Compact's rename and its removal of the log
\* harmless.
LEMMA ReplayTwice ==
  ASSUME NEW base \in Table, NEW w \in Seq(Line)
  PROVE  Replay(Replay(base, w), w) = Replay(base, w)
BY DEF Replay

\* Changing the table below a log changes at most the paths the log does not
\* mention, and those take the new table's status.
LEMMA ReplayRebase ==
  ASSUME NEW base, NEW other, NEW w, NEW f \in Files
  PROVE  \/ Replay(other, w)[f] = Replay(base, w)[f]
         \/ Replay(other, w)[f] = other[f]
BY DEF Replay

-----------------------------------------------------------------------------
(* The inductive invariant. *)

LEMMA NoEntriesType == NoEntries \in Table
BY DEF NoEntries, Table

LEMMA InitInv == Init => IInv
<1> SUFFICES ASSUME Init PROVE IInv
  OBVIOUS
<1>1. TypeOK
  BY NoEntriesType, MaxWalAssumption DEF Init, TypeOK
<1> QED BY <1>1 DEF Init, IInv, PhaseOK, NothingLostWhileOpen

LEMMA NextInv == IInv /\ [Next]_vars => IInv'
<1> SUFFICES ASSUME IInv, [Next]_vars PROVE IInv'
  OBVIOUS
<1> USE DEF IInv
<1>0. /\ TypeOK
      /\ PhaseOK
      /\ NothingLostWhileOpen
      /\ Recovered \in Table
  BY ReplayType DEF TypeOK, Recovered
<1>1. CASE Load
  <2>1. TypeOK'
    BY <1>0, <1>1 DEF Load, TypeOK, Recovered
  <2>2. PhaseOK' /\ NothingLostWhileOpen'
    BY <1>1 DEF Load, PhaseOK, NothingLostWhileOpen, Recovered
  <2> QED BY <2>1, <2>2
<1>2. ASSUME NEW f \in Files, NEW s \in Status, Mark(f, s) PROVE IInv'
  <2>1. entries' \in Table
    BY <1>0, <1>2 DEF Mark, TypeOK, Table
  <2>2. CASE walFile = "open"
    <3>1. wal' = AppendLine(wal, f, s) /\ Len(wal) < MaxWal
      BY <1>2, <2>2 DEF Mark
    <3>2. wal' \in Seq(Line) /\ Len(wal') <= MaxWal
      <4>1. [path |-> f, status |-> s] \in Line
        BY DEF Line
      <4> QED BY <4>1, <3>1, <1>0, MaxWalAssumption DEF AppendLine, TypeOK
    <3>3. TypeOK'
      BY <1>0, <1>2, <2>1, <3>2 DEF Mark, TypeOK
    <3>4. Recovered' = [Recovered EXCEPT ![f] = s]
      BY <1>0, <1>2, <3>1, ReplayAppend DEF Recovered, TypeOK, Mark
    <3>5. NothingLostWhileOpen'
      BY <1>0, <1>2, <2>2, <3>4 DEF NothingLostWhileOpen, Mark
    <3>6. PhaseOK'
      BY <1>0, <1>2 DEF PhaseOK, Mark
    <3> QED BY <3>3, <3>5, <3>6
  <2>3. CASE walFile = "nil"
    <3>1. UNCHANGED <<pc, walFile, snapshot, wal>>
      BY <1>2, <2>3 DEF Mark
    <3>2. pc = "idle"
      BY <1>2 DEF Mark
    <3> QED BY <1>0, <2>1, <2>3, <3>1, <3>2 DEF TypeOK, PhaseOK, NothingLostWhileOpen
  <2> QED BY <1>0, <2>2, <2>3 DEF TypeOK
<1>3. CASE Close
  BY <1>0, <1>3 DEF Close, TypeOK, PhaseOK, NothingLostWhileOpen, Recovered
<1>4. CASE CompactTmp
  BY <1>0, <1>4 DEF CompactTmp, TypeOK, PhaseOK, NothingLostWhileOpen, Recovered
<1>5. CASE CompactRename
  <2>1. TypeOK' /\ PhaseOK'
    BY <1>0, <1>5 DEF CompactRename, TypeOK, PhaseOK
  <2>2. NothingLostWhileOpen'
    <3> SUFFICES ASSUME walFile' = "open" PROVE Recovered' = entries'
      BY DEF NothingLostWhileOpen
    <3>1. Recovered = entries
      BY <1>0, <1>5 DEF CompactRename, NothingLostWhileOpen
    <3>2. Recovered' = Replay(Recovered, wal)
      BY <3>1, <1>5 DEF CompactRename, Recovered
    <3>3. Recovered' = Recovered
      BY <3>2, <1>0, ReplayTwice DEF Recovered, TypeOK
    <3> QED BY <3>1, <3>3, <1>5 DEF CompactRename
  <2> QED BY <2>1, <2>2
<1>6. CASE CompactClose
  BY <1>0, <1>6 DEF CompactClose, TypeOK, PhaseOK, NothingLostWhileOpen
<1>7. CASE CompactRemove
  BY <1>0, <1>7, MaxWalAssumption DEF CompactRemove, TypeOK, PhaseOK, NothingLostWhileOpen
<1>8. CASE DeleteClose
  BY <1>0, <1>8 DEF DeleteClose, TypeOK, PhaseOK, NothingLostWhileOpen
<1>9. CASE DeleteSnapshot
  BY <1>0, <1>9, NoEntriesType DEF DeleteSnapshot, TypeOK, PhaseOK, NothingLostWhileOpen
<1>10. CASE DeleteWal
  BY <1>0, <1>10, MaxWalAssumption DEF DeleteWal, TypeOK, PhaseOK, NothingLostWhileOpen
<1>11. CASE Stop
  BY <1>0, <1>11, NoEntriesType DEF Stop, TypeOK, PhaseOK, NothingLostWhileOpen
<1>12. CASE UNCHANGED vars
  BY <1>0, <1>12 DEF vars, TypeOK, PhaseOK, NothingLostWhileOpen, Recovered
<1> QED
  BY <1>1, <1>2, <1>3, <1>4, <1>5, <1>6, <1>7, <1>8, <1>9, <1>10, <1>11, <1>12 DEF Next

LEMMA Invariance == Spec => []IInv
<1> QED BY InitInv, NextInv, PTL DEF Spec

\* The state of jobstate.State and of its two files is always well formed.
THEOREM TypeCorrect == Spec => []TypeOK
BY Invariance, PTL DEF IInv

\* A State with an open log can be stopped at any moment, also inside Compact:
\* Load rebuilds exactly the table the process had.
THEOREM OpenLogLosesNothing == Spec => []NothingLostWhileOpen
BY Invariance, PTL DEF IInv

-----------------------------------------------------------------------------
(* Snapshot and log implement the ledger. *)

LEMMA LedgerInitMap == Init => Ledger!LedgerInit
<1> SUFFICES ASSUME Init PROVE Ledger!LedgerInit
  OBVIOUS
<1>1. Recovered = snapshot
  BY ReplayEmpty DEF Init, Recovered
<1> QED BY <1>1 DEF Init, Ledger!LedgerInit, Ledger!NoEntries, NoEntries,
           Ledger!Table, Table, Ledger!Status, Status

LEMMA LedgerStepMap ==
  IInv /\ [Next]_vars => [Ledger!LedgerNext]_(Ledger!ledgerVars)
<1> SUFFICES ASSUME IInv, [Next]_vars
             PROVE  Ledger!LedgerNext \/ UNCHANGED Ledger!ledgerVars
  OBVIOUS
<1>0. /\ TypeOK
      /\ PhaseOK
      /\ NothingLostWhileOpen
      /\ Recovered \in Table
  BY ReplayType DEF IInv, TypeOK, Recovered
<1>1. CASE Load
  <2>1. Ledger!Open
    BY <1>1 DEF Load, Ledger!Open, Recovered
  <2> QED BY <2>1 DEF Ledger!LedgerNext
<1>2. ASSUME NEW f \in Files, NEW s \in Status, Mark(f, s)
      PROVE  Ledger!LedgerNext
  <2>1. CASE walFile = "open"
    <3>1. Recovered' = [Recovered EXCEPT ![f] = s]
      BY <1>0, <1>2, <2>1, ReplayAppend DEF Recovered, TypeOK, Mark
    <3>2. Ledger!Record(f, s)
      BY <1>2, <2>1, <3>1 DEF Mark, Ledger!Record
    <3> QED BY <3>2 DEF Ledger!LedgerNext, Ledger!Status, Status
  <2>2. CASE walFile = "nil"
    <3>1. Ledger!Record(f, s)
      BY <1>2, <2>2 DEF Mark, Ledger!Record, Recovered
    <3> QED BY <3>1 DEF Ledger!LedgerNext, Ledger!Status, Status
  <2> QED BY <1>0, <2>1, <2>2 DEF TypeOK
<1>3. ASSUME Close \/ CompactClose \/ DeleteClose PROVE Ledger!LedgerNext
  <2>1. Ledger!Detach
    BY <1>3 DEF Close, CompactClose, DeleteClose, Ledger!Detach, Recovered
  <2> QED BY <2>1 DEF Ledger!LedgerNext
<1>4. CASE CompactTmp
  BY <1>4 DEF CompactTmp, Recovered, Ledger!ledgerVars
<1>5. CASE CompactRename
  <2> DEFINE S == {f \in Files : Recovered'[f] = entries[f]}
  <2>1. ASSUME NEW f \in Files PROVE Recovered'[f] = Recovered[f] \/ Recovered'[f] = entries[f]
    BY <1>5, ReplayRebase DEF CompactRename, Recovered
  <2>2. Recovered' \in Table
    BY <1>0, <1>5, ReplayType DEF CompactRename, Recovered, TypeOK
  <2>3. Recovered' = [f \in Files |-> IF f \in S THEN entries[f] ELSE Recovered[f]]
    BY <2>1, <2>2 DEF Table
  <2>4. Ledger!CatchUp(S)
    BY <2>3, <1>5 DEF CompactRename, Ledger!CatchUp
  <2> QED BY <2>4 DEF Ledger!LedgerNext
<1>6. CASE CompactRemove
  <2>1. snapshot = entries /\ entries \in Table
    BY <1>0, <1>6 DEF CompactRemove, PhaseOK, TypeOK
  <2>2. Recovered' = entries
    BY <2>1, <1>6, ReplayEmpty DEF CompactRemove, Recovered
  <2>3. Ledger!CatchUp(Files)
    BY <2>1, <2>2, <1>6 DEF CompactRemove, Ledger!CatchUp, Table
  <2> QED BY <2>3 DEF Ledger!LedgerNext
<1>7. CASE DeleteSnapshot
  <2> DEFINE S == {f \in Files : Recovered'[f] = None}
  <2>1. ASSUME NEW f \in Files PROVE Recovered'[f] = Recovered[f] \/ Recovered'[f] = None
    BY <1>7, ReplayRebase DEF DeleteSnapshot, Recovered, NoEntries
  <2>2. Recovered' \in Table
    BY <1>0, <1>7, NoEntriesType, ReplayType DEF DeleteSnapshot, Recovered, TypeOK
  <2>3. Recovered' = [f \in Files |-> IF f \in S THEN None ELSE Recovered[f]]
    BY <2>1, <2>2 DEF Table
  <2>4. Ledger!Forget(S)
    BY <2>3, <1>0, <1>7 DEF DeleteSnapshot, Ledger!Forget, PhaseOK
  <2> QED BY <2>4 DEF Ledger!LedgerNext
<1>8. CASE DeleteWal
  <2>1. snapshot = NoEntries /\ walFile = "nil"
    BY <1>0, <1>8 DEF DeleteWal, PhaseOK
  <2>2. Recovered' = NoEntries
    BY <2>1, <1>8, NoEntriesType, ReplayEmpty DEF DeleteWal, Recovered
  <2>3. Ledger!Forget(Files)
    BY <2>1, <2>2, <1>8 DEF DeleteWal, Ledger!Forget, NoEntries
  <2> QED BY <2>3 DEF Ledger!LedgerNext
<1>9. CASE Stop
  <2>1. Ledger!Stop
    BY <1>9 DEF Stop, Ledger!Stop, Recovered, NoEntries, Ledger!NoEntries
  <2> QED BY <2>1 DEF Ledger!LedgerNext
<1>10. CASE UNCHANGED vars
  BY <1>10 DEF vars, Recovered, Ledger!ledgerVars
<1> QED
  BY <1>1, <1>2, <1>3, <1>4, <1>5, <1>6, <1>7, <1>8, <1>9, <1>10 DEF Next

\* A crash, a Compact or a Delete cut anywhere: what the next process reads is
\* still a ledger in which overwritten statuses never come back.
THEOREM JobStateImplementsLedger == Spec => ImplementsLedger
<1> QED BY Invariance, LedgerInitMap, LedgerStepMap, PTL
        DEF Spec, ImplementsLedger, Ledger!LedgerSpec

-----------------------------------------------------------------------------
(* The loop of replayWAL. *)

\* The loop goes over tables, one line at a time.
LEMMA LoopUnfolds ==
  ASSUME NEW base \in Table, NEW w \in Seq(Line)
  PROVE  \E t : /\ t[0] = base
                /\ \A k \in 1..Len(w) :
                     t[k] = [t[k - 1] EXCEPT ![w[k].path] = w[k].status]
                /\ ReplayLoop(base, w) = t[Len(w)]
<1> DEFINE D == SUBSET DOMAIN w
           Step(g, s) == IF s = {} THEN base
                         ELSE [g[s \ {Max(s)}] EXCEPT ![w[Max(s)].path] = w[Max(s)].status]
           Solution(g) == g = [s \in D |-> Step(g, s)]
           G == CHOOSE g : Solution(g)
           Op == [x \in Table \X Line |-> [x[1] EXCEPT ![x[2].path] = x[2].status]]
           Solves(h, s) == /\ s = {} => h[s] = base
                           /\ s # {} => /\ Max(s) \in DOMAIN w
                                        /\ h[s] = Op[<<h[s \ {Max(s)}], w[Max(s)]>>]
<1>0. DOMAIN w = 1..Len(w) /\ Len(w) \in Nat /\ \A i \in DOMAIN w : w[i] \in Line
  OBVIOUS
<1>1. \E g : Solution(g)
  <2>1. Op \in [Table \X Line -> Table]
    BY DEF Table, Line
  <2>2. PICK h : IsFold(h, Table, base, w, Op)
    <3> HIDE DEF Op
    <3> QED BY <2>1, FoldExists
  <2>3. h \in [D -> Table] /\ \A s \in D : Solves(h, s)
    <3> HIDE DEF Op
    <3> QED BY <2>2 DEF IsFold
  <2>4. ASSUME NEW s \in D PROVE h[s] = Step(h, s)
    <3>1. CASE s = {}
      BY <2>3, <3>1
    <3>2. CASE s # {}
      <4>1. Max(s) \in DOMAIN w /\ h[s] = Op[<<h[s \ {Max(s)}], w[Max(s)]>>]
        BY <2>3, <3>2
      <4>2. s \ {Max(s)} \in D /\ w[Max(s)] \in Line
        BY <1>0, <4>1
      <4>3. h[s \ {Max(s)}] \in Table
        BY <2>3, <4>2
      <4> QED BY <3>2, <4>1, <4>2, <4>3
    <3> QED BY <3>1, <3>2
  <2>5. h = [s \in D |-> h[s]]
    BY <2>3
  <2>6. [s \in D |-> h[s]] = [s \in D |-> Step(h, s)]
    <3> HIDE DEF D, Step
    <3> QED BY <2>4
  <2> HIDE DEF D, Step
  <2> QED BY <2>5, <2>6
<1>2. Solution(G)
  BY <1>1
<1>3. ReplayLoop(base, w) = G[DOMAIN w]
  BY DEF ReplayLoop, FoldLeft, MapThenFoldSet
<1> DEFINE t == [k \in 0..Len(w) |-> G[1..k]]
<1> HIDE DEF G
<1>4. t[0] = base
  <2>1. 1..0 = {} /\ {} \in D
    OBVIOUS
  <2>2. G[{}] = Step(G, {})
    BY <1>2, <2>1
  <2> QED BY <1>0, <2>1, <2>2
<1>5. ASSUME NEW k \in 1..Len(w)
      PROVE  t[k] = [t[k - 1] EXCEPT ![w[k].path] = w[k].status]
  <2>1. 1..k \in D /\ 1..k # {} /\ Max(1..k) = k /\ (1..k) \ {k} = 1..(k - 1)
    BY <1>0, MaxUpTo
  <2>2. G[1..k] = Step(G, 1..k)
    <3> HIDE DEF D, Step
    <3> QED BY <1>2, <2>1
  <2>3. G[1..k] = [G[1..(k - 1)] EXCEPT ![w[k].path] = w[k].status]
    BY ONLY <2>1, <2>2
  <2>4. k \in 0..Len(w) /\ k - 1 \in 0..Len(w)
    BY <1>0
  <2>5. t[k] = G[1..k] /\ t[k - 1] = G[1..(k - 1)]
    BY ONLY <2>4
  <2> QED BY ONLY <2>3, <2>5
<1>6. ReplayLoop(base, w) = t[Len(w)]
  BY <1>0, <1>3
<1> HIDE DEF t
<1> QED BY <1>4, <1>5, <1>6

\* On every table and log the loop computes Replay: by induction on the lines read.
LEMMA LoopIsReplay ==
  ASSUME NEW base \in Table, NEW w \in Seq(Line)
  PROVE  ReplayLoop(base, w) = Replay(base, w)
<1>0. Len(w) \in Nat /\ DOMAIN w = 1..Len(w) /\ \A i \in 1..Len(w) : w[i] \in Line
  OBVIOUS
<1>1. PICK t : /\ t[0] = base
               /\ \A k \in 1..Len(w) :
                    t[k] = [t[k - 1] EXCEPT ![w[k].path] = w[k].status]
               /\ ReplayLoop(base, w) = t[Len(w)]
  BY LoopUnfolds
<1> DEFINE First(k) == [i \in 1..k |-> w[i]]
           S == {k \in 0..Len(w) : t[k] = Replay(base, First(k))}
<1>2. 0 \in S
  <2>1. First(0) = <<>>
    BY SMT
  <2>2. t[0] = Replay(base, First(0))
    BY <1>1, <2>1, ReplayEmpty
  <2> QED BY <1>0, <2>2
<1>3. ASSUME NEW k \in 1..Len(w), k - 1 \in S PROVE k \in S
  <2>0. k \in Nat /\ k - 1 \in Nat /\ k \in 0..Len(w)
    BY <1>0
  <2>1. First(k - 1) \in Seq(Line) /\ Len(First(k - 1)) = k - 1
    BY <1>0, <2>0
  <2>2. w[k] \in Line /\ w[k] = [path |-> w[k].path, status |-> w[k].status]
    BY <1>0 DEF Line
  <2>3. First(k) = Append(First(k - 1), w[k])
    <3>1. Append(First(k - 1), w[k])
            = [i \in 1..(k - 1 + 1) |-> IF i \in 1..(k - 1) THEN First(k - 1)[i] ELSE w[k]]
      <4> HIDE DEF First
      <4> QED BY <2>0, <2>1
    <3>2. k - 1 + 1 = k
      BY <2>0
    <3>3. First(k) = [i \in 1..k |-> IF i \in 1..(k - 1) THEN First(k - 1)[i] ELSE w[k]]
      BY <2>0
    <3> QED BY <3>1, <3>2, <3>3
  <2> HIDE DEF First
  <2>4. First(k) = AppendLine(First(k - 1), w[k].path, w[k].status)
    BY <2>2, <2>3 DEF AppendLine
  <2>5. w[k].path \in Files /\ w[k].status \in Status
    BY <2>2 DEF Line
  <2>6. Replay(base, First(k)) = [Replay(base, First(k - 1)) EXCEPT ![w[k].path] = w[k].status]
    BY <2>1, <2>4, <2>5, ReplayAppend
  <2>7. t[k] = Replay(base, First(k))
    BY <1>1, <1>3, <2>6
  <2> QED BY <2>0, <2>7
<1>4. Len(w) \in S
  <2> HIDE DEF S
  <2>1. 0..Len(w) \subseteq S
    BY <1>0, <1>2, <1>3, UpTo
  <2> QED BY <1>0, <2>1
<1>5. First(Len(w)) = w
  BY <1>0
<1> QED BY <1>1, <1>4, <1>5

\* replayWAL of jobstate.go, one assignment per line in file order, rebuilds what
\* the declarative Replay of every other theorem says, whatever the files hold.
THEOREM ReplayIsLoop == Spec => []ReplayIsTheLoop
<1>1. IInv => ReplayIsTheLoop
  BY LoopIsReplay DEF IInv, TypeOK, ReplayIsTheLoop, Recovered
<1> QED BY <1>1, Invariance, PTL

-----------------------------------------------------------------------------
(* Replay, path by path. *)

\* A path that no line is about keeps its status.
LEMMA ReplayUnmentioned ==
  ASSUME NEW base, NEW w, NEW f \in Files, \A i \in DOMAIN w : w[i].path # f
  PROVE  Replay(base, w)[f] = base[f]
BY DEF Replay, Mentions

\* One more line, about another path.
LEMMA ReplayOther ==
  ASSUME NEW base \in Table, NEW w \in Seq(Line), NEW line \in Line,
         NEW f \in Files, f # line.path
  PROVE  Replay(base, w \o <<line>>)[f] = Replay(base, w)[f]
<1>1. PICK g \in Files, s \in Status : line = [path |-> g, status |-> s] /\ g # f
  BY DEF Line
<1>2. w \o <<line>> = AppendLine(w, g, s)
  BY <1>1 DEF AppendLine
<1>3. Replay(base, w) \in Table /\ Replay(base, AppendLine(w, g, s)) = [Replay(base, w) EXCEPT ![g] = s]
  BY ReplayAppend, ReplayType
<1> QED BY <1>1, <1>2, <1>3 DEF Table

\* The table below a log matters only for a path the log is not about.
LEMMA ReplayOver ==
  ASSUME NEW base, NEW other, NEW w, NEW f \in Files,
         other[f] = Replay(base, w)[f]
  PROVE  Replay(other, w)[f] = other[f]
<1>1. CASE Mentions(w, f) = {}
  BY <1>1 DEF Replay
<1>2. CASE Mentions(w, f) # {}
  BY <1>2 DEF Replay
<1> QED BY <1>1, <1>2

-----------------------------------------------------------------------------
(* The inductive invariant. *)

\* Compact and Delete take the log away only after they closed it, and Compact
\* closes it only once the snapshot holds the table.
ClosedFirst ==
  pc \in {"compact_remove", "delete_snapshot", "delete_wal"} => walFile = "nil"

FaultInv == FaultTypeOK /\ ClosedFirst /\ DamageConfined

\* What Load can read of the log is made of lines.
LEMMA ReadableType ==
  ASSUME FaultTypeOK
  PROVE  /\ ReadableWal \in Seq(Line) /\ RecoveredNow \in Table
         /\ TailPaths \subseteq Files
         /\ {ReadableWal[i].path : i \in DOMAIN ReadableWal} \subseteq Files
<1>1. JunkLine \notin Line
  BY NonePathAssumption DEF JunkLine, Line
<1>2. wal \in Seq(Line) /\ snapshot \in Table
  BY DEF FaultTypeOK, TypeOK
<1>3. tail = NoTail \/ tail = JunkTail \/ \E line \in Line : tail = <<line>>
  BY DEF FaultTypeOK, TailTypes
<1>4. ReadableWal \in Seq(Line)
  <2>1. CASE tail = JunkTail
    BY <1>2, <2>1 DEF ReadableWal
  <2>2. CASE tail # JunkTail
    <3>1. tail \in Seq(Line)
      <4>1. <<>> \in Seq(Line) /\ \A line \in Line : <<line>> \in Seq(Line)
        OBVIOUS
      <4> QED BY <1>3, <2>2, <4>1 DEF NoTail
    <3> QED BY <1>2, <2>2, <3>1 DEF ReadableWal
  <2> QED BY <2>1, <2>2
<1>5. TailPaths \subseteq Files
  <2>1. CASE tail = NoTail
    BY <2>1 DEF NoTail, TailPaths
  <2>2. CASE tail = JunkTail
    BY <2>2 DEF JunkTail, JunkLine, TailPaths
  <2>3. ASSUME NEW line \in Line, tail = <<line>> PROVE TailPaths \subseteq Files
    BY <2>3 DEF TailPaths, Line
  <2> QED BY <1>3, <2>1, <2>2, <2>3
<1>6. {ReadableWal[i].path : i \in DOMAIN ReadableWal} \subseteq Files
  <2>1. PICK w \in Seq(Line) : w = ReadableWal
    BY <1>4
  <2>2. \A i \in DOMAIN w : w[i] \in Line
    OBVIOUS
  <2>3. \A line \in Line : line.path \in Files
    BY DEF Line
  <2> QED BY <2>1, <2>2, <2>3
<1> QED BY <1>2, <1>4, <1>5, <1>6, ReplayType DEF RecoveredNow

\* A path the tail t is not about is read back from the lines before it.
LEMMA TailAside ==
  ASSUME NEW base \in Table, NEW w \in Seq(Line), NEW t \in TailTypes,
         NEW f \in Files, \A i \in DOMAIN t : t[i].path # f
  PROVE  Replay(base, IF t = JunkTail THEN w ELSE w \o t)[f] = Replay(base, w)[f]
<1>1. CASE t = JunkTail
  BY <1>1
<1>2. CASE t = NoTail
  <2>1. (IF t = JunkTail THEN w ELSE w \o t) = w
    BY <1>2 DEF NoTail, JunkTail
  <2> QED BY <2>1
<1>3. ASSUME NEW line \in Line, t = <<line>>
      PROVE  Replay(base, IF t = JunkTail THEN w ELSE w \o t)[f] = Replay(base, w)[f]
  <2>1. line.path \in Files /\ line.path # None
    BY NonePathAssumption DEF Line
  <2>2. t # JunkTail
    BY <1>3, <2>1 DEF JunkTail, JunkLine
  <2>3. f # line.path
    BY <1>3
  <2>4. Replay(base, w \o <<line>>)[f] = Replay(base, w)[f]
    BY <2>3, ReplayOther
  <2> QED BY <1>3, <2>2, <2>4
<1> QED BY <1>1, <1>2, <1>3 DEF TailTypes

LEMMA FaultInitInv == FaultInit => FaultInv
<1> SUFFICES ASSUME FaultInit PROVE FaultInv
  OBVIOUS
<1>1. TypeOK
  BY InitInv DEF FaultInit, IInv
<1> QED BY <1>1 DEF FaultInit, Init, FaultInv, FaultTypeOK, TailTypes, ClosedFirst, DamageConfined

-----------------------------------------------------------------------------
(* The steps. *)

\* Load reads what is on disk, or says of everything else that it may be lost.
LEMMA LoadsKeep ==
  ASSUME FaultInv, FaultLoad \/ LoadUnreadable \/ \E n \in 0..MaxWal+1 : LoadQuarantine(n)
  PROVE  FaultInv'
<1>1. /\ snapshot \in Table /\ wal \in Seq(Line) /\ Len(wal) <= MaxWal /\ tail \in TailTypes
      /\ ReadableWal \in Seq(Line) /\ RecoveredNow \in Table
  BY ReadableType DEF FaultInv, FaultTypeOK, TypeOK
<1>2. CASE FaultLoad
  <2>1. RecoveredNow' = RecoveredNow /\ entries' = RecoveredNow
    BY <1>2 DEF FaultLoad, RecoveredNow, ReadableWal
  <2>2. DamageConfined' /\ ClosedFirst'
    BY <1>2, <2>1 DEF FaultLoad, DamageConfined, ClosedFirst
  <2>3. FaultTypeOK'
    BY <1>1, <1>2, <2>1 DEF FaultLoad, FaultTypeOK, TypeOK
  <2> QED BY <2>2, <2>3 DEF FaultInv
<1>3. CASE LoadUnreadable
  BY <1>1, <1>3, NoEntriesType
  DEF LoadUnreadable, FaultInv, FaultTypeOK, TypeOK, DamageConfined, ClosedFirst
<1>4. ASSUME NEW n \in 0..MaxWal+1, LoadQuarantine(n) PROVE FaultInv'
  <2>1. PICK w \in Seq(Line) : w = ReadableWal
    BY <1>1
  <2>2. n \in 0..Len(w) /\ entries' = Replay(snapshot, SubSeq(w, 1, n))
    BY <1>4, <2>1 DEF LoadQuarantine
  <2>3. PICK v \in Seq(Line) : /\ v = SubSeq(w, 1, n)
                               /\ \A i \in DOMAIN v : i \in DOMAIN w /\ v[i] = w[i]
    <3>1. SubSeq(w, 1, n) \in Seq(Line)
      BY <2>2
    <3>2. \A i \in DOMAIN SubSeq(w, 1, n) : i \in DOMAIN w /\ SubSeq(w, 1, n)[i] = w[i]
      BY <2>2
    <3> QED BY <3>1, <3>2
  <2>4. damaged' = {w[i].path : i \in DOMAIN w} /\ damaged' \subseteq Files
    BY <1>4, <2>1, ReadableType DEF LoadQuarantine, QuarantineCost, FaultInv
  <2>5. ASSUME NEW f \in Files \ damaged' PROVE RecoveredNow'[f] = entries'[f]
    <3>1. \A i \in DOMAIN w : w[i].path # f
      BY <2>4
    <3>2. entries'[f] = snapshot[f]
      <4>1. \A i \in DOMAIN v : v[i].path # f
        BY <2>3, <3>1
      <4>2. Replay(snapshot, v)[f] = snapshot[f]
        BY <4>1, ReplayUnmentioned
      <4> QED BY <4>2, <2>2, <2>3
    <3>3. \/ ReadableWal' = <<>>
          \/ ReadableWal' = w
      <4>1. CASE wal' = <<>> /\ tail' = NoTail
        BY <4>1 DEF ReadableWal, NoTail, JunkTail
      <4>2. CASE UNCHANGED <<wal, tail>>
        BY <4>2, <2>1 DEF ReadableWal
      <4> QED BY <4>1, <4>2, <1>4 DEF LoadQuarantine
    <3>4. \A x : x = <<>> \/ x = w => Replay(snapshot, x)[f] = snapshot[f]
      BY <3>1, ReplayUnmentioned
    <3>5. RecoveredNow' = Replay(snapshot, ReadableWal')
      <4>1. snapshot' = snapshot
        BY <1>4 DEF LoadQuarantine
      <4> QED BY ONLY <4>1 DEF RecoveredNow
    <3> QED BY <3>2, <3>3, <3>4, <3>5
  <2>6. FaultTypeOK'
    <3>1. entries' \in Table
      BY <2>2, <2>3, <1>1, ReplayType
    <3>2. wal' \in Seq(Line) /\ Len(wal') <= MaxWal /\ tail' \in TailTypes
      <4>1. <<>> \in Seq(Line) /\ Len(<<>>) <= MaxWal
        BY MaxWalAssumption
      <4> QED BY <1>1, <1>4, <4>1 DEF LoadQuarantine, TailTypes
    <3>3. pc' = "idle" /\ walFile' \in {"open", "nil"} /\ snapshot' = snapshot
      BY <1>4 DEF LoadQuarantine
    <3> QED BY <3>1, <3>2, <3>3, <2>4, <1>1 DEF FaultTypeOK, TypeOK
  <2> QED BY <2>5, <2>6, <1>4 DEF LoadQuarantine, FaultInv, DamageConfined, ClosedFirst
<1> QED BY <1>2, <1>3, <1>4

\* A mark whose write succeeds is read back, or glued to the line before it.
LEMMA FaultMarkKeeps ==
  ASSUME FaultInv, NEW f \in Files, NEW s \in Status, FaultMark(f, s)
  PROVE  FaultInv'
<1>1. /\ pc = "idle" /\ pc' = "idle" /\ UNCHANGED <<walFile, snapshot>>
      /\ entries' = [entries EXCEPT ![f] = s]
  BY DEF FaultMark, Mark
<1>2. /\ snapshot \in Table /\ wal \in Seq(Line) /\ Len(wal) <= MaxWal /\ tail \in TailTypes
      /\ entries \in Table /\ damaged \subseteq Files /\ TailPaths \subseteq Files
  BY ReadableType DEF FaultInv, FaultTypeOK, TypeOK
<1>3. /\ entries' \in Table /\ entries'[f] = s
      /\ \A g \in Files : g # f => entries'[g] = entries[g]
  BY <1>1, <1>2 DEF Table
<1>4. CASE walFile = "nil"
  <2>1. wal' = wal /\ tail' = tail /\ damaged' = damaged \ {f}
    BY <1>4 DEF FaultMark, Mark
  <2> QED BY <2>1, <1>1, <1>2, <1>3, <1>4
          DEF FaultInv, FaultTypeOK, TypeOK, DamageConfined, ClosedFirst
<1>5. CASE walFile = "open" /\ tail = NoTail
  <2>1. /\ wal' = AppendLine(wal, f, s) /\ Len(wal) < MaxWal
        /\ tail' = NoTail /\ damaged' = damaged \ {f}
    BY <1>5 DEF FaultMark, Mark
  <2>2. wal' \in Seq(Line) /\ Len(wal') <= MaxWal
    BY <2>1, <1>2, MaxWalAssumption DEF AppendLine, Line
  <2>3. RecoveredNow = Replay(snapshot, wal)
    BY <1>2, <1>5 DEF RecoveredNow, ReadableWal, NoTail, JunkTail
  <2>4. RecoveredNow' = Replay(snapshot, wal')
    <3>1. ReadableWal' = wal'
      BY <2>1, <2>2 DEF ReadableWal, NoTail, JunkTail
    <3> QED BY <3>1, <1>1 DEF RecoveredNow, Replay, Mentions, LastStatus, IsLastMention
  <2>5. RecoveredNow' = [RecoveredNow EXCEPT ![f] = s] /\ RecoveredNow \in Table
    BY <2>1, <2>3, <2>4, <1>2, ReplayAppend, ReplayType
  <2>6. \A g \in Files \ damaged' : RecoveredNow'[g] = entries'[g]
    BY <2>1, <2>5, <1>3, <1>5 DEF Table, FaultInv, DamageConfined
  <2>7. FaultTypeOK'
    BY <2>1, <2>2, <1>1, <1>2, <1>3 DEF FaultInv, FaultTypeOK, TypeOK, TailTypes
  <2>8. DamageConfined' /\ ClosedFirst'
    BY <2>6, <1>1 DEF DamageConfined, ClosedFirst
  <2> QED BY <2>7, <2>8 DEF FaultInv
<1>6. CASE walFile = "open" /\ tail # NoTail
  <2>1. wal' = wal /\ tail' = NoTail /\ damaged' = damaged \cup {f} \cup TailPaths
    BY <1>6 DEF FaultMark, GluedCost
  <2>2. RecoveredNow' = Replay(snapshot, wal)
    <3>1. ReadableWal' = wal
      BY <2>1, <1>2 DEF ReadableWal, NoTail, JunkTail
    <3> QED BY <3>1, <1>1 DEF RecoveredNow, Replay, Mentions, LastStatus, IsLastMention
  <2>3. \A g \in Files \ damaged' : RecoveredNow'[g] = entries'[g]
    <3>1. ASSUME NEW g \in Files \ damaged' PROVE RecoveredNow'[g] = entries'[g]
      <4>1. g \notin TailPaths /\ g \notin damaged /\ g # f /\ g # None
        BY <2>1, NonePathAssumption
      <4>2. \A i \in DOMAIN tail : tail[i].path # g
        BY <4>1 DEF TailPaths
      <4>3. RecoveredNow[g] = Replay(snapshot, wal)[g]
        BY <4>2, <1>2, TailAside DEF RecoveredNow, ReadableWal
      <4> QED BY <4>1, <4>3, <2>2, <1>3, <1>6 DEF FaultInv, DamageConfined
    <3> QED BY <3>1
  <2> QED BY <2>1, <2>3, <1>1, <1>2, <1>3
          DEF FaultInv, FaultTypeOK, TypeOK, DamageConfined, ClosedFirst, TailTypes
<1> QED BY <1>2, <1>4, <1>5, <1>6 DEF FaultInv, FaultTypeOK, TypeOK

\* A torn line costs its own path and the one whose newline was still missing.
LEMMA TornMarkKeeps ==
  ASSUME FaultInv, NEW f \in Files, NEW s \in Status, TornMark(f, s)
  PROVE  FaultInv'
<1>1. /\ pc = "idle" /\ UNCHANGED <<pc, walFile, snapshot, wal>> /\ walFile = "open"
      /\ entries' = [entries EXCEPT ![f] = s]
      /\ tail' \in TornTails(f, s) /\ damaged' = damaged \cup {f} \cup TailPaths
  BY DEF TornMark, TornCost
<1>2. /\ wal \in Seq(Line) /\ tail \in TailTypes
      /\ entries \in Table /\ damaged \subseteq Files /\ TailPaths \subseteq Files
  BY ReadableType DEF FaultInv, FaultTypeOK, TypeOK
<1>3. /\ entries' \in Table
      /\ \A g \in Files : g # f => entries'[g] = entries[g]
  BY <1>1, <1>2 DEF Table
<1>4. tail' \in TailTypes /\ tail' \in {tail, NoTail, JunkTail, <<[path |-> f, status |-> s]>>}
  BY <1>1, <1>2 DEF TornTails, TailTypes, Line
<1>5. FaultTypeOK'
  BY <1>1, <1>2, <1>3, <1>4 DEF FaultInv, FaultTypeOK, TypeOK
<1>6. ASSUME NEW g \in Files \ damaged' PROVE RecoveredNow'[g] = entries'[g]
  <2>1. g # f /\ g \notin TailPaths /\ g \notin damaged /\ g \in Files
    BY <1>1
  <2>2. snapshot \in Table /\ g # None
    BY NonePathAssumption DEF FaultInv, FaultTypeOK, TypeOK
  <2>3. RecoveredNow[g] = Replay(snapshot, wal)[g]
    <3>1. \A i \in DOMAIN tail : tail[i].path # g
      BY <2>1, <2>2 DEF TailPaths
    <3> QED BY <3>1, <2>2, <1>2, TailAside DEF RecoveredNow, ReadableWal
  <2>4. PICK t \in TailTypes : t = tail'
    BY <1>4
  <2>5. RecoveredNow'[g] = Replay(snapshot, wal)[g]
    <3>1. \A i \in DOMAIN t : t[i].path # g
      <4>1. CASE t = tail
        BY <4>1, <2>1, <2>2 DEF TailPaths
      <4>2. CASE t \in {NoTail, JunkTail, <<[path |-> f, status |-> s]>>}
        BY <4>2, <2>1, <2>2 DEF NoTail, JunkTail, JunkLine
      <4> QED BY <4>1, <4>2, <2>4, <1>4
    <3>2. Replay(snapshot, IF t = JunkTail THEN wal ELSE wal \o t)[g] = Replay(snapshot, wal)[g]
      BY <3>1, <2>2, <1>2, TailAside
    <3>3. RecoveredNow' = Replay(snapshot, IF t = JunkTail THEN wal ELSE wal \o t)
      BY <2>4, <1>1 DEF RecoveredNow, ReadableWal, Replay, Mentions, LastStatus, IsLastMention
    <3> QED BY <3>2, <3>3
  <2> QED BY <2>1, <2>3, <2>5, <1>1, <1>3 DEF FaultInv, DamageConfined
<1> QED BY <1>1, <1>5, <1>6 DEF FaultInv, DamageConfined, ClosedFirst

\* The snapshot becomes the table while the log still says the same.
LEMMA RenameKeeps ==
  ASSUME FaultInv, CompactRename, UNCHANGED <<tail, damaged>>
  PROVE  FaultInv'
<1>1. /\ pc' = "compact_close" /\ snapshot' = entries
      /\ UNCHANGED <<entries, walFile, wal, tail, damaged>>
  BY DEF CompactRename
<1>2. RecoveredNow' = Replay(entries, ReadableWal)
  BY <1>1 DEF RecoveredNow, ReadableWal, Replay, Mentions, LastStatus, IsLastMention
<1>3. ASSUME walFile = "open", NEW f \in Files \ damaged
      PROVE  RecoveredNow'[f] = entries[f]
  <2>1. entries[f] = Replay(snapshot, ReadableWal)[f]
    BY <1>3 DEF FaultInv, DamageConfined, RecoveredNow
  <2> QED BY <1>2, <2>1, ReplayOver
<1> QED BY <1>1, <1>3 DEF FaultInv, FaultTypeOK, TypeOK, DamageConfined, ClosedFirst

\* The other steps move no file, or come without an open log.
LEMMA RestKeeps ==
  ASSUME FaultInv,
         \/ Close \/ CompactTmp \/ CompactClose \/ DeleteClose \/ DeleteSnapshot,
         UNCHANGED <<tail, damaged>>
  PROVE  FaultInv'
<1>1. CASE CompactTmp
  <2>1. RecoveredNow' = RecoveredNow
    BY <1>1 DEF CompactTmp, RecoveredNow, ReadableWal
  <2> QED BY <1>1, <2>1 DEF CompactTmp, FaultInv, FaultTypeOK, TypeOK, DamageConfined, ClosedFirst
<1>2. CASE ~CompactTmp
  <2>1. walFile' = "nil"
    BY <1>2 DEF Close, CompactClose, DeleteClose, DeleteSnapshot, FaultInv, ClosedFirst
  <2> QED BY <1>2, <2>1, NoEntriesType
          DEF Close, CompactClose, DeleteClose, DeleteSnapshot, FaultInv, FaultTypeOK, TypeOK,
              DamageConfined, ClosedFirst
<1> QED BY <1>1, <1>2

LEMMA FailuresKeep ==
  ASSUME FaultInv,
         \/ CompactFails \/ RemoveWalFails \/ RemoveSnapshotFails \/ RemoveWal \/ FaultStop
         \/ \E f \in Files, s \in Status : TornStop(f, s)
  PROVE  FaultInv'
<1>1. CASE CompactFails
  <2>1. RecoveredNow' = RecoveredNow
    BY <1>1 DEF CompactFails, RecoveredNow, ReadableWal
  <2> QED BY <1>1, <2>1
          DEF CompactFails, FaultInv, FaultTypeOK, TypeOK, DamageConfined, ClosedFirst
<1>2. CASE RemoveWalFails \/ RemoveSnapshotFails
  <2>1. RecoveredNow' = RecoveredNow
    BY <1>2 DEF RemoveWalFails, RemoveSnapshotFails, RecoveredNow, ReadableWal
  <2> QED BY <1>2, <2>1 DEF RemoveWalFails, RemoveSnapshotFails, FaultInv, FaultTypeOK, TypeOK,
                            DamageConfined, ClosedFirst
<1>3. CASE RemoveWal
  <2>1. walFile' = "nil" /\ wal' = <<>> /\ tail' = NoTail /\ pc' = "idle"
        /\ UNCHANGED <<entries, snapshot, damaged>>
    BY <1>3 DEF RemoveWal, CompactRemove, DeleteWal, FaultInv, ClosedFirst
  <2>2. <<>> \in Seq(Line) /\ Len(<<>>) <= MaxWal
    BY MaxWalAssumption
  <2> QED BY <2>1, <2>2
          DEF FaultInv, FaultTypeOK, TypeOK, DamageConfined, ClosedFirst, TailTypes
<1>4. CASE FaultStop
  BY <1>4, NoEntriesType
  DEF FaultStop, Stop, FaultInv, FaultTypeOK, TypeOK, DamageConfined, ClosedFirst
<1>5. ASSUME NEW f \in Files, NEW s \in Status, TornStop(f, s) PROVE FaultInv'
  <2>1. tail' \in TailTypes
    BY <1>5 DEF TornStop, TornTails, TailTypes, Line, FaultInv, FaultTypeOK
  <2> QED BY <1>5, <2>1, NoEntriesType
          DEF TornStop, FaultInv, FaultTypeOK, TypeOK, DamageConfined, ClosedFirst
<1> QED BY <1>1, <1>2, <1>3, <1>4, <1>5

LEMMA FaultNextInv == FaultInv /\ [FaultNext]_faultVars => FaultInv'
<1> SUFFICES ASSUME FaultInv, [FaultNext]_faultVars PROVE FaultInv'
  OBVIOUS
<1>1. CASE UNCHANGED faultVars
  <2>1. RecoveredNow' = RecoveredNow
    BY <1>1 DEF faultVars, RecoveredNow, ReadableWal
  <2> QED BY <1>1, <2>1 DEF faultVars, FaultInv, FaultTypeOK, TypeOK, DamageConfined, ClosedFirst
<1>2. CASE FaultNext
  BY <1>2, LoadsKeep, FaultMarkKeeps, TornMarkKeeps, RenameKeeps, RestKeeps, FailuresKeep
  DEF FaultNext
<1> QED BY <1>1, <1>2

LEMMA AlwaysFaultInv == FaultSpec => []FaultInv
BY FaultInitInv, FaultNextInv, PTL DEF FaultSpec

-----------------------------------------------------------------------------
(* The theorems. *)

\* However reads, writes, renames and removals fail, in memory and on disk there
\* are tables, lines and at most one torn line at the end of the log.
THEOREM FaultTypesKept == FaultSpec => []FaultTypeOK
BY AlwaysFaultInv, PTL DEF FaultInv

\* A failing or torn write of a mark (appendWALLocked, jobstate.go) costs the
\* paths in damaged and no other: whatever comes before and after it, every other
\* path is read back by Load as the process has it.
THEOREM DamageStaysConfined == FaultSpec => []DamageConfined
BY AlwaysFaultInv, PTL DEF FaultInv

=============================================================================
