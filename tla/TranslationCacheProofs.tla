----------------------- MODULE TranslationCacheProofs -----------------------
(***************************************************************************)
(* Proofs about TranslationCache, for every set of keys, values, shards    *)
(* and workers, every capacity and every log: what Load builds from a      *)
(* snapshot and the log is the cache, in its order and with its values, in *)
(* the cases LogRebuildsCache names and after Run's own Save; and, without *)
(* values and order, the cache is the one of CachePersistence.             *)
(***************************************************************************)
EXTENDS TranslationCache, WellFoundedInduction, SequenceTheorems, FiniteSetTheorems, TLAPS

-----------------------------------------------------------------------------
(* Folds.  Induction is by the well-foundedness of < over the set of numbers *)
(* for which something fails.  FoldLeft takes an operator, which a lemma     *)
(* cannot be instantiated with: that its recursion has a solution is stated  *)
(* for the operator as a function.                                           *)

\* Induction: what holds for 0 and goes on to the next number holds up to n.
LEMMA UpTo ==
  ASSUME NEW n \in Nat, NEW S, 0 \in S, \A k \in 1..n : k - 1 \in S => k \in S
  PROVE  0..n \subseteq S
<1> DEFINE T == {k \in 0..n : k \notin S}
<1>1. SUFFICES ASSUME T # {} PROVE FALSE
  OBVIOUS
<1>2. T \subseteq Nat
  OBVIOUS
<1>3. PICK k \in T : \A j \in T : ~(<<j, k>> \in OpToRel(<, Nat))
  <2> HIDE DEF T
  <2> QED BY <1>1, <1>2, NatLessThanWellFounded, WFMin
<1>4. k \in 0..n /\ k # 0 /\ k \notin S
  BY <1>3
<1>5. k - 1 \in 0..n /\ k \in 1..n
  BY <1>4
<1>6. k - 1 \in S
  <2>1. ASSUME k - 1 \in T PROVE FALSE
    <3>1. ~(k - 1 < k)
      BY <2>1, <1>2, <1>3 DEF OpToRel
    <3> QED BY <3>1, <1>4
  <2> QED BY <2>1, <1>5
<1> QED BY <1>4, <1>5, <1>6

\* A set of numbers up to n that is not empty has a greatest.
LEMMA MaxOfBounded ==
  ASSUME NEW n \in Nat, NEW s \in SUBSET (1..n), s # {}
  PROVE  Max(s) \in s /\ \A j \in s : j <= Max(s)
<1> DEFINE FromEnd == {n - i : i \in s}
<1>1. FromEnd \subseteq Nat /\ FromEnd # {}
  <2>1. \A i \in s : n - i \in Nat
    OBVIOUS
  <2> QED BY <2>1
<1>2. PICK d \in FromEnd : \A e \in FromEnd : ~(<<e, d>> \in OpToRel(<, Nat))
  <2> HIDE DEF FromEnd
  <2> QED BY <1>1, NatLessThanWellFounded, WFMin
<1>3. PICK i \in s : d = n - i
  BY <1>2
<1>4. \A j \in s : j <= i
  <2> SUFFICES ASSUME NEW j \in s PROVE j <= i
    OBVIOUS
  <2>1. n - j \in FromEnd
    OBVIOUS
  <2>2. ~(n - j < d)
    BY <2>1, <1>1, <1>2 DEF OpToRel
  <2>3. n \in Int /\ i \in Int /\ j \in Int
    OBVIOUS
  <2> QED BY ONLY <2>2, <2>3, <1>3
<1>5. \E x \in s : \A y \in s : x >= y
  BY <1>4
<1> QED BY <1>5 DEF Max

\* The greatest of the numbers up to k, and of those that have k + 1.
LEMMA MaxUpTo ==
  ASSUME NEW k \in Nat, k # 0
  PROVE  1..k # {} /\ Max(1..k) = k /\ (1..k) \ {k} = 1..(k - 1)
<1>1. k \in 1..k /\ \A y \in 1..k : k >= y
  OBVIOUS
<1>2. Max(1..k) = k
  BY <1>1 DEF Max
<1> QED BY <1>1, <1>2

\* What the fold of w from the left, by Op, of every part of w is.
IsFold(h, X, base, w, Op) ==
  /\ h \in [SUBSET DOMAIN w -> X]
  /\ \A s \in SUBSET DOMAIN w :
       /\ s = {} => h[s] = base
       /\ s # {} => /\ Max(s) \in DOMAIN w
                    /\ h[s] = Op[<<h[s \ {Max(s)}], w[Max(s)]>>]

\* The recursion of a fold has a solution.
LEMMA FoldExists ==
  ASSUME NEW X, NEW Y, NEW base \in X, NEW w \in Seq(Y), NEW Op \in [X \X Y -> X]
  PROVE  \E h : IsFold(h, X, base, w, Op)
<1> DEFINE Solves(h, k) ==
      /\ h \in [SUBSET (1..k) -> X]
      /\ \A s \in SUBSET (1..k) :
           /\ s = {} => h[s] = base
           /\ s # {} => /\ Max(s) \in 1..k
                        /\ h[s] = Op[<<h[s \ {Max(s)}], w[Max(s)]>>]
           S == {k \in 0..Len(w) : \E h : Solves(h, k)}
<1>1. Len(w) \in Nat /\ DOMAIN w = 1..Len(w) /\ \A i \in 1..Len(w) : w[i] \in Y
  OBVIOUS
<1>2. 0 \in S
  <2>0. \A s \in SUBSET (1..0) : s = {}
    OBVIOUS
  <2>1. Solves([s \in SUBSET (1..0) |-> base], 0)
    BY <2>0
  <2> QED BY <2>1, <1>1
<1>3. ASSUME NEW k \in 1..Len(w), k - 1 \in S PROVE k \in S
  <2>1. PICK h : Solves(h, k - 1)
    BY <1>3
  <2> DEFINE g == [s \in SUBSET (1..k) |->
                     IF k \in s THEN Op[<<h[s \ {k}], w[k]>>] ELSE h[s]]
  <2>2. ASSUME NEW s \in SUBSET (1..k)
        PROVE  /\ k \in s => Max(s) = k /\ s \ {k} \in SUBSET (1..(k - 1))
               /\ k \notin s => s \in SUBSET (1..(k - 1))
    <3>1. ASSUME k \in s PROVE Max(s) = k
      <4>1. k \in Nat /\ s # {}
        BY <3>1
      <4>2. Max(s) \in s /\ k <= Max(s)
        BY <4>1, <3>1, MaxOfBounded
      <4>3. Max(s) \in 1..k
        BY <4>2
      <4> QED BY ONLY <4>1, <4>2, <4>3
    <3> QED BY <3>1
  <2>3. g \in [SUBSET (1..k) -> X]
    <3> SUFFICES ASSUME NEW s \in SUBSET (1..k)
                 PROVE  (IF k \in s THEN Op[<<h[s \ {k}], w[k]>>] ELSE h[s]) \in X
      OBVIOUS
    <3> QED BY <1>1, <2>1, <2>2
  <2>4. ASSUME NEW s \in SUBSET (1..k), s # {}
        PROVE  Max(s) \in 1..k /\ g[s] = Op[<<g[s \ {Max(s)}], w[Max(s)]>>]
    <3>1. CASE k \in s
      <4>1. Max(s) = k /\ s \ {k} \in SUBSET (1..k) /\ k \notin s \ {k}
        BY <2>2, <3>1
      <4>2. g[s \ {k}] = h[s \ {k}]
        BY <4>1
      <4>3. g[s] = Op[<<h[s \ {k}], w[k]>>]
        BY <3>1
      <4> QED BY <4>1, <4>2, <4>3
    <3>2. CASE k \notin s
      <4>1. s \in SUBSET (1..(k - 1)) /\ g[s] = h[s]
        BY <2>2, <3>2
      <4>2. Max(s) \in 1..(k - 1) /\ h[s] = Op[<<h[s \ {Max(s)}], w[Max(s)]>>]
        BY <2>1, <2>4, <4>1
      <4>3. s \ {Max(s)} \in SUBSET (1..k) /\ k \notin s \ {Max(s)}
        BY <3>2
      <4>4. g[s \ {Max(s)}] = h[s \ {Max(s)}]
        BY <4>3
      <4> HIDE DEF g
      <4>5. Max(s) \in 1..k
        BY <4>2
      <4> QED BY ONLY <4>1, <4>2, <4>4, <4>5
    <3> QED BY <3>1, <3>2
  <2>5. g[{}] = base
    BY <2>1
  <2>6. Solves(g, k)
    <3> HIDE DEF g
    <3> QED BY <2>3, <2>4, <2>5
  <2> HIDE DEF Solves
  <2> QED BY <2>6
<1>4. Len(w) \in S
  <2> HIDE DEF S
  <2>1. 0..Len(w) \subseteq S
    BY <1>1, <1>2, <1>3, UpTo
  <2> QED BY <1>1, <2>1
<1>5. PICK h : Solves(h, Len(w))
  BY <1>4
<1> QED BY <1>1, <1>5 DEF IsFold

USE TranslationCacheAssumption

-----------------------------------------------------------------------------
(* The lists, element by element. *)

\* What a shard's list can be: it names no key twice.
ListOf(i) ==
  {l \in Seq(Entries) :
     /\ Len(l) <= Capacity
     /\ \A n \in 1..Len(l) : ShardOf[l[n].key] = i
     /\ \A m, n \in 1..Len(l) : l[m].key = l[n].key => m = n}

\* An entry that a Put can leave in shard i.
EntryOf(i) == {e \in Entries : ShardOf[e.key] = i}

\* m is l with e at the front: what was before place p has moved back by one,
\* what was at p is gone.
Moves(l, m, e, p) ==
  /\ p \in 1..Capacity /\ p <= Len(l) + 1
  /\ Len(m) = IF p <= Len(l) THEN Len(l) ELSE p
  /\ m[1] = e
  /\ \A n \in 2..p : m[n] = l[n - 1]
  /\ \A n \in (p + 1)..Len(l) : m[n] = l[n]
  /\ \/ p <= Len(l) /\ l[p].key = e.key
     \/ e.key \notin Held(l) /\ (p <= Len(l) => p = Capacity)

LEMMA ListFacts ==
  ASSUME NEW i \in Shards, NEW l \in ListOf(i)
  PROVE  /\ l \in Seq(Entries) /\ Len(l) \in Nat /\ Len(l) <= Capacity
         /\ DOMAIN l = 1..Len(l)
         /\ \A n \in 1..Len(l) : l[n] \in Entries /\ l[n].key \in Keys /\ ShardOf[l[n].key] = i
         /\ \A m, n \in 1..Len(l) : l[m].key = l[n].key => m = n
         /\ Held(l) = {l[n].key : n \in 1..Len(l)}
<1>1. /\ l \in Seq(Entries) /\ Len(l) <= Capacity
      /\ \A n \in 1..Len(l) : ShardOf[l[n].key] = i
      /\ \A m, n \in 1..Len(l) : l[m].key = l[n].key => m = n
  BY DEF ListOf
<1>2. Len(l) \in Nat /\ DOMAIN l = 1..Len(l) /\ \A n \in 1..Len(l) : l[n] \in Entries
  BY <1>1
<1>3. \A e \in Entries : e.key \in Keys
  BY DEF Entries
<1>4. Held(l) = {l[n].key : n \in 1..Len(l)}
  BY <1>2 DEF Held
<1> QED BY <1>1, <1>2, <1>3, <1>4

\* Taking the entry of a key out of a list closes the gap.
LEMMA WithoutIs ==
  ASSUME NEW i \in Shards, NEW l \in ListOf(i), NEW p \in 1..Len(l)
  PROVE  /\ Without(l, l[p].key) \in Seq(Entries)
         /\ Len(Without(l, l[p].key)) = Len(l) - 1
         /\ \A n \in 1..(Len(l) - 1) :
              Without(l, l[p].key)[n] = IF n < p THEN l[n] ELSE l[n + 1]
<1>0. /\ l \in Seq(Entries) /\ Len(l) \in Nat /\ DOMAIN l = 1..Len(l)
      /\ \A n \in 1..Len(l) : l[n] \in Entries
      /\ \A m, n \in 1..Len(l) : l[m].key = l[n].key => m = n
      /\ Held(l) = {l[n].key : n \in 1..Len(l)}
  BY ListFacts
<1>1. At(l, l[p].key) = p
  BY <1>0 DEF At
<1>2. Without(l, l[p].key) = SubSeq(l, 1, p - 1) \o SubSeq(l, p + 1, Len(l))
  BY <1>0, <1>1 DEF Without, RemoveAt
<1> DEFINE a == SubSeq(l, 1, p - 1)
           b == SubSeq(l, p + 1, Len(l))
<1>3. /\ a \in Seq(Entries) /\ Len(a) = p - 1
      /\ \A n \in 1..(p - 1) : a[n] = l[n]
  <2>1. p - 1 \in Int /\ \A n \in 1..(p - 1) : l[n] \in Entries
    BY <1>0
  <2>2. /\ a \in Seq(Entries) /\ Len(a) = IF 1 <= p - 1 THEN p - 1 - 1 + 1 ELSE 0
        /\ \A n \in 1..(p - 1 - 1 + 1) : a[n] = l[1 + n - 1]
    BY <2>1, SubSeqProperties
  <2> QED BY <1>0, <2>2
<1>4. /\ b \in Seq(Entries) /\ Len(b) = Len(l) - p
      /\ \A n \in 1..(Len(l) - p) : b[n] = l[p + n]
  <2>1. p + 1 \in Int /\ \A n \in (p + 1)..Len(l) : l[n] \in Entries
    BY <1>0
  <2>2. /\ b \in Seq(Entries)
        /\ Len(b) = IF p + 1 <= Len(l) THEN Len(l) - (p + 1) + 1 ELSE 0
        /\ \A n \in 1..(Len(l) - (p + 1) + 1) : b[n] = l[p + 1 + n - 1]
    BY <1>0, <2>1, SubSeqProperties
  <2>3. p \in Int /\ Len(l) \in Int /\ p <= Len(l)
    BY <1>0
  <2>4. Len(l) - (p + 1) + 1 = Len(l) - p /\ Len(b) = Len(l) - p
    BY ONLY <2>2, <2>3
  <2>5. \A n \in 1..(Len(l) - p) : p + 1 + n - 1 = p + n
    BY ONLY <2>3
  <2> HIDE DEF b
  <2> QED BY ONLY <2>2, <2>4, <2>5
<1> HIDE DEF a, b
<1>5. /\ a \o b \in Seq(Entries) /\ Len(a \o b) = Len(a) + Len(b)
      /\ \A n \in 1..(Len(a) + Len(b)) :
           (a \o b)[n] = IF n <= Len(a) THEN a[n] ELSE b[n - Len(a)]
  <2>1. a \in Seq(Entries) /\ b \in Seq(Entries)
    BY <1>3, <1>4
  <2> QED BY ONLY <2>1, ConcatProperties
<1>6. Len(a \o b) = Len(l) - 1
  BY <1>0, <1>3, <1>4, <1>5
<1>7. ASSUME NEW n \in 1..(Len(l) - 1)
      PROVE  (a \o b)[n] = IF n < p THEN l[n] ELSE l[n + 1]
  <2>1. (a \o b)[n] = IF n <= p - 1 THEN a[n] ELSE b[n - (p - 1)]
    BY <1>0, <1>3, <1>4, <1>5
  <2>2. CASE n < p
    <3>1. n <= p - 1 /\ n \in 1..(p - 1)
      BY <1>0, <2>2
    <3> QED BY <1>3, <2>1, <2>2, <3>1
  <2>3. CASE ~(n < p)
    <3>1. ~(n <= p - 1) /\ n - (p - 1) \in 1..(Len(l) - p) /\ p + (n - (p - 1)) = n + 1
      BY <1>0, <2>3
    <3> QED BY <1>4, <2>1, <2>3, <3>1
  <2> QED BY <2>2, <2>3
<1> QED BY <1>2, <1>5, <1>6, <1>7 DEF a, b

\* Putting an entry in front of a list, and dropping what exceeds the capacity.
LEMMA TrimmedIs ==
  ASSUME NEW e \in Entries, NEW r \in Seq(Entries), Len(r) <= Capacity
  PROVE  /\ Trimmed(<<e>> \o r) \in Seq(Entries)
         /\ Len(Trimmed(<<e>> \o r)) = IF Len(r) < Capacity THEN Len(r) + 1 ELSE Capacity
         /\ Trimmed(<<e>> \o r)[1] = e
         /\ \A n \in 2..Len(Trimmed(<<e>> \o r)) : Trimmed(<<e>> \o r)[n] = r[n - 1]
<1> DEFINE s == <<e>> \o r
           c == IF Len(s) < Capacity THEN Len(s) ELSE Capacity
<1>0. Len(r) \in Nat /\ Capacity \in Nat /\ 1 <= Capacity
  OBVIOUS
<1>1. <<e>> \in Seq(Entries) /\ Len(<<e>>) = 1 /\ <<e>>[1] = e
  OBVIOUS
<1>2. /\ s \in Seq(Entries) /\ Len(s) = 1 + Len(r)
      /\ \A n \in 1..(1 + Len(r)) : s[n] = IF n <= 1 THEN <<e>>[n] ELSE r[n - 1]
  BY <1>1, ConcatProperties
<1>3. s[1] = e /\ \A n \in 2..(1 + Len(r)) : s[n] = r[n - 1]
  BY <1>0, <1>1, <1>2
<1>4. \A n \in 1..Len(s) : s[n] \in Entries
  BY <1>2
<1> HIDE DEF s
<1>5. c \in Nat /\ 1 <= c /\ c <= Len(s) /\ \A n \in 1..c : s[n] \in Entries
  BY <1>0, <1>2, <1>4
<1> HIDE DEF c
<1>6. /\ SubSeq(s, 1, c) \in Seq(Entries) /\ Len(SubSeq(s, 1, c)) = c
      /\ \A n \in 1..c : SubSeq(s, 1, c)[n] = s[n]
  <2>1. /\ SubSeq(s, 1, c) \in Seq(Entries)
        /\ Len(SubSeq(s, 1, c)) = IF 1 <= c THEN c - 1 + 1 ELSE 0
        /\ \A n \in 1..(c - 1 + 1) : SubSeq(s, 1, c)[n] = s[1 + n - 1]
    BY <1>5, SubSeqProperties
  <2> QED BY <1>5, <2>1
<1>7. Trimmed(s) = SubSeq(s, 1, c)
  BY DEF Trimmed, c
<1>8. c = IF Len(r) < Capacity THEN Len(r) + 1 ELSE Capacity
  BY <1>0, <1>2 DEF c
<1>9. \A n \in 2..c : SubSeq(s, 1, c)[n] = r[n - 1]
  BY <1>0, <1>2, <1>3, <1>5, <1>6
<1>10. SubSeq(s, 1, c)[1] = e
  BY <1>3, <1>5, <1>6
<1> QED BY <1>6, <1>7, <1>8, <1>9, <1>10 DEF s

\* Every Put moves.
LEMMA PushedMoves ==
  ASSUME NEW i \in Shards, NEW l \in ListOf(i), NEW e \in EntryOf(i)
  PROVE  Pushed(l, e) \in Seq(Entries) /\ \E p : Moves(l, Pushed(l, e), e, p)
<1> DEFINE r == Without(l, e.key)
<1>0. /\ l \in Seq(Entries) /\ Len(l) \in Nat /\ Len(l) <= Capacity
      /\ Held(l) = {l[n].key : n \in 1..Len(l)} /\ Capacity \in Nat \ {0}
  BY ListFacts
<1>1. e \in Entries
  BY DEF EntryOf
<1>2. CASE e.key \in Held(l)
  <2>1. PICK p \in 1..Len(l) : l[p].key = e.key
    BY <1>0, <1>2
  <2>2. /\ r \in Seq(Entries) /\ Len(r) = Len(l) - 1
        /\ \A n \in 1..(Len(l) - 1) : r[n] = IF n < p THEN l[n] ELSE l[n + 1]
    BY <2>1, WithoutIs
  <2> HIDE DEF r
  <2> DEFINE m == Trimmed(<<e>> \o r)
  <2>3. Len(r) <= Capacity /\ Len(r) < Capacity /\ Len(r) + 1 = Len(l)
    BY <1>0, <2>1, <2>2
  <2>4. /\ m \in Seq(Entries) /\ Len(m) = Len(l) /\ m[1] = e
        /\ \A n \in 2..Len(m) : m[n] = r[n - 1]
    BY <1>1, <2>2, <2>3, TrimmedIs
  <2> HIDE DEF m
  <2>5. ASSUME NEW n \in 2..p PROVE m[n] = l[n - 1]
    <3>1. n \in 2..Len(m) /\ n - 1 \in 1..(Len(l) - 1) /\ n - 1 < p
      BY <1>0, <2>1, <2>4
    <3> QED BY <2>2, <2>4, <3>1
  <2>6. ASSUME NEW n \in (p + 1)..Len(l) PROVE m[n] = l[n]
    <3>1. n \in 2..Len(m) /\ n - 1 \in 1..(Len(l) - 1) /\ ~(n - 1 < p) /\ n - 1 + 1 = n
      BY <1>0, <2>1, <2>4
    <3> QED BY <2>2, <2>4, <3>1
  <2>7. p \in 1..Capacity /\ p <= Len(l) /\ p <= Len(l) + 1
    BY <1>0, <2>1
  <2>8. Moves(l, m, e, p)
    BY <2>1, <2>4, <2>5, <2>6, <2>7 DEF Moves
  <2> QED BY <2>4, <2>8 DEF Pushed, m, r
<1>3. CASE e.key \notin Held(l)
  <2>1. r = l
    BY <1>3 DEF Without
  <2> DEFINE m == Trimmed(<<e>> \o l)
             p == IF Len(l) < Capacity THEN Len(l) + 1 ELSE Capacity
  <2>2. /\ m \in Seq(Entries) /\ Len(m) = p /\ m[1] = e
        /\ \A n \in 2..Len(m) : m[n] = l[n - 1]
    BY <1>0, <1>1, TrimmedIs
  <2> HIDE DEF m
  <2>3. /\ p \in 1..Capacity /\ p <= Len(l) + 1 /\ Len(l) <= p
        /\ p <= Len(l) => p = Capacity /\ p = Len(l)
    BY <1>0
  <2>4. Len(m) = IF p <= Len(l) THEN Len(l) ELSE p
    BY <1>0, <2>2, <2>3
  <2>5. \A n \in (p + 1)..Len(l) : FALSE
    BY <1>0, <2>3
  <2> HIDE DEF p
  <2>6. Moves(l, m, e, p)
    BY <1>3, <2>2, <2>3, <2>4, <2>5 DEF Moves
  <2> QED BY <2>1, <2>2, <2>6 DEF Pushed, m
<1> QED BY <1>2, <1>3

\* Where what is in the list afterwards came from, and what was there has gone.
LEMMA MovedPlaces ==
  ASSUME NEW i \in Shards, NEW l \in ListOf(i), NEW e \in EntryOf(i),
         NEW m \in Seq(Entries), NEW p, Moves(l, m, e, p)
  PROVE  /\ p \in 1..Len(m) /\ Len(m) \in 1..Capacity /\ Len(l) <= Len(m)
         /\ \A n \in 2..Len(m) :
              LET q == IF n <= p THEN n - 1 ELSE n
              IN  q \in 1..Len(l) /\ q # p /\ m[n] = l[q] /\ l[q].key # e.key
         /\ \A q \in 1..Len(l) \ {p} :
              LET n == IF q < p THEN q + 1 ELSE q
              IN  n \in 2..Len(m) /\ m[n] = l[q]
<1>0. /\ Len(l) \in Nat /\ Len(l) <= Capacity /\ Capacity \in Nat \ {0}
      /\ \A a, b \in 1..Len(l) : l[a].key = l[b].key => a = b
      /\ Held(l) = {l[n].key : n \in 1..Len(l)}
  BY ListFacts
<1>1. /\ p \in 1..Capacity /\ p <= Len(l) + 1
      /\ Len(m) = IF p <= Len(l) THEN Len(l) ELSE p
      /\ \A n \in 2..p : m[n] = l[n - 1]
      /\ \A n \in (p + 1)..Len(l) : m[n] = l[n]
      /\ \/ p <= Len(l) /\ l[p].key = e.key
         \/ e.key \notin Held(l)
  BY DEF Moves
<1>2. p \in 1..Len(m) /\ Len(m) \in 1..Capacity /\ Len(l) <= Len(m)
  BY <1>0, <1>1
<1>3. ASSUME NEW q \in 1..Len(l), q # p PROVE l[q].key # e.key
  <2>1. CASE p <= Len(l) /\ l[p].key = e.key
    <3>1. p \in 1..Len(l)
      BY <1>0, <1>1, <2>1
    <3> QED BY <1>0, <1>3, <2>1, <3>1
  <2>2. CASE e.key \notin Held(l)
    BY <1>0, <2>2
  <2> QED BY <1>1, <2>1, <2>2
<1>4. ASSUME NEW n \in 2..Len(m)
      PROVE  LET q == IF n <= p THEN n - 1 ELSE n
             IN  q \in 1..Len(l) /\ q # p /\ m[n] = l[q] /\ l[q].key # e.key
  <2>1. CASE n <= p
    <3>1. n - 1 \in 1..Len(l) /\ n - 1 # p /\ n \in 2..p
      BY <1>0, <1>1, <2>1
    <3>2. m[n] = l[n - 1] /\ l[n - 1].key # e.key
      BY <1>1, <1>3, <3>1
    <3> QED BY <2>1, <3>1, <3>2
  <2>2. CASE ~(n <= p)
    <3>1. n \in 1..Len(l) /\ n # p /\ n \in (p + 1)..Len(l)
      BY <1>0, <1>1, <2>2
    <3>2. m[n] = l[n] /\ l[n].key # e.key
      BY <1>1, <1>3, <3>1
    <3> QED BY <2>2, <3>1, <3>2
  <2> QED BY <2>1, <2>2
<1>5. ASSUME NEW q \in 1..Len(l) \ {p}
      PROVE  LET n == IF q < p THEN q + 1 ELSE q IN n \in 2..Len(m) /\ m[n] = l[q]
  <2>1. CASE q < p
    <3>1. q + 1 \in 2..p /\ q + 1 \in 2..Len(m) /\ q + 1 - 1 = q
      BY <1>0, <1>1, <1>2, <2>1
    <3>2. m[q + 1] = l[q]
      BY <1>1, <3>1
    <3> QED BY <2>1, <3>1, <3>2
  <2>2. CASE ~(q < p)
    <3>1. q \in (p + 1)..Len(l) /\ q \in 2..Len(m)
      BY <1>0, <1>1, <1>2, <2>2
    <3>2. m[q] = l[q]
      BY <1>1, <3>1
    <3> QED BY <2>2, <3>1, <3>2
  <2> QED BY <2>1, <2>2
<1> QED BY <1>2, <1>4, <1>5

\* A Put keeps the list one.
LEMMA PushedIsList ==
  ASSUME NEW i \in Shards, NEW l \in ListOf(i), NEW e \in EntryOf(i)
  PROVE  Pushed(l, e) \in ListOf(i)
<1> DEFINE m == Pushed(l, e)
<1>1. m \in Seq(Entries) /\ \E p : Moves(l, m, e, p)
  BY PushedMoves
<1>2. PICK p : Moves(l, m, e, p)
  BY <1>1
<1> HIDE DEF m
<1> DEFINE From(n) == IF n <= p THEN n - 1 ELSE n
<1>3. /\ p \in 1..Len(m) /\ Len(m) \in 1..Capacity
      /\ \A n \in 2..Len(m) :
           /\ From(n) \in 1..Len(l) /\ From(n) # p
           /\ m[n] = l[From(n)] /\ l[From(n)].key # e.key
  BY <1>1, <1>2, MovedPlaces
<1>4. m[1] = e /\ e \in Entries /\ ShardOf[e.key] = i
  BY <1>2 DEF Moves, EntryOf
<1>5. /\ Len(l) \in Nat
      /\ \A n \in 1..Len(l) : ShardOf[l[n].key] = i
      /\ \A a, b \in 1..Len(l) : l[a].key = l[b].key => a = b
  BY ListFacts
<1>6. \A n \in 1..Len(m) : n = 1 \/ n \in 2..Len(m)
  BY <1>3
<1>7. ASSUME NEW a \in 2..Len(m), NEW b \in 2..Len(m), m[a].key = m[b].key PROVE a = b
  <2>1. From(a) \in Int /\ From(a) = From(b) /\ From(a) # p /\ From(b) # p
    <3> HIDE DEF From
    <3>1. /\ From(a) \in 1..Len(l) /\ From(a) # p /\ m[a] = l[From(a)]
          /\ From(b) \in 1..Len(l) /\ From(b) # p /\ m[b] = l[From(b)]
      BY <1>3
    <3> QED BY <1>5, <1>7, <3>1
  <2>2. a \in Int /\ b \in Int /\ p \in Int
    BY <1>3
  <2> QED BY ONLY <2>1, <2>2
<1>8. \A n \in 2..Len(m) : m[n].key # e.key /\ ShardOf[m[n].key] = i
  <2> HIDE DEF From
  <2> QED BY <1>3, <1>5
<1>9. \A a, b \in 1..Len(m) : m[a].key = m[b].key => a = b
  BY <1>4, <1>6, <1>7, <1>8
<1>10. \A n \in 1..Len(m) : ShardOf[m[n].key] = i
  BY <1>4, <1>6, <1>8
<1>11. Len(m) <= Capacity
  BY <1>3
<1> QED BY <1>1, <1>9, <1>10, <1>11 DEF ListOf, m

\* An entry whose key is there leaves the place of that key.
LEMMA MovedFrom ==
  ASSUME NEW i \in Shards, NEW l \in ListOf(i), NEW e \in EntryOf(i),
         NEW m, NEW p, Moves(l, m, e, p), NEW x \in 1..Len(l), l[x].key = e.key
  PROVE  p = x
<1>1. /\ DOMAIN l = 1..Len(l) /\ Len(l) \in Nat
      /\ \A a, b \in 1..Len(l) : l[a].key = l[b].key => a = b
  BY ListFacts
<1>2. e.key \in Held(l)
  BY <1>1 DEF Held
<1>3. p \in 1..Len(l) /\ l[p].key = e.key
  BY <1>1, <1>2 DEF Moves
<1> QED BY <1>1, <1>3

\* The keys of the first d entries.
First(l, d) == {l[n].key : n \in 1..d}

\* Moving an entry within the first d leaves the same keys there.
LEMMA MovedWithin ==
  ASSUME NEW i \in Shards, NEW l \in ListOf(i), NEW e \in EntryOf(i),
         NEW m \in Seq(Entries), NEW p, Moves(l, m, e, p),
         NEW d \in 1..Len(l), p <= d, l[p].key = e.key
  PROVE  First(m, d) = First(l, d)
<1>0. Len(l) \in Nat /\ d \in Int
  BY ListFacts
<1>1. /\ p \in 1..Len(m) /\ Len(l) <= Len(m)
      /\ \A n \in 2..Len(m) :
           LET q == IF n <= p THEN n - 1 ELSE n
           IN  q \in 1..Len(l) /\ q # p /\ m[n] = l[q] /\ l[q].key # e.key
      /\ \A q \in 1..Len(l) \ {p} :
           LET n == IF q < p THEN q + 1 ELSE q
           IN  n \in 2..Len(m) /\ m[n] = l[q]
      /\ Len(m) \in Int
  BY MovedPlaces
<1>2. m[1] = e
  BY DEF Moves
<1>3. ASSUME NEW n \in 1..d PROVE \E q \in 1..d : m[n].key = l[q].key
  <2>1. CASE n = 1
    <3>1. p \in 1..d
      BY <1>0, <1>1
    <3> QED BY <1>2, <2>1, <3>1
  <2>2. CASE n # 1
    <3> DEFINE q == IF n <= p THEN n - 1 ELSE n
    <3>1. n \in 2..Len(m)
      BY <1>0, <1>1, <2>2
    <3>2. q \in 1..Len(l) /\ m[n] = l[q]
      BY <1>1, <3>1
    <3>3. q \in 1..d
      BY <1>0, <3>2
    <3> QED BY <3>2, <3>3
  <2> QED BY <2>1, <2>2
<1>4. ASSUME NEW q \in 1..d PROVE \E n \in 1..d : l[q].key = m[n].key
  <2>1. CASE q = p
    <3>1. 1 \in 1..d
      BY <1>0
    <3> QED BY <1>2, <2>1, <3>1
  <2>2. CASE q # p
    <3> DEFINE n == IF q < p THEN q + 1 ELSE q
    <3>1. q \in 1..Len(l) \ {p}
      BY <1>0, <2>2
    <3>2. n \in 2..Len(m) /\ m[n] = l[q]
      BY <1>1, <3>1
    <3>3. n \in 1..d
      BY <1>0, <1>1, <3>2
    <3> QED BY <3>2, <3>3
  <2> QED BY <2>1, <2>2
<1>5. First(m, d) \subseteq First(l, d)
  <2>1. \A n \in 1..d : m[n].key \in First(l, d)
    BY ONLY <1>3 DEF First
  <2> QED BY ONLY <2>1 DEF First
<1>6. First(l, d) \subseteq First(m, d)
  <2>1. \A q \in 1..d : l[q].key \in First(m, d)
    BY ONLY <1>4 DEF First
  <2> QED BY ONLY <2>1 DEF First
<1> QED BY <1>5, <1>6

\* A Put of the first entry changes nothing.
LEMMA PushedAgain ==
  ASSUME NEW i \in Shards, NEW l \in ListOf(i), NEW e \in EntryOf(i),
         Len(l) # 0, l[1] = e
  PROVE  Pushed(l, e) = l
<1> DEFINE m == Pushed(l, e)
<1>0. l \in Seq(Entries) /\ Len(l) \in Nat /\ 1 \in 1..Len(l) /\ l[1].key = e.key
  BY ListFacts
<1>1. m \in Seq(Entries) /\ \E p : Moves(l, m, e, p)
  BY PushedMoves
<1>2. PICK p : Moves(l, m, e, p)
  BY <1>1
<1> HIDE DEF m
<1>3. p = 1
  BY <1>0, <1>2, MovedFrom
<1>4. m[1] = e /\ Len(m) = Len(l) /\ \A n \in 2..Len(l) : m[n] = l[n]
  BY <1>0, <1>2, <1>3 DEF Moves
<1>5. \A n \in 1..Len(m) : m[n] = l[n]
  BY <1>0, <1>4
<1>6. m = l
  BY <1>0, <1>1, <1>4, <1>5, SeqEqual
<1> QED BY <1>6 DEF m

\* What a Put leaves in front.
LEMMA PushedFirst ==
  ASSUME NEW i \in Shards, NEW l \in ListOf(i), NEW e \in EntryOf(i)
  PROVE  Len(Pushed(l, e)) # 0 /\ Pushed(l, e)[1] = e
<1>1. PICK p : Moves(l, Pushed(l, e), e, p)
  BY PushedMoves
<1>2. Len(l) \in Nat
  BY ListFacts
<1> QED BY <1>1, <1>2 DEF Moves

\* The keys after a Put: only a full list gives one up, that of its last entry.
LEMMA PushedHeld ==
  ASSUME NEW i \in Shards, NEW l \in ListOf(i), NEW e \in EntryOf(i)
  PROVE  /\ e.key \in Held(l) \/ Len(l) < Capacity =>
              Held(Pushed(l, e)) = Held(l) \cup {e.key}
         /\ e.key \notin Held(l) /\ Len(l) = Capacity =>
              /\ Held(Pushed(l, e)) = (Held(l) \cup {e.key}) \ {l[Capacity].key}
              /\ l[Capacity].key \in Held(l)
<1> DEFINE m == Pushed(l, e)
<1>0. /\ Len(l) \in Nat /\ Len(l) <= Capacity /\ Capacity \in Nat \ {0}
      /\ \A a, b \in 1..Len(l) : l[a].key = l[b].key => a = b
      /\ Held(l) = {l[n].key : n \in 1..Len(l)}
  BY ListFacts
<1>1. m \in Seq(Entries) /\ \E p : Moves(l, m, e, p)
  BY PushedMoves
<1>2. PICK p : Moves(l, m, e, p)
  BY <1>1
<1> HIDE DEF m
<1>3. /\ p \in 1..Len(m) /\ Len(m) \in Nat
      /\ \A n \in 2..Len(m) :
           LET q == IF n <= p THEN n - 1 ELSE n
           IN  q \in 1..Len(l) /\ q # p /\ m[n] = l[q] /\ l[q].key # e.key
      /\ \A q \in 1..Len(l) \ {p} :
           LET n == IF q < p THEN q + 1 ELSE q
           IN  n \in 2..Len(m) /\ m[n] = l[q]
  BY <1>1, <1>2, MovedPlaces
<1>4. Held(m) = {m[n].key : n \in 1..Len(m)}
  BY <1>1 DEF Held
<1>5. m[1].key = e.key
  BY <1>2 DEF Moves
<1>6. Held(m) = {e.key} \cup {l[q].key : q \in 1..Len(l) \ {p}}
  <2>1. ASSUME NEW n \in 1..Len(m)
        PROVE  m[n].key \in {e.key} \cup {l[q].key : q \in 1..Len(l) \ {p}}
    <3>1. CASE n = 1
      BY <1>5, <3>1
    <3>2. CASE n # 1
      <4>1. n \in 2..Len(m)
        BY <1>3, <3>2
      <4>2. \E q \in 1..Len(l) : q # p /\ m[n] = l[q]
        BY <1>3, <4>1
      <4> QED BY <4>2
    <3> QED BY <3>1, <3>2
  <2>2. ASSUME NEW q \in 1..Len(l) \ {p} PROVE \E n \in 1..Len(m) : m[n].key = l[q].key
    <3>1. \E n \in 2..Len(m) : m[n] = l[q]
      BY <1>3
    <3> QED BY <1>3, <3>1
  <2>3. 1 \in 1..Len(m)
    BY <1>3
  <2> QED BY <1>4, <1>5, <2>1, <2>2, <2>3
<1>7. CASE e.key \in Held(l)
  <2>1. PICK x \in 1..Len(l) : l[x].key = e.key
    BY <1>0, <1>7
  <2>2. p = x
    BY <1>2, <2>1, MovedFrom
  <2> QED BY <1>0, <1>6, <1>7, <2>1, <2>2 DEF m
<1>8. CASE e.key \notin Held(l)
  <2>1. p <= Len(l) => p = Capacity
    <3>1. p \in 1..Len(l) => l[p].key \in Held(l)
      BY <1>0
    <3> QED BY <1>0, <1>2, <1>3, <1>8, <3>1 DEF Moves
  <2>2. CASE Len(l) < Capacity
    <3>1. p \notin 1..Len(l)
      BY <1>0, <2>1, <2>2
    <3>2. 1..Len(l) \ {p} = 1..Len(l)
      BY <3>1
    <3> QED BY <1>0, <1>6, <2>2, <3>2 DEF m
  <2>3. CASE Len(l) = Capacity
    <3>1. p = Capacity
      BY <1>0, <1>2, <2>1, <2>3 DEF Moves
    <3>2. Capacity \in 1..Len(l) /\ l[Capacity].key \in Held(l)
      BY <1>0, <2>3
    <3>3. {l[q].key : q \in 1..Len(l) \ {p}} = Held(l) \ {l[Capacity].key}
      BY <1>0, <3>1, <3>2
    <3> QED BY <1>6, <1>8, <2>3, <3>2, <3>3 DEF m
  <2> QED BY <1>0, <1>8, <2>2, <2>3 DEF m
<1> QED BY <1>7, <1>8

-----------------------------------------------------------------------------
(* Two lists that get the same entries. *)

\* The first d entries of two lists are the same, and the keys of these are K,
\* unless the lists are full of them.
Agree(l, g, d, K) ==
  /\ d \in 0..Capacity /\ d <= Len(l) /\ d <= Len(g)
  /\ \A n \in 1..d : l[n] = g[n]
  /\ d = Capacity \/ First(l, d) = K

LEMMA AgreeStep ==
  ASSUME NEW i \in Shards, NEW l \in ListOf(i), NEW g \in ListOf(i), NEW e \in EntryOf(i),
         NEW d, NEW K, Agree(l, g, d, K)
  PROVE  \E c : Agree(Pushed(l, e), Pushed(g, e), c, K \cup {e.key})
<1> DEFINE m == Pushed(l, e)
           h == Pushed(g, e)
<1>0. /\ Len(l) \in Nat /\ Len(g) \in Nat /\ Capacity \in Nat \ {0}
      /\ Len(l) <= Capacity /\ Len(g) <= Capacity
      /\ Held(l) = {l[n].key : n \in 1..Len(l)} /\ Held(g) = {g[n].key : n \in 1..Len(g)}
  BY ListFacts
<1>1. /\ d \in 0..Capacity /\ d <= Len(l) /\ d <= Len(g)
      /\ \A n \in 1..d : l[n] = g[n]
      /\ d = Capacity \/ First(l, d) = K
  BY DEF Agree
<1>2. /\ m \in Seq(Entries) /\ \E p : Moves(l, m, e, p)
      /\ h \in Seq(Entries) /\ \E q : Moves(g, h, e, q)
  BY PushedMoves
<1>3. PICK p, q : Moves(l, m, e, p) /\ Moves(g, h, e, q)
  BY <1>2
<1> HIDE DEF m, h
<1>4. /\ p \in 1..Len(m) /\ Len(m) \in 1..Capacity /\ Len(l) <= Len(m)
      /\ q \in 1..Len(h) /\ Len(h) \in 1..Capacity /\ Len(g) <= Len(h)
  BY <1>2, <1>3, MovedPlaces
<1>5. /\ m[1] = e /\ h[1] = e
      /\ \A n \in 2..p : m[n] = l[n - 1]
      /\ \A n \in (p + 1)..Len(l) : m[n] = l[n]
      /\ \A n \in 2..q : h[n] = g[n - 1]
      /\ \A n \in (q + 1)..Len(g) : h[n] = g[n]
  BY <1>3 DEF Moves
<1>6. CASE \E x \in 1..d : l[x].key = e.key
  <2>1. PICK x \in 1..d : l[x].key = e.key
    BY <1>6
  <2>2. x \in 1..Len(l) /\ x \in 1..Len(g) /\ g[x].key = e.key
    BY <1>0, <1>1, <2>1
  <2>3. p = x /\ q = x
    BY <1>3, <2>1, <2>2, MovedFrom
  <2>4. ASSUME NEW n \in 1..d PROVE m[n] = h[n]
    <3>1. CASE n = 1
      BY <1>5, <3>1
    <3>2. CASE n # 1 /\ n <= x
      <4>1. n \in 2..p /\ n \in 2..q /\ n - 1 \in 1..d
        BY <1>0, <1>1, <2>3, <3>2
      <4> QED BY <1>1, <1>5, <4>1
    <3>3. CASE n > x
      <4>1. n \in (p + 1)..Len(l) /\ n \in (q + 1)..Len(g)
        BY <1>0, <1>1, <2>3, <3>3
      <4> QED BY <1>1, <1>5, <4>1
    <3> QED BY <3>1, <3>2, <3>3
  <2>5. d <= Len(m) /\ d <= Len(h)
    BY <1>0, <1>1, <1>4
  <2>6. ASSUME First(l, d) = K PROVE First(m, d) = K \cup {e.key}
    <3>1. d \in 1..Len(l) /\ p <= d /\ l[p].key = e.key
      BY <1>0, <1>1, <2>1, <2>3
    <3>2. First(m, d) = First(l, d)
      BY <1>2, <1>3, <3>1, MovedWithin
    <3>3. e.key \in First(l, d)
      BY <2>1 DEF First
    <3> QED BY <2>6, <3>2, <3>3
  <2>7. Agree(m, h, d, K \cup {e.key})
    BY <1>1, <2>4, <2>5, <2>6 DEF Agree
  <2> QED BY <2>7 DEF m, h
<1>7. CASE \A x \in 1..d : l[x].key # e.key
  <2> DEFINE c == IF d < Capacity THEN d + 1 ELSE Capacity
  <2>1. c <= p
    <3>1. ASSUME p <= d PROVE d = Capacity /\ p = Capacity
      <4>1. p \in 1..d /\ p \in 1..Len(l)
        BY <1>0, <1>1, <1>4, <3>1
      <4>2. l[p].key # e.key
        BY <1>7, <4>1
      <4> QED BY <1>0, <1>1, <1>3, <3>1, <4>1, <4>2 DEF Moves
    <3> QED BY <1>0, <1>1, <1>4, <3>1
  <2>2. c <= q
    <3>1. ASSUME q <= d PROVE d = Capacity /\ q = Capacity
      <4>1. q \in 1..d /\ q \in 1..Len(g)
        BY <1>0, <1>1, <1>4, <3>1
      <4>2. g[q].key # e.key
        BY <1>1, <1>7, <4>1
      <4> QED BY <1>0, <1>1, <1>3, <3>1, <4>1, <4>2 DEF Moves
    <3> QED BY <1>0, <1>1, <1>4, <3>1
  <2>3. c \in 1..Capacity /\ c <= Len(m) /\ c <= Len(h) /\ c - 1 <= d
    BY <1>0, <1>1, <1>4, <2>1, <2>2
  <2> HIDE DEF c
  <2>4. ASSUME NEW n \in 2..c PROVE m[n] = l[n - 1] /\ h[n] = g[n - 1] /\ n - 1 \in 1..d
    <3>1. n \in 2..p /\ n \in 2..q /\ n - 1 \in 1..d
      BY <1>1, <1>4, <2>1, <2>2, <2>3
    <3> QED BY <1>5, <3>1
  <2>5. ASSUME NEW n \in 1..c PROVE m[n] = h[n]
    <3>1. n = 1 \/ n \in 2..c
      BY <2>3
    <3> QED BY <1>1, <1>5, <2>4, <3>1
  <2>6. ASSUME d # Capacity, First(l, d) = K PROVE First(m, c) = K \cup {e.key}
    <3>1. c = d + 1 /\ 1 \in 1..c
      BY <1>0, <1>1, <2>3, <2>6 DEF c
    <3>2. ASSUME NEW n \in 1..c PROVE m[n].key \in First(l, d) \cup {e.key}
      <4>1. n = 1 \/ n \in 2..c
        BY <2>3
      <4> QED BY <1>5, <2>4, <4>1 DEF First
    <3>3. ASSUME NEW n \in 1..d PROVE l[n].key \in First(m, c)
      <4>1. n + 1 \in 2..c /\ n + 1 \in 1..c /\ n + 1 - 1 = n
        BY <1>1, <3>1
      <4>2. m[n + 1] = l[n]
        BY <2>4, <4>1
      <4> QED BY <4>1, <4>2 DEF First
    <3>4. e.key \in First(m, c)
      BY <1>5, <3>1 DEF First
    <3>5. First(m, c) \subseteq First(l, d) \cup {e.key}
      BY ONLY <3>2 DEF First
    <3>6. First(l, d) \subseteq First(m, c)
      BY ONLY <3>3 DEF First
    <3> QED BY <2>6, <3>4, <3>5, <3>6
  <2>7. d = Capacity => c = Capacity
    BY <1>0 DEF c
  <2>8. Agree(m, h, c, K \cup {e.key})
    BY <1>1, <2>3, <2>5, <2>6, <2>7 DEF Agree
  <2> QED BY <2>8 DEF m, h
<1> QED BY <1>6, <1>7

\* A Put of a key that is among the first d entries leaves the others in place.
Behind(l, g, d, K) ==
  /\ d \in 0..Len(l) /\ Len(g) = Len(l)
  /\ First(g, d) = K
  /\ \A n \in (d + 1)..Len(l) : g[n] = l[n]

LEMMA BehindStep ==
  ASSUME NEW i \in Shards, NEW l \in ListOf(i), NEW g \in ListOf(i), NEW e \in EntryOf(i),
         NEW d, NEW K, Behind(l, g, d, K), e.key \in K
  PROVE  Behind(l, Pushed(g, e), d, K)
<1> DEFINE h == Pushed(g, e)
<1>0. Len(l) \in Nat /\ Len(g) \in Nat
  BY ListFacts
<1>1. /\ d \in 0..Len(l) /\ Len(g) = Len(l)
      /\ First(g, d) = K
      /\ \A n \in (d + 1)..Len(l) : g[n] = l[n]
  BY DEF Behind
<1>2. PICK x \in 1..d : g[x].key = e.key
  BY <1>1 DEF First
<1>3. h \in Seq(Entries) /\ \E p : Moves(g, h, e, p)
  BY PushedMoves
<1>4. PICK p : Moves(g, h, e, p)
  BY <1>3
<1> HIDE DEF h
<1>5. x \in 1..Len(g)
  BY <1>0, <1>1
<1>6. p = x
  BY <1>2, <1>4, <1>5, MovedFrom
<1>7. Len(h) = Len(g) /\ \A n \in (x + 1)..Len(g) : h[n] = g[n]
  BY <1>0, <1>4, <1>5, <1>6 DEF Moves
<1>8. First(h, d) = First(g, d)
  <2>1. d \in 1..Len(g) /\ p <= d /\ g[p].key = e.key
    BY <1>0, <1>1, <1>2, <1>6
  <2> QED BY <1>3, <1>4, <2>1, MovedWithin
<1>9. ASSUME NEW n \in (d + 1)..Len(l) PROVE h[n] = l[n]
  <2>1. n \in (x + 1)..Len(g)
    BY <1>0, <1>1, <1>2
  <2> QED BY <1>1, <1>7, <2>1
<1>10. Behind(l, h, d, K)
  BY <1>1, <1>7, <1>8, <1>9 DEF Behind
<1> QED BY <1>10 DEF h

\* Two lists that differ at most in the values of some keys.
Alike(l, g, S) ==
  /\ Len(g) = Len(l)
  /\ \A n \in 1..Len(l) : g[n].key = l[n].key /\ (l[n].key \notin S => g[n] = l[n])

LEMMA AlikeSame ==
  ASSUME NEW i \in Shards, NEW l \in ListOf(i), NEW g \in ListOf(i), Alike(l, g, {})
  PROVE  l = g
<1>1. l \in Seq(Entries) /\ g \in Seq(Entries) /\ Len(l) = Len(g)
      /\ \A n \in 1..Len(l) : l[n] = g[n]
  BY ListFacts DEF Alike
<1> QED BY <1>1, SeqEqual

\* A Put of a key makes its value the same.
LEMMA AlikeStep ==
  ASSUME NEW i \in Shards, NEW l \in ListOf(i), NEW g \in ListOf(i), NEW e \in EntryOf(i),
         NEW S, Alike(l, g, S)
  PROVE  Alike(Pushed(l, e), Pushed(g, e), S \ {e.key})
<1> DEFINE m == Pushed(l, e)
           h == Pushed(g, e)
<1>0. /\ Len(l) \in Nat /\ Len(g) \in Nat /\ Capacity \in Nat \ {0}
      /\ Len(l) <= Capacity
      /\ Held(l) = {l[n].key : n \in 1..Len(l)} /\ Held(g) = {g[n].key : n \in 1..Len(g)}
  BY ListFacts
<1>1. /\ Len(g) = Len(l)
      /\ \A n \in 1..Len(l) : g[n].key = l[n].key /\ (l[n].key \notin S => g[n] = l[n])
  BY DEF Alike
<1>2. /\ m \in Seq(Entries) /\ \E p : Moves(l, m, e, p)
      /\ h \in Seq(Entries) /\ \E q : Moves(g, h, e, q)
  BY PushedMoves
<1>3. PICK p, q : Moves(l, m, e, p) /\ Moves(g, h, e, q)
  BY <1>2
<1> HIDE DEF m, h
<1>4. Held(g) = Held(l)
  <2>1. \A n \in 1..Len(g) : g[n].key \in Held(l)
    BY <1>0, <1>1
  <2>2. \A n \in 1..Len(l) : l[n].key \in Held(g)
    BY <1>0, <1>1
  <2>3. Held(g) \subseteq Held(l)
    <3>1. Held(g) = {g[n].key : n \in 1..Len(g)}
      BY <1>0
    <3> QED BY ONLY <3>1, <2>1
  <2>4. Held(l) \subseteq Held(g)
    <3>1. Held(l) = {l[n].key : n \in 1..Len(l)}
      BY <1>0
    <3> QED BY ONLY <3>1, <2>2
  <2> QED BY ONLY <2>3, <2>4
<1>5. p = q
  <2>1. CASE e.key \in Held(l)
    <3>1. PICK x \in 1..Len(l) : l[x].key = e.key
      BY <1>0, <2>1
    <3>2. x \in 1..Len(g) /\ g[x].key = e.key
      BY <1>1, <3>1
    <3> QED BY <1>3, <3>1, <3>2, MovedFrom
  <2>2. CASE e.key \notin Held(l)
    <3>1. /\ p \in 1..Capacity /\ p <= Len(l) + 1
          /\ p <= Len(l) => p = Capacity \/ l[p].key = e.key
          /\ q \in 1..Capacity /\ q <= Len(l) + 1
          /\ q <= Len(l) => q = Capacity \/ g[q].key = e.key
      BY <1>1, <1>3 DEF Moves
    <3>2. p <= Len(l) => p \in 1..Len(l) /\ l[p].key # e.key
      BY <1>0, <2>2, <3>1
    <3>3. q <= Len(l) => q \in 1..Len(g) /\ g[q].key # e.key
      BY <1>0, <1>1, <1>4, <2>2, <3>1
    <3> QED BY <1>0, <3>1, <3>2, <3>3
  <2> QED BY <2>1, <2>2
<1>6. /\ p \in 1..Len(m) /\ Len(m) \in Nat
      /\ \A n \in 2..Len(m) :
           LET o == IF n <= p THEN n - 1 ELSE n
           IN  o \in 1..Len(l) /\ o # p /\ m[n] = l[o] /\ l[o].key # e.key
  BY <1>2, <1>3, MovedPlaces
<1>7. \A n \in 2..Len(h) :
        LET o == IF n <= p THEN n - 1 ELSE n
        IN  o \in 1..Len(g) /\ o # p /\ h[n] = g[o] /\ g[o].key # e.key
  BY <1>2, <1>3, <1>5, MovedPlaces
<1>8. m[1] = e /\ h[1] = e /\ Len(h) = Len(m)
  BY <1>1, <1>3, <1>5 DEF Moves
<1>9. ASSUME NEW n \in 1..Len(m)
      PROVE  h[n].key = m[n].key /\ (m[n].key \notin S \ {e.key} => h[n] = m[n])
  <2>1. CASE n = 1
    BY <1>8, <2>1
  <2>2. CASE n # 1
    <3> DEFINE o == IF n <= p THEN n - 1 ELSE n
    <3>1. n \in 2..Len(m) /\ n \in 2..Len(h)
      BY <1>6, <1>8, <2>2
    <3>2. o \in 1..Len(l) /\ m[n] = l[o] /\ l[o].key # e.key /\ h[n] = g[o]
      BY <1>6, <1>7, <3>1
    <3> HIDE DEF o
    <3> QED BY <1>1, <3>2
  <2> QED BY <2>1, <2>2
<1>10. Alike(m, h, S \ {e.key})
  BY <1>8, <1>9 DEF Alike
<1> QED BY <1>10 DEF m, h

-----------------------------------------------------------------------------
(* The loop of replayWAL. *)

\* The shards' lists, all of them.
Lists == {s \in [Shards -> Seq(Entries)] : \A i \in Shards : s[i] \in ListOf(i)}

LEMMA ListsFacts ==
  /\ \A s \in Lists, i \in Shards : s[i] \in ListOf(i) /\ s[i] \in Seq(Entries)
  /\ \A s \in Lists : s \in [Shards -> Seq(Entries)]
  /\ \A e \in Entries : e.key \in Keys /\ ShardOf[e.key] \in Shards /\ e \in EntryOf(ShardOf[e.key])
<1>1. \A e \in Entries : e.key \in Keys
  BY DEF Entries
<1>2. \A e \in Entries : ShardOf[e.key] \in Shards
  BY <1>1
<1> QED BY <1>1, <1>2 DEF Lists, EntryOf

\* A line changes the list of its shard alone.
LEMMA ReplayedIs ==
  ASSUME NEW s \in Lists, NEW e \in Entries
  PROVE  /\ Replayed(s, e) \in Lists
         /\ Replayed(s, e)[ShardOf[e.key]] = Pushed(s[ShardOf[e.key]], e)
         /\ \A i \in Shards \ {ShardOf[e.key]} : Replayed(s, e)[i] = s[i]
<1> DEFINE c == ShardOf[e.key]
<1>1. /\ c \in Shards /\ e \in EntryOf(c) /\ s[c] \in ListOf(c)
      /\ s \in [Shards -> Seq(Entries)] /\ \A i \in Shards : s[i] \in ListOf(i)
  BY ListsFacts
<1>2. Pushed(s[c], e) \in ListOf(c) /\ Pushed(s[c], e) \in Seq(Entries)
  <2> HIDE DEF c
  <2>1. Pushed(s[c], e) \in ListOf(c)
    BY <1>1, PushedIsList
  <2> QED BY <1>1, <2>1, ListFacts
<1>3. Replayed(s, e) = [s EXCEPT ![c] = Pushed(s[c], e)]
  BY DEF Replayed, PutInternal
<1> HIDE DEF c
<1>4. [s EXCEPT ![c] = Pushed(s[c], e)] \in Lists
  BY <1>1, <1>2 DEF Lists
<1>5. Replayed(s, e)[c] = Pushed(s[c], e) /\ \A i \in Shards \ {c} : Replayed(s, e)[i] = s[i]
  BY <1>1, <1>3
<1> QED BY <1>3, <1>4, <1>5 DEF c

\* Load reads a snapshot of lists as it is.
LEMMA ReadIs ==
  ASSUME NEW s \in Lists
  PROVE  [i \in Shards |-> Read(s[i])] = s
<1>1. ASSUME NEW i \in Shards PROVE Read(s[i]) = s[i]
  <2>1. s[i] \in ListOf(i)
    BY ListsFacts
  <2>2. s[i] \in Seq(Entries) /\ Len(s[i]) <= Capacity /\ Len(s[i]) \in Nat
    BY <2>1, ListFacts
  <2>3. ~(Len(s[i]) > Capacity)
    BY <2>2
  <2>4. SubSeq(s[i], 1, Len(s[i])) = s[i]
    BY <2>2, SubSeqFull
  <2> QED BY <2>3, <2>4 DEF Read
<1>2. s = [i \in Shards |-> s[i]]
  BY ListsFacts
<1> QED BY <1>1, <1>2

\* What the loop has built after each line.
Runs(t, b, w) ==
  /\ t[0] = b
  /\ \A k \in 1..Len(w) : t[k] = Replayed(t[k - 1], w[k])

LEMMA RebuildRuns ==
  ASSUME NEW b \in Lists, NEW w \in Seq(Entries)
  PROVE  \E t : Runs(t, b, w) /\ Rebuild(b, w) = t[Len(w)]
<1> DEFINE D == SUBSET DOMAIN w
           base == [i \in Shards |-> Read(b[i])]
           Step(g, s) == IF s = {} THEN base ELSE Replayed(g[s \ {Max(s)}], w[Max(s)])
           Solution(g) == g = [s \in D |-> Step(g, s)]
           G == CHOOSE g : Solution(g)
           Op == [x \in Lists \X Entries |-> Replayed(x[1], x[2])]
           Solves(h, s) == /\ s = {} => h[s] = base
                           /\ s # {} => /\ Max(s) \in DOMAIN w
                                        /\ h[s] = Op[<<h[s \ {Max(s)}], w[Max(s)]>>]
<1>0. DOMAIN w = 1..Len(w) /\ Len(w) \in Nat /\ \A i \in DOMAIN w : w[i] \in Entries
  OBVIOUS
<1>00. base = b
  BY ReadIs
<1>1. \E g : Solution(g)
  <2>1. Op \in [Lists \X Entries -> Lists]
    BY ReplayedIs
  <2>2. PICK h : IsFold(h, Lists, base, w, Op)
    <3> HIDE DEF Op, base
    <3> QED BY <1>00, <2>1, FoldExists
  <2>3. h \in [D -> Lists] /\ \A s \in D : Solves(h, s)
    <3> HIDE DEF Op, base
    <3> QED BY <2>2 DEF IsFold
  <2>4. ASSUME NEW s \in D PROVE h[s] = Step(h, s)
    <3> HIDE DEF base
    <3>1. CASE s = {}
      BY <2>3, <3>1
    <3>2. CASE s # {}
      <4>1. Max(s) \in DOMAIN w /\ h[s] = Op[<<h[s \ {Max(s)}], w[Max(s)]>>]
        BY <2>3, <3>2
      <4>2. s \ {Max(s)} \in D /\ w[Max(s)] \in Entries
        BY <1>0, <4>1
      <4>3. h[s \ {Max(s)}] \in Lists
        BY <2>3, <4>2
      <4> QED BY <3>2, <4>1, <4>2, <4>3
    <3> QED BY <3>1, <3>2
  <2>5. h = [s \in D |-> h[s]]
    BY <2>3
  <2>6. [s \in D |-> h[s]] = [s \in D |-> Step(h, s)]
    <3> HIDE DEF D, Step
    <3> QED BY <2>4
  <2> HIDE DEF D, Step
  <2> QED BY <2>5, <2>6
<1>2. Solution(G)
  BY <1>1
<1>3. Rebuild(b, w) = G[DOMAIN w]
  BY DEF Rebuild, FoldLeft, MapThenFoldSet
<1> DEFINE t == [k \in 0..Len(w) |-> G[1..k]]
<1> HIDE DEF G, base
<1>4. t[0] = b
  <2>1. 1..0 = {} /\ {} \in D
    OBVIOUS
  <2>2. G[{}] = Step(G, {})
    BY <1>2, <2>1
  <2> QED BY <1>0, <1>00, <2>1, <2>2
<1>5. ASSUME NEW k \in 1..Len(w)
      PROVE  t[k] = Replayed(t[k - 1], w[k])
  <2>1. 1..k \in D /\ 1..k # {} /\ Max(1..k) = k /\ (1..k) \ {k} = 1..(k - 1)
    BY <1>0, MaxUpTo
  <2>2. G[1..k] = Step(G, 1..k)
    <3> HIDE DEF D, Step
    <3> QED BY <1>2, <2>1
  <2>3. G[1..k] = Replayed(G[1..(k - 1)], w[k])
    BY ONLY <2>1, <2>2
  <2>4. k \in 0..Len(w) /\ k - 1 \in 0..Len(w)
    BY <1>0
  <2>5. t[k] = G[1..k] /\ t[k - 1] = G[1..(k - 1)]
    BY ONLY <2>4
  <2> QED BY ONLY <2>3, <2>5
<1>6. Rebuild(b, w) = t[Len(w)]
  BY <1>0, <1>3
<1> HIDE DEF t
<1> QED BY <1>4, <1>5, <1>6 DEF Runs

LEMMA RunsInLists ==
  ASSUME NEW b \in Lists, NEW w \in Seq(Entries), NEW t, Runs(t, b, w)
  PROVE  \A k \in 0..Len(w) : t[k] \in Lists
<1> DEFINE S == {k \in 0..Len(w) : t[k] \in Lists}
<1>0. Len(w) \in Nat /\ \A k \in 1..Len(w) : w[k] \in Entries
  OBVIOUS
<1>1. 0 \in S
  BY <1>0 DEF Runs
<1>2. ASSUME NEW k \in 1..Len(w), k - 1 \in S PROVE k \in S
  <2>1. t[k - 1] \in Lists /\ t[k] = Replayed(t[k - 1], w[k])
    BY <1>2 DEF Runs
  <2>2. t[k] \in Lists
    BY <1>0, <2>1, ReplayedIs
  <2>3. k \in 0..Len(w)
    BY <1>0
  <2> QED BY <2>2, <2>3
<1>3. 0..Len(w) \subseteq S
  <2> HIDE DEF S
  <2> QED BY <1>0, <1>1, <1>2, UpTo
<1> QED BY <1>3

LEMMA RebuildType ==
  ASSUME NEW b \in Lists, NEW w \in Seq(Entries)
  PROVE  Rebuild(b, w) \in Lists
<1>1. PICK t : Runs(t, b, w) /\ Rebuild(b, w) = t[Len(w)]
  BY RebuildRuns
<1>2. Len(w) \in 0..Len(w)
  OBVIOUS
<1> QED BY <1>1, <1>2, RunsInLists

\* Nothing is replayed of an empty log.
LEMMA RebuildEmpty ==
  ASSUME NEW b \in Lists
  PROVE  Rebuild(b, <<>>) = b
<1>1. <<>> \in Seq(Entries) /\ Len(<<>>) = 0
  OBVIOUS
<1> QED BY <1>1, RebuildRuns DEF Runs

\* One more line is replayed last.
LEMMA RebuildAppend ==
  ASSUME NEW b \in Lists, NEW w \in Seq(Entries), NEW e \in Entries
  PROVE  Rebuild(b, w \o <<e>>) = Replayed(Rebuild(b, w), e)
<1> DEFINE v == w \o <<e>>
<1>0. Len(w) \in Nat /\ \A k \in 1..Len(w) : w[k] \in Entries
  OBVIOUS
<1>1. /\ v \in Seq(Entries) /\ Len(v) = Len(w) + 1 /\ v[Len(w) + 1] = e
      /\ \A k \in 1..Len(w) : v[k] = w[k]
  <2>1. <<e>> \in Seq(Entries) /\ Len(<<e>>) = 1 /\ <<e>>[1] = e
    OBVIOUS
  <2>2. /\ v \in Seq(Entries) /\ Len(v) = Len(w) + 1
        /\ \A k \in 1..(Len(w) + 1) : v[k] = IF k <= Len(w) THEN w[k] ELSE <<e>>[k - Len(w)]
    BY <2>1, ConcatProperties
  <2> HIDE DEF v
  <2>3. Len(w) + 1 \in 1..(Len(w) + 1) /\ ~(Len(w) + 1 <= Len(w)) /\ Len(w) + 1 - Len(w) = 1
    BY <1>0
  <2>4. v[Len(w) + 1] = e
    BY <2>1, <2>2, <2>3
  <2>5. \A k \in 1..Len(w) : v[k] = w[k]
    BY <1>0, <2>2
  <2> QED BY <2>2, <2>4, <2>5
<1>2. PICK t : Runs(t, b, w) /\ Rebuild(b, w) = t[Len(w)]
  BY RebuildRuns
<1> HIDE DEF v
<1>3. PICK u : Runs(u, b, v) /\ Rebuild(b, v) = u[Len(v)]
  BY <1>1, RebuildRuns
<1> DEFINE S == {k \in 0..Len(w) : u[k] = t[k]}
<1>4. 0 \in S
  BY <1>0, <1>2, <1>3 DEF Runs
<1>5. ASSUME NEW k \in 1..Len(w), k - 1 \in S PROVE k \in S
  <2>1. k \in 1..Len(v) /\ k \in 0..Len(w)
    BY <1>0, <1>1
  <2>2. u[k] = Replayed(u[k - 1], w[k]) /\ t[k] = Replayed(t[k - 1], w[k])
    BY <1>1, <1>2, <1>3, <2>1 DEF Runs
  <2> QED BY <1>5, <2>1, <2>2
<1>6. Len(w) \in S
  <2> HIDE DEF S
  <2>1. 0..Len(w) \subseteq S
    BY <1>0, <1>4, <1>5, UpTo
  <2> QED BY <1>0, <2>1
<1>7. Len(w) + 1 \in 1..Len(v) /\ Len(w) + 1 - 1 = Len(w)
  BY <1>0, <1>1
<1>8. u[Len(w) + 1] = Replayed(u[Len(w)], e)
  BY <1>1, <1>3, <1>7 DEF Runs
<1>9. Rebuild(b, v) = Replayed(Rebuild(b, w), e)
  BY <1>1, <1>2, <1>3, <1>6, <1>8
<1> QED BY <1>9 DEF v

\* Induction over the lines of a log, for what two snapshots make of a shard.
LEMMA BothReplayed ==
  ASSUME NEW w \in Seq(Entries), NEW b \in Lists, NEW c \in Lists, NEW i \in Shards, NEW S,
         <<0, b[i], c[i]>> \in S,
         \A k \in 1..Len(w) : \A l, g \in ListOf(i) :
           <<k - 1, l, g>> \in S =>
             IF ShardOf[w[k].key] = i THEN <<k, Pushed(l, w[k]), Pushed(g, w[k])>> \in S
                                      ELSE <<k, l, g>> \in S
  PROVE  <<Len(w), Rebuild(b, w)[i], Rebuild(c, w)[i]>> \in S
<1>0. Len(w) \in Nat /\ \A k \in 1..Len(w) : w[k] \in Entries
  OBVIOUS
<1>1. PICK t : Runs(t, b, w) /\ Rebuild(b, w) = t[Len(w)]
  BY RebuildRuns
<1>2. PICK u : Runs(u, c, w) /\ Rebuild(c, w) = u[Len(w)]
  BY RebuildRuns
<1>3. \A k \in 0..Len(w) : t[k] \in Lists /\ u[k] \in Lists
  BY <1>1, <1>2, RunsInLists
<1> DEFINE T == {k \in 0..Len(w) : <<k, t[k][i], u[k][i]>> \in S}
<1>4. 0 \in T
  BY <1>0, <1>1, <1>2 DEF Runs
<1>5. ASSUME NEW k \in 1..Len(w), k - 1 \in T PROVE k \in T
  <2>1. k \in 0..Len(w) /\ k - 1 \in 0..Len(w) /\ w[k] \in Entries
    BY <1>0
  <2>2. /\ t[k] = Replayed(t[k - 1], w[k]) /\ t[k - 1] \in Lists
        /\ u[k] = Replayed(u[k - 1], w[k]) /\ u[k - 1] \in Lists
    BY <1>1, <1>2, <1>3, <2>1 DEF Runs
  <2>3. t[k - 1][i] \in ListOf(i) /\ u[k - 1][i] \in ListOf(i)
    BY <2>2, ListsFacts
  <2>4. <<k - 1, t[k - 1][i], u[k - 1][i]>> \in S
    BY <1>5
  <2> DEFINE at == ShardOf[w[k].key]
  <2>5. \A s \in Lists : /\ Replayed(s, w[k])[at] = Pushed(s[at], w[k])
                        /\ \A j \in Shards \ {at} : Replayed(s, w[k])[j] = s[j]
    BY <2>1, ReplayedIs
  <2> HIDE DEF at
  <2>6. /\ t[k][at] = Pushed(t[k - 1][at], w[k]) /\ u[k][at] = Pushed(u[k - 1][at], w[k])
        /\ \A j \in Shards \ {at} : t[k][j] = t[k - 1][j] /\ u[k][j] = u[k - 1][j]
    BY <2>2, <2>5
  <2>7. CASE at = i
    <3>1. t[k][i] = Pushed(t[k - 1][i], w[k]) /\ u[k][i] = Pushed(u[k - 1][i], w[k])
      BY <2>6, <2>7
    <3>2. <<k, Pushed(t[k - 1][i], w[k]), Pushed(u[k - 1][i], w[k])>> \in S
      BY <2>3, <2>4, <2>7 DEF at
    <3> QED BY <2>1, <3>1, <3>2
  <2>8. CASE at # i
    <3>1. t[k][i] = t[k - 1][i] /\ u[k][i] = u[k - 1][i]
      BY <2>6, <2>8
    <3>2. <<k, t[k - 1][i], u[k - 1][i]>> \in S
      BY <2>3, <2>4, <2>8 DEF at
    <3> QED BY <2>1, <3>1, <3>2
  <2> QED BY <2>7, <2>8
<1>6. Len(w) \in T
  <2> HIDE DEF T
  <2>1. 0..Len(w) \subseteq T
    BY <1>0, <1>4, <1>5, UpTo
  <2> QED BY <1>0, <2>1
<1> QED BY <1>1, <1>2, <1>6

\* The keys that the first k lines put into shard i.
KeysOf(w, k, i) == {w[n].key : n \in {j \in 1..k : ShardOf[w[j].key] = i}}

LEMMA KeysOfStep ==
  ASSUME NEW w \in Seq(Entries), NEW k \in 1..Len(w), NEW i \in Shards
  PROVE  /\ ShardOf[w[k].key] = i => KeysOf(w, k, i) = KeysOf(w, k - 1, i) \cup {w[k].key}
         /\ ShardOf[w[k].key] # i => KeysOf(w, k, i) = KeysOf(w, k - 1, i)
         /\ KeysOf(w, k, i) \subseteq KeysOf(w, Len(w), i)
<1>0. Len(w) \in Nat
  OBVIOUS
<1>1. \A j : j \in 1..k <=> j \in 1..(k - 1) \/ j = k
  BY <1>0
<1>2. \A j : j \in 1..k => j \in 1..Len(w)
  BY <1>0
<1> QED BY <1>1, <1>2 DEF KeysOf

LEMMA KeysOfNone ==
  ASSUME NEW w, NEW i
  PROVE  KeysOf(w, 0, i) = {}
<1>1. \A j : j \notin 1..0
  OBVIOUS
<1> QED BY <1>1 DEF KeysOf

\* The same log over two snapshots: the lists agree on what the log put there.
LEMMA LogDecides ==
  ASSUME NEW w \in Seq(Entries), NEW b \in Lists, NEW c \in Lists, NEW i \in Shards
  PROVE  \E d : Agree(Rebuild(b, w)[i], Rebuild(c, w)[i], d, KeysOf(w, Len(w), i))
<1> DEFINE P(k, l, g) == \E d : Agree(l, g, d, KeysOf(w, k, i))
           S == {x \in Nat \X ListOf(i) \X ListOf(i) : P(x[1], x[2], x[3])}
<1>0. Len(w) \in Nat /\ \A k \in 1..Len(w) : w[k] \in Entries
  OBVIOUS
<1>1. \A k \in Nat : \A l, g \in ListOf(i) : <<k, l, g>> \in S <=> P(k, l, g)
  <2> HIDE DEF P
  <2> QED OBVIOUS
<1>2. b[i] \in ListOf(i) /\ c[i] \in ListOf(i)
  BY ListsFacts
<1>3. P(0, b[i], c[i])
  <2>1. Len(b[i]) \in Nat /\ Len(c[i]) \in Nat
    BY <1>2, ListFacts
  <2>2. Agree(b[i], c[i], 0, {})
    <3>1. \A n : n \notin 1..0
      OBVIOUS
    <3>2. First(b[i], 0) = {}
      BY <3>1 DEF First
    <3> QED BY <2>1, <3>1, <3>2 DEF Agree
  <2> QED BY <2>2, KeysOfNone
<1>4. ASSUME NEW k \in 1..Len(w), NEW l \in ListOf(i), NEW g \in ListOf(i), P(k - 1, l, g)
      PROVE  IF ShardOf[w[k].key] = i THEN P(k, Pushed(l, w[k]), Pushed(g, w[k]))
                                      ELSE P(k, l, g)
  <2>1. CASE ShardOf[w[k].key] = i
    <3>1. w[k] \in EntryOf(i)
      BY <1>0, <2>1 DEF EntryOf
    <3>2. PICK d : Agree(l, g, d, KeysOf(w, k - 1, i))
      BY <1>4
    <3>3. \E d1 : Agree(Pushed(l, w[k]), Pushed(g, w[k]), d1, KeysOf(w, k - 1, i) \cup {w[k].key})
      BY <3>1, <3>2, AgreeStep
    <3>4. KeysOf(w, k, i) = KeysOf(w, k - 1, i) \cup {w[k].key}
      BY <2>1, KeysOfStep
    <3> QED BY <2>1, <3>3, <3>4
  <2>2. CASE ShardOf[w[k].key] # i
    <3>1. KeysOf(w, k, i) = KeysOf(w, k - 1, i)
      BY <2>2, KeysOfStep
    <3> QED BY <1>4, <2>2, <3>1
  <2> QED BY <2>1, <2>2
<1> HIDE DEF P
<1>5. <<0, b[i], c[i]>> \in S
  BY <1>1, <1>2, <1>3
<1>6. ASSUME NEW k \in 1..Len(w), NEW l \in ListOf(i), NEW g \in ListOf(i),
             <<k - 1, l, g>> \in S
      PROVE  IF ShardOf[w[k].key] = i THEN <<k, Pushed(l, w[k]), Pushed(g, w[k])>> \in S
                                      ELSE <<k, l, g>> \in S
  <2>1. k \in Nat /\ k - 1 \in Nat
    BY <1>0
  <2>2. P(k - 1, l, g)
    BY <1>1, <1>6, <2>1
  <2>3. CASE ShardOf[w[k].key] = i
    <3>1. w[k] \in EntryOf(i)
      BY <1>0, <2>3 DEF EntryOf
    <3>2. Pushed(l, w[k]) \in ListOf(i) /\ Pushed(g, w[k]) \in ListOf(i)
      BY <3>1, PushedIsList
    <3>3. P(k, Pushed(l, w[k]), Pushed(g, w[k]))
      BY <1>4, <2>2, <2>3
    <3> HIDE DEF S
    <3> QED BY <1>1, <2>1, <2>3, <3>2, <3>3
  <2>4. CASE ShardOf[w[k].key] # i
    <3> HIDE DEF S
    <3> QED BY <1>1, <1>4, <2>1, <2>2, <2>4
  <2> QED BY <2>3, <2>4
<1> HIDE DEF S
<1>7. <<Len(w), Rebuild(b, w)[i], Rebuild(c, w)[i]>> \in S
  BY <1>5, <1>6, BothReplayed
<1>8. Rebuild(b, w)[i] \in ListOf(i) /\ Rebuild(c, w)[i] \in ListOf(i)
  BY RebuildType, ListsFacts
<1> QED BY <1>0, <1>1, <1>7, <1>8 DEF P

\* A log replayed over what it has built changes nothing: a stop between the
\* rename of a snapshot and the truncation of the log does no harm.
LEMMA LogTwice ==
  ASSUME NEW w \in Seq(Entries), NEW b \in Lists, NEW c \in Lists, NEW i \in Shards,
         c[i] = Rebuild(b, w)[i]
  PROVE  Rebuild(c, w)[i] = c[i]
<1> DEFINE K == KeysOf(w, Len(w), i)
           y == Rebuild(c, w)[i]
<1>0. Len(w) \in Nat /\ \A k \in 1..Len(w) : w[k] \in Entries
  OBVIOUS
<1>1. c[i] \in ListOf(i) /\ y \in ListOf(i)
  BY RebuildType, ListsFacts
<1>2. /\ c[i] \in Seq(Entries) /\ Len(c[i]) \in Nat /\ Len(c[i]) <= Capacity
      /\ y \in Seq(Entries) /\ Len(y) \in Nat /\ Len(y) <= Capacity
      /\ Capacity \in Nat
  BY <1>1, ListFacts
<1>3. PICK d : Agree(c[i], y, d, K)
  BY LogDecides
<1>4. /\ d \in 0..Capacity /\ d <= Len(c[i]) /\ d <= Len(y)
      /\ \A n \in 1..d : c[i][n] = y[n]
      /\ d = Capacity \/ First(c[i], d) = K
  BY <1>3 DEF Agree
<1>5. CASE d = Capacity
  <2>1. Len(y) = Len(c[i]) /\ \A n \in 1..Len(y) : y[n] = c[i][n]
    BY <1>2, <1>4, <1>5
  <2> HIDE DEF y
  <2>2. y = c[i]
    BY <1>2, <2>1, SeqEqual
  <2> QED BY <2>2 DEF y
<1>6. CASE First(c[i], d) = K
  <2> DEFINE P(g) == Behind(c[i], g, d, K)
             S == {x \in Nat \X ListOf(i) \X ListOf(i) : P(x[3])}
  <2>1. P(c[i])
    BY <1>2, <1>4, <1>6 DEF Behind
  <2>2. ASSUME NEW k \in 1..Len(w), ShardOf[w[k].key] = i, NEW g \in ListOf(i), P(g)
        PROVE  P(Pushed(g, w[k]))
    <3>1. w[k] \in EntryOf(i)
      BY <1>0, <2>2 DEF EntryOf
    <3>2. w[k].key \in K
      BY <1>0, <2>2, KeysOfStep
    <3> QED BY <1>1, <2>2, <3>1, <3>2, BehindStep
  <2> HIDE DEF P
  <2>3. \A k \in Nat : \A l, g \in ListOf(i) : <<k, l, g>> \in S <=> P(g)
    OBVIOUS
  <2>4. <<0, c[i], c[i]>> \in S
    BY <1>1, <2>1, <2>3
  <2>5. ASSUME NEW k \in 1..Len(w), NEW l \in ListOf(i), NEW g \in ListOf(i),
               <<k - 1, l, g>> \in S
        PROVE  IF ShardOf[w[k].key] = i THEN <<k, Pushed(l, w[k]), Pushed(g, w[k])>> \in S
                                        ELSE <<k, l, g>> \in S
    <3>1. k \in Nat /\ k - 1 \in Nat
      BY <1>0
    <3>2. P(g)
      BY <2>3, <2>5, <3>1
    <3>3. CASE ShardOf[w[k].key] = i
      <4>1. w[k] \in EntryOf(i)
        BY <1>0, <3>3 DEF EntryOf
      <4>2. Pushed(l, w[k]) \in ListOf(i) /\ Pushed(g, w[k]) \in ListOf(i)
        BY <4>1, PushedIsList
      <4>3. P(Pushed(g, w[k]))
        BY <2>2, <3>2, <3>3
      <4> HIDE DEF S
      <4> QED BY <2>3, <3>1, <3>3, <4>2, <4>3
    <3>4. CASE ShardOf[w[k].key] # i
      <4> HIDE DEF S
      <4> QED BY <2>3, <3>1, <3>2, <3>4
    <3> QED BY <3>3, <3>4
  <2> HIDE DEF S
  <2>6. <<Len(w), y, y>> \in S
    <3>1. <<Len(w), Rebuild(c, w)[i], Rebuild(c, w)[i]>> \in S
      BY <2>4, <2>5, BothReplayed
    <3> QED BY <3>1
  <2> HIDE DEF y
  <2>7. P(y)
    BY <1>0, <1>1, <2>3, <2>6
  <2>8. Len(y) = Len(c[i]) /\ \A n \in (d + 1)..Len(c[i]) : y[n] = c[i][n]
    BY <2>7 DEF P, Behind
  <2>9. \A n \in 1..Len(y) : n \in 1..d \/ n \in (d + 1)..Len(c[i])
    BY <1>2, <1>4, <2>8
  <2>10. \A n \in 1..Len(y) : y[n] = c[i][n]
    BY <1>4, <2>8, <2>9
  <2>11. y = c[i]
    BY <1>2, <2>8, <2>10, SeqEqual
  <2> QED BY <2>11 DEF y
<1> QED BY <1>4, <1>5, <1>6

\* Over two snapshots alike, a log builds lists alike.
LEMMA AlikeReplayed ==
  ASSUME NEW w \in Seq(Entries), NEW b \in Lists, NEW c \in Lists, NEW i \in Shards,
         NEW Q, Alike(b[i], c[i], Q)
  PROVE  Alike(Rebuild(b, w)[i], Rebuild(c, w)[i], Q)
<1> DEFINE S == {x \in Nat \X ListOf(i) \X ListOf(i) : Alike(x[2], x[3], Q)}
<1>0. Len(w) \in Nat /\ \A k \in 1..Len(w) : w[k] \in Entries
  OBVIOUS
<1>1. \A k \in Nat : \A l, g \in ListOf(i) : <<k, l, g>> \in S <=> Alike(l, g, Q)
  OBVIOUS
<1>2. <<0, b[i], c[i]>> \in S
  BY <1>1, ListsFacts
<1>3. ASSUME NEW k \in 1..Len(w), NEW l \in ListOf(i), NEW g \in ListOf(i),
             <<k - 1, l, g>> \in S
      PROVE  IF ShardOf[w[k].key] = i THEN <<k, Pushed(l, w[k]), Pushed(g, w[k])>> \in S
                                      ELSE <<k, l, g>> \in S
  <2>1. k \in Nat /\ k - 1 \in Nat
    BY <1>0
  <2>2. Alike(l, g, Q)
    BY <1>1, <1>3, <2>1
  <2>3. CASE ShardOf[w[k].key] = i
    <3>1. w[k] \in EntryOf(i)
      BY <1>0, <2>3 DEF EntryOf
    <3>2. Pushed(l, w[k]) \in ListOf(i) /\ Pushed(g, w[k]) \in ListOf(i)
      BY <3>1, PushedIsList
    <3>3. Alike(Pushed(l, w[k]), Pushed(g, w[k]), Q \ {w[k].key})
      BY <2>2, <3>1, AlikeStep
    <3>4. Alike(Pushed(l, w[k]), Pushed(g, w[k]), Q)
      BY <3>3 DEF Alike
    <3> HIDE DEF S
    <3> QED BY <1>1, <2>1, <2>3, <3>2, <3>4
  <2>4. CASE ShardOf[w[k].key] # i
    <3> HIDE DEF S
    <3> QED BY <1>1, <2>1, <2>2, <2>4
  <2> QED BY <2>3, <2>4
<1> HIDE DEF S
<1>4. <<Len(w), Rebuild(b, w)[i], Rebuild(c, w)[i]>> \in S
  BY <1>2, <1>3, BothReplayed
<1>5. Rebuild(b, w)[i] \in ListOf(i) /\ Rebuild(c, w)[i] \in ListOf(i)
  BY RebuildType, ListsFacts
<1> QED BY <1>0, <1>1, <1>4, <1>5

\* What a log makes of a shard depends on the shard's own list alone.
LEMMA ReplayIsLocal ==
  ASSUME NEW w \in Seq(Entries), NEW b \in Lists, NEW c \in Lists, NEW i \in Shards,
         b[i] = c[i]
  PROVE  Rebuild(b, w)[i] = Rebuild(c, w)[i]
<1>1. Alike(b[i], c[i], {})
  BY DEF Alike
<1>2. Alike(Rebuild(b, w)[i], Rebuild(c, w)[i], {})
  BY <1>1, AlikeReplayed
<1>3. Rebuild(b, w)[i] \in ListOf(i) /\ Rebuild(c, w)[i] \in ListOf(i)
  BY RebuildType, ListsFacts
<1> QED BY <1>2, <1>3, AlikeSame

\* The keys a log leaves in a shard: all there were, or as many as it holds.
LEMMA RebuiltHeld ==
  ASSUME NEW w \in Seq(Entries), NEW b \in Lists, NEW i \in Shards
  PROVE  LET all == Held(b[i]) \cup KeysOf(w, Len(w), i)
         IN  /\ Held(Rebuild(b, w)[i]) \subseteq all
             /\ \/ Len(Rebuild(b, w)[i]) = Capacity
                \/ Held(Rebuild(b, w)[i]) = all
<1> DEFINE All(k) == Held(b[i]) \cup KeysOf(w, k, i)
           P(k, l) == Held(l) \subseteq All(k) /\ (Len(l) = Capacity \/ Held(l) = All(k))
           S == {x \in Nat \X ListOf(i) \X ListOf(i) : P(x[1], x[2])}
<1>0. Len(w) \in Nat /\ \A k \in 1..Len(w) : w[k] \in Entries
  OBVIOUS
<1>1. P(0, b[i]) /\ b[i] \in ListOf(i)
  BY KeysOfNone, ListsFacts
<1>2. ASSUME NEW k \in 1..Len(w), ShardOf[w[k].key] = i, NEW l \in ListOf(i), P(k - 1, l)
      PROVE  P(k, Pushed(l, w[k]))
  <2>1. w[k] \in EntryOf(i)
    BY <1>0, <1>2 DEF EntryOf
  <2>2. All(k) = All(k - 1) \cup {w[k].key}
    BY <1>2, KeysOfStep
  <2>3. Len(l) \in Nat /\ Len(l) <= Capacity /\ Capacity \in Nat
    BY ListFacts
  <2>4. Len(l) = Capacity => Len(Pushed(l, w[k])) = Capacity
    <3>1. PICK p : Pushed(l, w[k]) \in Seq(Entries) /\ Moves(l, Pushed(l, w[k]), w[k], p)
      BY <2>1, PushedMoves
    <3>2. Len(Pushed(l, w[k])) \in 1..Capacity /\ Len(l) <= Len(Pushed(l, w[k]))
      BY <2>1, <3>1, MovedPlaces
    <3> QED BY <2>3, <3>2
  <2> DEFINE e == w[k]
  <2> HIDE DEF e, All
  <2>5. /\ e.key \in Held(l) \/ Len(l) < Capacity => Held(Pushed(l, e)) = Held(l) \cup {e.key}
        /\ e.key \notin Held(l) /\ Len(l) = Capacity =>
             Held(Pushed(l, e)) \subseteq Held(l) \cup {e.key}
    BY <2>1, PushedHeld DEF e
  <2>6. All(k) = All(k - 1) \cup {e.key} /\ (Len(l) = Capacity => Len(Pushed(l, e)) = Capacity)
    BY <2>2, <2>4 DEF e
  <2>7. P(k, Pushed(l, e))
    BY <1>2, <2>3, <2>5, <2>6
  <2> QED BY <2>7 DEF e
<1>3. ASSUME NEW k \in 1..Len(w), ShardOf[w[k].key] # i, NEW l \in ListOf(i), P(k - 1, l)
      PROVE  P(k, l)
  BY <1>3, KeysOfStep
<1> HIDE DEF P
<1>4. \A k \in Nat : \A l, g \in ListOf(i) : <<k, l, g>> \in S <=> P(k, l)
  OBVIOUS
<1>5. <<0, b[i], b[i]>> \in S
  BY <1>1, <1>4
<1>6. ASSUME NEW k \in 1..Len(w), NEW l \in ListOf(i), NEW g \in ListOf(i),
             <<k - 1, l, g>> \in S
      PROVE  IF ShardOf[w[k].key] = i THEN <<k, Pushed(l, w[k]), Pushed(g, w[k])>> \in S
                                      ELSE <<k, l, g>> \in S
  <2>1. k \in Nat /\ k - 1 \in Nat
    BY <1>0
  <2>2. P(k - 1, l)
    BY <1>4, <1>6, <2>1
  <2>3. CASE ShardOf[w[k].key] = i
    <3>1. w[k] \in EntryOf(i)
      BY <1>0, <2>3 DEF EntryOf
    <3>2. Pushed(l, w[k]) \in ListOf(i) /\ Pushed(g, w[k]) \in ListOf(i)
      BY <3>1, PushedIsList
    <3>3. P(k, Pushed(l, w[k]))
      BY <1>2, <2>2, <2>3
    <3> HIDE DEF S
    <3> QED BY <1>4, <2>1, <2>3, <3>2, <3>3
  <2>4. CASE ShardOf[w[k].key] # i
    <3> HIDE DEF S
    <3> QED BY <1>3, <1>4, <2>1, <2>2, <2>4
  <2> QED BY <2>3, <2>4
<1> HIDE DEF S
<1>7. <<Len(w), Rebuild(b, w)[i], Rebuild(b, w)[i]>> \in S
  BY <1>5, <1>6, BothReplayed
<1>8. Rebuild(b, w)[i] \in ListOf(i)
  BY RebuildType, ListsFacts
<1>9. P(Len(w), Rebuild(b, w)[i])
  BY <1>0, <1>4, <1>7, <1>8
<1> QED BY <1>9 DEF P, All

-----------------------------------------------------------------------------
(* What the other operations do to a list. *)

\* A hit is a Put of the entry there is.
LEMMA HitIsPush ==
  ASSUME NEW i \in Shards, NEW l \in ListOf(i), NEW k \in Held(l)
  PROVE  /\ l[At(l, k)] \in EntryOf(i) /\ l[At(l, k)].key = k
         /\ <<l[At(l, k)]>> \o Without(l, k) = Pushed(l, l[At(l, k)])
<1>0. /\ l \in Seq(Entries) /\ Len(l) \in Nat /\ Len(l) <= Capacity
      /\ DOMAIN l = 1..Len(l) /\ Capacity \in Nat
      /\ \A n \in 1..Len(l) : l[n] \in Entries /\ ShardOf[l[n].key] = i
  BY ListFacts
<1> DEFINE p == At(l, k)
<1>1. p \in 1..Len(l) /\ l[p].key = k
  BY <1>0 DEF At, Held
<1> HIDE DEF p
<1>2. l[p] \in EntryOf(i) /\ l[p] \in Entries
  BY <1>0, <1>1 DEF EntryOf
<1>3. Without(l, k) \in Seq(Entries) /\ Len(Without(l, k)) = Len(l) - 1
  BY <1>1, WithoutIs
<1> DEFINE s == <<l[p]>> \o Without(l, k)
<1>4. s \in Seq(Entries) /\ Len(s) = Len(l)
  <2>1. <<l[p]>> \in Seq(Entries) /\ Len(<<l[p]>>) = 1
    BY <1>2
  <2>2. s \in Seq(Entries) /\ Len(s) = 1 + Len(Without(l, k))
    BY <1>3, <2>1, ConcatProperties
  <2> HIDE DEF s
  <2>3. Len(s) = 1 + (Len(l) - 1)
    BY <1>3, <2>2
  <2>4. Len(l) \in Int
    BY <1>0
  <2>5. Len(s) = Len(l)
    BY ONLY <2>3, <2>4
  <2> QED BY <2>2, <2>5
<1> HIDE DEF s
<1>5. Trimmed(s) = s
  <2>1. SubSeq(s, 1, Len(s)) = s
    BY <1>4, SubSeqFull
  <2>2. Len(s) < Capacity \/ Len(s) = Capacity
    <3>1. Len(l) \in Int /\ Capacity \in Int /\ Len(l) <= Capacity /\ Len(s) = Len(l)
      BY <1>0, <1>4
    <3> QED BY ONLY <3>1
  <2>3. (IF Len(s) < Capacity THEN Len(s) ELSE Capacity) = Len(s)
    BY ONLY <2>2
  <2> QED BY ONLY <2>1, <2>3 DEF Trimmed
<1>6. Pushed(l, l[p]) = Trimmed(s)
  BY <1>1 DEF Pushed, s
<1> QED BY <1>1, <1>2, <1>5, <1>6 DEF s, p

\* An expired entry leaves a list without it.
LEMMA WithoutIsList ==
  ASSUME NEW i \in Shards, NEW l \in ListOf(i), NEW k \in Held(l)
  PROVE  Without(l, k) \in ListOf(i) /\ Held(Without(l, k)) = Held(l) \ {k}
<1> DEFINE m == Without(l, k)
<1>0. /\ Len(l) \in Nat /\ Len(l) <= Capacity /\ Capacity \in Nat
      /\ DOMAIN l = 1..Len(l)
      /\ \A n \in 1..Len(l) : ShardOf[l[n].key] = i
      /\ \A a, b \in 1..Len(l) : l[a].key = l[b].key => a = b
      /\ Held(l) = {l[n].key : n \in 1..Len(l)}
  BY ListFacts
<1>1. PICK p \in 1..Len(l) : l[p].key = k
  BY <1>0
<1>2. /\ m \in Seq(Entries) /\ Len(m) = Len(l) - 1
      /\ \A n \in 1..(Len(l) - 1) : m[n] = IF n < p THEN l[n] ELSE l[n + 1]
  BY <1>1, WithoutIs
<1> HIDE DEF m
<1> DEFINE From(n) == IF n < p THEN n ELSE n + 1
<1>3. ASSUME NEW n \in 1..Len(m) PROVE m[n] = l[From(n)] /\ From(n) \in 1..Len(l) \ {p}
  <2>1. n \in 1..(Len(l) - 1)
    BY <1>2
  <2>2. From(n) \in 1..Len(l) \ {p}
    BY <1>0, <2>1
  <2> QED BY <1>2, <2>1, <2>2
<1>4. ASSUME NEW a \in 1..Len(m), NEW b \in 1..Len(m), m[a].key = m[b].key PROVE a = b
  <2>1. From(a) = From(b)
    <3> HIDE DEF From
    <3> QED BY <1>0, <1>3, <1>4
  <2>2. a \in Int /\ b \in Int /\ p \in Int
    BY <1>0, <1>2
  <2> QED BY ONLY <2>1, <2>2
<1>5. \A n \in 1..Len(m) : ShardOf[m[n].key] = i
  <2> HIDE DEF From
  <2> QED BY <1>0, <1>3
<1>6. m \in ListOf(i)
  <2>1. Len(m) <= Capacity
    BY <1>0, <1>2
  <2> QED BY <1>2, <1>4, <1>5, <2>1 DEF ListOf
<1>7. Held(m) = {m[n].key : n \in 1..Len(m)}
  BY <1>6, ListFacts
<1>8. ASSUME NEW n \in 1..Len(m) PROVE m[n].key \in Held(l) \ {k}
  <2> HIDE DEF From
  <2> QED BY <1>0, <1>1, <1>3
<1>9. ASSUME NEW q \in 1..Len(l), l[q].key # k PROVE l[q].key \in Held(m)
  <2> DEFINE n == IF q < p THEN q ELSE q - 1
  <2>1. q # p
    BY <1>1, <1>9
  <2>2. n \in 1..(Len(l) - 1) /\ From(n) = q
    BY <1>0, <2>1
  <2>3. n \in 1..Len(m)
    BY <1>2, <2>2
  <2> HIDE DEF n, From
  <2>4. m[n] = l[q]
    BY <1>3, <2>2, <2>3
  <2> QED BY <1>7, <2>3, <2>4
<1>10. Held(m) = Held(l) \ {k}
  <2>1. Held(m) \subseteq Held(l) \ {k}
    BY <1>7, <1>8
  <2>2. Held(l) \ {k} \subseteq Held(m)
    BY <1>0, <1>9
  <2> QED BY <2>1, <2>2
<1> QED BY <1>6, <1>10 DEF m

\* A sequence or a function, changed at one place.
Changed(s, i, x) == [s EXCEPT ![i] = x]
ChangedIn(s, i, n, x) == [s EXCEPT ![i][n] = x]

\* Rewriting the value of an entry in place.
LEMMA RewrittenInPlace ==
  ASSUME NEW i \in Shards, NEW l \in ListOf(i), NEW n \in DOMAIN l, NEW e \in EntryOf(i),
         e.key = l[n].key
  PROVE  /\ Changed(l, n, e) \in ListOf(i)
         /\ Alike(l, Changed(l, n, e), {e.key})
         /\ Held(Changed(l, n, e)) = Held(l)
<1> DEFINE m == Changed(l, n, e)
<1>0. /\ l \in Seq(Entries) /\ Len(l) \in Nat /\ Len(l) <= Capacity
      /\ DOMAIN l = 1..Len(l)
      /\ \A a \in 1..Len(l) : ShardOf[l[a].key] = i
      /\ \A a, b \in 1..Len(l) : l[a].key = l[b].key => a = b
      /\ Held(l) = {l[a].key : a \in 1..Len(l)}
  BY ListFacts
<1>1. n \in 1..Len(l) /\ e \in Entries
  BY <1>0 DEF EntryOf
<1>2. /\ m \in Seq(Entries) /\ Len(m) = Len(l)
      /\ \A a \in 1..Len(l) : m[a] = IF a = n THEN e ELSE l[a]
  BY <1>0, <1>1, ExceptSeq DEF Changed
<1> HIDE DEF m
<1>3. \A a \in 1..Len(l) : m[a].key = l[a].key
  BY <1>2
<1>4. m \in ListOf(i)
  BY <1>0, <1>2, <1>3 DEF ListOf
<1>5. Alike(l, m, {e.key})
  BY <1>2, <1>3 DEF Alike
<1>6. Held(m) = {m[a].key : a \in 1..Len(l)}
  BY <1>2, <1>4, ListFacts
<1>7. Held(m) = Held(l)
  <2>1. \A a \in 1..Len(l) : m[a].key \in Held(l)
    BY <1>0, <1>3
  <2>2. \A a \in 1..Len(l) : l[a].key \in Held(m)
    BY <1>3, <1>6
  <2>3. Held(m) \subseteq Held(l)
    BY <1>6, <2>1
  <2>4. Held(l) \subseteq Held(m)
    BY <1>0, <2>2
  <2> QED BY <2>3, <2>4
<1> QED BY <1>4, <1>5, <1>7 DEF m

\* A key is held by its own shard or by none.
LEMMA HeldByShard ==
  ASSUME NEW s \in Lists
  PROVE  /\ HeldIn(s) \subseteq Keys
         /\ \A k \in Keys : k \in HeldIn(s) <=> k \in Held(s[ShardOf[k]])
         /\ \A i \in Shards : Held(s[i]) = {k \in HeldIn(s) : ShardOf[k] = i}
<1>1. ASSUME NEW i \in Shards, NEW k \in Held(s[i]) PROVE k \in Keys /\ ShardOf[k] = i
  <2>1. s[i] \in ListOf(i)
    BY ListsFacts
  <2>2. \E n \in 1..Len(s[i]) : k = s[i][n].key
    BY <2>1, ListFacts
  <2> QED BY <2>1, <2>2, ListFacts
<1>2. \A k \in HeldIn(s) : \E i \in Shards : k \in Held(s[i])
  BY DEF HeldIn
<1>3. \A i \in Shards : \A k \in Held(s[i]) : k \in HeldIn(s)
  BY DEF HeldIn
<1>4. \A k \in Keys : ShardOf[k] \in Shards
  OBVIOUS
<1>5. HeldIn(s) \subseteq Keys
  BY <1>1, <1>2
<1>6. ASSUME NEW k \in HeldIn(s) PROVE k \in Held(s[ShardOf[k]])
  BY <1>1, <1>2
<1>7. ASSUME NEW k \in Keys, k \in Held(s[ShardOf[k]]) PROVE k \in HeldIn(s)
  BY <1>3, <1>4, <1>7
<1>8. ASSUME NEW i \in Shards PROVE Held(s[i]) = {k \in HeldIn(s) : ShardOf[k] = i}
  BY <1>1, <1>3, <1>6
<1> QED BY <1>5, <1>6, <1>7, <1>8

LEMMA NoEntriesFacts ==
  NoEntries \in Lists /\ HeldIn(NoEntries) = {} /\ \A i \in Shards : NoEntries[i] = <<>>
<1>1. \A i \in Shards : NoEntries[i] = <<>>
  BY DEF NoEntries
<1>2. \A i : <<>> \in ListOf(i)
  <2>1. <<>> \in Seq(Entries) /\ Len(<<>>) = 0 /\ 0 <= Capacity
    OBVIOUS
  <2>2. \A n : n \notin 1..0
    OBVIOUS
  <2> QED BY <2>1, <2>2 DEF ListOf
<1>3. Held(<<>>) = {}
  BY DEF Held
<1>4. NoEntries \in [Shards -> Seq(Entries)]
  BY DEF NoEntries
<1> QED BY <1>1, <1>2, <1>3, <1>4 DEF Lists, HeldIn

\* Replacing the list of one shard.
LEMMA OneList ==
  ASSUME NEW s \in Lists, NEW i \in Shards, NEW l \in ListOf(i)
  PROVE  LET r == Changed(s, i, l)
         IN  /\ r \in Lists /\ r[i] = l /\ \A j \in Shards \ {i} : r[j] = s[j]
             /\ HeldIn(r) \subseteq Keys
             /\ \A k \in Keys : k \in HeldIn(r) <=> IF ShardOf[k] = i THEN k \in Held(l)
                                                                      ELSE k \in HeldIn(s)
<1> DEFINE r == Changed(s, i, l)
<1>1. s \in [Shards -> Seq(Entries)] /\ \A j \in Shards : s[j] \in ListOf(j)
  BY ListsFacts
<1>2. l \in Seq(Entries)
  BY ListFacts
<1>3. r \in [Shards -> Seq(Entries)] /\ r[i] = l /\ \A j \in Shards \ {i} : r[j] = s[j]
  BY <1>1, <1>2 DEF Changed
<1> HIDE DEF r
<1>4. r \in Lists
  BY <1>1, <1>3 DEF Lists
<1>5. /\ \A k \in Keys : k \in HeldIn(s) <=> k \in Held(s[ShardOf[k]])
      /\ \A k \in Keys : k \in HeldIn(r) <=> k \in Held(r[ShardOf[k]])
      /\ HeldIn(r) \subseteq Keys
  BY <1>4, HeldByShard
<1>6. \A k \in Keys : ShardOf[k] \in Shards
  OBVIOUS
<1> QED BY <1>3, <1>4, <1>5, <1>6 DEF r

\* A list of the same keys.
LEMMA SameHeld ==
  ASSUME NEW s \in Lists, NEW i \in Shards, NEW l \in ListOf(i), Held(l) = Held(s[i])
  PROVE  HeldIn(Changed(s, i, l)) = HeldIn(s)
<1> DEFINE r == Changed(s, i, l)
<1>1. /\ HeldIn(r) \subseteq Keys
      /\ \A k \in Keys : k \in HeldIn(r) <=> IF ShardOf[k] = i THEN k \in Held(l)
                                                               ELSE k \in HeldIn(s)
  BY OneList
<1>2. HeldIn(s) \subseteq Keys /\ \A k \in Keys : k \in HeldIn(s) <=> k \in Held(s[ShardOf[k]])
  BY HeldByShard
<1> HIDE DEF r
<1>3. HeldIn(r) = HeldIn(s)
  BY <1>1, <1>2
<1> QED BY <1>3 DEF r

-----------------------------------------------------------------------------
(* The inductive invariant. *)

LogEntry == [key : Keys, val : Values]

Types ==
  /\ shards \in Lists /\ snapshot \in Lists /\ shot \in Lists
  /\ published \in BOOLEAN
  /\ wal \in Seq(LogEntry)
  /\ phase \in {"off", "run", "final"}
  /\ pending \in [Workers -> {<<>>} \cup {<<e>> : e \in LogEntry}]
  /\ saver \in {Flusher, Main}
  /\ spc \in {"idle", "collect", "marshal", "write", "rename", "truncate", "saved"}
  /\ left \subseteq Shards
  /\ linked \subseteq HeldIn(shot) \cap HeldIn(shards)
  /\ drift \in [Shards -> {"none", "drifted", "collected"}]

\* What phase and Save say of each other and of what they work on.
Steps ==
  /\ phase = "off" => /\ \A w \in Workers : pending[w] = <<>>
                      /\ shards = NoEntries /\ exposed = {} /\ spc = "idle"
                      /\ \A i \in Shards : drift[i] = "none"
  /\ phase = "final" => \A w \in Workers : pending[w] = <<>>
  /\ spc # "idle" => phase # "off" /\ (saver = Main => phase = "final")
  /\ spc = "idle" => shot = NoEntries
  /\ spc # "collect" => left = {}
  /\ \A i \in left : shot[i] = <<>>
  /\ spc \notin {"collect", "marshal"} => linked = {}
  /\ ~published => snapshot = NoEntries
  /\ spc \in {"truncate", "saved"} => published /\ snapshot = shot

\* Run's own Save collects the shards as they are and then empties the log.
FinalSave ==
  spc # "idle" /\ saver = Main =>
    /\ \A i \in Shards \ left : shot[i] = shards[i]
    /\ spc = "saved" => wal = <<>>

LEMMA LogEntryIs ==
  /\ LogEntry \subseteq Entries
  /\ \A k \in Keys : \A v \in Values : Entry(k, v) \in LogEntry
  /\ \A k, v : Entry(k, v).key = k /\ Entry(k, v).val = v
BY DEF LogEntry, Entries, Entry

LEMMA LogIsEntries ==
  ASSUME NEW w \in Seq(LogEntry)
  PROVE  w \in Seq(Entries)
BY LogEntryIs, SeqMonotonic

\* The shard of a line that is yet to be written.
LEMMA PendingIs ==
  ASSUME Types, NEW w \in Workers, pending[w] # <<>>
  PROVE  /\ pending[w] = <<pending[w][1]>> /\ pending[w][1] \in LogEntry
         /\ pending[w][1] \in Entries /\ pending[w][1].key \in Keys
         /\ ShardOf[pending[w][1].key] \in Shards
         /\ pending[w][1] \in EntryOf(ShardOf[pending[w][1].key])
         /\ Held(pending[w]) = {pending[w][1].key}
<1>1. PICK e \in LogEntry : pending[w] = <<e>>
  BY DEF Types
<1>2. pending[w][1] = e
  BY <1>1
<1>3. Held(<<e>>) = {e.key}
  BY DEF Held
<1> QED BY <1>1, <1>2, <1>3, LogEntryIs, ListsFacts

\* What Put may do to what a Save has collected: values of a key of shard i change.
Revalued(r, i, k) ==
  /\ r \in Lists /\ HeldIn(r) = HeldIn(shot)
  /\ Alike(shot[i], r[i], {k}) /\ Held(r[i]) = Held(shot[i])
  /\ \A j \in Shards \ {i} : r[j] = shot[j]

LEMMA ShotRewritten ==
  ASSUME Types, NEW k \in Keys, NEW v \in Values, NEW i, i = ShardOf[k],
         NEW n \in DOMAIN shot[i], shot[i][n].key = k, NEW e \in Rewritten(shot[i][n], v)
  PROVE  Revalued(ChangedIn(shot, i, n, e), i, k)
<1> DEFINE old == shot[i][n]
           l == [shot[i] EXCEPT ![n] = e]
           r == ChangedIn(shot, i, n, e)
<1>1. i \in Shards /\ shot \in Lists /\ shot[i] \in ListOf(i)
  BY ListsFacts DEF Types
<1>2. n \in 1..Len(shot[i]) /\ old \in Entries /\ old.key = k
  BY <1>1, ListFacts
<1>3. e \in EntryOf(i) /\ e.key = k
  <2>1. old.val \in Values \cup {Garbage}
    BY <1>2 DEF Entries
  <2>2. PICK x \in Values \cup {Garbage} : e = Entry(k, x)
    BY <1>2, <2>1 DEF Rewritten
  <2>3. e \in Entries
    BY <2>2 DEF Entries, Entry
  <2> QED BY <2>2, <2>3, LogEntryIs DEF EntryOf
<1>4. l \in ListOf(i) /\ Alike(shot[i], l, {k}) /\ Held(l) = Held(shot[i])
  <2> DEFINE s == shot[i]
  <2>1. s \in ListOf(i) /\ n \in DOMAIN s /\ e.key = s[n].key /\ e \in EntryOf(i) /\ i \in Shards
    BY <1>1, <1>2, <1>3
  <2>2. l = Changed(s, n, e)
    BY DEF Changed
  <2> HIDE DEF s, l
  <2>3. l \in ListOf(i) /\ Alike(s, l, {e.key}) /\ Held(l) = Held(s)
    BY <2>1, <2>2, RewrittenInPlace
  <2> QED BY <1>3, <2>3 DEF s
<1>5. r = Changed(shot, i, l)
  BY <1>1 DEF Changed, ChangedIn
<1> HIDE DEF l, r
<1>6. r \in Lists /\ r[i] = l /\ \A j \in Shards \ {i} : r[j] = shot[j]
  <2> DEFINE q == Changed(shot, i, l)
  <2>1. q \in Lists /\ q[i] = l /\ \A j \in Shards \ {i} : q[j] = shot[j]
    BY <1>1, <1>4, OneList
  <2> HIDE DEF q
  <2>2. r = q
    BY <1>5 DEF q
  <2> QED BY <2>1, <2>2
<1>7. HeldIn(r) = HeldIn(shot)
  BY <1>1, <1>4, <1>5, SameHeld
<1> QED BY <1>4, <1>6, <1>7 DEF r, Revalued

\* A Get that hits moves one entry to the front.
LEMMA GetMoves ==
  ASSUME Types, NEW k \in Keys, Get(k)
  PROVE  shards' \in Lists /\ HeldIn(shards') = HeldIn(shards)
<1> DEFINE i == ShardOf[k]
           e == shards[i][At(shards[i], k)]
<1>1. i \in Shards /\ shards \in Lists /\ shards[i] \in ListOf(i) /\ k \in Held(shards[i])
  BY ListsFacts DEF Types, Get
<1>2. e \in EntryOf(i) /\ e.key = k /\ shards' = [shards EXCEPT ![i] = Pushed(shards[i], e)]
  <2>1. e \in EntryOf(i) /\ e.key = k /\ <<e>> \o Without(shards[i], k) = Pushed(shards[i], e)
    <3> HIDE DEF i
    <3> QED BY <1>1, HitIsPush
  <2>2. shards' = [shards EXCEPT ![i] = <<e>> \o Without(shards[i], k)]
    BY DEF Get
  <2> QED BY <2>1, <2>2
<1> HIDE DEF e, i
<1> DEFINE l == Pushed(shards[i], e)
<1>3. l \in ListOf(i) /\ Held(l) = Held(shards[i])
  <2>1. l \in ListOf(i)
    BY <1>1, <1>2, PushedIsList
  <2>2. Held(l) = Held(shards[i]) \cup {e.key}
    BY <1>1, <1>2, PushedHeld
  <2> QED BY <1>1, <1>2, <2>1, <2>2
<1> HIDE DEF l
<1>4. shards' = Changed(shards, i, l)
  BY <1>2 DEF l, Changed
<1> QED BY <1>1, <1>3, <1>4, OneList, SameHeld

\* An expiry takes one key away.
LEMMA ExpireTakes ==
  ASSUME Types, NEW k \in Keys, Expire(k)
  PROVE  shards' \in Lists /\ HeldIn(shards') = HeldIn(shards) \ {k} /\ k \in HeldIn(shards)
<1> DEFINE i == ShardOf[k]
           l == Without(shards[i], k)
<1>1. i \in Shards /\ shards \in Lists /\ shards[i] \in ListOf(i) /\ k \in Held(shards[i])
  BY ListsFacts DEF Types, Expire
<1>2. l \in ListOf(i) /\ Held(l) = Held(shards[i]) \ {k} /\ shards' = Changed(shards, i, l)
  BY <1>1, WithoutIsList DEF Expire, Changed
<1>0. i = ShardOf[k]
  OBVIOUS
<1> HIDE DEF l, i
<1>3. /\ shards' \in Lists /\ HeldIn(shards') \subseteq Keys
      /\ \A x \in Keys : x \in HeldIn(shards') <=> IF ShardOf[x] = i THEN x \in Held(l)
                                                      ELSE x \in HeldIn(shards)
  BY <1>1, <1>2, OneList
<1>4. /\ HeldIn(shards) \subseteq Keys
      /\ \A x \in Keys : x \in HeldIn(shards) <=> x \in Held(shards[ShardOf[x]])
  BY <1>1, HeldByShard
<1>5. HeldIn(shards') = HeldIn(shards) \ {k} /\ k \in HeldIn(shards)
  BY <1>0, <1>1, <1>2, <1>3, <1>4
<1> QED BY <1>3, <1>5

\* Put: its shard gets the entry in front; what a Save has collected keeps its keys.
LEMMA PutMoves ==
  ASSUME Types, NEW w \in Workers, NEW k \in Keys, NEW v \in Answers[k], Put(w, k, v)
  PROVE  LET i == ShardOf[k]
             e == Entry(k, v)
         IN  /\ i \in Shards /\ e \in LogEntry /\ e \in EntryOf(i) /\ e.key = k
             /\ shards' \in Lists /\ shards'[i] = Pushed(shards[i], e)
             /\ \A j \in Shards \ {i} : shards'[j] = shards[j]
             /\ shards' = Changed(shards, i, Pushed(shards[i], e))
             /\ Revalued(shot', i, k)
<1> DEFINE i == ShardOf[k]
           e == Entry(k, v)
           l == Pushed(shards[i], e)
<1>1. /\ i \in Shards /\ shards \in Lists /\ shards[i] \in ListOf(i)
      /\ shot \in Lists /\ v \in Values
  BY ListsFacts DEF Types
<1>2. e \in LogEntry /\ e \in Entries /\ e.key = k
  BY <1>1, LogEntryIs
<1>3. e \in EntryOf(i)
  BY <1>2 DEF EntryOf
<1>4. shards' = Changed(shards, i, l)
  BY DEF Put, Changed
<1>5. /\ \/ /\ k \in linked
            /\ \E n \in DOMAIN shot[i] :
                 /\ shot[i][n].key = k
                 /\ \E x \in Rewritten(shot[i][n], v) : shot' = [shot EXCEPT ![i][n] = x]
         \/ shot' = shot
  BY DEF Put
<1>6. l \in ListOf(i)
  <2> HIDE DEF e, i
  <2> QED BY <1>1, <1>3, PushedIsList
<1> DEFINE r == Changed(shards, i, l)
<1>7. r \in Lists /\ r[i] = l /\ \A j \in Shards \ {i} : r[j] = shards[j]
  <2> HIDE DEF l, i
  <2> QED BY <1>1, <1>6, OneList
<1>8. shards' \in Lists /\ shards'[i] = l /\ \A j \in Shards \ {i} : shards'[j] = shards[j]
  <2> HIDE DEF r
  <2>1. shards' = r
    BY <1>4 DEF r
  <2> QED BY <1>7, <2>1
<1>9. Revalued(shot', i, k)
  <2>1. CASE shot' = shot
    BY <1>1, <2>1 DEF Alike, Revalued
  <2>2. CASE \E n \in DOMAIN shot[i] :
               /\ shot[i][n].key = k
               /\ \E x \in Rewritten(shot[i][n], v) : shot' = [shot EXCEPT ![i][n] = x]
    <3>0. PICK n \in DOMAIN shot[i] :
                 /\ shot[i][n].key = k
                 /\ \E x \in Rewritten(shot[i][n], v) : shot' = [shot EXCEPT ![i][n] = x]
      BY <2>2
    <3>1. PICK x \in Rewritten(shot[i][n], v) : shot' = [shot EXCEPT ![i][n] = x]
      BY <3>0
    <3> DEFINE q == ChangedIn(shot, i, n, x)
    <3>2. Revalued(q, i, k)
      <4>1. i = ShardOf[k]
        OBVIOUS
      <4>2. v \in Values /\ Types /\ k \in Keys /\ n \in DOMAIN shot[i] /\ shot[i][n].key = k
        BY <1>1, <3>0
      <4>3. x \in Rewritten(shot[i][n], v)
        BY <3>1
      <4> HIDE DEF i
      <4> QED BY ONLY <4>1, <4>2, <4>3, ShotRewritten
    <3>3. shot' = q
      BY <3>1 DEF ChangedIn
    <3> HIDE DEF q
    <3> QED BY <3>2, <3>3
  <2> QED BY <1>5, <2>1, <2>2
<1> QED BY <1>1, <1>2, <1>3, <1>4, <1>8, <1>9

LEMMA InitTypes == Init => Types /\ Steps /\ FinalSave
<1> SUFFICES ASSUME Init PROVE Types /\ Steps /\ FinalSave
  OBVIOUS
<1>1. shards = NoEntries /\ snapshot = NoEntries /\ shot = NoEntries
  BY DEF Init
<1>2. shards \in Lists /\ snapshot \in Lists /\ shot \in Lists
  BY <1>1, NoEntriesFacts
<1>3. Types
  <2>1. pending \in [Workers -> {<<>>} \cup {<<e>> : e \in LogEntry}]
    BY DEF Init
  <2>2. drift \in [Shards -> {"none", "drifted", "collected"}]
    BY DEF Init
  <2>3. /\ published \in BOOLEAN /\ wal \in Seq(LogEntry) /\ phase \in {"off", "run", "final"}
        /\ saver \in {Flusher, Main} /\ left \subseteq Shards /\ linked = {}
        /\ spc \in {"idle", "collect", "marshal", "write", "rename", "truncate", "saved"}
    <3>1. <<>> \in Seq(LogEntry)
      OBVIOUS
    <3> QED BY <3>1, Zenon DEF Init
  <2> QED BY <1>2, <2>1, <2>2, <2>3 DEF Types
<1>4. Steps
  BY <1>1 DEF Steps, Init
<1> QED BY <1>3, <1>4 DEF FinalSave, Init

\* Collecting a shard.
LEMMA CollectAdds ==
  ASSUME Types, Steps, NEW i \in Shards, CollectShard(i)
  PROVE  /\ shot' \in Lists /\ shot'[i] = shards[i]
         /\ \A j \in Shards \ {i} : shot'[j] = shot[j]
         /\ HeldIn(shot') = HeldIn(shot) \cup Held(shards[i])
<1>1. shot \in Lists /\ shards[i] \in ListOf(i) /\ shot' = Changed(shot, i, shards[i])
  BY ListsFacts DEF Types, CollectShard, Changed
<1> DEFINE l == shards[i]
           r == Changed(shot, i, l)
<1>2. /\ r \in Lists /\ r[i] = l /\ \A j \in Shards \ {i} : r[j] = shot[j]
      /\ HeldIn(r) \subseteq Keys
      /\ \A k \in Keys : k \in HeldIn(r) <=> IF ShardOf[k] = i THEN k \in Held(l)
                                                               ELSE k \in HeldIn(shot)
  <2> HIDE DEF l
  <2> QED BY <1>1, OneList DEF l
<1>3. shot[i] = <<>>
  BY DEF Steps, CollectShard
<1>4. Held(shot[i]) = {}
  BY <1>3 DEF Held
<1>5. /\ HeldIn(shot) \subseteq Keys
      /\ \A k \in Keys : k \in HeldIn(shot) <=> k \in Held(shot[ShardOf[k]])
  BY <1>1, HeldByShard
<1>6. \A k \in Held(l) : k \in Keys /\ ShardOf[k] = i
  <2>1. shards \in Lists
    BY DEF Types
  <2> QED BY <2>1, HeldByShard
<1> HIDE DEF l, r
<1>7. HeldIn(r) = HeldIn(shot) \cup Held(l)
  BY <1>2, <1>4, <1>5, <1>6
<1> QED BY <1>1, <1>2, <1>7 DEF l, r

\* The types are kept.
LEMMA TypesKept ==
  ASSUME Types, Steps, [Next]_vars
  PROVE  Types'
<1>0. /\ shards \in Lists /\ snapshot \in Lists /\ shot \in Lists
      /\ wal \in Seq(LogEntry) /\ linked \subseteq HeldIn(shot) \cap HeldIn(shards)
      /\ pending \in [Workers -> {<<>>} \cup {<<e>> : e \in LogEntry}]
      /\ drift \in [Shards -> {"none", "drifted", "collected"}]
      /\ published \in BOOLEAN /\ left \subseteq Shards
      /\ phase \in {"off", "run", "final"} /\ saver \in {Flusher, Main}
      /\ spc \in {"idle", "collect", "marshal", "write", "rename", "truncate", "saved"}
  BY DEF Types
<1>1. \A i \in Shards : Drifted(i) => drift' \in [Shards -> {"none", "drifted", "collected"}]
  BY <1>0 DEF Drifted
<1>2. CASE Load
  <2>1. shards' \in Lists
    BY <1>0, <1>2, LogIsEntries, RebuildType DEF Load, Rebuilt
  <2>2. linked = {}
    BY <1>0, <1>2, NoEntriesFacts DEF Load, Steps
  <2> QED BY <1>0, <1>2, <2>1, <2>2 DEF Load, files, saving, Types
<1>3. ASSUME NEW k \in Keys, Get(k) PROVE Types'
  <2>1. shards' \in Lists /\ HeldIn(shards') = HeldIn(shards) /\ ShardOf[k] \in Shards
    BY <1>3, GetMoves
  <2>2. /\ drift' \in [Shards -> {"none", "drifted", "collected"}]
        /\ UNCHANGED <<files, phase, pending, saving, exposed>>
    BY <1>1, <1>3, <2>1 DEF Get
  <2> QED BY <1>0, <2>1, <2>2 DEF files, saving, Types
<1>4. ASSUME NEW k \in Keys, Expire(k) PROVE Types'
  <2>1. shards' \in Lists /\ HeldIn(shards') = HeldIn(shards) \ {k} /\ ShardOf[k] \in Shards
    BY <1>4, ExpireTakes
  <2>2. /\ drift' \in [Shards -> {"none", "drifted", "collected"}]
        /\ linked' = linked \ {k}
        /\ UNCHANGED <<files, phase, pending, saver, spc, left, shot, exposed>>
    BY <1>1, <1>4, <2>1 DEF Expire
  <2>3. linked' \subseteq HeldIn(shot') \cap HeldIn(shards')
    BY <1>0, <2>1, <2>2
  <2> QED BY <1>0, <2>1, <2>2, <2>3 DEF files, Types
<1>5. ASSUME NEW k \in Keys, NEW w \in Workers, NEW v \in Answers[k], Put(w, k, v)
      PROVE  Types'
  <2>1. /\ shards' \in Lists /\ shot' \in Lists /\ HeldIn(shot') = HeldIn(shot)
        /\ Entry(k, v) \in LogEntry /\ ShardOf[k] \in Shards
    BY <1>5, PutMoves DEF Revalued
  <2>2. /\ pending' = [pending EXCEPT ![w] = <<Entry(k, v)>>]
        /\ linked' = linked \cap HeldIn(shards')
        /\ UNCHANGED <<files, phase, saver, spc, left, exposed>>
    BY <1>5 DEF Put
  <2>3. drift' \in [Shards -> {"none", "drifted", "collected"}]
    BY <1>0, <1>1, <1>5, <2>1 DEF Put
  <2>4. linked' \subseteq HeldIn(shot') \cap HeldIn(shards')
    BY <1>0, <2>1, <2>2
  <2>5. pending' \in [Workers -> {<<>>} \cup {<<e>> : e \in LogEntry}]
    BY <1>0, <2>1, <2>2
  <2> QED BY <1>0, <2>1, <2>2, <2>3, <2>4, <2>5 DEF files, Types
<1>6. ASSUME NEW w \in Workers, AppendLine(w) PROVE Types'
  <2>1. /\ pending[w] = <<pending[w][1]>> /\ pending[w][1] \in LogEntry
        /\ ShardOf[pending[w][1].key] \in Shards
    BY <1>6, PendingIs DEF AppendLine
  <2>2. wal' \in Seq(LogEntry)
    <3>1. PICK e \in LogEntry : pending[w] = <<e>>
      BY ONLY <2>1
    <3>3. <<e>> \in Seq(LogEntry)
      BY ONLY <3>1
    <3>2. wal' = wal \o pending[w]
      BY <1>6 DEF AppendLine
    <3> QED BY <1>0, <3>1, <3>2, <3>3, ConcatProperties DEF Types
  <2>3. drift' \in [Shards -> {"none", "drifted", "collected"}]
    BY <1>0, <1>1, <1>6, <2>1 DEF AppendLine
  <2>4. /\ pending' = [pending EXCEPT ![w] = <<>>]
        /\ UNCHANGED <<shards, published, snapshot, phase, saving>>
    BY <1>6 DEF AppendLine
  <2>5. pending' \in [Workers -> {<<>>} \cup {<<e>> : e \in LogEntry}]
    BY <1>0, <2>4
  <2> QED BY <1>0, <2>2, <2>3, <2>4, <2>5 DEF saving, Types
<1>7. CASE WorkersDone
  BY <1>0, <1>7 DEF WorkersDone, files, saving, Types
<1>8. ASSUME NEW s \in {Flusher, Main}, StartSave(s) PROVE Types'
  BY <1>0, <1>8, NoEntriesFacts DEF StartSave, files, Types
<1>9. ASSUME NEW i \in Shards, CollectShard(i) PROVE Types'
  <2>1. shot' \in Lists /\ HeldIn(shot') = HeldIn(shot) \cup Held(shards[i])
    BY <1>9, CollectAdds
  <2>2. Held(shards[i]) \subseteq HeldIn(shards)
    BY DEF HeldIn
  <2>3. /\ left' = left \ {i} /\ linked' = linked \cup Held(shards[i])
        /\ spc' \in {"marshal", "collect"}
        /\ UNCHANGED <<shards, files, phase, pending, saver, exposed>>
    BY <1>9 DEF CollectShard
  <2>4. drift' \in [Shards -> {"none", "drifted", "collected"}]
    BY <1>0, <1>9 DEF CollectShard
  <2>5. linked' \subseteq HeldIn(shot') \cap HeldIn(shards')
    BY <1>0, <2>1, <2>2, <2>3
  <2> QED BY <1>0, <2>1, <2>3, <2>4, <2>5 DEF files, Types
<1>10. CASE OpenTmp
  BY <1>0, <1>10 DEF OpenTmp, Types
<1>11. CASE WriteTmp
  BY <1>0, <1>11 DEF WriteTmp, Types
<1>12. CASE Rename
  BY <1>0, <1>12 DEF Rename, Types
<1>13. CASE Truncate
  <2>1. drift' \in [Shards -> {"none", "drifted", "collected"}]
    BY <1>0, <1>13 DEF Truncate
  <2>2. wal' \in Seq(LogEntry)
    BY <1>13 DEF Truncate
  <2> QED BY <1>0, <1>13, <2>1, <2>2 DEF Truncate, Types
<1>14. CASE SaveReturns
  <2>1. linked = {}
    BY <1>14 DEF SaveReturns, Steps
  <2> QED BY <1>0, <1>14, <2>1, NoEntriesFacts DEF SaveReturns, files, Types
<1>15. CASE Stop
  <2>1. /\ pending' \in [Workers -> {<<>>} \cup {<<e>> : e \in LogEntry}]
        /\ drift' \in [Shards -> {"none", "drifted", "collected"}]
    BY <1>15 DEF Stop
  <2> QED BY <1>0, <1>15, <2>1, NoEntriesFacts DEF Stop, files, Types
<1>16. CASE UNCHANGED vars
  BY <1>0, <1>16 DEF vars, Types
<1> QED
  BY <1>2, <1>3, <1>4, <1>5, <1>6, <1>7, <1>8, <1>9, <1>10, <1>11, <1>12, <1>13, <1>14,
     <1>15, <1>16 DEF Next, Save

\* What Put leaves of what a Save has collected.
LEMMA PutShot ==
  ASSUME Types, Steps, NEW w \in Workers, NEW k \in Keys, NEW v \in Answers[k], Put(w, k, v)
  PROVE  /\ spc \notin {"collect", "marshal"} => shot' = shot
         /\ \A i \in left : shot'[i] = <<>>
<1>1. \/ /\ k \in linked
         /\ \E n \in DOMAIN shot[ShardOf[k]] :
              \E x : shot' = [shot EXCEPT ![ShardOf[k]][n] = x]
      \/ shot' = shot
  BY DEF Put
<1>2. \A i \in left : shot[i] = <<>>
  BY DEF Steps
<1>3. spc \notin {"collect", "marshal"} => shot' = shot
  BY <1>1 DEF Steps
<1>4. ASSUME NEW i \in left PROVE shot'[i] = <<>>
  <2>1. CASE shot' = shot
    BY <1>2, <2>1
  <2>2. ASSUME NEW n \in DOMAIN shot[ShardOf[k]], NEW x,
               shot' = [shot EXCEPT ![ShardOf[k]][n] = x]
        PROVE  shot'[i] = <<>>
    <3>1. i # ShardOf[k]
      BY <1>2, <2>2
    <3>2. shot'[i] = shot[i]
      BY <2>2, <3>1
    <3> QED BY <1>2, <3>2
  <2> QED BY <1>1, <2>1, <2>2
<1> QED BY <1>3, <1>4

LEMMA StepsKept ==
  ASSUME Types, Steps, [Next]_vars
  PROVE  Steps'
<1>1. Flusher # Main
  OBVIOUS
<1>2. CASE Load
  <2>1. spc = "idle"
    BY <1>2 DEF Load, Steps
  <2> QED BY <1>2, <2>1 DEF Load, files, saving, Steps
<1>3. ASSUME NEW k \in Keys, Get(k) PROVE Steps'
  BY <1>3 DEF Get, files, saving, Steps
<1>4. ASSUME NEW k \in Keys, Expire(k) PROVE Steps'
  BY <1>4 DEF Expire, files, Steps
<1>5. ASSUME NEW k \in Keys, NEW w \in Workers, NEW v \in Answers[k], Put(w, k, v)
      PROVE  Steps'
  <2>1. /\ spc \notin {"collect", "marshal"} => shot' = shot
        /\ \A i \in left : shot'[i] = <<>>
    BY <1>5, PutShot
  <2>2. /\ phase = "run" /\ linked' = linked \cap HeldIn(shards')
        /\ UNCHANGED <<files, phase, saver, spc, left, exposed>>
    BY <1>5 DEF Put
  <2> QED BY <2>1, <2>2 DEF files, Steps
<1>6. ASSUME NEW w \in Workers, AppendLine(w) PROVE Steps'
  <2>1. /\ phase = "run" /\ pending' = [pending EXCEPT ![w] = <<>>]
        /\ UNCHANGED <<shards, published, snapshot, phase, saving>>
    BY <1>6 DEF AppendLine, Steps, Types
  <2> QED BY <2>1 DEF saving, Steps
<1>7. CASE WorkersDone
  BY <1>7 DEF WorkersDone, files, saving, Steps
<1>8. ASSUME NEW s \in {Flusher, Main}, StartSave(s) PROVE Steps'
  <2>1. \A i \in Shards : NoEntries[i] = <<>>
    BY NoEntriesFacts
  <2>2. phase \in {"run", "final"}
    BY <1>8 DEF StartSave, Types
  <2> QED BY <1>1, <1>8, <2>1, <2>2 DEF StartSave, files, Steps
<1>9. ASSUME NEW i \in Shards, CollectShard(i) PROVE Steps'
  <2>1. \A j \in Shards \ {i} : shot'[j] = shot[j]
    BY <1>9, CollectAdds
  <2>2. left \subseteq Shards
    BY DEF Types
  <2> QED BY <1>9, <2>1, <2>2 DEF CollectShard, files, Steps
<1>10. CASE OpenTmp
  BY <1>10 DEF OpenTmp, Steps
<1>11. CASE WriteTmp
  BY <1>11 DEF WriteTmp, Steps
<1>12. CASE Rename
  BY <1>12 DEF Rename, Steps
<1>13. CASE Truncate
  <2>1. phase # "off"
    BY <1>1, <1>13 DEF Truncate, Steps
  <2> QED BY <1>13, <2>1 DEF Truncate, Steps
<1>14. CASE SaveReturns
  <2>1. \A i \in Shards : NoEntries[i] = <<>>
    BY NoEntriesFacts
  <2> QED BY <1>14, <2>1 DEF SaveReturns, files, Steps
<1>15. CASE Stop
  BY <1>15 DEF Stop, files, Steps
<1>16. CASE UNCHANGED vars
  BY <1>16 DEF vars, Steps
<1> QED
  BY <1>2, <1>3, <1>4, <1>5, <1>6, <1>7, <1>8, <1>9, <1>10, <1>11, <1>12, <1>13, <1>14,
     <1>15, <1>16 DEF Next, Save

LEMMA FinalSaveKept ==
  ASSUME Types, Steps, FinalSave, [Next]_vars
  PROVE  FinalSave'
<1>1. Flusher # Main
  OBVIOUS
<1>2. CASE phase' # "final"
  <2>1. spc' # "idle" /\ saver' = Main => phase' = "final"
    BY StepsKept DEF Steps
  <2> QED BY <1>2, <2>1 DEF FinalSave
<1>3. CASE phase = "final" /\ phase' = "final"
  <2>1. ASSUME NEW s \in {Flusher, Main}, StartSave(s) PROVE FinalSave'
    BY <2>1 DEF StartSave, FinalSave
  <2>2. ASSUME NEW i \in Shards, CollectShard(i) PROVE FinalSave'
    <3>1. /\ shot'[i] = shards[i] /\ \A j \in Shards \ {i} : shot'[j] = shot[j]
      BY <2>2, CollectAdds
    <3> QED BY <2>2, <3>1 DEF CollectShard, FinalSave
  <2>3. CASE OpenTmp
    BY <2>3 DEF OpenTmp, FinalSave
  <2>4. CASE WriteTmp
    BY <2>4 DEF WriteTmp, FinalSave
  <2>5. CASE Rename
    BY <2>5 DEF Rename, FinalSave
  <2>6. CASE Truncate
    BY <2>6 DEF Truncate, FinalSave
  <2>7. CASE SaveReturns
    BY <2>7 DEF SaveReturns, FinalSave
  <2>8. CASE UNCHANGED vars
    BY <2>8 DEF vars, FinalSave
  <2>9. ASSUME NEW w \in Workers PROVE ~AppendLine(w)
    BY <1>3 DEF AppendLine, Steps
  <2>10. /\ ~Load /\ ~WorkersDone /\ ~Stop
         /\ \A k \in Keys : ~Get(k) /\ ~Expire(k)
         /\ \A k \in Keys, w \in Workers : \A v : ~Put(w, k, v)
    BY <1>3 DEF Load, WorkersDone, Stop, Get, Expire, Put
  <2> QED BY <2>1, <2>2, <2>3, <2>4, <2>5, <2>6, <2>7, <2>8, <2>9, <2>10 DEF Next, Save
<1>4. CASE phase # "final" /\ phase' = "final"
  <2>1. WorkersDone
    <3>1. /\ ~Load /\ ~Stop
          /\ \A k \in Keys : ~Get(k) /\ ~Expire(k)
          /\ \A k \in Keys, w \in Workers : \A v : ~Put(w, k, v)
          /\ \A w \in Workers : ~AppendLine(w)
      BY <1>4 DEF Load, Stop, Get, Expire, Put, AppendLine
    <3>2. /\ \A s \in {Flusher, Main} : ~StartSave(s)
          /\ \A i \in Shards : ~CollectShard(i)
          /\ ~OpenTmp /\ ~WriteTmp /\ ~Rename /\ ~Truncate /\ ~SaveReturns
      BY <1>4 DEF StartSave, CollectShard, OpenTmp, WriteTmp, Rename, Truncate, SaveReturns
    <3>3. ~UNCHANGED vars
      BY <1>4 DEF vars
    <3> QED BY <3>1, <3>2, <3>3 DEF Next, Save
  <2> QED BY <1>4, <2>1 DEF WorkersDone, saving, FinalSave, Steps
<1> QED BY <1>2, <1>3, <1>4

\* A list of shard i is a list in the sense of TypeOK.
LEMMA ListOfIsList ==
  ASSUME NEW i \in Shards, NEW l \in ListOf(i)
  PROVE  IsList(l, i) /\ IsFiniteSet(Held(l)) /\ Cardinality(Held(l)) = Len(l)
<1> DEFINE H == Held(l)
           n == Len(l)
           f == [m \in 1..n |-> l[m].key]
<1>1. /\ l \in Seq(Entries) /\ n \in Nat /\ n <= Capacity /\ DOMAIN l = 1..n
      /\ \A m \in 1..n : ShardOf[l[m].key] = i
      /\ \A m, q \in 1..n : l[m].key = l[q].key => m = q
      /\ H = {l[m].key : m \in 1..n}
  BY ListFacts
<1> HIDE DEF H, n
<1>2. f \in [1..n -> H]
  BY <1>1
<1>3. \A m, q \in 1..n : f[m] = f[q] => m = q
  BY <1>1
<1>4. \A t \in H : \E m \in 1..n : f[m] = t
  BY <1>1
<1>5. f \in Bijection(1..n, H)
  <2>1. f \in Injection(1..n, H)
    BY <1>2, <1>3 DEF Injection, IsInjective
  <2>2. f \in Surjection(1..n, H)
    BY <1>2, <1>4 DEF Surjection
  <2> QED BY <2>1, <2>2 DEF Bijection
<1>6. ExistsBijection(1..n, H)
  BY <1>5 DEF ExistsBijection
<1>7. IsFiniteSet(H) /\ Cardinality(H) = n
  BY <1>1, <1>6, FS_CountingElements, FS_NatBijection
<1> QED BY <1>1, <1>7 DEF IsList, H, n

IInv == Types /\ Steps /\ FinalSave

LEMMA IInvAlways == Spec => []IInv
<1>1. Init => IInv
  BY InitTypes DEF IInv
<1>2. IInv /\ [Next]_vars => IInv'
  BY TypesKept, StepsKept, FinalSaveKept DEF IInv
<1> QED BY <1>1, <1>2, PTL DEF Spec

\* Every shard, every snapshot and all that a Save has collected names no key
\* twice, keeps to the capacity and holds only keys of its own shard; what can
\* still be rewritten in place is in the shard and in what was collected.
THEOREM TypesHold == Spec => []TypeOK
<1>1. IInv => TypeOK
  <2> SUFFICES ASSUME IInv PROVE TypeOK
    OBVIOUS
  <2>1. \A i \in Shards : shards[i] \in ListOf(i) /\ shot[i] \in ListOf(i) /\ snapshot[i] \in ListOf(i)
    BY ListsFacts DEF IInv, Types
  <2>2. \A i \in Shards : IsList(shards[i], i) /\ IsList(shot[i], i) /\ IsList(snapshot[i], i)
    BY <2>1, ListOfIsList
  <2> QED BY <2>2 DEF IInv, Types, LogEntry, TypeOK
<1> QED BY <1>1, IInvAlways, PTL

\* What Run's own Save leaves on disk is the cache, in its order and with its
\* values, whatever Puts, Gets and expiries overlapped each other and the Saves
\* of the flusher that ended before it began (cache_persist.go:164-167).  Of a
\* Save that overlaps it, which the code does not prevent, nothing is said here:
\* that is CachePersistence's FinalSaveIsComplete.
THEOREM FinalSaveRestores == Spec => []FinalSaveRestoresCache
<1>1. IInv => FinalSaveRestoresCache
  <2> SUFFICES ASSUME IInv, saver = Main, spc = "saved" PROVE Rebuilt = shards
    BY DEF FinalSaveRestoresCache
  <2>1. left = {} /\ snapshot = shot /\ wal = <<>>
    BY DEF IInv, Steps, FinalSave
  <2>2. \A i \in Shards : shot[i] = shards[i]
    BY <2>1 DEF IInv, FinalSave
  <2>3. shot \in Lists /\ shards \in Lists
    BY DEF IInv, Types
  <2>4. shot = shards
    BY <2>2, <2>3 DEF Lists
  <2>5. Rebuild(shards, <<>>) = shards
    BY <2>3, RebuildEmpty
  <2> QED BY <2>1, <2>4, <2>5 DEF Rebuilt
<1> QED BY <1>1, IInvAlways, PTL

-----------------------------------------------------------------------------
(* The cache is what Load would build, but for the lines yet to be written. *)

\* The entries of shard i that are in its list and not yet in the log.
Yet(i) == {pending[w][1] : w \in PendingIn(i)}

\* With the lines of P, l becomes m.
CatchesUp(P, l, m) ==
  /\ P = {} => l = m
  /\ \A e \in P : Pushed(l, e) = m

\* First what Load would build now; then what it would build once the snapshot
\* that a Save is at work on has been renamed, with the log and without it; and
\* the history that rules these out.
ReplaysIn(i) ==
  /\ phase # "off" /\ drift[i] = "none" => CatchesUp(Yet(i), Rebuild(snapshot, wal)[i], shards[i])
  /\ Passed(i) /\ drift[i] = "none" => CatchesUp(Yet(i), Rebuild(shot, wal)[i], shards[i])
  /\ Passed(i) /\ drift[i] # "drifted" => CatchesUp(Yet(i), shot[i], shards[i])
  /\ drift[i] # "drifted" => \A v, w \in PendingIn(i) : v = w
  /\ drift[i] = "collected" => Passed(i)

Replays == \A i \in Shards : ReplaysIn(i)

\* The lists that Replays speaks of.
LEMMA ReplaysLists ==
  ASSUME Types, NEW i \in Shards
  PROVE  /\ wal \in Seq(Entries) /\ snapshot \in Lists /\ shot \in Lists /\ shards \in Lists
         /\ shards[i] \in ListOf(i) /\ shot[i] \in ListOf(i) /\ snapshot[i] \in ListOf(i)
         /\ Rebuild(snapshot, wal) \in Lists /\ Rebuild(snapshot, wal)[i] \in ListOf(i)
         /\ Rebuild(shot, wal) \in Lists /\ Rebuild(shot, wal)[i] \in ListOf(i)
         /\ Yet(i) \subseteq EntryOf(i)
<1>1. wal \in Seq(Entries) /\ snapshot \in Lists /\ shot \in Lists /\ shards \in Lists
  BY LogIsEntries DEF Types
<1>2. Rebuild(snapshot, wal) \in Lists /\ Rebuild(shot, wal) \in Lists
  BY <1>1, RebuildType
<1>3. ASSUME NEW w \in PendingIn(i) PROVE pending[w][1] \in EntryOf(i)
  BY <1>3, PendingIs DEF PendingIn
<1> QED BY <1>1, <1>2, <1>3, ListsFacts DEF Yet

\* A shard of which neither the list nor a file nor a line has changed.
LEMMA ReplaysElsewhere ==
  ASSUME Types, Types', Replays, NEW i \in Shards,
         shards'[i] = shards[i], shot'[i] = shot[i], snapshot' = snapshot,
         wal' = wal, PendingIn(i)' = PendingIn(i), Yet(i)' = Yet(i),
         drift'[i] = drift[i], phase' = phase, Passed(i)' = Passed(i)
  PROVE  ReplaysIn(i)'
<1>1. wal \in Seq(Entries) /\ shot \in Lists
  BY ReplaysLists
<1>2. shot' \in Lists
  BY DEF Types
<1>3. Rebuild(shot', wal)[i] = Rebuild(shot, wal)[i]
  BY <1>1, <1>2, ReplayIsLocal
<1>4. Rebuild(shot', wal')[i] = Rebuild(shot, wal)[i]
  BY <1>3
<1>5. Rebuild(snapshot', wal')[i] = Rebuild(snapshot, wal)[i]
  OBVIOUS
<1>6. ReplaysIn(i)
  BY DEF Replays
<1> QED BY <1>4, <1>5, <1>6 DEF ReplaysIn

\* Steps of Save that change no shard, no line and neither shot nor drift.
LEMMA YetUnchanged ==
  ASSUME NEW i \in Shards, pending' = pending
  PROVE  PendingIn(i)' = PendingIn(i) /\ Yet(i)' = Yet(i)
BY DEF PendingIn, Yet

\* A hit or an expiry: the shard may differ from what Load would build.
LEMMA ReplaysDrifted ==
  ASSUME NEW i \in Shards, drift'[i] = "drifted"
  PROVE  ReplaysIn(i)'
BY DEF ReplaysIn

LEMMA ReplaysGet ==
  ASSUME Types, Types', Replays, NEW k \in Keys, Get(k) \/ Expire(k)
  PROVE  Replays'
<1> SUFFICES ASSUME NEW j \in Shards PROVE ReplaysIn(j)'
  BY DEF Replays
<1> DEFINE i == ShardOf[k]
<1>0. shards \in Lists /\ drift \in [Shards -> {"none", "drifted", "collected"}] /\ i \in Shards
  BY DEF Types
<1>1. drift' = [drift EXCEPT ![i] = "drifted"]
  BY DEF Get, Expire, Drifted
<1>2. CASE j = i
  <2>1. drift'[j] = "drifted"
    BY <1>0, <1>1, <1>2
  <2> QED BY <2>1, ReplaysDrifted
<1>3. CASE j # i
  <2>1. /\ UNCHANGED <<files, phase, pending, saver, spc, left, shot>>
        /\ \E x : shards' = [shards EXCEPT ![i] = x]
    BY DEF Get, Expire, saving
  <2>2. shards'[j] = shards[j] /\ drift'[j] = drift[j]
    BY <1>0, <1>1, <1>3, <2>1
  <2>3. PendingIn(j)' = PendingIn(j) /\ Yet(j)' = Yet(j)
    BY <2>1, YetUnchanged
  <2>4. Passed(j)' = Passed(j)
    BY <2>1 DEF Passed
  <2> QED BY <2>1, <2>2, <2>3, <2>4, ReplaysElsewhere DEF files
<1> QED BY <1>2, <1>3

\* What a Put adds to the lines yet to be written.
LEMMA YetPut ==
  ASSUME Types, NEW w \in Workers, NEW k \in Keys, NEW v \in Answers[k], Put(w, k, v)
  PROVE  /\ PendingIn(ShardOf[k])' = PendingIn(ShardOf[k]) \cup {w}
         /\ Yet(ShardOf[k])' = Yet(ShardOf[k]) \cup {Entry(k, v)}
         /\ \A j \in Shards \ {ShardOf[k]} :
              PendingIn(j)' = PendingIn(j) /\ Yet(j)' = Yet(j)
<1> DEFINE e == Entry(k, v)
<1>1. /\ pending[w] = <<>> /\ pending' = [pending EXCEPT ![w] = <<e>>]
      /\ pending \in [Workers -> {<<>>} \cup {<<x>> : x \in LogEntry}]
  BY DEF Put, Types
<1>2. e.key = k /\ <<e>> # <<>> /\ <<e>>[1] = e
  BY LogEntryIs
<1> HIDE DEF e
<1>3. pending'[w] = <<e>> /\ \A u \in Workers \ {w} : pending'[u] = pending[u]
  BY <1>1
<1>4. \A j \in Shards : w \notin PendingIn(j)
  BY <1>1 DEF PendingIn
<1>5. PendingIn(ShardOf[k])' = PendingIn(ShardOf[k]) \cup {w}
  BY <1>2, <1>3 DEF PendingIn
<1>6. \A j \in Shards \ {ShardOf[k]} : PendingIn(j)' = PendingIn(j)
  BY <1>1, <1>2, <1>3 DEF PendingIn
<1>7. \A j \in Shards : PendingIn(j) \subseteq Workers
  BY DEF PendingIn
<1>10. ShardOf[k] \in Shards
  OBVIOUS
<1>8. Yet(ShardOf[k])' = Yet(ShardOf[k]) \cup {e}
  <2> HIDE DEF PendingIn
  <2> DEFINE P == PendingIn(ShardOf[k])
  <2>1. Yet(ShardOf[k])' = {pending'[u][1] : u \in P \cup {w}}
    BY <1>5 DEF Yet
  <2>2. Yet(ShardOf[k]) = {pending[u][1] : u \in P}
    BY DEF Yet
  <2>3. P \subseteq Workers /\ w \notin P
    BY <1>4, <1>7, <1>10
  <2> HIDE DEF P
  <2>4. \A u \in P : pending'[u][1] = pending[u][1]
    BY <1>3, <2>3
  <2>5. pending'[w][1] = e
    BY <1>2, <1>3
  <2> QED BY <2>1, <2>2, <2>4, <2>5
<1>9. ASSUME NEW j \in Shards \ {ShardOf[k]} PROVE Yet(j)' = Yet(j)
  <2>1. Yet(j)' = {pending'[u][1] : u \in PendingIn(j)}
    BY <1>6 DEF Yet
  <2>2. \A u \in PendingIn(j) : pending'[u][1] = pending[u][1]
    BY <1>3, <1>4, <1>7
  <2> QED BY <2>1, <2>2 DEF Yet
<1> QED BY <1>5, <1>6, <1>8, <1>9 DEF e

\* A list that differs from one that has caught up only in the value a Put brings.
LEMMA CatchesUpAlike ==
  ASSUME NEW i \in Shards, NEW l \in ListOf(i), NEW g \in ListOf(i), NEW m \in ListOf(i),
         NEW e \in EntryOf(i), Alike(l, g, {e.key}), CatchesUp({}, l, m)
  PROVE  CatchesUp({e}, g, Pushed(m, e))
<1>1. Alike(Pushed(l, e), Pushed(g, e), {e.key} \ {e.key})
  BY AlikeStep
<1>2. {e.key} \ {e.key} = {}
  OBVIOUS
<1>3. Pushed(l, e) \in ListOf(i) /\ Pushed(g, e) \in ListOf(i)
  BY PushedIsList
<1>4. Pushed(l, e) = Pushed(g, e)
  BY ONLY <1>1, <1>2, <1>3, AlikeSame, i \in Shards
<1>5. l = m
  BY DEF CatchesUp
<1> QED BY ONLY <1>4, <1>5 DEF CatchesUp

LEMMA ReplaysPut ==
  ASSUME Types, Types', Replays,
         NEW k \in Keys, NEW w \in Workers, NEW v \in Answers[k], Put(w, k, v)
  PROVE  Replays'
<1> DEFINE i == ShardOf[k]
           e == Entry(k, v)
<1>1. /\ i \in Shards /\ e \in EntryOf(i) /\ e.key = k
      /\ shards'[i] = Pushed(shards[i], e)
      /\ \A j \in Shards \ {i} : shards'[j] = shards[j]
      /\ Revalued(shot', i, k)
  BY PutMoves
<1>2. /\ PendingIn(i)' = PendingIn(i) \cup {w}
      /\ Yet(i)' = Yet(i) \cup {e}
      /\ \A j \in Shards \ {i} : PendingIn(j)' = PendingIn(j) /\ Yet(j)' = Yet(j)
  BY YetPut
<1>3. /\ phase = "run" /\ UNCHANGED <<files, phase, saver, spc, left, exposed>>
      /\ IF PendingIn(i) # {} THEN drift' = [drift EXCEPT ![i] = "drifted"] ELSE drift' = drift
  BY DEF Put, Drifted
<1>4. drift \in [Shards -> {"none", "drifted", "collected"}]
  BY DEF Types
<1>5. \A j \in Shards : Passed(j)' = Passed(j)
  BY <1>3 DEF Passed
<1> HIDE DEF i, e
<1> SUFFICES ASSUME NEW j \in Shards PROVE ReplaysIn(j)'
  BY DEF Replays
<1>6. CASE j # i
  <2>1. shards'[j] = shards[j] /\ shot'[j] = shot[j] /\ drift'[j] = drift[j]
    BY <1>1, <1>3, <1>4, <1>6 DEF Revalued
  <2>2. PendingIn(j)' = PendingIn(j) /\ Yet(j)' = Yet(j)
    BY <1>2, <1>6
  <2> QED BY <1>3, <1>5, <2>1, <2>2, ReplaysElsewhere DEF files
<1>7. CASE j = i /\ PendingIn(i) # {}
  <2>1. drift'[j] = "drifted"
    BY <1>3, <1>4, <1>7
  <2> QED BY <2>1, ReplaysDrifted
<1>8. CASE j = i /\ PendingIn(i) = {}
  <2>1. Yet(i) = {} /\ Yet(i)' = {e} /\ PendingIn(i)' = {w}
    BY <1>2, <1>8 DEF Yet
  <2>2. ReplaysIn(i)
    BY <1>1 DEF Replays
  <2>3. /\ wal \in Seq(Entries) /\ shot \in Lists /\ shards[i] \in ListOf(i)
        /\ shot[i] \in ListOf(i)
        /\ Rebuild(snapshot, wal)[i] \in ListOf(i) /\ Rebuild(shot, wal)[i] \in ListOf(i)
    BY <1>1, ReplaysLists
  <2>4. /\ shot' \in Lists /\ shot'[i] \in ListOf(i) /\ Alike(shot[i], shot'[i], {e.key})
        /\ Rebuild(shot', wal) \in Lists
    BY <1>1, <2>3, ListsFacts, RebuildType DEF Revalued
  <2>5. Rebuild(shot', wal)[i] \in ListOf(i)
    BY <1>1, <2>4, ListsFacts
  <2>6. Alike(Rebuild(shot, wal)[i], Rebuild(shot', wal)[i], {e.key})
    BY <1>1, <2>3, <2>4, AlikeReplayed
  <2>7. /\ wal' = wal /\ snapshot' = snapshot /\ drift' = drift /\ phase' = phase
        /\ Passed(i)' = Passed(i)
    BY <1>1, <1>3, <1>5, <1>8 DEF files
  <2>8. ASSUME CatchesUp(Yet(i), Rebuild(snapshot, wal)[i], shards[i])
        PROVE  CatchesUp(Yet(i)', Rebuild(snapshot', wal')[i], shards'[i])
    <3> DEFINE R == Rebuild(snapshot, wal)[i]
    <3>1. R \in ListOf(i) /\ CatchesUp({}, R, shards[i])
      BY <2>1, <2>3, <2>8
    <3>2. Rebuild(snapshot', wal')[i] = R
      BY <2>7
    <3> HIDE DEF R
    <3>3. CatchesUp({e}, R, Pushed(shards[i], e))
      BY <1>1, <2>3, <3>1, CatchesUpAlike DEF Alike
    <3> QED BY <1>1, <2>1, <3>2, <3>3
  <2>9. ASSUME CatchesUp(Yet(i), Rebuild(shot, wal)[i], shards[i])
        PROVE  CatchesUp(Yet(i)', Rebuild(shot', wal')[i], shards'[i])
    <3>1. CatchesUp({}, Rebuild(shot, wal)[i], shards[i])
      BY <2>1, <2>9
    <3>2. CatchesUp({e}, Rebuild(shot', wal)[i], Pushed(shards[i], e))
      BY <1>1, <2>3, <2>5, <2>6, <3>1, CatchesUpAlike
    <3>3. Rebuild(shot', wal')[i] = Rebuild(shot', wal)[i]
      BY <2>7
    <3> QED BY <1>1, <2>1, <3>2, <3>3
  <2>10. ASSUME CatchesUp(Yet(i), shot[i], shards[i])
         PROVE  CatchesUp(Yet(i)', shot'[i], shards'[i])
    <3>1. CatchesUp({}, shot[i], shards[i])
      BY <2>1, <2>10
    <3>2. CatchesUp({e}, shot'[i], Pushed(shards[i], e))
      BY <1>1, <2>3, <2>4, <3>1, CatchesUpAlike
    <3> QED BY <1>1, <2>1, <3>2
  <2> QED BY <1>8, <2>1, <2>2, <2>7, <2>8, <2>9, <2>10 DEF ReplaysIn
<1> QED BY <1>6, <1>7, <1>8

\* What appending a line takes from the lines yet to be written.
AppendsFor(w, e, i) ==
  /\ e = pending[w][1] /\ i = ShardOf[e.key]
  /\ i \in Shards /\ e \in EntryOf(i) /\ e \in Entries
  /\ wal' = wal \o <<e>> /\ w \in PendingIn(i)
  /\ PendingIn(i)' = PendingIn(i) \ {w}
  /\ \A j \in Shards \ {i} : PendingIn(j)' = PendingIn(j) /\ Yet(j)' = Yet(j)

LEMMA YetAppend ==
  ASSUME Types, NEW w \in Workers, AppendLine(w)
  PROVE  \E e \in Entries : \E i \in Shards : AppendsFor(w, e, i)
<1>20. PICK e : e = pending[w][1]
  OBVIOUS
<1>21. PICK i : i = ShardOf[e.key]
  OBVIOUS
<1>1. /\ i \in Shards /\ e \in EntryOf(i) /\ e \in Entries
      /\ pending[w] = <<e>> /\ pending[w] # <<>>
  BY <1>20, <1>21, PendingIs DEF AppendLine
<1>2. /\ wal' = wal \o pending[w] /\ pending' = [pending EXCEPT ![w] = <<>>]
      /\ pending \in [Workers -> {<<>>} \cup {<<x>> : x \in LogEntry}]
  BY DEF AppendLine, Types
<1>3. pending'[w] = <<>> /\ \A u \in Workers \ {w} : pending'[u] = pending[u]
  BY <1>2
<1>4. w \in PendingIn(i) /\ \A j \in Shards \ {i} : w \notin PendingIn(j)
  BY <1>1, <1>21 DEF PendingIn
<1>5. PendingIn(i)' = PendingIn(i) \ {w}
  BY <1>3 DEF PendingIn
<1>6. \A j \in Shards \ {i} : PendingIn(j)' = PendingIn(j)
  <2>1. ASSUME NEW j \in Shards \ {i}, NEW u \in Workers
        PROVE  pending'[u] # <<>> /\ ShardOf[pending'[u][1].key] = j
                 <=> pending[u] # <<>> /\ ShardOf[pending[u][1].key] = j
    BY <1>1, <1>3, <1>21
  <2> QED BY <2>1 DEF PendingIn
<1>7. \A j \in Shards : PendingIn(j) \subseteq Workers
  BY DEF PendingIn
<1>8. ASSUME NEW j \in Shards \ {i} PROVE Yet(j)' = Yet(j)
  <2>1. Yet(j)' = {pending'[u][1] : u \in PendingIn(j)}
    BY <1>6 DEF Yet
  <2>2. \A u \in PendingIn(j) : pending'[u][1] = pending[u][1]
    BY <1>3, <1>4, <1>7
  <2> QED BY <2>1, <2>2 DEF Yet
<1> QED BY <1>1, <1>2, <1>4, <1>5, <1>6, <1>8, <1>20, <1>21 DEF AppendsFor

\* A line that a Save has anticipated changes nothing of what it collected.
LEMMA ReplaysAppend ==
  ASSUME Types, Types', Replays, NEW w \in Workers, AppendLine(w)
  PROVE  Replays'
<1>20. PICK e \in Entries : \E i \in Shards : AppendsFor(w, e, i)
  BY YetAppend
<1>21. PICK i \in Shards : AppendsFor(w, e, i)
  BY <1>20
<1>1. /\ i \in Shards /\ e \in EntryOf(i) /\ e \in Entries
      /\ wal' = wal \o <<e>> /\ w \in PendingIn(i)
      /\ PendingIn(i)' = PendingIn(i) \ {w}
      /\ \A j \in Shards \ {i} : PendingIn(j)' = PendingIn(j) /\ Yet(j)' = Yet(j)
  BY <1>21 DEF AppendsFor
<1>2. /\ UNCHANGED <<shards, published, snapshot, phase, saver, spc, left, shot, linked>>
      /\ IF Passed(i) /\ (shot[i] = <<>> \/ Head(shot[i]) # e)
         THEN drift' = [drift EXCEPT ![i] = "drifted"] ELSE drift' = drift
      /\ drift \in [Shards -> {"none", "drifted", "collected"}]
  BY <1>21 DEF AppendLine, Drifted, saving, Types, AppendsFor
<1>4. i = ShardOf[e.key] /\ w \in PendingIn(i) /\ e = pending[w][1]
  BY <1>21 DEF AppendsFor
<1>3. \A j \in Shards : Passed(j)' = Passed(j)
  BY <1>2 DEF Passed
<1> SUFFICES ASSUME NEW j \in Shards PROVE ReplaysIn(j)'
  BY DEF Replays
<1>5. /\ wal \in Seq(Entries) /\ snapshot \in Lists /\ shot \in Lists
      /\ Rebuild(snapshot, wal) \in Lists /\ Rebuild(shot, wal) \in Lists
      /\ shot[i] \in ListOf(i)
  BY <1>1, ReplaysLists
<1>6. /\ Rebuild(snapshot, wal') = Replayed(Rebuild(snapshot, wal), e)
      /\ Rebuild(shot, wal') = Replayed(Rebuild(shot, wal), e)
  BY <1>1, <1>5, RebuildAppend
<1>22. ASSUME NEW s \in Lists
       PROVE  /\ Replayed(s, e)[i] = Pushed(s[i], e)
              /\ \A m \in Shards \ {i} : Replayed(s, e)[m] = s[m]
  BY <1>1, <1>4, ReplayedIs
<1>7. ReplaysIn(j)
  BY DEF Replays
<1>8. CASE j # i
  <2>1. /\ Rebuild(snapshot, wal')[j] = Rebuild(snapshot, wal)[j]
        /\ Rebuild(shot, wal')[j] = Rebuild(shot, wal)[j]
    BY <1>5, <1>6, <1>8, <1>22
  <2>2. /\ drift'[j] = drift[j] /\ shards' = shards /\ shot' = shot /\ snapshot' = snapshot
        /\ phase' = phase
    BY <1>1, <1>2, <1>8
  <2>3. PendingIn(j)' = PendingIn(j) /\ Yet(j)' = Yet(j) /\ Passed(j)' = Passed(j)
    BY <1>1, <1>3, <1>8
  <2> QED BY ONLY <1>7, <2>1, <2>2, <2>3 DEF ReplaysIn
<1>9. CASE j = i /\ drift'[i] = "drifted"
  BY <1>9, ReplaysDrifted
<1>10. CASE j = i /\ drift'[i] # "drifted"
  <2>1. /\ drift' = drift /\ drift[i] # "drifted"
        /\ Passed(i) => shot[i] # <<>> /\ Head(shot[i]) = e
    BY <1>1, <1>2, <1>10
  <2>2. PendingIn(i) = {w}
    <3>1. \A u \in PendingIn(i) : u = w
      BY <1>1, <1>7, <1>10, <2>1 DEF ReplaysIn
    <3> QED BY <1>1, <3>1
  <2>3. PendingIn(i)' = {} /\ Yet(i)' = {} /\ Yet(i) = {e}
    BY <1>1, <1>4, <2>2 DEF Yet
  <2>4. /\ Rebuild(snapshot, wal')[i] = Pushed(Rebuild(snapshot, wal)[i], e)
        /\ Rebuild(shot, wal')[i] = Pushed(Rebuild(shot, wal)[i], e)
    BY <1>5, <1>6, <1>22
  <2>5. Passed(i) => Pushed(shot[i], e) = shot[i]
    <3>1. shot[i] \in Seq(Entries)
      BY <1>1, <1>5, ListFacts
    <3>2. Passed(i) => Len(shot[i]) # 0 /\ shot[i][1] = e
      BY <2>1, <3>1
    <3> QED BY <1>1, <1>5, <3>2, PushedAgain
  <2>6. \A l : CatchesUp(Yet(i), l, shards[i]) => Pushed(l, e) = shards[i]
    BY <2>3 DEF CatchesUp
  <2>7. \A l : l = shards[i] => CatchesUp(Yet(i)', l, shards'[i])
    BY <1>2, <2>3 DEF CatchesUp
  <2>8. snapshot' = snapshot /\ shot' = shot /\ phase' = phase /\ Passed(i)' = Passed(i)
    BY <1>1, <1>2, <1>3
  <2>9. phase' # "off" /\ drift'[i] = "none" =>
          CatchesUp(Yet(i)', Rebuild(snapshot', wal')[i], shards'[i])
    BY <1>7, <1>10, <2>1, <2>4, <2>6, <2>7, <2>8 DEF ReplaysIn
  <2>10. Passed(i)' /\ drift'[i] = "none" =>
           CatchesUp(Yet(i)', Rebuild(shot', wal')[i], shards'[i])
    BY <1>7, <1>10, <2>1, <2>4, <2>6, <2>7, <2>8 DEF ReplaysIn
  <2>11. Passed(i)' => CatchesUp(Yet(i)', shot'[i], shards'[i])
    BY <1>7, <1>10, <2>1, <2>5, <2>6, <2>7, <2>8 DEF ReplaysIn
  <2> QED BY <1>7, <1>10, <2>1, <2>3, <2>8, <2>9, <2>10, <2>11 DEF ReplaysIn
<1> QED BY <1>8, <1>9, <1>10

\* A Save reads a shard under its lock: what the log replays onto what it read
\* changes nothing of it, but for the lines that are yet to come.
LEMMA CollectedCatchesUp ==
  ASSUME NEW i \in Shards, NEW w \in Seq(Entries), NEW b \in Lists, NEW c \in Lists,
         NEW P \in SUBSET EntryOf(i), \A e, x \in P : e = x,
         CatchesUp(P, Rebuild(b, w)[i], c[i])
  PROVE  CatchesUp(P, Rebuild(c, w)[i], c[i]) /\ CatchesUp(P, c[i], c[i])
<1> DEFINE R == Rebuild(b, w)
           Q == Rebuild(c, w)
<1>1. R \in Lists /\ Q \in Lists /\ R[i] \in ListOf(i) /\ Q[i] \in ListOf(i) /\ c[i] \in ListOf(i)
  BY RebuildType, ListsFacts
<1>2. CASE P = {}
  <2>1. c[i] = R[i]
    BY <1>2 DEF CatchesUp
  <2>2. Q[i] = c[i]
    BY <2>1, LogTwice
  <2> QED BY <1>2, <2>2 DEF CatchesUp
<1>3. CASE P # {}
  <2>1. PICK e \in P : P = {e}
    BY <1>3
  <2>2. e \in EntryOf(i) /\ e \in Entries /\ i = ShardOf[e.key]
    BY <2>1 DEF EntryOf
  <2>3. Pushed(R[i], e) = c[i]
    BY <2>1 DEF CatchesUp
  <2> DEFINE v == w \o <<e>>
  <2>4. v \in Seq(Entries)
    BY <2>2
  <2>5. Rebuild(b, v) = Replayed(R, e) /\ Rebuild(c, v) = Replayed(Q, e)
    BY <2>2, RebuildAppend
  <2> HIDE DEF v, R, Q
  <2>6. Rebuild(b, v)[i] = Pushed(R[i], e) /\ Rebuild(c, v)[i] = Pushed(Q[i], e)
    BY <1>1, <2>2, <2>5, ReplayedIs
  <2>9. c[i] = Rebuild(b, v)[i]
    BY ONLY <2>3, <2>6
  <2>7. Rebuild(c, v)[i] = c[i]
    BY ONLY <2>4, <2>9, LogTwice, i \in Shards, b \in Lists, c \in Lists
  <2>8. Pushed(c[i], e) = c[i]
    <3>1. Len(Pushed(R[i], e)) # 0 /\ Pushed(R[i], e)[1] = e
      BY <1>1, <2>2, PushedFirst
    <3> QED BY <1>1, <2>2, <2>3, <3>1, PushedAgain
  <2> QED BY <2>1, <2>6, <2>7, <2>8 DEF CatchesUp, Q
<1> QED BY <1>2, <1>3

LEMMA ReplaysCollect ==
  ASSUME Types, Types', Steps, Replays, NEW i \in Shards, CollectShard(i)
  PROVE  Replays'
<1>1. /\ spc = "collect" /\ i \in left /\ left' = left \ {i}
      /\ spc' \in {"collect", "marshal"}
      /\ UNCHANGED <<shards, files, phase, pending, saver, exposed>>
      /\ drift' = [drift EXCEPT ![i] = IF drift[i] = "drifted" /\ PendingIn(i) = {}
                                       THEN "collected" ELSE drift[i]]
  BY DEF CollectShard
<1>2. shot' \in Lists /\ shot'[i] = shards[i] /\ \A j \in Shards \ {i} : shot'[j] = shot[j]
  BY CollectAdds
<1>3. \A j \in Shards : PendingIn(j)' = PendingIn(j) /\ Yet(j)' = Yet(j)
  BY <1>1, YetUnchanged
<1>4. /\ drift \in [Shards -> {"none", "drifted", "collected"}]
      /\ drift'[i] = IF drift[i] = "drifted" /\ PendingIn(i) = {} THEN "collected" ELSE drift[i]
      /\ \A j \in Shards \ {i} : drift'[j] = drift[j]
  BY <1>1 DEF Types
<1>5. ASSUME NEW j \in Shards PROVE Passed(j)' = (j = i \/ Passed(j))
  BY <1>1 DEF Passed
<1>6. ASSUME NEW j \in Shards, j # i PROVE ReplaysIn(j)'
  <2>1. shards'[j] = shards[j] /\ shot'[j] = shot[j] /\ drift'[j] = drift[j]
    BY <1>1, <1>2, <1>4, <1>6
  <2>2. Passed(j)' = Passed(j)
    <3>1. Passed(j)' = (j = i \/ Passed(j))
      BY <1>5
    <3>2. (j = i) = FALSE
      BY <1>6
    <3>3. Passed(j) \in BOOLEAN
      BY DEF Passed
    <3> QED BY <3>1, <3>2, <3>3
  <2>3. PendingIn(j)' = PendingIn(j) /\ Yet(j)' = Yet(j)
    BY <1>3
  <2> QED BY <1>1, <2>1, <2>2, <2>3, ReplaysElsewhere DEF files
<1>7. ReplaysIn(i)'
  <2>1. ReplaysIn(i) /\ ~Passed(i) /\ phase # "off"
    BY <1>1 DEF Replays, Passed, Steps
  <2>2. /\ wal \in Seq(Entries) /\ snapshot \in Lists /\ shards \in Lists
        /\ Yet(i) \in SUBSET EntryOf(i)
    BY ReplaysLists
  <2>3. Passed(i)'
    BY <1>5
  <2>4. wal' = wal /\ snapshot' = snapshot /\ shards' = shards /\ phase' = phase
    BY <1>1 DEF files
  <2>5. PendingIn(i)' = PendingIn(i) /\ Yet(i)' = Yet(i)
    BY <1>3
  <2>6. CASE drift[i] = "drifted" /\ PendingIn(i) = {}
    <3>1. drift'[i] = "collected" /\ Yet(i) = {}
      BY <1>4, <2>6 DEF Yet
    <3> QED BY <1>2, <2>3, <2>4, <2>5, <2>6, <3>1 DEF ReplaysIn, CatchesUp
  <2>7. CASE drift[i] = "drifted" /\ PendingIn(i) # {}
    <3>1. drift'[i] = "drifted"
      BY <1>4, <2>7
    <3> QED BY <3>1, ReplaysDrifted
  <2>8. CASE drift[i] = "none"
    <3>1. drift'[i] = "none"
      BY <1>4, <2>8
    <3>2. /\ CatchesUp(Yet(i), Rebuild(snapshot, wal)[i], shards[i])
          /\ \A u, v \in PendingIn(i) : u = v
      BY <2>1, <2>8 DEF ReplaysIn
    <3>3. \A e, x \in Yet(i) : e = x
      BY <3>2 DEF Yet
    <3>4. /\ CatchesUp(Yet(i), Rebuild(shards, wal)[i], shards[i])
          /\ CatchesUp(Yet(i), shards[i], shards[i])
      BY <2>2, <3>2, <3>3, CollectedCatchesUp
    <3>5. Rebuild(shot', wal)[i] = Rebuild(shards, wal)[i]
      BY <1>2, <2>2, ReplayIsLocal
    <3>6. Rebuild(shot', wal')[i] = Rebuild(shards, wal)[i]
      BY <2>4, <3>5
    <3>7. /\ CatchesUp(Yet(i)', Rebuild(snapshot', wal')[i], shards'[i])
          /\ CatchesUp(Yet(i)', Rebuild(shot', wal')[i], shards'[i])
          /\ CatchesUp(Yet(i)', shot'[i], shards'[i])
      BY <1>2, <2>4, <2>5, <3>2, <3>4, <3>6
    <3> QED BY <2>5, <3>1, <3>2, <3>7 DEF ReplaysIn
  <2>9. CASE drift[i] = "collected"
    BY <2>1, <2>9 DEF ReplaysIn
  <2> QED BY <1>4, <2>6, <2>7, <2>8, <2>9
<1> QED BY <1>6, <1>7 DEF Replays

LEMMA ReplaysFile ==
  ASSUME Types, Types', Steps, Replays,
         OpenTmp \/ WriteTmp \/ Rename \/ Truncate
  PROVE  Replays'
<1> SUFFICES ASSUME NEW i \in Shards PROVE ReplaysIn(i)'
  BY DEF Replays
<1>1. left = {}
  BY DEF OpenTmp, WriteTmp, Rename, Truncate, Steps
<1>2. /\ UNCHANGED <<shards, pending, phase, left, shot>>
      /\ spc \in {"marshal", "write", "rename", "truncate"}
      /\ Passed(i)
  BY <1>1 DEF OpenTmp, WriteTmp, Rename, Truncate, Passed
<1>3. PendingIn(i)' = PendingIn(i) /\ Yet(i)' = Yet(i)
  BY <1>2, YetUnchanged
<1>4. ReplaysIn(i)
  BY DEF Replays
<1>5. CASE OpenTmp \/ WriteTmp
  <2>1. UNCHANGED <<snapshot, wal, drift>>
    BY <1>5 DEF OpenTmp, WriteTmp
  <2>2. Passed(i)'
    BY <1>1, <1>2, <1>5 DEF OpenTmp, WriteTmp, Passed
  <2> QED BY <1>2, <1>3, <1>4, <2>1, <2>2 DEF ReplaysIn
<1>6. CASE Rename
  <2>1. snapshot' = shot /\ UNCHANGED <<wal, drift>>
    BY <1>6 DEF Rename
  <2>2. Passed(i)'
    BY <1>1, <1>2, <1>6 DEF Rename, Passed
  <2>3. Rebuild(snapshot', wal') = Rebuild(shot, wal) /\ Rebuild(shot', wal') = Rebuild(shot, wal)
    BY <1>2, <2>1
  <2> QED BY <1>2, <1>3, <1>4, <2>1, <2>2, <2>3 DEF ReplaysIn
<1>7. CASE Truncate
  <2>1. snapshot' = snapshot /\ snapshot = shot /\ wal' = <<>> /\ spc' = "saved"
    BY <1>7 DEF Truncate, Steps
  <2>2. drift'[i] = IF drift[i] = "collected" THEN "none" ELSE drift[i]
    BY <1>7 DEF Truncate
  <2>3. ~Passed(i)'
    BY <2>1 DEF Passed
  <2>4. Rebuild(shot, <<>>) = shot
    BY RebuildEmpty DEF Types
  <2>5. Rebuild(snapshot', wal')[i] = shot[i]
    BY <2>1, <2>4
  <2>6. drift'[i] # "collected" /\ (drift'[i] # "drifted" => drift[i] # "drifted")
    BY <2>2
  <2> QED BY <1>2, <1>3, <1>4, <2>3, <2>5, <2>6 DEF ReplaysIn
<1> QED BY <1>5, <1>6, <1>7

LEMMA ReplaysKept ==
  ASSUME Types, Steps, Replays, [Next]_vars
  PROVE  Replays'
<1>1. Types' /\ Steps'
  BY TypesKept, StepsKept
<1>2. CASE Load
  <2> SUFFICES ASSUME NEW i \in Shards PROVE ReplaysIn(i)'
    BY DEF Replays
  <2>1. /\ shards' = Rebuild(snapshot, wal) /\ UNCHANGED <<files, pending, saving, drift>>
        /\ \A w \in Workers : pending[w] = <<>>
        /\ drift[i] = "none" /\ spc = "idle"
    BY <1>2 DEF Load, Rebuilt, Steps
  <2>2. PendingIn(i)' = {} /\ Yet(i)' = {}
    BY <2>1 DEF PendingIn, Yet
  <2>3. ~Passed(i)'
    BY <2>1 DEF Passed, saving
  <2>4. Rebuild(snapshot', wal')[i] = shards'[i]
    BY <2>1 DEF files
  <2> QED BY <2>1, <2>2, <2>3, <2>4 DEF ReplaysIn, CatchesUp
<1>3. ASSUME NEW k \in Keys, Get(k) \/ Expire(k) PROVE Replays'
  BY <1>1, <1>3, ReplaysGet
<1>4. ASSUME NEW k \in Keys, NEW w \in Workers, NEW v \in Answers[k], Put(w, k, v)
      PROVE  Replays'
  BY <1>1, <1>4, ReplaysPut
<1>5. ASSUME NEW w \in Workers, AppendLine(w) PROVE Replays'
  BY <1>1, <1>5, ReplaysAppend
<1>6. CASE WorkersDone \/ UNCHANGED vars \/ \E s \in {Flusher, Main} : StartSave(s)
  <2> SUFFICES ASSUME NEW i \in Shards PROVE ReplaysIn(i)'
    BY DEF Replays
  <2>1. UNCHANGED <<shards, snapshot, wal, pending, drift>> /\ (phase = "off" => phase' = "off")
    BY <1>6 DEF WorkersDone, StartSave, vars, files
  <2>2. PendingIn(i)' = PendingIn(i) /\ Yet(i)' = Yet(i)
    BY <2>1, YetUnchanged
  <2>3. \/ ~Passed(i)' /\ ~Passed(i)
        \/ shot' = shot /\ Passed(i)' = Passed(i)
    BY <1>6 DEF WorkersDone, StartSave, vars, Passed, saving
  <2>4. ReplaysIn(i)
    BY DEF Replays
  <2>5. Rebuild(snapshot', wal') = Rebuild(snapshot, wal)
        /\ (shot' = shot => Rebuild(shot', wal') = Rebuild(shot, wal))
    BY <2>1
  <2> QED BY <2>1, <2>2, <2>3, <2>4, <2>5 DEF ReplaysIn
<1>7. ASSUME NEW i \in Shards, CollectShard(i) PROVE Replays'
  BY <1>1, <1>7, ReplaysCollect
<1>8. CASE OpenTmp \/ WriteTmp \/ Rename \/ Truncate
  BY <1>1, <1>8, ReplaysFile
<1>9. CASE SaveReturns
  <2> SUFFICES ASSUME NEW i \in Shards PROVE ReplaysIn(i)'
    BY DEF Replays
  <2>1. UNCHANGED <<shards, snapshot, wal, pending, drift, phase>>
    BY <1>9 DEF SaveReturns, files
  <2>2. PendingIn(i)' = PendingIn(i) /\ Yet(i)' = Yet(i)
    BY <2>1, YetUnchanged
  <2>3. ~Passed(i)' /\ ~Passed(i)
    BY <1>9 DEF SaveReturns, Passed
  <2>4. ReplaysIn(i)
    BY DEF Replays
  <2>5. Rebuild(snapshot', wal') = Rebuild(snapshot, wal)
    BY <2>1
  <2> QED BY <2>1, <2>2, <2>3, <2>4, <2>5 DEF ReplaysIn
<1>10. CASE Stop
  <2> SUFFICES ASSUME NEW i \in Shards PROVE ReplaysIn(i)'
    BY DEF Replays
  <2>1. phase' = "off" /\ drift'[i] = "none" /\ spc' = "idle" /\ \A w \in Workers : pending'[w] = <<>>
    BY <1>10 DEF Stop
  <2>2. PendingIn(i)' = {}
    BY <2>1 DEF PendingIn
  <2>3. ~Passed(i)'
    BY <2>1 DEF Passed
  <2> QED BY <2>1, <2>2, <2>3 DEF ReplaysIn
<1> QED
  BY <1>2, <1>3, <1>4, <1>5, <1>6, <1>7, <1>8, <1>9, <1>10 DEF Next, Save

LEMMA InitReplays == Init => Replays
<1> SUFFICES ASSUME Init, NEW i \in Shards PROVE ReplaysIn(i)
  BY DEF Replays
<1>1. PendingIn(i) = {}
  BY DEF Init, PendingIn
<1> QED BY <1>1 DEF Init, ReplaysIn, Passed

\* At any stop, also between the rename of a snapshot and the truncation of the
\* log, Load rebuilds a shard in its order and with its latest values, unless a
\* hit or an expiry has changed it since the last Save, Puts into it overlapped,
\* or a Save passed between the two halves of a Put (cache_persist.go:85-104).
THEOREM LogRebuilds == Spec => []LogRebuildsCache
<1>1. Init => Replays
  BY InitReplays
<1>2. IInv /\ Replays /\ [Next]_vars => Replays'
  BY ReplaysKept DEF IInv
<1>3. Replays => LogRebuildsCache
  <2> SUFFICES ASSUME Replays, NEW i \in Shards,
                      phase # "off", drift[i] = "none", PendingIn(i) = {}
               PROVE  Rebuilt[i] = shards[i]
    BY DEF LogRebuildsCache
  <2>1. ReplaysIn(i) /\ Yet(i) = {}
    BY DEF Replays, Yet
  <2> QED BY <2>1 DEF ReplaysIn, CatchesUp, Rebuilt
<1> QED BY <1>1, <1>2, <1>3, IInvAlways, PTL DEF Spec

-----------------------------------------------------------------------------
(* Without values and order, the cache is the one of CachePersistence.  What *)
(* ImplementsPersistence puts for its variables, by name.                    *)

Callers == {Flusher, Main}
SnapshotFile == IF published THEN File("whole", HeldIn(snapshot)) ELSE File("absent", {})
TmpFile == CASE spc = "write" -> File("torn", {})
             [] spc = "rename" -> File("whole", HeldIn(shot))
             [] OTHER -> File("absent", {})
LogHandle == IF phase = "off" THEN "nil" ELSE "open"
PendingKeys == [w \in Workers |-> Held(pending[w])]
StepName == IF spc = "marshal" THEN "open" ELSE spc
TmpHandle == IF spc = "write" THEN "tmp" ELSE "none"
SaveStep == [s \in Callers |-> ForSaver(s, StepName, "idle")]
SaveLeft == [s \in Callers |-> ForSaver(s, left, {})]
SaveShot == [s \in Callers |-> ForSaver(s, HeldIn(shot), {})]
SaveFile == [s \in Callers |-> ForSaver(s, TmpHandle, "none")]

\* The callers of Save, of which one at a time is in it.
LEMMA SaverIs ==
  ASSUME Types
  PROVE  /\ SaveStep[saver] = StepName /\ SaveLeft[saver] = left
         /\ SaveShot[saver] = HeldIn(shot) /\ SaveFile[saver] = TmpHandle
         /\ \A s \in Callers \ {saver} : SaveStep[s] = "idle"
         /\ saver \in Callers
         /\ spc = "idle" /\ left = {} /\ HeldIn(shot) = {} =>
              /\ SaveStep = [s \in Callers |-> "idle"] /\ SaveLeft = [s \in Callers |-> {}]
              /\ SaveShot = [s \in Callers |-> {}] /\ SaveFile = [s \in Callers |-> "none"]
<1>1. saver \in Callers
  BY DEF Types, Callers
<1>2. spc = "idle" => StepName = "idle" /\ TmpHandle = "none"
  BY DEF StepName, TmpHandle
<1> QED BY <1>1, <1>2 DEF SaveStep, SaveLeft, SaveShot, SaveFile, ForSaver

LEMMA SaverMoves ==
  ASSUME Types, saver' = saver
  PROVE  /\ SaveStep' = [SaveStep EXCEPT ![saver] = StepName']
         /\ SaveLeft' = [SaveLeft EXCEPT ![saver] = left']
         /\ SaveShot' = [SaveShot EXCEPT ![saver] = HeldIn(shot')]
         /\ SaveFile' = [SaveFile EXCEPT ![saver] = TmpHandle']
         /\ spc' = spc => SaveStep' = SaveStep /\ StepName' = StepName
         /\ left' = left => SaveLeft' = SaveLeft
         /\ HeldIn(shot') = HeldIn(shot) => SaveShot' = SaveShot
         /\ TmpHandle' = TmpHandle => SaveFile' = SaveFile
<1>1. saver \in Callers
  BY DEF Types, Callers
<1>2. SaveStep' = [SaveStep EXCEPT ![saver] = StepName']
  BY <1>1 DEF SaveStep, ForSaver
<1>3. SaveLeft' = [SaveLeft EXCEPT ![saver] = left']
  BY <1>1 DEF SaveLeft, ForSaver
<1>4. SaveShot' = [SaveShot EXCEPT ![saver] = HeldIn(shot')]
  BY <1>1 DEF SaveShot, ForSaver
<1>5. SaveFile' = [SaveFile EXCEPT ![saver] = TmpHandle']
  BY <1>1 DEF SaveFile, ForSaver
<1>6. spc' = spc => SaveStep' = SaveStep /\ StepName' = StepName
  BY DEF SaveStep, ForSaver, StepName
<1>7. left' = left => SaveLeft' = SaveLeft
  BY DEF SaveLeft, ForSaver
<1>8. HeldIn(shot') = HeldIn(shot) => SaveShot' = SaveShot
  BY DEF SaveShot, ForSaver
<1>9. TmpHandle' = TmpHandle => SaveFile' = SaveFile
  BY DEF SaveFile, ForSaver
<1> QED BY <1>2, <1>3, <1>4, <1>5, <1>6, <1>7, <1>8, <1>9

\* What a step that no Save takes leaves as it is.
LEMMA SaveAside ==
  ASSUME Types, UNCHANGED <<published, snapshot, saver, spc, left>>, HeldIn(shot') = HeldIn(shot)
  PROVE  UNCHANGED <<SnapshotFile, TmpFile, SaveStep, SaveLeft, SaveShot, SaveFile>>
<1>1. UNCHANGED <<SaveStep, SaveLeft, SaveShot>>
  BY SaverMoves
<1>2. UNCHANGED SaveFile
  <2>1. TmpHandle' = TmpHandle
    BY DEF TmpHandle
  <2> QED BY <2>1, SaverMoves
<1>3. UNCHANGED SnapshotFile
  BY DEF SnapshotFile
<1>4. UNCHANGED TmpFile
  BY DEF TmpFile
<1> QED BY <1>1, <1>2, <1>3, <1>4

LEMMA ImplInit == Init => Persistence!Init
<1> SUFFICES ASSUME Init PROVE Persistence!Init
  OBVIOUS
<1>1. Types
  BY InitTypes
<1>2. HeldIn(shards) = {} /\ HeldIn(shot) = {} /\ Held(wal) = {}
  BY NoEntriesFacts DEF Init, Held
<1>3. PendingKeys = [w \in Workers |-> {}]
  BY DEF Init, PendingKeys, Held
<1>4. /\ SaveStep = [s \in Callers |-> "idle"] /\ SaveLeft = [s \in Callers |-> {}]
      /\ SaveShot = [s \in Callers |-> {}] /\ SaveFile = [s \in Callers |-> "none"]
  BY <1>1, <1>2, SaverIs DEF Init
<1>5. SnapshotFile = File("absent", {}) /\ TmpFile = File("absent", {}) /\ LogHandle = "nil"
  BY DEF Init, SnapshotFile, TmpFile, LogHandle
<1> QED BY <1>2, <1>3, <1>4, <1>5 DEF Init, Persistence!Init, Persistence!SaversIdle,
    Persistence!Savers, Persistence!Absent, File, Callers, SnapshotFile, TmpFile, LogHandle,
    PendingKeys, SaveStep, SaveLeft, SaveShot, SaveFile, StepName, TmpHandle

LEMMA ImplWorkersDone ==
  ASSUME Types, Steps, WorkersDone
  PROVE  Persistence!WorkersDone
<1>1. /\ phase = "run" /\ phase' = "final"
      /\ UNCHANGED <<shards, published, snapshot, wal, pending, saver, spc, left, shot, exposed>>
      /\ \A w \in Workers : pending[w] = <<>>
  BY DEF WorkersDone, files, saving
<1>2. UNCHANGED <<SnapshotFile, TmpFile, SaveStep, SaveLeft, SaveShot, SaveFile>>
  BY <1>1, SaveAside
<1>3. UNCHANGED <<LogHandle, PendingKeys>> /\ Held(wal') = Held(wal) /\ HeldIn(shards') = HeldIn(shards)
  BY <1>1 DEF LogHandle, PendingKeys
<1>4. \A w \in Workers : PendingKeys[w] = {}
  BY <1>1 DEF PendingKeys, Held
<1> QED BY <1>1, <1>2, <1>3, <1>4 DEF Persistence!WorkersDone, Persistence!files,
    Persistence!saving, SnapshotFile, TmpFile, LogHandle, PendingKeys, SaveStep, SaveLeft,
    SaveShot, SaveFile, Callers, StepName, TmpHandle

LEMMA ImplGet ==
  ASSUME Types, NEW k \in Keys, Get(k)
  PROVE  UNCHANGED Persistence!vars
<1>1. UNCHANGED <<published, snapshot, wal, phase, pending, saver, spc, left, shot, exposed>>
  BY DEF Get, files, saving
<1>2. UNCHANGED <<SnapshotFile, TmpFile, SaveStep, SaveLeft, SaveShot, SaveFile>>
  BY <1>1, SaveAside
<1>3. UNCHANGED <<LogHandle, PendingKeys>> /\ Held(wal') = Held(wal)
  BY <1>1 DEF LogHandle, PendingKeys
<1>4. HeldIn(shards') = HeldIn(shards)
  BY GetMoves
<1> QED BY <1>1, <1>2, <1>3, <1>4 DEF Persistence!vars, SnapshotFile, TmpFile, LogHandle,
    PendingKeys, SaveStep, SaveLeft, SaveShot, SaveFile, Callers, StepName, TmpHandle

LEMMA ImplExpire ==
  ASSUME Types, NEW k \in Keys, Expire(k)
  PROVE  Persistence!Expire(k)
<1>1. /\ phase = "run"
      /\ UNCHANGED <<published, snapshot, wal, phase, pending, saver, spc, left, shot, exposed>>
  BY DEF Expire, files
<1>2. UNCHANGED <<SnapshotFile, TmpFile, SaveStep, SaveLeft, SaveShot, SaveFile>>
  BY <1>1, SaveAside
<1>3. UNCHANGED <<LogHandle, PendingKeys>> /\ Held(wal') = Held(wal)
  BY <1>1 DEF LogHandle, PendingKeys
<1>4. HeldIn(shards') = HeldIn(shards) \ {k} /\ k \in HeldIn(shards)
  BY ExpireTakes
<1> QED BY <1>1, <1>2, <1>3, <1>4 DEF Persistence!Expire, Persistence!files,
    Persistence!saving, SnapshotFile, TmpFile, LogHandle, PendingKeys, SaveStep, SaveLeft,
    SaveShot, SaveFile, Callers, StepName, TmpHandle

\* Cardinality, as CachePersistence has it, is Cardinality.
LEMMA CardinalityIs ==
  ASSUME NEW S
  PROVE  Persistence!Cardinality(S) = Cardinality(S)
BY Zenon DEF Persistence!Cardinality, Cardinality

\* InShard of CachePersistence.
LEMMA InShardIs ==
  ASSUME NEW s \in Lists, NEW i \in Shards, NEW S
  PROVE  /\ Persistence!InShard(HeldIn(s), i) = Held(s[i])
         /\ Persistence!InShard(HeldIn(s) \cup S, i) = Held(s[i]) \cup {k \in S : ShardOf[k] = i}
<1>1. Held(s[i]) = {k \in HeldIn(s) : ShardOf[k] = i}
  BY HeldByShard
<1> QED BY <1>1 DEF Persistence!InShard

\* A Put into a full shard takes the last entry of its list away.
LEMMA PutEvicts ==
  ASSUME Types, NEW w \in Workers, NEW k \in Keys, NEW v \in Answers[k], Put(w, k, v)
  PROVE  HeldIn(shards') \in Persistence!Pushed(k)
<1> DEFINE i == ShardOf[k]
           e == Entry(k, v)
           l == shards[i]
           new == Persistence!InShard(HeldIn(shards) \cup {k}, i)
<1>1. /\ i \in Shards /\ e \in EntryOf(i) /\ e.key = k
      /\ shards' = Changed(shards, i, Pushed(l, e)) /\ shards \in Lists /\ l \in ListOf(i)
  <2>1. /\ i \in Shards /\ e \in EntryOf(i) /\ e.key = k
        /\ shards' = Changed(shards, i, Pushed(l, e))
    BY PutMoves
  <2>2. shards \in Lists
    BY DEF Types
  <2>3. l \in ListOf(i)
    BY <2>1, <2>2, ListsFacts
  <2> QED BY <2>1, <2>2, <2>3
<1>2. new = Held(l) \cup {k} /\ k \in new
  <2>1. {x \in {k} : ShardOf[x] = i} = {k}
    OBVIOUS
  <2>2. new = Held(l) \cup {x \in {k} : ShardOf[x] = i}
    BY <1>1, InShardIs
  <2> QED BY <2>1, <2>2
<1>3. IsFiniteSet(Held(l)) /\ Cardinality(Held(l)) = Len(l) /\ Len(l) \in Nat /\ Len(l) <= Capacity
  BY <1>1, ListOfIsList, ListFacts
<1>9. i = ShardOf[k]
  OBVIOUS
<1> HIDE DEF e, l, i
<1> DEFINE m == Pushed(l, e)
<1>4. m \in ListOf(i)
  BY <1>1, PushedIsList
<1>5. /\ k \in Held(l) \/ Len(l) < Capacity => Held(m) = Held(l) \cup {k}
      /\ k \notin Held(l) /\ Len(l) = Capacity =>
           /\ Held(m) = (Held(l) \cup {k}) \ {l[Capacity].key}
           /\ l[Capacity].key \in Held(l)
  BY <1>1, PushedHeld
<1> HIDE DEF m
<1>6. /\ HeldIn(shards') \subseteq Keys
      /\ \A x \in Keys : x \in HeldIn(shards') <=> IF ShardOf[x] = i THEN x \in Held(m)
                                                      ELSE x \in HeldIn(shards)
  <2> DEFINE r == Changed(shards, i, m)
  <2>1. /\ HeldIn(r) \subseteq Keys
        /\ \A x \in Keys : x \in HeldIn(r) <=> IF ShardOf[x] = i THEN x \in Held(m)
                                                   ELSE x \in HeldIn(shards)
    BY <1>1, <1>4, OneList
  <2>2. shards' = r
    BY <1>1 DEF m
  <2> HIDE DEF r
  <2> QED BY <2>1, <2>2
<1>7. /\ HeldIn(shards) \subseteq Keys
      /\ \A x \in Keys : x \in HeldIn(shards) <=> x \in Held(shards[ShardOf[x]])
      /\ Held(l) = {x \in HeldIn(shards) : ShardOf[x] = i}
  BY <1>1, HeldByShard DEF l
<1>10. \A x \in Keys : ShardOf[x] = i => (x \in HeldIn(shards) <=> x \in Held(l))
  BY <1>7 DEF l
<1>8. CASE k \in Held(l) \/ Len(l) < Capacity
  <2>1. HeldIn(shards') = HeldIn(shards) \cup {k}
    BY <1>5, <1>6, <1>7, <1>8, <1>9
  <2>2. Cardinality(Held(l) \cup {k}) <= Capacity
    <3>1. Cardinality(Held(l) \cup {k}) = IF k \in Held(l) THEN Len(l) ELSE Len(l) + 1
      BY <1>3, FS_AddElement
    <3>2. Capacity \in Nat
      OBVIOUS
    <3> QED BY <1>3, <1>8, <3>1, <3>2
  <2>3. Cardinality(new) <= Capacity
    BY <1>2, <2>2
  <2> QED BY <2>1, <2>3, CardinalityIs DEF Persistence!Pushed, i
<1>11. CASE k \notin Held(l) /\ Len(l) = Capacity
  <2> DEFINE old == l[Capacity].key
  <2>1. old \in new \ {k} /\ Held(m) = (Held(l) \cup {k}) \ {old}
    BY <1>2, <1>5, <1>11
  <2>2. old \in Keys /\ ShardOf[old] = i /\ old # k
    BY <1>2, <1>7, <1>11, <2>1
  <2> HIDE DEF old
  <2>3. HeldIn(shards') = (HeldIn(shards) \cup {k}) \ {old}
    BY <1>6, <1>7, <1>9, <1>10, <2>1, <2>2
  <2>4. Cardinality(Held(l) \cup {k}) = Capacity + 1
    BY <1>3, <1>11, FS_AddElement
  <2>5. ~(Cardinality(new) <= Capacity)
    BY <1>2, <2>4
  <2>6. ~(Persistence!Cardinality(new) <= Capacity)
    BY <2>5, CardinalityIs
  <2>7. Persistence!Pushed(k) = {(HeldIn(shards) \cup {k}) \ {x} : x \in new \ {k}}
    BY <2>6 DEF Persistence!Pushed, i
  <2> HIDE DEF new
  <2> QED BY <2>1, <2>3, <2>7
<1>12. (k \in Held(l) \/ Len(l) < Capacity) \/ (k \notin Held(l) /\ Len(l) = Capacity)
  BY <1>3
<1> QED BY <1>8, <1>11, <1>12

LEMMA ImplPut ==
  ASSUME Types, NEW w \in Workers, NEW k \in Keys, NEW v \in Answers[k], Put(w, k, v)
  PROVE  Persistence!Put(w, k)
<1>1. /\ phase = "run" /\ pending[w] = <<>>
      /\ pending' = [pending EXCEPT ![w] = <<Entry(k, v)>>]
      /\ UNCHANGED <<published, snapshot, wal, phase, saver, spc, left, exposed>>
  BY DEF Put, files
<1>2. HeldIn(shot') = HeldIn(shot)
  BY PutMoves DEF Revalued
<1>3. UNCHANGED <<SnapshotFile, TmpFile, SaveStep, SaveLeft, SaveShot, SaveFile>>
  BY <1>1, <1>2, SaveAside
<1>4. UNCHANGED LogHandle /\ Held(wal') = Held(wal)
  BY <1>1 DEF LogHandle
<1>5. PendingKeys[w] = {} /\ PendingKeys' = [PendingKeys EXCEPT ![w] = {k}]
  <2>1. Held(<<>>) = {} /\ Held(<<Entry(k, v)>>) = {k}
    BY LogEntryIs DEF Held
  <2>2. \A u \in Workers : pending'[u] = IF u = w THEN <<Entry(k, v)>> ELSE pending[u]
    BY <1>1 DEF Types
  <2>3. PendingKeys[w] = {}
    BY <1>1, <2>1 DEF PendingKeys
  <2>4. PendingKeys' = [u \in Workers |-> Held(pending'[u])]
    BY DEF PendingKeys
  <2>5. \A u \in Workers : Held(pending'[u]) = IF u = w THEN {k} ELSE Held(pending[u])
    BY <2>1, <2>2
  <2>6. [PendingKeys EXCEPT ![w] = {k}] = [u \in Workers |-> IF u = w THEN {k} ELSE Held(pending[u])]
    BY DEF PendingKeys
  <2> QED BY <2>3, <2>4, <2>5, <2>6
<1>6. HeldIn(shards') \in Persistence!Pushed(k)
  BY PutEvicts
<1> QED BY <1>1, <1>3, <1>4, <1>5, <1>6 DEF Persistence!Put, Persistence!files,
    Persistence!saving, SnapshotFile, TmpFile, LogHandle, PendingKeys, SaveStep, SaveLeft,
    SaveShot, SaveFile, Callers, StepName, TmpHandle

LEMMA HeldAppend ==
  ASSUME NEW l \in Seq(Entries), NEW e \in Entries
  PROVE  Held(l \o <<e>>) = Held(l) \cup {e.key}
<1> DEFINE c == l \o <<e>>
<1>1. /\ Len(l) \in Nat /\ DOMAIN l = 1..Len(l) /\ DOMAIN c = 1..(Len(l) + 1)
      /\ \A n \in 1..Len(l) : c[n] = l[n]
      /\ c[Len(l) + 1] = e
  OBVIOUS
<1> HIDE DEF c
<1>2. Held(c) \subseteq Held(l) \cup {e.key}
  <2> SUFFICES ASSUME NEW n \in DOMAIN c PROVE c[n].key \in Held(l) \cup {e.key}
    BY DEF Held
  <2>1. CASE n = Len(l) + 1
    BY <1>1, <2>1
  <2>2. CASE n \in 1..Len(l)
    BY <1>1, <2>2 DEF Held
  <2> QED BY <1>1, <2>1, <2>2
<1>3. Held(l) \subseteq Held(c)
  <2> SUFFICES ASSUME NEW n \in DOMAIN l PROVE l[n].key \in Held(c)
    BY DEF Held
  <2>1. n \in DOMAIN c /\ c[n] = l[n]
    BY <1>1
  <2> QED BY <2>1 DEF Held
<1>4. e.key \in Held(c)
  <2>1. Len(l) + 1 \in DOMAIN c
    BY <1>1
  <2> QED BY <1>1, <2>1 DEF Held
<1> QED BY <1>2, <1>3, <1>4 DEF c

LEMMA ImplAppend ==
  ASSUME Types, Steps, NEW w \in Workers, AppendLine(w)
  PROVE  Persistence!Append(w)
<1>1. PICK e \in Entries : \E i \in Shards : AppendsFor(w, e, i)
  BY YetAppend
<1>2. PICK i \in Shards : AppendsFor(w, e, i)
  BY <1>1
<1> DEFINE k == e.key
<1>3. /\ e = pending[w][1] /\ i = ShardOf[k] /\ wal' = wal \o <<e>> /\ pending[w] # <<>>
      /\ pending' = [pending EXCEPT ![w] = <<>>]
      /\ exposed' = IF Passed(i) /\ k \notin Held(shot[i]) THEN exposed \cup {k} ELSE exposed \ {k}
      /\ UNCHANGED <<shards, published, snapshot, phase, saver, spc, left, shot>>
  BY <1>2 DEF AppendLine, AppendsFor, saving
<1>4. Held(wal') = Held(wal) \cup {k}
  <2>1. wal \in Seq(Entries)
    BY LogIsEntries DEF Types
  <2> QED BY <1>3, <2>1, HeldAppend
<1>5. UNCHANGED <<SnapshotFile, TmpFile, SaveStep, SaveLeft, SaveShot, SaveFile>>
  BY <1>3, SaveAside
<1>6. HeldIn(shards') = HeldIn(shards) /\ LogHandle = "open" /\ LogHandle' = "open"
  BY <1>3 DEF LogHandle, Steps
<1>7. PendingKeys[w] = {k} /\ PendingKeys' = [PendingKeys EXCEPT ![w] = {}]
  <2>1. Held(<<>>) = {}
    BY DEF Held
  <2>2. \A u \in Workers : pending'[u] = IF u = w THEN <<>> ELSE pending[u]
    BY <1>3 DEF Types
  <2>3. PendingKeys[w] = {k}
    BY <1>3, PendingIs DEF PendingKeys
  <2>4. PendingKeys' = [u \in Workers |-> Held(pending'[u])]
    BY DEF PendingKeys
  <2>5. \A u \in Workers : Held(pending'[u]) = IF u = w THEN {} ELSE Held(pending[u])
    BY <2>1, <2>2
  <2>6. [PendingKeys EXCEPT ![w] = {}] = [u \in Workers |-> IF u = w THEN {} ELSE Held(pending[u])]
    BY DEF PendingKeys
  <2> QED BY <2>3, <2>4, <2>5, <2>6
<1>8. (\E s \in Callers : /\ SaveStep[s] \in {"collect", "open", "write", "rename", "truncate"}
                          /\ i \notin SaveLeft[s] /\ k \notin SaveShot[s])
        <=> Passed(i) /\ k \notin Held(shot[i])
  <2>1. /\ SaveStep[saver] = StepName /\ SaveLeft[saver] = left
        /\ SaveShot[saver] = HeldIn(shot) /\ saver \in Callers
        /\ \A s \in Callers \ {saver} : SaveStep[s] = "idle"
    BY SaverIs
  <2>2. k \in HeldIn(shot) <=> k \in Held(shot[i])
    <3>1. k \in Keys /\ shot \in Lists
      BY <1>3 DEF Types, Entries
    <3> QED BY <1>3, <3>1, HeldByShard
  <2>3. StepName \in {"collect", "open", "write", "rename", "truncate"}
          <=> spc \in {"collect", "marshal", "write", "rename", "truncate"}
    BY DEF StepName, Types
  <2> QED BY <2>1, <2>2, <2>3 DEF Passed
<1> HIDE DEF k
<1>9. (\E s \in Persistence!Savers : Persistence!Passed(s, k)) <=> Passed(i) /\ k \notin Held(shot[i])
  BY <1>3, <1>8 DEF Persistence!Passed, Persistence!Savers, Callers, SaveStep, SaveLeft, SaveShot, StepName
<1>10. Persistence!Appended(k) = Held(wal) \cup {k}
  BY <1>6 DEF Persistence!Appended, LogHandle
<1> QED BY <1>3, <1>4, <1>5, <1>6, <1>7, <1>9, <1>10 DEF Persistence!Append,
    Persistence!saving, SnapshotFile, TmpFile, LogHandle, PendingKeys, SaveStep, SaveLeft,
    SaveShot, SaveFile, Callers, StepName, TmpHandle

LEMMA ImplStart ==
  ASSUME Types, Steps, NEW s \in {Flusher, Main}, StartSave(s)
  PROVE  Persistence!StartSave(s)
<1>1. /\ spc = "idle" /\ (phase = "final" \/ (s = Flusher /\ phase = "run"))
      /\ saver' = s /\ spc' = "collect" /\ left' = Shards /\ shot' = NoEntries
      /\ UNCHANGED <<shards, published, snapshot, wal, phase, pending, exposed>>
  BY DEF StartSave, files
<1>2. left = {} /\ HeldIn(shot) = {} /\ HeldIn(shot') = {}
  BY <1>1, NoEntriesFacts DEF Steps
<1>3. /\ SaveStep = [v \in Callers |-> "idle"] /\ SaveLeft = [v \in Callers |-> {}]
      /\ SaveShot = [v \in Callers |-> {}] /\ SaveFile = [v \in Callers |-> "none"]
  BY <1>1, <1>2, SaverIs
<1>4. /\ SaveStep' = [v \in Callers |-> IF v = s THEN "collect" ELSE "idle"]
      /\ SaveLeft' = [v \in Callers |-> IF v = s THEN Shards ELSE {}]
      /\ SaveShot' = [v \in Callers |-> {}] /\ SaveFile' = [v \in Callers |-> "none"]
  BY <1>1, <1>2 DEF SaveStep, SaveLeft, SaveShot, SaveFile, ForSaver, StepName, TmpHandle
<1>5. s \in Callers
  BY DEF Callers
<1>6. /\ SaveStep[s] = "idle" /\ SaveStep' = [SaveStep EXCEPT ![s] = "collect"]
      /\ SaveLeft' = [SaveLeft EXCEPT ![s] = Shards]
      /\ SaveShot' = [SaveShot EXCEPT ![s] = {}] /\ SaveFile' = SaveFile
  BY <1>3, <1>4, <1>5
<1>7. UNCHANGED <<SnapshotFile, TmpFile>>
  BY <1>1 DEF SnapshotFile, TmpFile
<1>8. UNCHANGED <<LogHandle, PendingKeys>> /\ Held(wal') = Held(wal) /\ HeldIn(shards') = HeldIn(shards)
  BY <1>1 DEF LogHandle, PendingKeys
<1>9. Persistence!MayStart(s)
  BY <1>1 DEF Persistence!MayStart
<1>10. \A v \in Callers : SaveStep[v] \notin {"collect", "open", "write", "rename"}
  BY <1>3
<1> QED BY <1>1, <1>6, <1>7, <1>8, <1>9, <1>10 DEF Persistence!Unsettled, Persistence!Savers, Persistence!StartSave, Persistence!Step,
    Persistence!files, SnapshotFile, TmpFile, LogHandle, PendingKeys, SaveStep, SaveLeft,
    SaveShot, SaveFile, Callers, StepName, TmpHandle

LEMMA ImplCollect ==
  ASSUME Types, Steps, NEW i \in Shards, CollectShard(i)
  PROVE  Persistence!CollectShard(saver, i)
<1>1. /\ spc = "collect" /\ i \in left /\ (\A j \in left : i <= j)
      /\ left' = left \ {i} /\ spc' = (IF left' = {} THEN "marshal" ELSE "collect")
      /\ UNCHANGED <<shards, published, snapshot, wal, phase, pending, saver, exposed>>
  BY DEF CollectShard, files
<1>2. HeldIn(shot') = HeldIn(shot) \cup {k \in HeldIn(shards) : ShardOf[k] = i}
  <2>1. shards \in Lists /\ HeldIn(shot') = HeldIn(shot) \cup Held(shards[i])
    BY CollectAdds DEF Types
  <2> QED BY <2>1, HeldByShard
<1>3. /\ SaveStep' = [SaveStep EXCEPT ![saver] = StepName']
      /\ SaveLeft' = [SaveLeft EXCEPT ![saver] = left']
      /\ SaveShot' = [SaveShot EXCEPT ![saver] = HeldIn(shot')]
      /\ (spc' = spc => SaveStep' = SaveStep)
      /\ (TmpHandle' = TmpHandle => SaveFile' = SaveFile)
  BY <1>1, SaverMoves
<1>4. /\ SaveStep[saver] = "collect" /\ SaveLeft[saver] = left
      /\ SaveShot[saver] = HeldIn(shot) /\ saver \in Callers
  BY <1>1, SaverIs DEF StepName
<1>5. SaveFile' = SaveFile
  BY <1>1, <1>3 DEF TmpHandle
<1>6. IF left' = {} THEN SaveStep' = [SaveStep EXCEPT ![saver] = "open"] ELSE UNCHANGED SaveStep
  BY <1>1, <1>3 DEF StepName
<1>7. UNCHANGED <<SnapshotFile, TmpFile>>
  BY <1>1 DEF SnapshotFile, TmpFile
<1>8. UNCHANGED <<LogHandle, PendingKeys>> /\ Held(wal') = Held(wal) /\ HeldIn(shards') = HeldIn(shards)
  BY <1>1 DEF LogHandle, PendingKeys
<1>9. SaveLeft'[saver] = left' /\ saver' = saver
  BY <1>1, <1>3, <1>4 DEF SaveLeft
<1>10. /\ SaveLeft' = [SaveLeft EXCEPT ![saver] = SaveLeft[saver] \ {i}]
       /\ SaveShot' = [SaveShot EXCEPT ![saver] = SaveShot[saver] \cup
                                                    {k \in HeldIn(shards) : ShardOf[k] = i}]
  BY <1>1, <1>2, <1>3, <1>4
<1> QED BY <1>1, <1>4, <1>5, <1>6, <1>7, <1>8, <1>9, <1>10 DEF Persistence!CollectShard, Persistence!Step,
    Persistence!files, SnapshotFile, TmpFile, LogHandle, PendingKeys, SaveStep, SaveLeft,
    SaveShot, SaveFile, Callers, StepName, TmpHandle

LEMMA ImplOpenTmp ==
  ASSUME Types, OpenTmp
  PROVE  Persistence!OpenTmp(saver)
<1>1. /\ spc = "marshal" /\ spc' = "write"
      /\ UNCHANGED <<shards, published, snapshot, wal, phase, pending, saver, left, shot, exposed>>
  BY DEF OpenTmp
<1>2. /\ SaveStep' = [SaveStep EXCEPT ![saver] = "write"]
      /\ SaveFile' = [SaveFile EXCEPT ![saver] = "tmp"]
      /\ SaveLeft' = SaveLeft /\ SaveShot' = SaveShot
  BY <1>1, SaverMoves DEF StepName, TmpHandle
<1>3. SaveStep[saver] = "open"
  BY <1>1, SaverIs DEF StepName
<1>4. SnapshotFile' = SnapshotFile /\ TmpFile' = File("torn", {})
  BY <1>1 DEF SnapshotFile, TmpFile
<1>5. UNCHANGED <<LogHandle, PendingKeys>> /\ Held(wal') = Held(wal) /\ HeldIn(shards') = HeldIn(shards)
  BY <1>1 DEF LogHandle, PendingKeys
<1> QED BY <1>1, <1>2, <1>3, <1>4, <1>5 DEF Persistence!OpenTmp, Persistence!Step,
    Persistence!Torn, File, SnapshotFile, TmpFile, LogHandle, PendingKeys, SaveStep, SaveLeft,
    SaveShot, SaveFile, Callers, StepName, TmpHandle

LEMMA ImplWriteTmp ==
  ASSUME Types, WriteTmp
  PROVE  Persistence!WriteTmp(saver)
<1>1. /\ spc = "write" /\ spc' = "rename"
      /\ UNCHANGED <<shards, published, snapshot, wal, phase, pending, saver, left, shot, exposed>>
  BY DEF WriteTmp
<1>2. /\ SaveStep' = [SaveStep EXCEPT ![saver] = "rename"]
      /\ SaveFile' = [SaveFile EXCEPT ![saver] = "none"]
      /\ SaveLeft' = SaveLeft /\ SaveShot' = SaveShot
  BY <1>1, SaverMoves DEF StepName, TmpHandle
<1>3. SaveStep[saver] = "write" /\ SaveFile[saver] = "tmp" /\ SaveShot[saver] = HeldIn(shot)
  BY <1>1, SaverIs DEF StepName, TmpHandle
<1>4. /\ SnapshotFile' = SnapshotFile /\ TmpFile = Persistence!Torn
      /\ TmpFile' = Persistence!Whole(HeldIn(shot))
  BY <1>1 DEF SnapshotFile, TmpFile, File, Persistence!Torn, Persistence!Whole
<1>5. UNCHANGED <<LogHandle, PendingKeys>> /\ Held(wal') = Held(wal) /\ HeldIn(shards') = HeldIn(shards)
  BY <1>1 DEF LogHandle, PendingKeys
<1>6. TmpFile' \in Persistence!Written(TmpFile, SaveShot[saver])
  BY <1>3, <1>4 DEF Persistence!Written
<1> QED BY <1>1, <1>2, <1>3, <1>4, <1>5, <1>6 DEF Persistence!WriteTmp, Persistence!Step,
    SnapshotFile, TmpFile, LogHandle, PendingKeys, SaveStep, SaveLeft,
    SaveShot, SaveFile, Callers, StepName, TmpHandle

LEMMA ImplRename ==
  ASSUME Types, Rename
  PROVE  Persistence!Rename(saver)
<1>1. /\ spc = "rename" /\ spc' = "truncate" /\ published' = TRUE /\ snapshot' = shot
      /\ UNCHANGED <<shards, wal, phase, pending, saver, left, shot, exposed>>
  BY DEF Rename
<1>2. /\ SaveStep' = [SaveStep EXCEPT ![saver] = "truncate"]
      /\ SaveFile' = SaveFile /\ SaveLeft' = SaveLeft /\ SaveShot' = SaveShot
  BY <1>1, SaverMoves DEF StepName, TmpHandle
<1>3. SaveStep[saver] = "rename"
  BY <1>1, SaverIs DEF StepName
<1>4. /\ SnapshotFile' = File("whole", HeldIn(shot)) /\ TmpFile = File("whole", HeldIn(shot))
      /\ TmpFile' = File("absent", {})
  BY <1>1 DEF SnapshotFile, TmpFile
<1>5. UNCHANGED <<LogHandle, PendingKeys>> /\ Held(wal') = Held(wal) /\ HeldIn(shards') = HeldIn(shards)
  BY <1>1 DEF LogHandle, PendingKeys
<1>6. SaveFile = [v \in Callers |-> "none"]
  BY <1>1 DEF SaveFile, ForSaver, TmpHandle
<1>7. SaveFile' = Persistence!Moved(saver)
  <2>1. Persistence!Moved(saver) = [v \in Callers |-> CASE SaveFile[v] = "tmp" -> "snapshot"
                                                   [] SaveFile[v] = "snapshot" -> "replaced"
                                                   [] OTHER -> SaveFile[v]]
    BY DEF Persistence!Moved, Persistence!Savers, Callers, SaveFile, TmpHandle
  <2>2. Persistence!Moved(saver) = [v \in Callers |-> "none"]
    BY <1>6, <2>1
  <2> QED BY <1>2, <1>6, <2>2
<1>8. TmpFile # Persistence!Absent /\ TmpFile' = Persistence!Absent /\ SnapshotFile' = TmpFile
  BY <1>4 DEF Persistence!Absent, File
<1> QED BY <1>1, <1>2, <1>3, <1>5, <1>7, <1>8 DEF Persistence!Rename, Persistence!Step,
    SnapshotFile, TmpFile, LogHandle, PendingKeys, SaveStep, SaveLeft,
    SaveShot, SaveFile, Callers, StepName, TmpHandle

LEMMA ImplTruncate ==
  ASSUME Types, Steps, Truncate
  PROVE  Persistence!Truncate(saver)
<1>1. /\ spc = "truncate" /\ spc' = "saved" /\ wal' = <<>> /\ exposed' = exposed \ HeldIn(shot)
      /\ UNCHANGED <<shards, published, snapshot, phase, pending, saver, left, shot>>
  BY DEF Truncate
<1>2. /\ SaveStep' = [SaveStep EXCEPT ![saver] = "saved"]
      /\ SaveFile' = SaveFile /\ SaveLeft' = SaveLeft /\ SaveShot' = SaveShot
  BY <1>1, SaverMoves DEF StepName, TmpHandle
<1>3. SaveStep[saver] = "truncate" /\ SaveShot[saver] = HeldIn(shot)
  BY <1>1, SaverIs DEF StepName
<1>4. SnapshotFile' = SnapshotFile /\ TmpFile' = TmpFile
  BY <1>1 DEF SnapshotFile, TmpFile
<1>5. /\ PendingKeys' = PendingKeys /\ HeldIn(shards') = HeldIn(shards)
      /\ Held(wal') = {} /\ LogHandle' = "open"
  <2>1. phase # "off"
    BY <1>1 DEF Steps
  <2> QED BY <1>1, <2>1 DEF LogHandle, PendingKeys, Held
<1> QED BY <1>1, <1>2, <1>3, <1>4, <1>5 DEF Persistence!Truncate, Persistence!Step,
    SnapshotFile, TmpFile, LogHandle, PendingKeys, SaveStep, SaveLeft,
    SaveShot, SaveFile, Callers, StepName, TmpHandle

LEMMA ImplReturns ==
  ASSUME Types, SaveReturns
  PROVE  Persistence!SaveReturns(saver)
<1>1. /\ spc = "saved" /\ saver = Flusher /\ spc' = "idle" /\ shot' = NoEntries
      /\ UNCHANGED <<shards, published, snapshot, wal, phase, pending, saver, left, exposed>>
  BY DEF SaveReturns, files
<1>2. /\ SaveStep' = [SaveStep EXCEPT ![saver] = "idle"]
      /\ SaveShot' = [SaveShot EXCEPT ![saver] = {}]
      /\ SaveFile' = SaveFile /\ SaveLeft' = SaveLeft
  BY <1>1, NoEntriesFacts, SaverMoves DEF StepName, TmpHandle
<1>3. SaveStep[saver] = "saved"
  BY <1>1, SaverIs DEF StepName
<1>4. SnapshotFile' = SnapshotFile /\ TmpFile' = TmpFile
  BY <1>1 DEF SnapshotFile, TmpFile
<1>5. UNCHANGED <<LogHandle, PendingKeys>> /\ Held(wal') = Held(wal) /\ HeldIn(shards') = HeldIn(shards)
  BY <1>1 DEF LogHandle, PendingKeys
<1> QED BY <1>1, <1>2, <1>3, <1>4, <1>5 DEF Persistence!SaveReturns, Persistence!Step,
    Persistence!files, SnapshotFile, TmpFile, LogHandle, PendingKeys, SaveStep, SaveLeft,
    SaveShot, SaveFile, Callers, StepName, TmpHandle

LEMMA ImplStop ==
  ASSUME Types, Stop
  PROVE  Persistence!Stop
<1>1. /\ phase # "off" /\ phase' = "off" /\ shards' = NoEntries /\ exposed' = {}
      /\ pending' = [w \in Workers |-> <<>>] /\ spc' = "idle" /\ left' = {} /\ shot' = NoEntries
      /\ UNCHANGED <<published, snapshot, wal>>
  BY DEF Stop, files
<1>2. HeldIn(shards') = {} /\ HeldIn(shot') = {} /\ Held(<<>>) = {}
  BY <1>1, NoEntriesFacts DEF Held
<1>3. /\ SaveStep' = [s \in Callers |-> "idle"] /\ SaveLeft' = [s \in Callers |-> {}]
      /\ SaveShot' = [s \in Callers |-> {}] /\ SaveFile' = [s \in Callers |-> "none"]
  BY <1>1, <1>2 DEF SaveStep, SaveLeft, SaveShot, SaveFile, ForSaver, StepName, TmpHandle
<1>4. SnapshotFile' = SnapshotFile /\ TmpFile' = File("absent", {})
  BY <1>1 DEF SnapshotFile, TmpFile
<1>5. LogHandle' = "nil" /\ PendingKeys' = [w \in Workers |-> {}] /\ Held(wal') = Held(wal)
  BY <1>1, <1>2 DEF LogHandle, PendingKeys
<1> QED BY <1>1, <1>2, <1>3, <1>4, <1>5 DEF Persistence!Stop, Persistence!Savers,
    Persistence!Absent, File, SnapshotFile, TmpFile, LogHandle, PendingKeys, SaveStep, SaveLeft,
    SaveShot, SaveFile, Callers, StepName, TmpHandle

\* What Load builds fills every shard up to its capacity.
LEMMA RebuiltFits ==
  ASSUME Types
  PROVE  HeldIn(Rebuilt) \in Persistence!Fits(HeldIn(snapshot) \cup Held(wal))
<1> DEFINE S == HeldIn(snapshot) \cup Held(wal)
           M == HeldIn(Rebuilt)
           all(i) == Held(snapshot[i]) \cup KeysOf(wal, Len(wal), i)
<1>1. snapshot \in Lists /\ wal \in Seq(Entries) /\ Rebuilt \in Lists
  BY LogIsEntries, RebuildType DEF Types, Rebuilt
<1>2. ASSUME NEW i \in Shards
      PROVE  Persistence!InShard(S, i) = all(i)
  <2>1. Persistence!InShard(S, i) = Held(snapshot[i]) \cup {k \in Held(wal) : ShardOf[k] = i}
    BY <1>1, InShardIs
  <2>2. {k \in Held(wal) : ShardOf[k] = i} = KeysOf(wal, Len(wal), i)
    <3>1. DOMAIN wal = 1..Len(wal)
      BY <1>1
    <3> QED BY <3>1 DEF Held, KeysOf
  <2> QED BY <2>1, <2>2
<1>3. ASSUME NEW i \in Shards
      PROVE  /\ Persistence!InShard(M, i) = Held(Rebuilt[i])
             /\ Held(Rebuilt[i]) \subseteq all(i)
             /\ Len(Rebuilt[i]) = Capacity \/ Held(Rebuilt[i]) = all(i)
             /\ Cardinality(Held(Rebuilt[i])) = Len(Rebuilt[i])
             /\ Len(Rebuilt[i]) \in Nat /\ Len(Rebuilt[i]) <= Capacity
             /\ IsFiniteSet(all(i))
  <2>1. Persistence!InShard(M, i) = Held(Rebuilt[i])
    BY <1>1, InShardIs
  <2>2. /\ Held(Rebuild(snapshot, wal)[i]) \subseteq all(i)
        /\ Len(Rebuild(snapshot, wal)[i]) = Capacity \/ Held(Rebuild(snapshot, wal)[i]) = all(i)
    BY <1>1, RebuiltHeld
  <2>3. Rebuilt[i] \in ListOf(i) /\ snapshot[i] \in ListOf(i)
    BY <1>1, ListsFacts
  <2>4. /\ Cardinality(Held(Rebuilt[i])) = Len(Rebuilt[i])
        /\ Len(Rebuilt[i]) \in Nat /\ Len(Rebuilt[i]) <= Capacity
        /\ IsFiniteSet(Held(snapshot[i]))
    BY <2>3, ListOfIsList, ListFacts
  <2>5. IsFiniteSet(KeysOf(wal, Len(wal), i))
    <3> DEFINE T == {j \in 1..Len(wal) : ShardOf[wal[j].key] = i}
    <3>1. IsFiniteSet(1..Len(wal)) /\ T \subseteq 1..Len(wal)
      BY <1>1, FS_Interval
    <3>2. IsFiniteSet(T)
      BY <3>1, FS_Subset
    <3> DEFINE f == [n \in T |-> wal[n].key]
               G == KeysOf(wal, Len(wal), i)
    <3>3. f \in Surjection(T, G)
      BY DEF KeysOf, Surjection
    <3> HIDE DEF T, f, G
    <3>5. IsFiniteSet(G)
      BY <3>2, <3>3, FS_Surjection
    <3> QED BY <3>5 DEF G
  <2>6. IsFiniteSet(all(i))
    BY <2>4, <2>5, FS_Union
  <2> QED BY <2>1, <2>2, <2>4, <2>6 DEF Rebuilt
<1>4. M \in SUBSET S
  <2> SUFFICES ASSUME NEW k \in M PROVE k \in S
    OBVIOUS
  <2>1. k \in Keys /\ k \in Held(Rebuilt[ShardOf[k]]) /\ ShardOf[k] \in Shards
    BY <1>1, HeldByShard
  <2>2. k \in all(ShardOf[k])
    BY <1>3, <2>1
  <2>3. Persistence!InShard(S, ShardOf[k]) = all(ShardOf[k])
    BY <1>2, <2>1
  <2>4. Persistence!InShard(S, ShardOf[k]) \subseteq S
    BY DEF Persistence!InShard
  <2> QED BY <2>2, <2>3, <2>4
<1>5. ASSUME NEW i \in Shards
      PROVE  Persistence!Cardinality(Persistence!InShard(M, i)) =
               IF Persistence!Cardinality(Persistence!InShard(S, i)) <= Capacity
               THEN Persistence!Cardinality(Persistence!InShard(S, i)) ELSE Capacity
  <2> DEFINE A == all(i)
             H == Held(Rebuilt[i])
             n == Len(Rebuilt[i])
  <2>1. /\ Persistence!InShard(M, i) = H /\ Persistence!InShard(S, i) = A
        /\ H \subseteq A /\ (n = Capacity \/ H = A) /\ Cardinality(H) = n
        /\ n \in Nat /\ n <= Capacity /\ IsFiniteSet(A)
    BY <1>2, <1>3
  <2> HIDE DEF A, H, n, M, S
  <2>2. Cardinality(A) \in Nat /\ n <= Cardinality(A) /\ (H # A => n < Cardinality(A))
    BY <2>1, FS_CardinalityType, FS_Subset
  <2>3. n = IF Cardinality(A) <= Capacity THEN Cardinality(A) ELSE Capacity
    BY <2>1, <2>2
  <2> QED BY <2>1, <2>3, CardinalityIs
<1> HIDE DEF S, M
<1>6. M \in Persistence!Fits(S)
  BY <1>4, <1>5 DEF Persistence!Fits
<1> QED BY <1>6 DEF S, M

LEMMA ImplLoad ==
  ASSUME Types, Steps, Load
  PROVE  Persistence!Load
<1>1. /\ phase = "off" /\ phase' = "run" /\ shards' = Rebuilt /\ exposed = {} /\ spc = "idle"
      /\ UNCHANGED <<published, snapshot, wal, pending, saver, spc, left, shot, exposed>>
  BY DEF Load, files, saving, Steps
<1>2. UNCHANGED <<SnapshotFile, TmpFile, SaveStep, SaveLeft, SaveShot, SaveFile>>
  BY <1>1, SaveAside
<1>3. LogHandle' = "open" /\ PendingKeys' = PendingKeys /\ Held(wal') = Held(wal)
  BY <1>1 DEF LogHandle, PendingKeys
<1>4. SnapshotFile.keys = HeldIn(snapshot) /\ SnapshotFile # Persistence!Torn
  <2>1. ~published => HeldIn(snapshot) = {}
    BY NoEntriesFacts DEF Steps
  <2> QED BY <2>1 DEF SnapshotFile, File, Persistence!Torn
<1>5. HeldIn(shards') \in Persistence!Fits(Persistence!Recoverable)
  <2>1. HeldIn(Rebuilt) \in Persistence!Fits(HeldIn(snapshot) \cup Held(wal))
    BY RebuiltFits
  <2>2. Persistence!Recoverable = HeldIn(snapshot) \cup Held(wal)
    BY <1>4 DEF Persistence!Recoverable, SnapshotFile
  <2> QED BY <1>1, <2>1, <2>2
<1> QED BY <1>1, <1>2, <1>3, <1>4, <1>5 DEF Persistence!Load, Persistence!files,
    Persistence!saving, SnapshotFile, TmpFile, LogHandle, PendingKeys, SaveStep, SaveLeft,
    SaveShot, SaveFile, Callers, StepName, TmpHandle

LEMMA ImplNext ==
  ASSUME Types, Steps, [Next]_vars
  PROVE  [Persistence!Next]_Persistence!vars
<1>0. saver \in {Flusher, Main}
  BY DEF Types
<1>1. CASE Load
  BY <1>1, ImplLoad DEF Persistence!Next
<1>2. ASSUME NEW k \in Keys, Get(k) PROVE UNCHANGED Persistence!vars
  BY <1>2, ImplGet
<1>3. ASSUME NEW k \in Keys, Expire(k) PROVE Persistence!Next
  BY <1>3, ImplExpire DEF Persistence!Next
<1>4. ASSUME NEW k \in Keys, NEW w \in Workers, NEW v \in Answers[k], Put(w, k, v)
      PROVE  Persistence!Next
  BY <1>4, ImplPut DEF Persistence!Next
<1>5. ASSUME NEW w \in Workers, AppendLine(w) PROVE Persistence!Next
  BY <1>5, ImplAppend DEF Persistence!Next
<1>6. CASE WorkersDone
  BY <1>6, ImplWorkersDone DEF Persistence!Next
<1>7. ASSUME NEW s \in {Flusher, Main}, StartSave(s) PROVE Persistence!Next
  BY <1>7, ImplStart DEF Persistence!Next, Persistence!Save, Persistence!Savers
<1>8. ASSUME NEW i \in Shards, CollectShard(i) PROVE Persistence!Next
  BY <1>0, <1>8, ImplCollect DEF Persistence!Next, Persistence!Save, Persistence!Savers
<1>9. CASE OpenTmp
  BY <1>0, <1>9, ImplOpenTmp DEF Persistence!Next, Persistence!Save, Persistence!Savers
<1>10. CASE WriteTmp
  BY <1>0, <1>10, ImplWriteTmp DEF Persistence!Next, Persistence!Save, Persistence!Savers
<1>11. CASE Rename
  BY <1>0, <1>11, ImplRename DEF Persistence!Next, Persistence!Save, Persistence!Savers
<1>12. CASE Truncate
  BY <1>0, <1>12, ImplTruncate DEF Persistence!Next, Persistence!Save, Persistence!Savers
<1>13. CASE SaveReturns
  BY <1>0, <1>13, ImplReturns DEF Persistence!Next, Persistence!Save, Persistence!Savers
<1>14. CASE Stop
  BY <1>14, ImplStop DEF Persistence!Next
<1>15. CASE UNCHANGED vars
  <2>1. UNCHANGED <<published, snapshot, saver, spc, left, shot, wal, pending, phase, shards, exposed>>
    BY <1>15 DEF vars
  <2>2. UNCHANGED <<SnapshotFile, TmpFile, SaveStep, SaveLeft, SaveShot, SaveFile>>
    BY <2>1, SaveAside
  <2>3. UNCHANGED <<LogHandle, PendingKeys>> /\ Held(wal') = Held(wal) /\ HeldIn(shards') = HeldIn(shards)
    BY <2>1 DEF LogHandle, PendingKeys
  <2>4. UNCHANGED Persistence!vars
    BY <2>1, <2>2, <2>3 DEF Persistence!vars, SnapshotFile, TmpFile, LogHandle, PendingKeys, SaveStep, SaveLeft,
    SaveShot, SaveFile, Callers, StepName, TmpHandle
  <2> QED BY <2>4
<1> QED
  BY <1>1, <1>2, <1>3, <1>4, <1>5, <1>6, <1>7, <1>8, <1>9, <1>10, <1>11, <1>12, <1>13, <1>14,
     <1>15 DEF Next, Save

\* cache.go:37-43: forgetting values and order, the cache with its shards, its
\* log and its Saves is the one of CachePersistence, step by step, so what is
\* proved there of the loss of entries holds here.
THEOREM CacheImplementsPersistence == Spec => ImplementsPersistence
<1>1. Init => Persistence!Init
  BY ImplInit
<1>2. IInv /\ [Next]_vars => [Persistence!Next]_Persistence!vars
  BY ImplNext DEF IInv
<1> QED BY <1>1, <1>2, IInvAlways, PTL DEF Spec, ImplementsPersistence, Persistence!Spec

=============================================================================
