-------------------------- MODULE PolicyDequeProofs ---------------------------
(***************************************************************************)
(* What the operations of the policy deque do to its elements and to the   *)
(* ring, for every set of values, every capacity and all policies, kinds   *)
(* and priorities.                                                         *)
(***************************************************************************)
EXTENDS PolicyDeque, FiniteSetTheorems, SequenceTheorems, NaturalsInduction,
        WellFoundedInduction, TLAPS

-----------------------------------------------------------------------------
\* Arranging the elements of a sequence.

\* upTo describes a total order on the finite set I.
Total(I, upTo) ==
    /\ IsFiniteSet(I) /\ upTo \in [I -> SUBSET I]
    /\ \A i \in I : i \in upTo[i]
    /\ \A i, j \in I : i # j =>
          \/ j \notin upTo[i] /\ upTo[i] \subseteq upTo[j]
          \/ i \notin upTo[j] /\ upTo[j] \subseteq upTo[i]

\* The places an arrangement takes its elements from: all of I, once each, and
\* in the order upTo describes.
Placing(p, I, upTo) ==
    /\ p \in [1..Cardinality(I) -> I]
    /\ \A i \in I : \E k \in 1..Cardinality(I) : p[k] = i
    /\ \A k, l \in 1..Cardinality(I) : p[k] = p[l] => k = l
    /\ \A k \in 1..Cardinality(I) : Cardinality(upTo[p[k]]) = k
    /\ \A k, l \in 1..Cardinality(I) : k < l => p[k] \in upTo[p[l]]

LEMMA ArrangeFacts ==
    ASSUME NEW I, NEW upTo, Total(I, upTo), NEW s
    PROVE  /\ Cardinality(I) \in Nat
           /\ \E p : /\ Placing(p, I, upTo)
                     /\ Arrange(s, upTo) = [k \in 1..Cardinality(I) |-> s[p[k]]]
<1> DEFINE n == Cardinality(I)
           r == [i \in I |-> Cardinality(upTo[i])]
           p == [k \in 1..n |-> CHOOSE i \in I : Cardinality(upTo[i]) = k]
<1>0. IsFiniteSet(I) /\ n \in Nat /\ DOMAIN upTo = I
  BY FS_CardinalityType DEF Total
<1>1. ASSUME NEW i \in I
      PROVE  IsFiniteSet(upTo[i]) /\ Cardinality(upTo[i]) \in 1..n
  <2>1. IsFiniteSet(upTo[i]) /\ Cardinality(upTo[i]) <= n
    BY <1>0, FS_Subset DEF Total
  <2>2. Cardinality(upTo[i]) \in Nat /\ Cardinality(upTo[i]) # 0
    BY <2>1, FS_CardinalityType, FS_EmptySet DEF Total
  <2> QED BY <1>0, <2>1, <2>2
<1>2. ASSUME NEW i \in I, NEW j \in I, j \notin upTo[i], upTo[i] \subseteq upTo[j]
      PROVE  Cardinality(upTo[i]) # Cardinality(upTo[j])
  <2>1. upTo[i] # upTo[j]
    BY <1>2 DEF Total
  <2> QED BY <1>1, <1>2, <2>1, FS_Subset
<1>3. \A i, j \in I : Cardinality(upTo[i]) = Cardinality(upTo[j]) => i = j
  BY <1>2 DEF Total
<1>4. IsFiniteSet(1..n) /\ Cardinality(1..n) = n
  <2> HIDE DEF n
  <2>1. IsFiniteSet(1..n) /\ Cardinality(1..n) = IF 1 > n THEN 0 ELSE n - 1 + 1
    BY <1>0, FS_Interval
  <2> QED BY <1>0, <2>1
<1>5. ASSUME NEW k \in 1..n, \A i \in I : Cardinality(upTo[i]) # k PROVE FALSE
  <2> DEFINE T == (1..n) \ {k}
  <2>1. r \in [I -> T]
    BY <1>1, <1>5
  <2>2. IsFiniteSet(T) /\ Cardinality(T) = n - 1
    BY <1>4, FS_RemoveElement
  <2>3. Cardinality(T) < Cardinality(I)
    BY <1>0, <2>2
  <2>4. \A i, j \in I : r[i] = r[j] => i = j
    BY <1>3
  <2> HIDE DEF r, T, n
  <2> QED BY <1>0, <2>1, <2>2, <2>3, <2>4, FS_PigeonHole
<1>6. \A k \in 1..n : \E i \in I : Cardinality(upTo[i]) = k
  BY <1>5
<1>8. \A k \in 1..n : p[k] \in I /\ Cardinality(upTo[p[k]]) = k
  BY <1>6
<1>9. \A i \in I : p[Cardinality(upTo[i])] = i
  BY <1>1, <1>3, <1>8
<1>10. Placing(p, I, upTo)
  <2>1. p \in [1..n -> I]
    BY <1>8
  <2> HIDE DEF p, n
  <2>2. ASSUME NEW k \in 1..n, NEW l \in 1..n, k < l
        PROVE  p[k] \in upTo[p[l]]
    <3>1. p[k] \in I /\ p[l] \in I /\ p[k] # p[l] /\ p[k] \in upTo[p[k]]
      BY <1>8, <2>2 DEF Total
    <3>2. ~(upTo[p[l]] \subseteq upTo[p[k]])
      <4> SUFFICES ASSUME upTo[p[l]] \subseteq upTo[p[k]] PROVE FALSE
        OBVIOUS
      <4>1. Cardinality(upTo[p[l]]) <= Cardinality(upTo[p[k]])
        BY <1>1, <3>1, FS_Subset
      <4> QED BY <1>8, <2>2, <4>1
    <3> QED BY <3>1, <3>2 DEF Total
  <2> QED BY <1>1, <1>8, <1>9, <2>1, <2>2 DEF Placing, n
<1>11. Arrange(s, upTo) = [k \in 1..n |-> s[p[k]]]
  BY <1>0 DEF Arrange
<1> QED BY <1>0, <1>10, <1>11

\* t consists of the elements of s at the places p, in their order.
Picks(p, s, t) ==
    /\ p \in [1..Len(t) -> DOMAIN s]
    /\ \A k, l \in 1..Len(t) : k < l => p[k] < p[l]
    /\ \A k \in 1..Len(t) : t[k] = s[p[k]]

\* A function on 1..n with values in S is a sequence.
LEMMA FunctionIsSeq ==
    ASSUME NEW S, NEW n \in Nat, NEW t \in [1..n -> S]
    PROVE  t \in Seq(S) /\ Len(t) = n /\ DOMAIN t = 1..n
OBVIOUS

\* retain keeps the elements at the places I, in their order, and nothing else.
LEMMA RetainFacts ==
    ASSUME NEW S, NEW s \in Seq(S), NEW I \in SUBSET DOMAIN s
    PROVE  /\ Retain(s, I) \in Seq(S) /\ Len(Retain(s, I)) <= Len(s)
           /\ \E p : /\ Picks(p, s, Retain(s, I))
                     /\ \A i \in DOMAIN s :
                           i \in I <=> \E k \in 1..Len(Retain(s, I)) : p[k] = i
           /\ Len(Retain(s, I)) = Len(s) => Retain(s, I) = s
           /\ Len(Retain(s, I)) = Cardinality(I)
<1> DEFINE N == Len(s)
           upTo == [i \in I |-> {j \in I : j <= i}]
           n == Cardinality(I)
           t == Retain(s, I)
<1>0. N \in Nat /\ DOMAIN s = 1..N /\ \A i \in 1..N : s[i] \in S
  BY LenProperties, ElementOfSeq
<1>1. t = Arrange(s, upTo)
  BY DEF Retain
<1>2. IsFiniteSet(1..N) /\ Cardinality(1..N) = N
  <2> HIDE DEF N
  <2>1. IsFiniteSet(1..N) /\ Cardinality(1..N) = IF 1 > N THEN 0 ELSE N - 1 + 1
    BY <1>0, FS_Interval
  <2> QED BY <1>0, <2>1
<1>3. /\ IsFiniteSet(I) /\ n <= N /\ (n = N => I = 1..N) /\ n \in Nat
      /\ I \subseteq 1..N
  <2>1. I \in SUBSET (1..N)
    BY <1>0
  <2> HIDE DEF N
  <2>2. /\ IsFiniteSet(I) /\ Cardinality(I) <= Cardinality(1..N)
        /\ Cardinality(1..N) = Cardinality(I) => 1..N = I
    BY <1>2, <2>1, FS_Subset
  <2> QED BY <1>2, <2>1, <2>2, FS_CardinalityType
<1> HIDE DEF N, t
<1>4. Total(I, upTo)
  <2>1. upTo \in [I -> SUBSET I]
    OBVIOUS
  <2>2. \A i \in I : i \in upTo[i]
    BY <1>3
  <2>3. ASSUME NEW i \in I, NEW j \in I, i # j
        PROVE  \/ j \notin upTo[i] /\ upTo[i] \subseteq upTo[j]
               \/ i \notin upTo[j] /\ upTo[j] \subseteq upTo[i]
    <3>1. \A x \in I : x \in Int
      BY <1>3
    <3>2. CASE i < j
      BY <3>1, <3>2
    <3>3. CASE j < i
      BY <3>1, <3>3
    <3> QED BY <2>3, <3>1, <3>2, <3>3
  <2> QED BY <1>3, <2>1, <2>2, <2>3 DEF Total
<1>5. PICK p : Placing(p, I, upTo) /\ t = [k \in 1..n |-> s[p[k]]]
  <2> HIDE DEF upTo
  <2> QED BY <1>1, <1>4, ArrangeFacts
<1> HIDE DEF n
<1>6. /\ p \in [1..n -> I] /\ \A i \in I : \E k \in 1..n : p[k] = i
      /\ \A k \in 1..n : p[k] \in I /\ p[k] \in 1..N /\ Cardinality(upTo[p[k]]) = k
      /\ \A k, l \in 1..n : p[k] = p[l] => k = l
  BY <1>3, <1>5 DEF Placing, n
<1>7. t \in Seq(S) /\ Len(t) = n /\ DOMAIN t = 1..n
  <2>1. t \in [1..n -> S]
    BY <1>0, <1>5, <1>6
  <2> QED BY <1>3, <2>1, FunctionIsSeq
<1>8. ASSUME NEW k \in 1..n, NEW l \in 1..n, k < l
      PROVE  p[k] < p[l]
  <2>0. p[k] \in I /\ p[l] \in I /\ p[k] \in 1..N /\ p[l] \in 1..N
    BY <1>6
  <2>1. p[k] # p[l] /\ p[k] \in Int /\ p[l] \in Int
    <3>1. k # l
      BY <1>3, <1>8
    <3> QED BY <1>3, <1>6, <2>0, <3>1
  <2>2. p[k] \in upTo[p[l]]
    BY <1>5, <1>8 DEF Placing, n
  <2>3. p[k] <= p[l]
    BY <2>0, <2>2
  <2> QED BY <2>1, <2>3
<1>9. Picks(p, s, t)
  BY <1>0, <1>3, <1>5, <1>6, <1>7, <1>8 DEF Picks
<1>10. \A i \in DOMAIN s : i \in I <=> \E k \in 1..Len(t) : p[k] = i
  BY <1>0, <1>3, <1>6, <1>7
<1>11. ASSUME n = N PROVE t = s
  <2>1. I = 1..N
    BY <1>3, <1>11
  <2>2. ASSUME NEW k \in 1..N PROVE p[k] = k
    <3>1. p[k] \in 1..N /\ Cardinality(upTo[p[k]]) = k
      BY <1>6, <1>11
    <3>2. upTo[p[k]] = 1..p[k]
      <4>1. upTo[p[k]] = {j \in 1..N : j <= p[k]}
        BY <2>1, <3>1
      <4>2. \A j : j \in 1..N /\ j <= p[k] <=> j \in 1..p[k]
        BY <1>0, <3>1
      <4> QED BY <4>1, <4>2
    <3>3. Cardinality(1..p[k]) = p[k]
      <4> DEFINE q == p[k]
      <4>1. q \in Nat
        BY <3>1
      <4> HIDE DEF q
      <4>2. Cardinality(1..q) = IF 1 > q THEN 0 ELSE q - 1 + 1
        BY <4>1, FS_Interval
      <4>3. Cardinality(1..q) = q
        BY <4>1, <4>2
      <4> QED BY <4>3 DEF q
    <3> QED BY <3>1, <3>2, <3>3
  <2>3. t = [k \in 1..N |-> s[k]]
    BY <1>5, <1>11, <2>2
  <2>4. s = [k \in 1..N |-> s[k]]
    BY <1>0
  <2> QED BY <2>3, <2>4
<1> QED BY <1>3, <1>7, <1>9, <1>10, <1>11 DEF N, t, n

\* sort_by moves the elements and keeps them all; better ones come first.
LEMMA SortFacts ==
    ASSUME NEW s \in Seq(Msg)
    PROVE  /\ StableSort(s) \in Seq(Msg) /\ Len(StableSort(s)) = Len(s)
           /\ \E p : /\ p \in [DOMAIN s -> DOMAIN s]
                     /\ \A i \in DOMAIN s : \E k \in DOMAIN s : p[k] = i
                     /\ \A k, l \in DOMAIN s : p[k] = p[l] => k = l
                     /\ \A k \in DOMAIN s : StableSort(s)[k] = s[p[k]]
           /\ \A k, l \in DOMAIN s :
                 k < l => Priority[StableSort(s)[k]] <= Priority[StableSort(s)[l]]
<1> DEFINE N == Len(s)
           I == 1..N
           P(i) == Priority[s[i]]
           upTo == [i \in I |-> {j \in I : P(j) < P(i) \/ (P(j) = P(i) /\ j <= i)}]
           t == StableSort(s)
<1>0. N \in Nat /\ DOMAIN s = I /\ \A i \in I : s[i] \in Msg /\ P(i) \in Nat
  BY LenProperties, ElementOfSeq, PolicyAssumption
<1>1. t = Arrange(s, upTo)
  BY <1>0 DEF StableSort
<1>2. IsFiniteSet(I) /\ Cardinality(I) = N
  <2> HIDE DEF N
  <2>1. IsFiniteSet(1..N) /\ Cardinality(1..N) = IF 1 > N THEN 0 ELSE N - 1 + 1
    BY <1>0, FS_Interval
  <2> QED BY <1>0, <2>1
<1> HIDE DEF N, P, t
<1>3. Total(I, upTo)
  <2>1. upTo \in [I -> SUBSET I]
    OBVIOUS
  <2>2. \A i \in I : i \in upTo[i]
    BY <1>0
  <2>3. ASSUME NEW i \in I, NEW j \in I, i # j
        PROVE  \/ j \notin upTo[i] /\ upTo[i] \subseteq upTo[j]
               \/ i \notin upTo[j] /\ upTo[j] \subseteq upTo[i]
    <3>1. \A x \in I : x \in Int /\ P(x) \in Int
      BY <1>0
    <3>2. CASE P(i) < P(j) \/ (P(i) = P(j) /\ i < j)
      <4>1. ~(P(j) < P(i) \/ (P(j) = P(i) /\ j <= i))
        BY <3>1, <3>2
      <4>2. \A x \in I : P(x) < P(i) \/ (P(x) = P(i) /\ x <= i) =>
                            P(x) < P(j) \/ (P(x) = P(j) /\ x <= j)
        BY <3>1, <3>2
      <4> QED BY <4>1, <4>2
    <3>3. CASE P(j) < P(i) \/ (P(i) = P(j) /\ j < i)
      <4>1. ~(P(i) < P(j) \/ (P(i) = P(j) /\ i <= j))
        BY <3>1, <3>3
      <4>2. \A x \in I : P(x) < P(j) \/ (P(x) = P(j) /\ x <= j) =>
                            P(x) < P(i) \/ (P(x) = P(i) /\ x <= i)
        BY <3>1, <3>3
      <4> QED BY <4>1, <4>2
    <3> QED BY <2>3, <3>1, <3>2, <3>3
  <2> QED BY <1>2, <2>1, <2>2, <2>3 DEF Total
<1>4. PICK p : Placing(p, I, upTo) /\ t = [k \in 1..N |-> s[p[k]]]
  <2> HIDE DEF upTo, I
  <2> QED BY <1>1, <1>2, <1>3, ArrangeFacts
<1>5. /\ p \in [I -> I] /\ \A i \in I : \E k \in I : p[k] = i
      /\ \A k, l \in I : p[k] = p[l] => k = l
      /\ \A k, l \in I : k < l => p[k] \in upTo[p[l]]
  BY <1>2, <1>4 DEF Placing
<1>6. t \in Seq(Msg) /\ Len(t) = N /\ \A k \in I : t[k] = s[p[k]]
  <2>1. t \in [1..N -> Msg]
    BY <1>0, <1>4, <1>5
  <2> QED BY <1>0, <1>4, <2>1, FunctionIsSeq
<1>7. ASSUME NEW k \in I, NEW l \in I, k < l
      PROVE  Priority[t[k]] <= Priority[t[l]]
  <2>1. p[k] \in I /\ p[l] \in I /\ p[k] \in upTo[p[l]]
    BY <1>5, <1>7
  <2>2. P(p[k]) \in Int /\ P(p[l]) \in Int /\ P(p[k]) <= P(p[l])
    BY <1>0, <2>1, SMTT(60)
  <2> QED BY <1>6, <2>2 DEF P
<1>8. \E q : /\ q \in [I -> I]
             /\ \A i \in I : \E k \in I : q[k] = i
             /\ \A k, l \in I : q[k] = q[l] => k = l
             /\ \A k \in I : t[k] = s[q[k]]
  <2> HIDE DEF I
  <2> QED BY <1>5, <1>6
<1> HIDE DEF I
<1> QED BY <1>0, <1>6, <1>7, <1>8, ZenonT(60) DEF N, t

\* Every set of natural numbers has a least one.
LEMMA LeastNatural ==
    ASSUME NEW T \in SUBSET Nat, T # {}
    PROVE  \E n \in T : \A m \in T : n <= m
<1> DEFINE R == OpToRel(<, Nat)
<1>1. \A n, m \in Nat : <<m, n>> \in R <=> m < n
  BY DEF OpToRel
<1>2. \E n \in T : \A m \in T : ~(<<m, n>> \in R)
  BY NatLessThanWellFounded, WFMin
<1> HIDE DEF R
<1>3. PICK n \in T : \A m \in T : ~(<<m, n>> \in R)
  BY <1>2
<1>4. \A m \in T : m \in Nat /\ n \in Nat /\ ~(m < n)
  BY <1>1, <1>3
<1> QED BY <1>4

\* Two picks from the same places agree as far as both go.
LEMMA PicksAgree ==
    ASSUME NEW S, NEW s \in Seq(S), NEW t \in Seq(S), NEW u \in Seq(S),
           NEW p, Picks(p, s, t), NEW q, Picks(q, s, u),
           \A i \in DOMAIN s :
               (\E k \in 1..Len(t) : p[k] = i) <=> (\E k \in 1..Len(u) : q[k] = i)
    PROVE  \A k \in 1..Len(t) : k <= Len(u) => p[k] = q[k]
<1> DEFINE n == Len(t)
           m == Len(u)
           D == {k \in 1..n : k <= m /\ p[k] # q[k]}
<1>0. n \in Nat /\ m \in Nat /\ DOMAIN s \subseteq Int
  BY LenProperties
<1> HIDE DEF n, m
<1>1. /\ \A k \in 1..n : p[k] \in DOMAIN s /\ p[k] \in Int
      /\ \A k \in 1..m : q[k] \in DOMAIN s /\ q[k] \in Int
      /\ \A k, l \in 1..n : k < l => p[k] < p[l]
      /\ \A k, l \in 1..m : k < l => q[k] < q[l]
  BY <1>0 DEF Picks, n, m
<1>2. SUFFICES ASSUME D # {} PROVE FALSE
  BY DEF n, m
<1>3. D \in SUBSET Nat
  BY <1>0
<1> HIDE DEF D
<1>4. PICK k \in D : \A l \in D : k <= l
  BY <1>2, <1>3, LeastNatural
<1>5. k \in 1..n /\ k \in 1..m /\ p[k] # q[k]
  BY <1>0, <1>4 DEF D
<1>6. \A l \in 1..n : l < k => l \in 1..m /\ p[l] = q[l]
  <2> SUFFICES ASSUME NEW l \in 1..n, l < k PROVE l \in 1..m /\ p[l] = q[l]
    OBVIOUS
  <2>1. l \in 1..m
    BY <1>0, <1>5
  <2>2. l \notin D
    BY <1>0, <1>4, <1>5
  <2> QED BY <1>0, <2>1, <2>2 DEF D
<1>7. CASE p[k] < q[k]
  <2>1. PICK l \in 1..m : q[l] = p[k]
    BY <1>1, <1>5 DEF n, m
  <2>2. ~(k < l) /\ k # l
    BY <1>1, <1>5, <1>7, <2>1
  <2>3. l < k /\ l \in 1..n
    BY <1>0, <1>5, <2>2
  <2> QED BY <1>1, <1>5, <1>6, <2>1, <2>3
<1>8. CASE q[k] < p[k]
  <2>1. PICK l \in 1..n : p[l] = q[k]
    BY <1>1, <1>5 DEF n, m
  <2>2. ~(k < l) /\ k # l
    BY <1>1, <1>5, <1>8, <2>1
  <2>3. l < k
    BY <1>0, <1>5, <2>2
  <2> QED BY <1>1, <1>5, <1>6, <2>1, <2>3
<1> QED BY <1>1, <1>5, <1>7, <1>8

\* Neither of them is longer.
LEMMA PicksNotLonger ==
    ASSUME NEW S, NEW s \in Seq(S), NEW t \in Seq(S), NEW u \in Seq(S),
           NEW p, Picks(p, s, t), NEW q, Picks(q, s, u),
           \A i \in DOMAIN s :
               (\E k \in 1..Len(t) : p[k] = i) <=> (\E k \in 1..Len(u) : q[k] = i)
    PROVE  Len(u) <= Len(t)
<1>agree. \A k \in 1..Len(t) : k <= Len(u) => p[k] = q[k]
  BY PicksAgree
<1>0. Len(t) \in Nat /\ Len(u) \in Nat /\ DOMAIN s \subseteq Int
  BY LenProperties
<1> SUFFICES ASSUME Len(t) < Len(u) PROVE FALSE
  BY <1>0
<1>1. Len(u) \in 1..Len(u) /\ \A k \in 1..Len(t) : k \in 1..Len(u) /\ k < Len(u)
  BY <1>0
<1>2. q[Len(u)] \in DOMAIN s
  BY <1>1 DEF Picks
<1>3. PICK k \in 1..Len(t) : p[k] = q[Len(u)]
  BY <1>1, <1>2
<1>4. k \in 1..Len(u) /\ k < Len(u)
  BY <1>1
<1>5. p[k] = q[k]
  BY <1>0, <1>4, <1>agree
<1>6. q[k] < q[Len(u)] /\ q[k] \in Int
  BY <1>0, <1>1, <1>4 DEF Picks
<1> QED BY <1>3, <1>5, <1>6

\* What is picked is determined by the places it is picked from.
LEMMA PicksUnique ==
    ASSUME NEW S, NEW s \in Seq(S), NEW t \in Seq(S), NEW u \in Seq(S),
           NEW p, Picks(p, s, t), NEW q, Picks(q, s, u),
           \A i \in DOMAIN s :
               (\E k \in 1..Len(t) : p[k] = i) <=> (\E k \in 1..Len(u) : q[k] = i)
    PROVE  t = u
<1>0. Len(t) \in Nat /\ Len(u) \in Nat
  BY LenProperties
<1>1. Len(u) <= Len(t)
  BY PicksNotLonger
<1>2. Len(t) <= Len(u)
  <2>1. \A i \in DOMAIN s :
            (\E k \in 1..Len(u) : q[k] = i) <=> (\E k \in 1..Len(t) : p[k] = i)
    OBVIOUS
  <2> QED BY <2>1, PicksNotLonger
<1>3. \A k \in 1..Len(t) : k <= Len(u) => p[k] = q[k]
  BY PicksAgree
<1>4. Len(t) = Len(u)
  BY <1>0, <1>1, <1>2
<1>5. \A k \in 1..Len(t) : t[k] = u[k]
  <2> SUFFICES ASSUME NEW k \in 1..Len(t) PROVE t[k] = u[k]
    OBVIOUS
  <2>1. k \in 1..Len(u) /\ k <= Len(u)
    BY <1>0, <1>4
  <2> QED BY <1>3, <2>1 DEF Picks
<1> QED BY <1>4, <1>5, SeqEqual

\* The places a pick comes from; they determine it.
Places(p, t) == {p[k] : k \in 1..Len(t)}

LEMMA PicksSame ==
    ASSUME NEW S, NEW s \in Seq(S), NEW t \in Seq(S), NEW u \in Seq(S),
           NEW p, Picks(p, s, t), NEW q, Picks(q, s, u), Places(p, t) = Places(q, u)
    PROVE  t = u
<1>1. \A i \in DOMAIN s :
          (\E k \in 1..Len(t) : p[k] = i) <=> (\E k \in 1..Len(u) : q[k] = i)
  BY DEF Places
<1> QED BY <1>1, PicksUnique

\* The whole sequence is a pick from itself.
LEMMA PicksAll ==
    ASSUME NEW S, NEW s \in Seq(S)
    PROVE  Picks([k \in 1..Len(s) |-> k], s, s)
BY LenProperties DEF Picks

\* A pick from s is one from s with a value appended.
LEMMA PicksWider ==
    ASSUME NEW S, NEW s \in Seq(S), NEW t \in Seq(S), NEW v \in S, NEW p, Picks(p, s, t)
    PROVE  Picks(p, Append(s, v), t)
<1> DEFINE w == Append(s, v)
           n == Len(s)
           m == Len(t)
<1>1. /\ n \in Nat /\ DOMAIN s = 1..n /\ DOMAIN w = 1..(n + 1)
      /\ \A i \in 1..n : w[i] = s[i]
  BY LenProperties, AppendProperties
<1>2. /\ p \in [1..m -> 1..n]
      /\ \A k, l \in 1..m : k < l => p[k] < p[l]
      /\ \A k \in 1..m : t[k] = s[p[k]]
  BY <1>1 DEF Picks
<1> HIDE DEF w, n, m
<1>3. p \in [1..m -> DOMAIN w] /\ \A k \in 1..m : t[k] = w[p[k]]
  BY <1>1, <1>2
<1> QED BY <1>2, <1>3 DEF Picks, w, m

\* Appending the same value to both keeps a pick a pick.
LEMMA PicksAppend ==
    ASSUME NEW S, NEW s \in Seq(S), NEW t \in Seq(S), NEW v \in S, NEW p, Picks(p, s, t)
    PROVE  \E q : Picks(q, Append(s, v), Append(t, v))
<1> DEFINE w == Append(s, v)
           u == Append(t, v)
           n == Len(s)
           m == Len(t)
           q == [k \in 1..(m + 1) |-> IF k = m + 1 THEN n + 1 ELSE p[k]]
<1>1. /\ n \in Nat /\ DOMAIN s = 1..n /\ DOMAIN w = 1..(n + 1)
      /\ \A i \in 1..n : w[i] = s[i]
      /\ w[n + 1] = v
  BY LenProperties, AppendProperties
<1>2. /\ m \in Nat /\ Len(u) = m + 1 /\ u[m + 1] = v
      /\ \A i \in 1..m : u[i] = t[i]
  BY LenProperties, AppendProperties
<1>3. /\ p \in [1..m -> 1..n]
      /\ \A k, l \in 1..m : k < l => p[k] < p[l]
      /\ \A k \in 1..m : t[k] = s[p[k]]
  BY <1>1 DEF Picks
<1> HIDE DEF w, n, m, u
<1>4. /\ \A k \in 1..m : q[k] = p[k] /\ q[k] \in 1..n /\ k \in 1..(m + 1)
      /\ q[m + 1] = n + 1 /\ m + 1 \in 1..(m + 1)
      /\ \A k \in 1..(m + 1) : k \in 1..m \/ k = m + 1
  BY <1>1, <1>2, <1>3
<1>5. q \in [1..(m + 1) -> 1..(n + 1)]
  BY <1>1, <1>3, <1>4
<1> HIDE DEF q
<1>6. ASSUME NEW k \in 1..(m + 1), NEW l \in 1..(m + 1), k < l PROVE q[k] < q[l]
  <2>1. k \in 1..m
    BY <1>2, <1>6
  <2>2. CASE l \in 1..m
    BY <1>3, <1>4, <1>6, <2>1, <2>2
  <2>3. CASE l = m + 1
    BY <1>1, <1>4, <2>1, <2>3
  <2> QED BY <1>4, <2>2, <2>3
<1>7. ASSUME NEW k \in 1..(m + 1) PROVE u[k] = w[q[k]]
  <2>1. CASE k \in 1..m
    <3>1. q[k] = p[k] /\ p[k] \in 1..n
      BY <1>4, <2>1
    <3>2. w[p[k]] = s[p[k]]
      BY <1>1, <3>1
    <3> QED BY <1>2, <1>3, <2>1, <3>1, <3>2
  <2>2. CASE k = m + 1
    BY <1>1, <1>2, <1>4, <2>2
  <2> QED BY <1>4, <2>1, <2>2
<1>8. Picks(q, w, u)
  BY <1>1, <1>2, <1>5, <1>6, <1>7 DEF Picks
<1> QED BY <1>8 DEF w, u

\* The elements of a sequence are all different.
Distinct(s) == \A i, j \in DOMAIN s : s[i] = s[j] => i = j

-----------------------------------------------------------------------------
\* Rearranging all of a sequence, and pairs that may not be in it together.

\* t has the elements of s, as often, in some order.
Reorders(s, t) ==
    /\ Len(t) = Len(s)
    /\ \E p \in [1..Len(s) -> 1..Len(s)] :
          /\ \A i \in 1..Len(s) : \E k \in 1..Len(s) : p[k] = i
          /\ \A k, l \in 1..Len(s) : p[k] = p[l] => k = l
          /\ \A k \in 1..Len(s) : t[k] = s[p[k]]

\* The same value twice, or two single-copy values of one kind.
Clash(v, w) == v = w \/ (IsSingle(v) /\ IsSingle(w) /\ EqKind(v, w))

Apart(s) == \A i, j \in DOMAIN s : i # j => ~Clash(s[i], s[j])

LEMMA ReordersSame ==
    ASSUME NEW S, NEW s \in Seq(S)
    PROVE  Reorders(s, s)
<1> DEFINE p == [k \in 1..Len(s) |-> k]
<1>1. /\ p \in [1..Len(s) -> 1..Len(s)]
      /\ \A i \in 1..Len(s) : p[i] = i
  OBVIOUS
<1> HIDE DEF p
<1> QED BY <1>1 DEF Reorders

LEMMA ReordersTrans ==
    ASSUME NEW s, NEW t, NEW u, Reorders(s, t), Reorders(t, u)
    PROVE  Reorders(s, u)
<1> DEFINE N == 1..Len(s)
<1>1. PICK p \in [N -> N] : /\ \A i \in N : \E k \in N : p[k] = i
                            /\ \A k, l \in N : p[k] = p[l] => k = l
                            /\ \A k \in N : t[k] = s[p[k]]
  BY DEF Reorders
<1>2. PICK q \in [N -> N] : /\ \A i \in N : \E k \in N : q[k] = i
                            /\ \A k, l \in N : q[k] = q[l] => k = l
                            /\ \A k \in N : u[k] = t[q[k]]
  <2> DEFINE M == 1..Len(t)
  <2>1. M = N
    BY DEF Reorders
  <2>2. \E q \in [M -> M] : /\ \A i \in M : \E k \in M : q[k] = i
                            /\ \A k, l \in M : q[k] = q[l] => k = l
                            /\ \A k \in M : u[k] = t[q[k]]
    BY DEF Reorders
  <2> HIDE DEF N, M
  <2> QED BY <2>1, <2>2
<1>3. Len(u) = Len(s)
  BY DEF Reorders
<1> DEFINE r == [k \in N |-> p[q[k]]]
<1> HIDE DEF N
<1>4. /\ r \in [N -> N]
      /\ \A k, l \in N : r[k] = r[l] => k = l
      /\ \A k \in N : u[k] = s[r[k]]
  BY <1>1, <1>2, ZenonT(60)
<1>5. ASSUME NEW i \in N PROVE \E k \in N : r[k] = i
  <2>1. PICK j \in N : p[j] = i
    BY <1>1
  <2>2. PICK k \in N : q[k] = j
    BY <1>2
  <2> QED BY <2>1, <2>2
<1> HIDE DEF r
<1> QED BY <1>3, <1>4, <1>5 DEF Reorders, N

\* A rearrangement has the same elements.
LEMMA ReordersElements ==
    ASSUME NEW S, NEW s \in Seq(S), NEW t \in Seq(S), Reorders(s, t)
    PROVE  /\ \A i \in DOMAIN s : \E k \in DOMAIN t : t[k] = s[i]
           /\ \A k \in DOMAIN t : \E i \in DOMAIN s : t[k] = s[i]
<1>1. DOMAIN s = 1..Len(s) /\ DOMAIN t = 1..Len(s)
  BY LenProperties DEF Reorders
<1>2. PICK p \in [1..Len(s) -> 1..Len(s)] :
          /\ \A i \in 1..Len(s) : \E k \in 1..Len(s) : p[k] = i
          /\ \A k \in 1..Len(s) : t[k] = s[p[k]]
  BY DEF Reorders
<1>3. ASSUME NEW i \in 1..Len(s) PROVE \E k \in 1..Len(s) : t[k] = s[i]
  <2>1. PICK k \in 1..Len(s) : p[k] = i
    BY <1>2
  <2>2. t[k] = s[p[k]]
    BY <1>2
  <2> QED BY <2>1, <2>2
<1> QED BY <1>1, <1>2, <1>3

LEMMA ReordersApart ==
    ASSUME NEW S, NEW s \in Seq(S), NEW t \in Seq(S), Reorders(s, t), Apart(s)
    PROVE  Apart(t)
<1>1. DOMAIN s = 1..Len(s) /\ DOMAIN t = 1..Len(s)
  BY LenProperties DEF Reorders
<1>2. PICK p \in [1..Len(s) -> 1..Len(s)] :
          /\ \A k, l \in 1..Len(s) : p[k] = p[l] => k = l
          /\ \A k \in 1..Len(s) : t[k] = s[p[k]]
  BY DEF Reorders
<1> QED BY <1>1, <1>2 DEF Apart

LEMMA PicksApart ==
    ASSUME NEW S, NEW s \in Seq(S), NEW t \in Seq(S), NEW p, Picks(p, s, t), Apart(s)
    PROVE  Apart(t)
<1>1. DOMAIN t = 1..Len(t) /\ Len(t) \in Nat /\ DOMAIN s \subseteq Int
  BY LenProperties
<1> SUFFICES ASSUME NEW k \in 1..Len(t), NEW l \in 1..Len(t), k # l
             PROVE  ~Clash(t[k], t[l])
  BY <1>1 DEF Apart
<1>2. p[k] \in DOMAIN s /\ p[l] \in DOMAIN s /\ t[k] = s[p[k]] /\ t[l] = s[p[l]]
  BY DEF Picks
<1>3. k \in Int /\ l \in Int /\ p[k] \in Int /\ p[l] \in Int
  BY <1>1, <1>2
<1>4. p[k] # p[l]
  <2>1. (k < l => p[k] < p[l]) /\ (l < k => p[l] < p[k])
    BY DEF Picks
  <2> QED BY <1>3, <2>1
<1> QED BY <1>2, <1>4 DEF Apart

\* A value that clashes with no element may be appended.
LEMMA AppendApart ==
    ASSUME NEW s \in Seq(Msg), NEW v \in Msg, Apart(s),
           \A i \in DOMAIN s : ~Clash(s[i], v)
    PROVE  Apart(Append(s, v))
<1> DEFINE w == Append(s, v)
           n == Len(s)
<1>1. /\ n \in Nat /\ DOMAIN s = 1..n /\ DOMAIN w = 1..(n + 1)
      /\ \A i \in 1..n : w[i] = s[i]
      /\ w[n + 1] = v
  BY LenProperties, AppendProperties
<1> HIDE DEF w, n
<1>2. \A i \in 1..(n + 1) : i \in 1..n \/ i = n + 1
  BY <1>1
<1>3. \A i \in 1..n : ~Clash(w[i], v) /\ ~Clash(v, w[i])
  BY <1>1 DEF Clash, EqKind
<1>4. \A i, j \in DOMAIN w : i # j => ~Clash(w[i], w[j])
  BY <1>1, <1>2, <1>3 DEF Apart
<1> QED BY <1>4 DEF Apart, w

-----------------------------------------------------------------------------
\* The ring.

\* The head stays a slot of the ring.
LEMMA ModRange ==
    ASSUME NEW a \in Nat
    PROVE  a % Capacity \in 0..(Capacity - 1)
BY CapacityAssumption

LEMMA ModAround ==
    ASSUME NEW a \in 0..(Capacity - 1)
    PROVE  (a + Capacity) % Capacity = a /\ a % Capacity = a
BY CapacityAssumption

\* sort_by rearranges.
LEMMA SortReorders ==
    ASSUME NEW s \in Seq(Msg)
    PROVE  StableSort(s) \in Seq(Msg) /\ Reorders(s, StableSort(s))
<1>1. DOMAIN s = 1..Len(s)
  BY LenProperties
<1>2. StableSort(s) \in Seq(Msg) /\ Len(StableSort(s)) = Len(s)
  BY SortFacts
<1>3. PICK p : /\ p \in [DOMAIN s -> DOMAIN s]
               /\ \A i \in DOMAIN s : \E k \in DOMAIN s : p[k] = i
               /\ \A k, l \in DOMAIN s : p[k] = p[l] => k = l
               /\ \A k \in DOMAIN s : StableSort(s)[k] = s[p[k]]
  BY SortFacts
<1>4. /\ p \in [1..Len(s) -> 1..Len(s)]
      /\ \A i \in 1..Len(s) : \E k \in 1..Len(s) : p[k] = i
      /\ \A k, l \in 1..Len(s) : p[k] = p[l] => k = l
      /\ \A k \in 1..Len(s) : StableSort(s)[k] = s[p[k]]
  BY <1>1, <1>3
<1> QED BY <1>2, <1>4 DEF Reorders

\* rotate_right rearranges.
LEMMA RotateReorders ==
    ASSUME NEW S, NEW d, d.data \in Seq(S), NEW n \in 0..Len(d.data)
    PROVE  RotateRight(d, n).data \in Seq(S) /\ Reorders(d.data, RotateRight(d, n).data)
<1> DEFINE s == d.data
           N == Len(s)
           k == N - n
           a == SubSeq(s, k + 1, k + n)
           b == SubSeq(s, 1, k)
           t == a \o b
           p == [i \in 1..N |-> IF i <= n THEN i + k ELSE i - n]
<1>0. N \in Nat /\ n \in 0..N /\ \A i \in 1..N : s[i] \in S
  BY LenProperties, ElementOfSeq
<1>1. RotateRight(d, n).data = t
  BY DEF RotateRight
<1>2. a \in Seq(S) /\ Len(a) = n /\ \A i \in 1..n : a[i] = s[i + k]
  <2>1. \A i \in (k + 1)..(k + n) : s[i] \in S
    BY <1>0
  <2>2. k + 1 \in Int /\ k + n \in Int
    BY <1>0
  <2>3. /\ a \in Seq(S)
        /\ Len(a) = IF k + 1 <= k + n THEN (k + n) - (k + 1) + 1 ELSE 0
        /\ \A i \in 1..((k + n) - (k + 1) + 1) : a[i] = s[(k + 1) + i - 1]
    BY <2>1, <2>2, SubSeqProperties
  <2>4. \A i \in 1..n : i \in 1..((k + n) - (k + 1) + 1) /\ (k + 1) + i - 1 = i + k
    BY <1>0
  <2>5. \A i \in 1..n : a[i] = s[i + k]
    <3> HIDE DEF a, s, N, k
    <3> QED BY <2>3, <2>4
  <2>6. Len(a) = n
    <3> HIDE DEF a, s
    <3> QED BY <1>0, <2>3
  <2> QED BY <2>3, <2>5, <2>6
<1>3. b \in Seq(S) /\ Len(b) = k /\ \A i \in 1..k : b[i] = s[i]
  <2>1. \A i \in 1..k : s[i] \in S
    BY <1>0
  <2>2. 1 \in Int /\ k \in Int
    BY <1>0
  <2>3. /\ b \in Seq(S)
        /\ Len(b) = IF 1 <= k THEN k - 1 + 1 ELSE 0
        /\ \A i \in 1..(k - 1 + 1) : b[i] = s[1 + i - 1]
    BY <2>1, <2>2, SubSeqProperties
  <2> HIDE DEF b
  <2> QED BY <1>0, <2>3
<1> HIDE DEF a, b, s, N
<1>4. /\ t \in Seq(S) /\ Len(t) = Len(a) + Len(b)
      /\ \A i \in 1..(Len(a) + Len(b)) : t[i] = IF i <= Len(a) THEN a[i] ELSE b[i - Len(a)]
  BY <1>2, <1>3, ConcatProperties
<1> HIDE DEF t
<1>5. Len(t) = N
  BY <1>0, <1>2, <1>3, <1>4
<1>6. p \in [1..N -> 1..N] /\ \A i, j \in 1..N : p[i] = p[j] => i = j
  BY <1>0
<1>7. ASSUME NEW i \in 1..N PROVE \E j \in 1..N : p[j] = i
  <2>1. CASE i <= k
    <3>1. i + n \in 1..N /\ p[i + n] = i
      BY <1>0, <2>1
    <3> QED BY <3>1
  <2>2. CASE ~(i <= k)
    <3>1. i - k \in 1..N /\ p[i - k] = i
      BY <1>0, <2>2
    <3> QED BY <3>1
  <2> QED BY <2>1, <2>2
<1>8. ASSUME NEW i \in 1..N PROVE t[i] = s[p[i]]
  <2>1. t[i] = IF i <= n THEN a[i] ELSE b[i - n]
    BY <1>0, <1>2, <1>3, <1>4
  <2>2. CASE i <= n
    BY <1>0, <1>2, <2>1, <2>2
  <2>3. CASE ~(i <= n)
    <3>1. i - n \in 1..k
      BY <1>0, <2>3
    <3> QED BY <1>3, <2>1, <2>3, <3>1
  <2> QED BY <2>2, <2>3
<1> HIDE DEF p
<1>9. Reorders(s, t)
  BY <1>5, <1>6, <1>7, <1>8 DEF Reorders, N
<1> QED BY <1>1, <1>4, <1>9 DEF s

-----------------------------------------------------------------------------
\* What the steps of an operation do to a deque.

\* The elements lie in the ring in one piece.
Fits(d) == d.head + Len(d.data) <= Capacity

LEMMA StoresFields ==
    ASSUME NEW o, NEW d \in DequeStores(o)
    PROVE  /\ d.data \in Seq(Msg) /\ Len(d.data) \in Nat /\ Len(d.data) <= Capacity
           /\ DOMAIN d.data = 1..Len(d.data) /\ \A i \in DOMAIN d.data : d.data[i] \in Msg
           /\ d.head \in 0..(Capacity - 1) /\ d.ordered = o
           /\ d = [data |-> d.data, head |-> d.head, ordered |-> d.ordered]
<1>1. /\ d.data \in UNION {[1..n -> Msg] : n \in 0..Capacity}
      /\ d.head \in 0..(Capacity - 1) /\ d.ordered = o
      /\ d = [data |-> d.data, head |-> d.head, ordered |-> d.ordered]
  BY DEF DequeStores
<1>2. PICK n \in 0..Capacity : d.data \in [1..n -> Msg]
  BY <1>1
<1>3. n \in Nat /\ n <= Capacity
  BY CapacityAssumption
<1> DEFINE s == d.data
<1>4. s \in [1..n -> Msg]
  BY <1>2
<1> HIDE DEF s
<1>5. s \in Seq(Msg) /\ Len(s) = n /\ DOMAIN s = 1..n /\ \A i \in 1..n : s[i] \in Msg
  BY <1>3, <1>4, FunctionIsSeq
<1> QED BY <1>1, <1>3, <1>5 DEF s

LEMMA StoresMember ==
    ASSUME NEW o, NEW s \in Seq(Msg), Len(s) <= Capacity, NEW h \in 0..(Capacity - 1)
    PROVE  [data |-> s, head |-> h, ordered |-> o] \in DequeStores(o)
<1>1. Len(s) \in 0..Capacity /\ s \in [1..Len(s) -> Msg]
  BY CapacityAssumption, LenProperties
<1>2. s \in UNION {[1..n -> Msg] : n \in 0..Capacity}
  BY <1>1
<1> QED BY <1>2 DEF DequeStores

\* Elements leave: the ring's head stays, and a deque that keeps its length is
\* the same deque.
Thinned(d, I) == [d EXCEPT !.data = Retain(@, I)]

LEMMA RetainDeque ==
    ASSUME NEW o, NEW d \in DequeStores(o), NEW I \in SUBSET DOMAIN d.data,
           NEW e, e = Thinned(d, I)
    PROVE  /\ e \in DequeStores(o) /\ Len(e.data) <= Len(d.data)
           /\ Len(e.data) = Len(d.data) => e = d
           /\ Fits(d) => Fits(e)
           /\ Apart(d.data) => Apart(e.data)
           /\ \E p : Picks(p, d.data, e.data) /\ Places(p, e.data) = I
           /\ Elements(e) = {d.data[i] : i \in I}
           /\ Len(e.data) = Cardinality(I)
<1> DEFINE s == d.data
           t == Retain(s, I)
<1>0. /\ s \in Seq(Msg) /\ Len(s) \in Nat /\ Len(s) <= Capacity /\ d.head \in 0..(Capacity - 1)
      /\ d = [data |-> s, head |-> d.head, ordered |-> o] /\ DOMAIN s = 1..Len(s)
  BY StoresFields
<1>1. e = [data |-> t, head |-> d.head, ordered |-> o]
  BY <1>0 DEF Thinned
<1>2. /\ t \in Seq(Msg) /\ Len(t) <= Len(s) /\ (Len(t) = Len(s) => t = s)
      /\ Len(t) = Cardinality(I)
      /\ \E p : /\ Picks(p, s, t)
                /\ \A i \in DOMAIN s : i \in I <=> \E k \in 1..Len(t) : p[k] = i
  <2> HIDE DEF s
  <2>1. I \in SUBSET DOMAIN s
    BY DEF s
  <2>2. s \in Seq(Msg)
    BY <1>0
  <2> QED BY <2>1, <2>2, RetainFacts
<1>3. PICK p : /\ Picks(p, s, t)
               /\ \A i \in DOMAIN s : i \in I <=> \E k \in 1..Len(t) : p[k] = i
  BY <1>2
<1>4. e.data = t /\ e.head = d.head
  BY <1>1
<1>5. Len(t) \in Nat /\ DOMAIN t = 1..Len(t)
  BY <1>2, LenProperties
<1> HIDE DEF s, t
<1>6. e \in DequeStores(o)
  <2>1. Len(t) <= Capacity
    <3>1. Len(t) <= Len(s) /\ Len(s) <= Capacity /\ Len(s) \in Int /\ Capacity \in Int
      BY <1>0, <1>2, CapacityAssumption
    <3> QED BY <1>5, <3>1
  <2>2. t \in Seq(Msg) /\ d.head \in 0..(Capacity - 1)
    BY <1>0, <1>2
  <2> DEFINE h == d.head
  <2>3. h \in 0..(Capacity - 1)
    BY <2>2
  <2> HIDE DEF h
  <2>4. [data |-> t, head |-> h, ordered |-> o] \in DequeStores(o)
    BY <2>1, <2>2, <2>3, StoresMember
  <2> QED BY <1>1, <2>4 DEF h
<1>7. Len(t) = Len(s) => e = d
  BY <1>0, <1>1, <1>2
<1>8. Fits(d) => Fits(e)
  BY <1>0, <1>2, <1>4, <1>5, CapacityAssumption DEF Fits, s
<1>9. Apart(s) => Apart(t)
  BY <1>0, <1>2, <1>3, PicksApart
<1>10. Elements(e) = {s[i] : i \in I}
  <2>1. ASSUME NEW k \in 1..Len(t) PROVE \E i \in I : t[k] = s[i]
    BY <1>3 DEF Picks
  <2>2. ASSUME NEW i \in I PROVE \E k \in 1..Len(t) : t[k] = s[i]
    <3>1. i \in DOMAIN s
      BY DEF s
    <3>2. PICK k \in 1..Len(t) : p[k] = i
      BY <1>3, <3>1
    <3> QED BY <1>3, <3>2 DEF Picks
  <2>3. Elements(e) = {t[k] : k \in 1..Len(t)}
    BY <1>4, <1>5 DEF Elements
  <2>4. ASSUME NEW k \in 1..Len(t) PROVE t[k] \in {s[i] : i \in I}
    BY <2>1
  <2>5. ASSUME NEW i \in I PROVE s[i] \in {t[k] : k \in 1..Len(t)}
    BY <2>2
  <2>6. {t[k] : k \in 1..Len(t)} = {s[i] : i \in I}
    BY <2>4, <2>5
  <2> QED BY <2>3, <2>6
<1>11. Places(p, t) = I
  <2>1. \A k \in 1..Len(t) : p[k] \in DOMAIN s
    BY <1>3 DEF Picks
  <2>2. I \subseteq DOMAIN s
    BY DEF s
  <2> QED BY <1>3, <2>1, <2>2 DEF Places
<1> QED BY <1>2, <1>3, <1>4, <1>6, <1>7, <1>8, <1>9, <1>10, <1>11 DEF s

\* sort_by_priority on a deque that a push may just have wrapped by one: the
\* assertion that nothing is wrapped after the rotation holds.
LEMMA SortDeque ==
    ASSUME NEW o, NEW d \in DequeStores(o), NEW e, e = SortByPriority(d)
    PROVE  /\ e \in DequeStores(o) /\ Len(e.data) = Len(d.data)
           /\ Reorders(d.data, e.data)
           /\ d.head + Len(d.data) <= Capacity + 1 => Fits(e)
           /\ \A k, l \in DOMAIN e.data :
                 k < l => Priority[e.data[k]] <= Priority[e.data[l]]
<1> DEFINE n == Wrapped(d)
           r == RotateRight(d, n)
           L == Len(d.data)
<1>0. /\ d.data \in Seq(Msg) /\ L \in Nat /\ L <= Capacity /\ d.head \in 0..(Capacity - 1)
      /\ d.ordered = o /\ Capacity \in Nat \ {0}
  BY StoresFields, CapacityAssumption
<1>1. n \in 0..L /\ n = IF d.head + L - Capacity > 0 THEN d.head + L - Capacity ELSE 0
  BY <1>0 DEF Wrapped
<1>2. /\ r = [data |-> r.data, head |-> r.head, ordered |-> o]
      /\ r.head = IF n <= L - n THEN (d.head + Capacity - n) % Capacity
                                ELSE (d.head + (L - n)) % Capacity
  BY <1>0 DEF RotateRight
<1>3. r.data \in Seq(Msg) /\ Reorders(d.data, r.data)
  BY <1>0, <1>1, RotateReorders
<1>4. e = [data |-> StableSort(r.data), head |-> r.head, ordered |-> o]
  <2>1. e = [r EXCEPT !.data = StableSort(r.data)]
    BY DEF SortByPriority
  <2> HIDE DEF r
  <2> QED BY <1>2, <2>1
<1> HIDE DEF n, r
<1>5. StableSort(r.data) \in Seq(Msg) /\ Reorders(r.data, StableSort(r.data))
  BY <1>3, SortReorders
<1>6. e.data = StableSort(r.data) /\ e.head = r.head
  BY <1>4
<1>7. Reorders(d.data, e.data) /\ Len(e.data) = L
  <2>1. Reorders(d.data, e.data)
    BY <1>3, <1>5, <1>6, ReordersTrans
  <2> QED BY <2>1 DEF Reorders
<1> HIDE DEF L
<1>8. r.head \in 0..(Capacity - 1)
  <2>1. d.head + Capacity - n \in Nat /\ d.head + (L - n) \in Nat
    BY <1>0, <1>1, SMTT(60)
  <2>2. (d.head + Capacity - n) % Capacity \in 0..(Capacity - 1)
    BY <2>1, ModRange
  <2>3. (d.head + (L - n)) % Capacity \in 0..(Capacity - 1)
    BY <2>1, ModRange
  <2> QED BY <1>2, <2>2, <2>3
<1>9. e \in DequeStores(o)
  BY <1>0, <1>4, <1>5, <1>6, <1>7, <1>8, StoresMember
<1>10. ASSUME d.head + L <= Capacity + 1 PROVE r.head + L <= Capacity
  <2>1. CASE d.head + L <= Capacity
    <3>1. n = 0 /\ n <= L - n /\ d.head + Capacity - n = d.head + Capacity
      BY <1>0, <1>1, <2>1
    <3>2. (d.head + Capacity) % Capacity = d.head
      BY <1>0, ModAround
    <3> QED BY <1>2, <2>1, <3>1, <3>2
  <2>2. CASE d.head + L = Capacity + 1
    <3>0. n = 1
      BY <1>0, <1>1, <2>2
    <3>1. /\ n <= L - n /\ d.head - 1 \in 0..(Capacity - 1)
          /\ d.head + Capacity - n = (d.head - 1) + Capacity
      BY <1>0, <2>2, <3>0
    <3>2. ((d.head - 1) + Capacity) % Capacity = d.head - 1
      BY <3>1, ModAround
    <3> QED BY <1>0, <1>2, <2>2, <3>0, <3>1, <3>2, SMTT(60)
  <2> QED BY <1>0, <1>10, <2>1, <2>2
<1>11. d.head + L <= Capacity + 1 => Fits(e)
  BY <1>6, <1>7, <1>10 DEF Fits
<1>12. \A k, l \in DOMAIN e.data : k < l => Priority[e.data[k]] <= Priority[e.data[l]]
  <2>1. DOMAIN e.data = DOMAIN r.data
    <3>1. Len(e.data) = Len(r.data)
      BY <1>5, <1>6 DEF Reorders
    <3> QED BY <1>3, <1>5, <1>6, <3>1, LenProperties
  <2> QED BY <1>3, <1>6, <2>1, SortFacts
<1> QED BY <1>7, <1>9, <1>11, <1>12 DEF L

\* push! stores the value and keeps all that was there; without ordering, at
\* the back.
LEMMA PushBackDeque ==
    ASSUME NEW o \in BOOLEAN, NEW d \in DequeStores(o), Len(d.data) < Capacity, NEW v \in Msg,
           NEW e, e = PushBack(d, v)
    PROVE  /\ e \in DequeStores(o) /\ Len(e.data) = Len(d.data) + 1
           /\ Reorders(Append(d.data, v), e.data)
           /\ ~o => e.data = Append(d.data, v)
           /\ o /\ Fits(d) => Fits(e)
           /\ o => \A k, l \in DOMAIN e.data :
                      k < l => Priority[e.data[k]] <= Priority[e.data[l]]
<1> DEFINE s == d.data
           w == Append(s, v)
           f == [d EXCEPT !.data = Append(@, v)]
<1>0. /\ s \in Seq(Msg) /\ Len(s) \in Nat /\ d.head \in 0..(Capacity - 1)
      /\ d = [data |-> s, head |-> d.head, ordered |-> o]
      /\ Capacity \in Nat \ {0} /\ d.ordered = o
  BY StoresFields, CapacityAssumption
<1>1. w \in Seq(Msg) /\ Len(w) = Len(s) + 1
  BY <1>0, AppendProperties
<1>2. f = [data |-> w, head |-> d.head, ordered |-> o]
  <2>1. f = [d EXCEPT !.data = w]
    OBVIOUS
  <2> HIDE DEF f, w, s
  <2> QED BY <1>0, <2>1
<1>3. e = IF o THEN SortByPriority(f) ELSE f
  BY <1>0 DEF PushBack
<1>4. f.data = w /\ f.head = d.head
  BY <1>2
<1>5. Len(w) <= Capacity
  BY <1>0, <1>1 DEF s
<1> HIDE DEF w, f, s
<1>6. f \in DequeStores(o)
  BY <1>0, <1>1, <1>2, <1>5, StoresMember
<1>7. CASE o
  <2>1. e = SortByPriority(f)
    BY <1>3, <1>7
  <2>2. /\ e \in DequeStores(o) /\ Len(e.data) = Len(f.data) /\ Reorders(f.data, e.data)
        /\ f.head + Len(f.data) <= Capacity + 1 => Fits(e)
        /\ \A k, l \in DOMAIN e.data : k < l => Priority[e.data[k]] <= Priority[e.data[l]]
    BY <1>6, <2>1, SortDeque
  <2>3. Fits(d) => f.head + Len(f.data) <= Capacity + 1
    BY <1>0, <1>1, <1>4 DEF Fits, s
  <2> QED BY <1>1, <1>4, <1>7, <2>2, <2>3 DEF s, w
<1>8. CASE ~o
  <2>1. e = f /\ e.data = w
    BY <1>3, <1>4, <1>8
  <2>2. Reorders(w, e.data)
    BY <1>1, <2>1, ReordersSame
  <2> QED BY <1>1, <1>6, <1>8, <2>1, <2>2 DEF s, w
<1> QED BY <1>7, <1>8

\* Why an entry may go when v is pushed.
GivesWay(w, v, x) ==
    \/ w \in x
    \/ IsOptional(w)
    \/ EqKind(v, w) /\ (IsSingle(v) \/ Policy[v] = "Latest")

\* What the pick t of s leaves out has to give way to v.
Spares(p, s, t, v, x) ==
    \A i \in DOMAIN s : i \notin Places(p, t) => GivesWay(s[i], v, x)

\* f is d after the removals that a push of v makes before it stores v.
Cleared(d, f, v, x) ==
    /\ \A w \in Elements(d) \ Elements(f) : GivesWay(w, v, x)
    /\ Elements(f) \subseteq Elements(d)
    /\ IsSingle(v) => \A w \in Elements(f) : ~EqKind(w, v)
    /\ Fits(d) => Fits(f)
    /\ Apart(d.data) => Apart(f.data)
    /\ \E p : Picks(p, d.data, f.data) /\ Spares(p, d.data, f.data, v, x)

LEMMA RetainOthersDeque ==
    ASSUME NEW o, NEW d \in DequeStores(o), NEW v \in Msg, NEW x, IsSingle(v),
           NEW e, e = RetainOthers(d, v, x)
    PROVE  /\ e \in DequeStores(o) /\ Len(e.data) <= Len(d.data)
           /\ Len(e.data) = Len(d.data) => e = d
           /\ Cleared(d, e, v, x)
<1> DEFINE I == {i \in DOMAIN d.data : ~EqKind(d.data[i], v) /\ d.data[i] \notin x}
<1>1. e = Thinned(d, I)
  BY DEF RetainOthers, Thinned
<1>2. I \in SUBSET DOMAIN d.data
  OBVIOUS
<1>3. /\ \A i \in I : ~EqKind(d.data[i], v)
      /\ \A i \in DOMAIN d.data : i \notin I => GivesWay(d.data[i], v, x)
  BY DEF GivesWay, EqKind
<1> HIDE DEF I
<1>4. /\ e \in DequeStores(o) /\ Len(e.data) <= Len(d.data)
      /\ Len(e.data) = Len(d.data) => e = d
      /\ Fits(d) => Fits(e)
      /\ Apart(d.data) => Apart(e.data)
      /\ \E p : Picks(p, d.data, e.data) /\ Places(p, e.data) = I
      /\ Elements(e) = {d.data[i] : i \in I}
  BY <1>1, <1>2, RetainDeque
<1>5. \A w \in Elements(d) \ Elements(e) : GivesWay(w, v, x)
  BY <1>3, <1>4 DEF Elements
<1>6. /\ Elements(e) \subseteq Elements(d)
      /\ \A w \in Elements(e) : ~EqKind(w, v)
  BY <1>2, <1>3, <1>4 DEF Elements
<1>7. \E p : Picks(p, d.data, e.data) /\ Spares(p, d.data, e.data, v, x)
  BY <1>3, <1>4 DEF Spares
<1> QED BY <1>4, <1>5, <1>6, <1>7 DEF Cleared

LEMMA MakeRoomDeque ==
    ASSUME NEW o, NEW d \in DequeStores(o), NEW v \in Msg, NEW x,
           IsSingle(v) => \A w \in Elements(d) : ~EqKind(w, v),
           NEW e, e = MakeRoom(d, v, x)
    PROVE  /\ e \in DequeStores(o) /\ Len(e.data) <= Len(d.data)
           /\ Len(d.data) - 1 <= Len(e.data)
           /\ Len(e.data) = Len(d.data) => e = d
           /\ Cleared(d, e, v, x)
<1> DEFINE Out == {i \in DOMAIN d.data :
                      \/ d.data[i] \in x
                      \/ IsOptional(d.data[i])
                      \/ Policy[v] = "Latest" /\ EqKind(d.data[i], v)}
           I == {i \in DOMAIN d.data : i \in Out => \E j \in Out : j < i}
<1>1. e = Thinned(d, I)
  BY DEF MakeRoom, Thinned
<1>2. I \in SUBSET DOMAIN d.data
  OBVIOUS
<1>3. \A i \in DOMAIN d.data : i \notin I => GivesWay(d.data[i], v, x)
  BY DEF GivesWay, EqKind
<1>atMostOne. \A i, j \in DOMAIN d.data : i \notin I /\ j \notin I => ~(j < i)
  OBVIOUS
<1> HIDE DEF I
<1>size. Len(d.data) - 1 <= Cardinality(I)
  <2> DEFINE N == Len(d.data)
  <2>1. N \in Nat /\ DOMAIN d.data = 1..N
    BY StoresFields
  <2>2. IsFiniteSet(1..N) /\ Cardinality(1..N) = N
    <3> HIDE DEF N
    <3>1. IsFiniteSet(1..N) /\ Cardinality(1..N) = IF 1 > N THEN 0 ELSE N - 1 + 1
      BY <2>1, FS_Interval
    <3> QED BY <2>1, <3>1
  <2>3. CASE I = 1..N
    BY <2>1, <2>2, <2>3
  <2>4. CASE I # 1..N
    <3>1. PICK i \in 1..N : i \notin I
      BY <1>2, <2>1, <2>4
    <3>2. \A j \in 1..N : j # i => j \in I
      <4> SUFFICES ASSUME NEW j \in 1..N, j # i, j \notin I PROVE FALSE
        OBVIOUS
      <4>1. i < j \/ j < i
        BY <2>1
      <4> QED BY <1>atMostOne, <2>1, <3>1, <4>1
    <3>3. I = (1..N) \ {i}
      BY <1>2, <2>1, <3>1, <3>2
    <3>4. Cardinality(I) = N - 1
      <4> HIDE DEF N
      <4>1. Cardinality((1..N) \ {i}) = IF i \in 1..N THEN Cardinality(1..N) - 1
                                                   ELSE Cardinality(1..N)
        BY <2>2, FS_RemoveElement
      <4> QED BY <2>2, <3>3, <4>1
    <3> QED BY <2>1, <3>4
  <2> QED BY <2>3, <2>4
<1>4. /\ e \in DequeStores(o) /\ Len(e.data) <= Len(d.data)
      /\ Len(e.data) = Len(d.data) => e = d
      /\ Fits(d) => Fits(e)
      /\ Apart(d.data) => Apart(e.data)
      /\ \E p : Picks(p, d.data, e.data) /\ Places(p, e.data) = I
      /\ Elements(e) = {d.data[i] : i \in I}
      /\ Len(e.data) = Cardinality(I)
  BY <1>1, <1>2, RetainDeque
<1>5. \A w \in Elements(d) \ Elements(e) : GivesWay(w, v, x)
  BY <1>3, <1>4 DEF Elements
<1>6. Elements(e) \subseteq Elements(d)
  BY <1>2, <1>4 DEF Elements
<1>7. \E p : Picks(p, d.data, e.data) /\ Spares(p, d.data, e.data, v, x)
  BY <1>3, <1>4 DEF Spares
<1> QED BY <1>size, <1>4, <1>5, <1>6, <1>7 DEF Cleared

\* try_push either leaves the deque alone or, after the removals, stores the
\* value.
LEMMA TryPushCases ==
    ASSUME NEW o \in BOOLEAN, NEW d \in DequeStores(o), NEW v \in Msg, NEW x,
           NEW r, r = DequeTryPush(d, v, x)
    PROVE  \/ /\ r.store = d
              /\ r.out \in {"Pushed", "Skipped", "Full"} /\ (r.out = "Pushed" => v \in x)
              /\ r.out # "Pushed" => Len(d.data) = Capacity
           \/ /\ r.out = "Pushed" /\ v \notin x
              /\ \E f \in DequeStores(o) :
                    /\ Len(f.data) < Capacity /\ Len(f.data) <= Len(d.data)
                    /\ ~IsSingle(v) => Len(f.data) \in {Len(d.data), Capacity - 1}
                    /\ Cleared(d, f, v, x)
                    /\ r.store = PushBack(f, v)
<1> DEFINE kept == IF IsSingle(v) THEN RetainOthers(d, v, x) ELSE d
           room == MakeRoom(kept, v, x)
           Pushed(e) == [out |-> "Pushed", store |-> PushBack(e, v)]
<1>1. r = IF v \in x THEN [out |-> "Pushed", store |-> d]
          ELSE IF Len(kept.data) < Capacity THEN Pushed(kept)
          ELSE IF IsOptional(v) THEN [out |-> "Skipped", store |-> kept]
          ELSE IF Len(room.data) < Capacity THEN Pushed(room)
          ELSE [out |-> "Full", store |-> room]
  BY DEF DequeTryPush
<1>2. Len(d.data) \in Nat /\ Len(d.data) <= Capacity /\ Capacity \in Nat
  BY StoresFields, CapacityAssumption
<1>3. /\ kept \in DequeStores(o) /\ Len(kept.data) <= Len(d.data)
      /\ Len(kept.data) = Len(d.data) => kept = d
      /\ Cleared(d, kept, v, x)
      /\ ~IsSingle(v) => Len(kept.data) = Len(d.data)
  <2>1. CASE IsSingle(v)
    <3>1. kept = RetainOthers(d, v, x)
      BY <2>1
    <3> HIDE DEF kept
    <3> QED BY <2>1, <3>1, RetainOthersDeque
  <2>2. CASE ~IsSingle(v)
    <3>1. kept = d
      BY <2>2
    <3>2. Picks([k \in 1..Len(d.data) |-> k], d.data, d.data)
      BY StoresFields, PicksAll
    <3> DEFINE all == [k \in 1..Len(d.data) |-> k]
    <3>5. \A i \in DOMAIN d.data : i \in Places(all, d.data)
      BY StoresFields DEF Places
    <3>6. Picks(all, d.data, d.data)
      BY <3>2
    <3> HIDE DEF all
    <3>3. \E p : Picks(p, d.data, d.data) /\ Spares(p, d.data, d.data, v, x)
      BY <3>5, <3>6 DEF Spares
    <3>4. Cleared(d, d, v, x)
      BY <2>2, <3>3 DEF Cleared
    <3> QED BY <1>2, <3>1, <3>4
  <2> QED BY <2>1, <2>2
<1>4. IsSingle(v) => \A w \in Elements(kept) : ~EqKind(w, v)
  BY <1>3 DEF Cleared
<1> HIDE DEF kept
<1>5. /\ room \in DequeStores(o) /\ Len(room.data) <= Len(kept.data)
      /\ Len(kept.data) - 1 <= Len(room.data)
      /\ Len(room.data) = Len(kept.data) => room = kept
      /\ Cleared(kept, room, v, x)
  BY <1>3, <1>4, MakeRoomDeque
<1> HIDE DEF room
<1>6. Len(kept.data) \in Nat /\ Len(room.data) \in Nat
  BY <1>3, <1>5, StoresFields
<1>7. CASE v \in x
  BY <1>1, <1>7
<1>8. CASE v \notin x /\ Len(kept.data) < Capacity
  BY <1>1, <1>3, <1>8
<1>9. CASE v \notin x /\ ~(Len(kept.data) < Capacity)
  <2>1. kept = d /\ Len(d.data) = Capacity
    BY <1>2, <1>3, <1>6, <1>9
  <2>2. CASE IsOptional(v)
    BY <1>1, <1>9, <2>1, <2>2
  <2>3. CASE ~IsOptional(v) /\ Len(room.data) < Capacity
    <3>1. Len(room.data) = Capacity - 1
      BY <1>2, <1>5, <1>6, <2>1, <2>3
    <3> QED BY <1>1, <1>5, <1>9, <2>1, <2>3, <3>1
  <2>4. CASE ~IsOptional(v) /\ ~(Len(room.data) < Capacity)
    <3>1. room = d
      BY <1>2, <1>5, <1>6, <2>1, <2>4
    <3> QED BY <1>1, <1>9, <2>1, <2>4, <3>1
  <2> QED BY <2>2, <2>3, <2>4
<1> QED BY <1>7, <1>8, <1>9

\* The best come first.
Sorted(s) == \A k, l \in DOMAIN s : k < l => Priority[s[k]] <= Priority[s[l]]

LEMMA PicksSorted ==
    ASSUME NEW s \in Seq(Msg), NEW t \in Seq(Msg), NEW p, Picks(p, s, t), Sorted(s)
    PROVE  Sorted(t)
<1>1. DOMAIN t = 1..Len(t)
  BY LenProperties
<1> SUFFICES ASSUME NEW k \in 1..Len(t), NEW l \in 1..Len(t), k < l
             PROVE  Priority[t[k]] <= Priority[t[l]]
  BY <1>1 DEF Sorted
<1>2. /\ p[k] \in DOMAIN s /\ p[l] \in DOMAIN s /\ p[k] < p[l]
      /\ t[k] = s[p[k]] /\ t[l] = s[p[l]]
  BY DEF Picks
<1> QED BY <1>2 DEF Sorted

\* What one call of try_push does.
LEMMA TryPushFacts ==
    ASSUME NEW o \in BOOLEAN, NEW d \in DequeStores(o), NEW v \in Msg, NEW x,
           NEW r, r = DequeTryPush(d, v, x)
    PROVE  /\ r.store \in DequeStores(o) /\ Len(r.store.data) <= Len(d.data) + 1
           /\ r.out \in {"Pushed", "Skipped", "Full"}
           /\ r.out # "Pushed" => r.store = d /\ Len(d.data) = Capacity
           /\ r.out = "Pushed" /\ v \notin x /\ ~IsSingle(v) =>
                 Len(r.store.data) \in {Len(d.data) + 1, Capacity}
           /\ r.out = "Pushed" /\ v \notin x => v \in Elements(r.store)
           /\ Elements(r.store) \subseteq Elements(d) \cup {v}
           /\ \A w \in Elements(d) \ Elements(r.store) :
                 GivesWay(w, v, x) /\ v \in Elements(r.store)
           /\ o /\ Fits(d) => Fits(r.store)
           /\ o /\ Sorted(d.data) => Sorted(r.store.data)
           /\ Apart(d.data) /\ v \notin Elements(d) => Apart(r.store.data)
           /\ ~o => \E p : Picks(p, Append(d.data, v), r.store.data)
           /\ ~o /\ r.out = "Pushed" /\ v \notin x =>
                 \E t \in Seq(Msg) :
                    /\ r.store.data = Append(t, v)
                    /\ \E p : Picks(p, d.data, t) /\ Spares(p, d.data, t, v, x)
<1> DEFINE e == r.store
           s == d.data
<1>0. s \in Seq(Msg) /\ Len(s) \in Nat /\ DOMAIN s = 1..Len(s)
  BY StoresFields
<1>1. CASE /\ e = d
           /\ r.out \in {"Pushed", "Skipped", "Full"} /\ (r.out = "Pushed" => v \in x)
           /\ r.out # "Pushed" => Len(s) = Capacity
  <2>1. Picks([k \in 1..Len(s) |-> k], s, s)
    BY <1>0, PicksAll
  <2> DEFINE p == [k \in 1..Len(s) |-> k]
  <2>2. Picks(p, s, s)
    BY <2>1
  <2> HIDE DEF p, s
  <2>3. Picks(p, Append(s, v), s)
    BY <1>0, <2>2, PicksWider
  <2> QED BY <1>0, <1>1, <2>3 DEF s
<1>2. CASE /\ r.out = "Pushed" /\ v \notin x
           /\ \E f \in DequeStores(o) :
                    /\ Len(f.data) < Capacity /\ Len(f.data) <= Len(s)
                    /\ ~IsSingle(v) => Len(f.data) \in {Len(s), Capacity - 1}
                    /\ Cleared(d, f, v, x)
                    /\ e = PushBack(f, v)
  <2>1. PICK f \in DequeStores(o) :
                    /\ Len(f.data) < Capacity /\ Len(f.data) <= Len(s)
                    /\ ~IsSingle(v) => Len(f.data) \in {Len(s), Capacity - 1}
                    /\ Cleared(d, f, v, x)
                    /\ e = PushBack(f, v)
    BY <1>2
  <2> DEFINE t == f.data
             w == Append(t, v)
  <2>2. t \in Seq(Msg) /\ Len(t) \in Nat /\ DOMAIN t = 1..Len(t)
    BY StoresFields
  <2>3. /\ w \in Seq(Msg) /\ DOMAIN w = 1..(Len(t) + 1)
        /\ \A i \in 1..Len(t) : w[i] = t[i]
        /\ w[Len(t) + 1] = v
    BY <2>2, AppendProperties, LenProperties
  <2>4. /\ e \in DequeStores(o) /\ Len(e.data) = Len(t) + 1
        /\ Reorders(w, e.data)
        /\ ~o => e.data = w
        /\ o /\ Fits(f) => Fits(e)
        /\ o => Sorted(e.data)
    <3> HIDE DEF e, w
    <3>1. e = PushBack(f, v) /\ Len(f.data) < Capacity
      BY <2>1
    <3> QED BY <3>1, PushBackDeque DEF w, Sorted
  <2>5. e.data \in Seq(Msg)
    BY <2>4, StoresFields
  <2> HIDE DEF e, t, w, s
  <2>6. Elements(e) = Elements(f) \cup {v}
    <3>1. \A i \in 1..(Len(t) + 1) : i \in 1..Len(t) \/ i = Len(t) + 1
      BY <2>2
    <3>2. \A i \in 1..Len(t) : i \in 1..(Len(t) + 1)
      BY <2>2
    <3>3. Len(t) + 1 \in 1..(Len(t) + 1)
      BY <2>2
    <3>4. {w[i] : i \in DOMAIN w} = Elements(f) \cup {v}
      BY <2>2, <2>3, <3>1, <3>2, <3>3 DEF Elements, t
    <3> DEFINE u == e.data
    <3>5. w \in Seq(Msg) /\ u \in Seq(Msg) /\ Reorders(w, u)
      BY <2>3, <2>4, <2>5
    <3> HIDE DEF u
    <3>6. /\ \A i \in DOMAIN w : \E k \in DOMAIN u : u[k] = w[i]
          /\ \A k \in DOMAIN u : \E i \in DOMAIN w : u[k] = w[i]
      BY <3>5, ReordersElements
    <3>7. {u[k] : k \in DOMAIN u} = {w[i] : i \in DOMAIN w}
      <4>1. ASSUME NEW k \in DOMAIN u PROVE u[k] \in {w[i] : i \in DOMAIN w}
        BY <3>6
      <4>2. ASSUME NEW i \in DOMAIN w PROVE w[i] \in {u[k] : k \in DOMAIN u}
        BY <3>6
      <4> QED BY <4>1, <4>2
    <3> QED BY <3>4, <3>7 DEF Elements, u
  <2>7. /\ \A u \in Elements(d) \ Elements(f) : GivesWay(u, v, x)
        /\ Elements(f) \subseteq Elements(d)
        /\ IsSingle(v) => \A u \in Elements(f) : ~EqKind(u, v)
        /\ Fits(d) => Fits(f)
        /\ Apart(s) => Apart(t)
        /\ \E p : Picks(p, s, t) /\ Spares(p, s, t, v, x)
    BY <2>1 DEF Cleared, s, t
  <2>8. ASSUME Apart(s), v \notin Elements(d) PROVE Apart(e.data)
    <3>1. Apart(t)
      BY <2>7, <2>8
    <3>2. \A i \in DOMAIN t : t[i] # v /\ (IsSingle(v) => ~EqKind(t[i], v))
      BY <2>7, <2>8 DEF Elements, t
    <3>3. \A i \in DOMAIN t : ~Clash(t[i], v)
      BY <3>2 DEF Clash
    <3>4. Apart(w)
      BY <2>2, <3>1, <3>3, AppendApart DEF w
    <3> QED BY <2>3, <2>4, <2>5, <3>4, ReordersApart
  <2>9. ASSUME ~o PROVE \E p : Picks(p, Append(s, v), e.data)
    <3>1. PICK p : Picks(p, s, t)
      BY <2>7
    <3>2. \E q : Picks(q, Append(s, v), Append(t, v))
      BY <1>0, <2>2, <3>1, PicksAppend
    <3> QED BY <2>4, <2>9, <3>2 DEF w
  <2>10. Len(e.data) <= Len(s) + 1
    BY <1>0, <2>1, <2>2, <2>4 DEF t
  <2>11. ~IsSingle(v) => Len(e.data) \in {Len(s) + 1, Capacity}
    BY <1>0, <2>1, <2>2, <2>4, CapacityAssumption DEF t
  <2>12. ~o => \E u \in Seq(Msg) :
                  /\ e.data = Append(u, v)
                  /\ \E p : Picks(p, s, u) /\ Spares(p, s, u, v, x)
    BY <2>2, <2>4, <2>7 DEF w
  <2>13. /\ \A u \in Elements(d) \ Elements(f) : GivesWay(u, v, x)
         /\ Elements(f) \subseteq Elements(d)
    BY <2>7
  <2>14. /\ r.out = "Pushed" /\ v \notin x /\ v \in Elements(e)
         /\ Elements(e) \subseteq Elements(d) \cup {v}
         /\ \A u \in Elements(d) \ Elements(e) : GivesWay(u, v, x) /\ v \in Elements(e)
    BY <1>2, <2>6, <2>13
  <2>15. o /\ Fits(d) => Fits(e)
    BY <2>1, <2>4 DEF Cleared
  <2> QED BY <2>4, <2>8, <2>9, <2>10, <2>11, <2>12, <2>14, <2>15 DEF e, s
<1> QED BY <1>1, <1>2, TryPushCases

\* What pop_front, called i times, does.
LEMMA PopFrontFacts ==
    ASSUME NEW o, NEW d \in DequeStores(o), NEW i \in 0..Len(d.data),
           NEW e, e = PopFront(d, i)
    PROVE  /\ e \in DequeStores(o) /\ Len(e.data) = Len(d.data) - i
           /\ Picks([k \in 1..(Len(d.data) - i) |-> k + i], d.data, e.data)
           /\ Fits(d) => Fits(e)
<1> DEFINE s == d.data
           N == Len(s)
           t == SubSeq(s, i + 1, N)
           h == (d.head + i) % Capacity
           p == [k \in 1..(N - i) |-> k + i]
<1>0. /\ s \in Seq(Msg) /\ N \in Nat /\ N <= Capacity /\ DOMAIN s = 1..N
      /\ \A k \in 1..N : s[k] \in Msg
      /\ d.head \in 0..(Capacity - 1) /\ d.ordered = o /\ Capacity \in Nat \ {0}
      /\ i \in 0..N
  BY StoresFields, CapacityAssumption
<1>1. e = [data |-> t, head |-> h, ordered |-> o]
  BY <1>0 DEF PopFront
<1>2. t \in Seq(Msg) /\ Len(t) = N - i /\ \A k \in 1..(N - i) : t[k] = s[k + i]
  <2>1. \A k \in (i + 1)..N : s[k] \in Msg
    BY <1>0
  <2>2. i + 1 \in Int /\ N \in Int
    BY <1>0
  <2>3. /\ t \in Seq(Msg)
        /\ Len(t) = IF i + 1 <= N THEN N - (i + 1) + 1 ELSE 0
        /\ \A k \in 1..(N - (i + 1) + 1) : t[k] = s[(i + 1) + k - 1]
    BY <2>1, <2>2, SubSeqProperties
  <2> HIDE DEF t, s, N
  <2>4. \A k \in 1..(N - i) : k \in 1..(N - (i + 1) + 1) /\ (i + 1) + k - 1 = k + i
    BY <1>0
  <2>5. \A k \in 1..(N - i) : t[k] = s[k + i]
    BY <2>3, <2>4
  <2> QED BY <1>0, <2>3, <2>5
<1>3. h \in 0..(Capacity - 1)
  <2>1. d.head + i \in Nat
    BY <1>0
  <2> QED BY <2>1, ModRange
<1>4. e.data = t /\ e.head = h
  BY <1>1
<1> HIDE DEF s, N, t
<1>5. e \in DequeStores(o)
  <2> HIDE DEF h
  <2>1. Len(t) <= Capacity
    BY <1>0, <1>2
  <2> QED BY <1>1, <1>2, <1>3, <2>1, StoresMember
<1>6. Picks(p, s, t)
  <2>1. p \in [1..(N - i) -> 1..N] /\ \A k, l \in 1..(N - i) : k < l => p[k] < p[l]
    BY <1>0
  <2>2. \A k \in 1..(N - i) : t[k] = s[p[k]]
    BY <1>2
  <2> HIDE DEF p
  <2> QED BY <1>0, <1>2, <2>1, <2>2 DEF Picks
<1>7. ASSUME Fits(d) PROVE Fits(e)
  <2>0. d.head + N <= Capacity
    BY <1>7 DEF Fits, N, s
  <2>1. CASE d.head + i < Capacity
    <3>1. h = d.head + i
      <4>1. d.head + i \in 0..(Capacity - 1)
        BY <1>0, <2>1
      <4> QED BY <4>1, ModAround
    <3> HIDE DEF h
    <3> QED BY <1>0, <1>2, <1>4, <2>0, <3>1 DEF Fits
  <2>2. CASE ~(d.head + i < Capacity)
    <3>1. N - i = 0
      BY <1>0, <2>0, <2>2
    <3> HIDE DEF h
    <3> QED BY <1>0, <1>2, <1>3, <1>4, <3>1 DEF Fits
  <2> QED BY <2>1, <2>2
<1> QED BY <1>2, <1>4, <1>5, <1>6, <1>7 DEF s, N

\* A get took v, an entry of s, and left t, what lies behind that entry; the
\* first entry when nothing has expired.
FrontTaken(v, s, t, x) ==
    \E i \in 1..Len(s) : /\ v = s[i] /\ (x = {} => i = 1) /\ Len(t) = Len(s) - i
                        /\ \A k \in 1..(Len(s) - i) : t[k] = s[k + i]

\* What one call of get does.
LEMMA GetFacts ==
    ASSUME NEW o, NEW d \in DequeStores(o), NEW x, NEW g, g = DequeGet(d, x)
    PROVE  /\ g.store \in DequeStores(o) /\ g.val \in Msg \cup {NoMsg}
           /\ g.val = NoMsg => Len(g.store.data) = 0
           /\ g.val # NoMsg => /\ Len(g.store.data) < Len(d.data)
                               /\ g.val \in Elements(d) \ x
           /\ \A w \in Elements(d) \ Elements(g.store) : w \in x \/ w = g.val
           /\ Elements(g.store) \subseteq Elements(d)
           /\ \E p : Picks(p, d.data, g.store.data)
           /\ Fits(d) => Fits(g.store)
           /\ Sorted(d.data) /\ g.val # NoMsg =>
                 \A w \in Elements(d) \ x : Priority[g.val] <= Priority[w]
           /\ x = {} => IF g.val = NoMsg THEN Len(d.data) = 0
                                        ELSE Len(g.store.data) = Len(d.data) - 1
           /\ g.val # NoMsg => FrontTaken(g.val, d.data, g.store.data, x)
<1> DEFINE s == d.data
           n == Len(s)
           Keep == {i \in 1..n : s[i] \notin x}
           first == CHOOSE i \in Keep : \A j \in Keep : i <= j
           m == IF Keep = {} THEN n ELSE first
           e == PopFront(d, m)
<1>0. /\ s \in Seq(Msg) /\ n \in Nat /\ DOMAIN s = 1..n
      /\ (\A i \in 1..n : s[i] \in Msg) /\ NoMsg \notin Msg
      /\ \A i \in 1..n : Priority[s[i]] \in Nat
  BY StoresFields, MsgAssumption, CapacityAssumption, PolicyAssumption
<1>1. g = IF Keep = {} THEN [val |-> NoMsg, store |-> PopFront(d, n)]
                       ELSE [val |-> s[first], store |-> PopFront(d, first)]
  BY DEF DequeGet
<1> HIDE DEF s, n
<1>2. ASSUME Keep # {} PROVE first \in Keep /\ \A j \in Keep : first <= j
  <2>1. Keep \in SUBSET Nat
    BY <1>0
  <2> HIDE DEF Keep
  <2>2. \E i \in Keep : \A j \in Keep : i <= j
    BY <1>2, <2>1, LeastNatural
  <2> QED BY <2>2
<1>3. g.store = e /\ (Keep = {} => g.val = NoMsg) /\ (Keep # {} => g.val = s[first])
  BY <1>1
<1> HIDE DEF first
<1>4. m \in 0..n /\ \A i \in 1..n : i < m => s[i] \in x
  BY <1>0, <1>2
<1>5. /\ Keep # {} => m \in 1..n /\ m = first /\ s[m] \notin x /\ s[m] \in Msg
      /\ Keep = {} => m = n /\ \A i \in 1..n : s[i] \in x
  BY <1>0, <1>2
<1> HIDE DEF m, Keep
<1>6. /\ e \in DequeStores(o) /\ Len(e.data) = n - m
      /\ Picks([k \in 1..(n - m) |-> k + m], s, e.data)
      /\ Fits(d) => Fits(e)
  BY <1>4, PopFrontFacts DEF s, n
<1>7. DOMAIN e.data = 1..(n - m)
  BY <1>6, StoresFields
<1> HIDE DEF e
<1>8. \A k \in 1..(n - m) : k + m \in 1..n /\ e.data[k] = s[k + m]
  <2>1. \A k \in 1..(n - m) : k + m \in 1..n
    BY <1>0, <1>4
  <2> QED BY <1>6, <2>1 DEF Picks
<1>9. Elements(e) \subseteq Elements(d)
  BY <1>0, <1>7, <1>8 DEF Elements, s
<1>10. ASSUME NEW w \in Elements(d), w \notin Elements(e) PROVE w \in x \/ w = g.val
  <2>1. PICK i \in 1..n : w = s[i]
    BY <1>0 DEF Elements, s
  <2>2. i <= m
    <3> SUFFICES ASSUME m < i PROVE FALSE
      BY <1>0, <1>4
    <3>1. i - m \in 1..(n - m) /\ (i - m) + m = i
      BY <1>0, <1>4
    <3>2. e.data[i - m] = s[i]
      BY <1>8, <3>1
    <3> QED BY <1>7, <1>10, <2>1, <3>1, <3>2 DEF Elements
  <2>3. CASE Keep = {}
    BY <1>5, <2>1, <2>3
  <2>4. CASE Keep # {}
    BY <1>0, <1>3, <1>4, <1>5, <2>1, <2>2, <2>4
  <2> QED BY <2>3, <2>4
<1>11. ASSUME Keep # {}, Sorted(s), NEW w \in Elements(d), w \notin x
       PROVE  Priority[g.val] <= Priority[w]
  <2>1. PICK i \in 1..n : w = s[i]
    BY <1>0 DEF Elements, s
  <2>2. m \in 1..n /\ g.val = s[m]
    BY <1>3, <1>5, <1>11
  <2>3. i = m \/ m < i
    BY <1>0, <1>4, <1>11, <2>1, <2>2
  <2>4. CASE i = m
    BY <1>0, <2>1, <2>2, <2>4
  <2>5. CASE m < i
    BY <1>0, <1>11, <2>1, <2>2, <2>5 DEF Sorted
  <2> QED BY <2>3, <2>4, <2>5
<1>12. CASE Keep = {}
  <2>1. m = n /\ g.val = NoMsg
    BY <1>3, <1>5, <1>12
  <2>2. Len(e.data) = 0
    BY <1>0, <1>6, <2>1
  <2>3. x = {} => n = 0
    BY <1>0, <1>5, <1>12
  <2> QED BY <1>3, <1>6, <1>9, <1>10, <2>1, <2>2, <2>3 DEF s, n
<1>13. CASE Keep # {}
  <2>1. m \in 1..n /\ g.val = s[m] /\ g.val \notin x /\ g.val \in Msg
    BY <1>3, <1>5, <1>13
  <2>2. Len(e.data) < n
    BY <1>0, <1>6, <2>1
  <2>3. g.val \in Elements(d) /\ g.val # NoMsg
    BY <1>0, <2>1 DEF Elements, s
  <2>4. ASSUME x = {} PROVE m = 1 /\ Len(e.data) = n - 1
    <3>1. 1 \in 1..n /\ ~(1 < m)
      BY <1>0, <1>4, <2>1, <2>4
    <3>2. m = 1
      BY <1>0, <2>1, <3>1
    <3> QED BY <1>6, <3>2
  <2>5. FrontTaken(g.val, s, e.data, x)
    BY <1>6, <1>8, <2>1, <2>4 DEF FrontTaken, n
  <2> QED BY <1>3, <1>6, <1>9, <1>10, <1>11, <1>13, <2>1, <2>2, <2>3, <2>4, <2>5 DEF s, n
<1> QED BY <1>12, <1>13

\* A new deque.
LEMMA BoundedDeque ==
    ASSUME NEW o \in BOOLEAN
    PROVE  /\ Bounded(o) \in DequeStores(o) /\ Bounded(o).ordered = o
           /\ Bounded(o).data = <<>> /\ Elements(Bounded(o)) = {}
           /\ Fits(Bounded(o)) /\ Apart(Bounded(o).data)
<1> DEFINE d == Bounded(o)
<1>1. /\ d = [data |-> <<>>, head |-> 0, ordered |-> o]
      /\ d.data = <<>> /\ d.head = 0 /\ d.ordered = o
  BY DEF Bounded
<1>2. 0 \in 0..(Capacity - 1) /\ 0 <= Capacity
  BY CapacityAssumption
<1>3. <<>> \in Seq(Msg) /\ Len(<<>>) = 0
  BY EmptySeq
<1>4. d \in DequeStores(o)
  BY <1>1, <1>2, <1>3, StoresMember
<1>5. Fits(d)
  BY <1>1, <1>2, <1>3 DEF Fits
<1>6. DOMAIN d.data = {}
  BY <1>1
<1> HIDE DEF d
<1>7. Apart(d.data) /\ Elements(d) = {}
  BY <1>6 DEF Apart, Elements
<1> QED BY <1>1, <1>4, <1>5, <1>7 DEF d

-----------------------------------------------------------------------------
\* The deque as a channel's storage.

\* What the channels rely on in their storage (StorageContract), of the deque
\* of one ordering: a push that is refused leaves the storage alone, an accepted
\* one makes it longer by one at most, and get fails only when it leaves the
\* storage empty.
DequeContract(o) ==
    /\ Bounded(o) \in DequeStores(o) /\ DequeLength(Bounded(o)) = 0
    /\ \A q \in DequeStores(o) : DequeLength(q) \in 0..Capacity
    /\ \A q \in DequeStores(o), m \in Msg, e \in SUBSET Expirable :
          /\ DequeTryPush(q, m, e).store \in DequeStores(o)
          /\ DequeTryPush(q, m, e).out \in {"Pushed", "Skipped", "Full"}
          /\ DequeTryPush(q, m, e).out = "Pushed"
                => DequeLength(DequeTryPush(q, m, e).store) <= DequeLength(q) + 1
          /\ DequeTryPush(q, m, e).out # "Pushed" => DequeTryPush(q, m, e).store = q
    /\ \A q \in DequeStores(o), e \in SUBSET Expirable :
          /\ DequeGet(q, e).store \in DequeStores(o)
          /\ DequeGet(q, e).val \in Msg \cup {NoMsg}
          /\ DequeGet(q, e).val = NoMsg => DequeLength(DequeGet(q, e).store) = 0
          /\ DequeGet(q, e).val # NoMsg
                => DequeLength(DequeGet(q, e).store) < DequeLength(q)

\* The policy deque is a storage of the kind the theorems about the channels
\* assume, so that they hold of the policy channels, ordered or not.
THEOREM DequeIsStorage == \A o \in BOOLEAN : DequeContract(o)
<1> TAKE o \in BOOLEAN
<1>1. Bounded(o) \in DequeStores(o) /\ DequeLength(Bounded(o)) = 0
  <2>1. Bounded(o) \in DequeStores(o) /\ Bounded(o).data = <<>>
    BY BoundedDeque
  <2> QED BY <2>1, EmptySeq DEF DequeLength
<1>2. \A q \in DequeStores(o) : DequeLength(q) \in 0..Capacity
  BY StoresFields, CapacityAssumption DEF DequeLength
<1>3. ASSUME NEW q \in DequeStores(o), NEW m \in Msg, NEW e \in SUBSET Expirable
      PROVE  /\ DequeTryPush(q, m, e).store \in DequeStores(o)
             /\ DequeTryPush(q, m, e).out \in {"Pushed", "Skipped", "Full"}
             /\ DequeTryPush(q, m, e).out = "Pushed"
                   => DequeLength(DequeTryPush(q, m, e).store) <= DequeLength(q) + 1
             /\ DequeTryPush(q, m, e).out # "Pushed" => DequeTryPush(q, m, e).store = q
  BY TryPushFacts DEF DequeLength
<1>4. ASSUME NEW q \in DequeStores(o), NEW e \in SUBSET Expirable
      PROVE  /\ DequeGet(q, e).store \in DequeStores(o)
             /\ DequeGet(q, e).val \in Msg \cup {NoMsg}
             /\ DequeGet(q, e).val = NoMsg => DequeLength(DequeGet(q, e).store) = 0
             /\ DequeGet(q, e).val # NoMsg
                   => DequeLength(DequeGet(q, e).store) < DequeLength(q)
  BY GetFacts DEF DequeLength
<1> QED BY <1>1, <1>2, <1>3, <1>4 DEF DequeContract

\* The same with nothing expired and no single-copy value: no step but a get
\* that succeeds makes room (SlotsAreKept), the condition under which no slot
\* of a policy channel stays free beside a blocked sender.
DequeKeepsSlots(o) ==
    \A q \in DequeStores(o) :
        /\ \A m \in Msg :
              LET p == DequeTryPush(q, m, {})
              IN  IF p.out = "Pushed"
                  THEN DequeLength(p.store) \in {DequeLength(q) + 1, Capacity}
                  ELSE DequeLength(q) = Capacity
        /\ DequeGet(q, {}).val # NoMsg
              => DequeLength(DequeGet(q, {}).store) = DequeLength(q) - 1
        /\ DequeGet(q, {}).val = NoMsg => DequeLength(q) = 0

\* A policy deque without single-copy values keeps its slots: the other
\* policies put at most one entry in the place of another.
THEOREM SlotsKeptWithoutSingle ==
    (\A m \in Msg : ~IsSingle(m)) => \A o \in BOOLEAN : DequeKeepsSlots(o)
<1> SUFFICES ASSUME \A m \in Msg : ~IsSingle(m), NEW o \in BOOLEAN, NEW q \in DequeStores(o)
             PROVE  /\ \A m \in Msg :
                          LET p == DequeTryPush(q, m, {})
                          IN  IF p.out = "Pushed"
                              THEN DequeLength(p.store) \in {DequeLength(q) + 1, Capacity}
                              ELSE DequeLength(q) = Capacity
                    /\ DequeGet(q, {}).val # NoMsg
                          => DequeLength(DequeGet(q, {}).store) = DequeLength(q) - 1
                    /\ DequeGet(q, {}).val = NoMsg => DequeLength(q) = 0
  BY DEF DequeKeepsSlots
<1>1. ASSUME NEW m \in Msg, NEW p, p = DequeTryPush(q, m, {})
      PROVE  IF p.out = "Pushed"
             THEN DequeLength(p.store) \in {DequeLength(q) + 1, Capacity}
             ELSE DequeLength(q) = Capacity
  <2>1. /\ p.out # "Pushed" => p.store = q /\ Len(q.data) = Capacity
        /\ p.out = "Pushed" /\ m \notin {} /\ ~IsSingle(m) =>
              Len(p.store.data) \in {Len(q.data) + 1, Capacity}
    BY <1>1, TryPushFacts
  <2> QED BY <2>1 DEF DequeLength
<1>2. ASSUME NEW g, g = DequeGet(q, {})
      PROVE  /\ g.val # NoMsg => DequeLength(g.store) = DequeLength(q) - 1
             /\ g.val = NoMsg => DequeLength(q) = 0
  <2>1. IF g.val = NoMsg THEN Len(q.data) = 0 ELSE Len(g.store.data) = Len(q.data) - 1
    BY <1>2, GetFacts
  <2> QED BY <2>1 DEF DequeLength
<1> QED BY <1>1, <1>2

=============================================================================
