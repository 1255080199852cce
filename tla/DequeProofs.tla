----------------------------- MODULE DequeProofs ------------------------------
(***************************************************************************)
(* Proofs about a policy deque in use, for every set of values, every      *)
(* capacity and all policies, kinds and priorities.                        *)
(***************************************************************************)
EXTENDS DequeUse, PolicyDequeProofs

\* Looking for the elements of a pick in the sequence it is from finds the
\* pick, if no element is in the sequence twice.
LEMMA PresentIsPick ==
    ASSUME NEW s \in Seq(Msg), Distinct(s), NEW d, d.data \in Seq(Msg),
           NEW p, Picks(p, s, d.data)
    PROVE  Present(s, d) = d.data
<1> DEFINE t == d.data
           I == {i \in DOMAIN s : s[i] \in Elements(d)}
           u == Retain(s, I)
<1>0. DOMAIN t = 1..Len(t)
  BY LenProperties
<1>1. u \in Seq(Msg)
  BY RetainFacts
<1>2. PICK q : /\ Picks(q, s, u)
               /\ \A i \in DOMAIN s : i \in I <=> \E k \in 1..Len(u) : q[k] = i
  <2> HIDE DEF I
  <2>1. I \in SUBSET DOMAIN s
    BY DEF I
  <2> QED BY <2>1, RetainFacts
<1>3. \A i \in DOMAIN s : i \in I <=> \E k \in 1..Len(t) : p[k] = i
  <2> SUFFICES ASSUME NEW i \in DOMAIN s
               PROVE  i \in I <=> \E k \in 1..Len(t) : p[k] = i
    OBVIOUS
  <2>1. i \in I <=> \E k \in 1..Len(t) : t[k] = s[i]
    BY <1>0 DEF Elements
  <2>2. \A k \in 1..Len(t) : p[k] \in DOMAIN s /\ t[k] = s[p[k]]
    BY DEF Picks
  <2> HIDE DEF I, t
  <2> QED BY <2>1, <2>2 DEF Distinct
<1> HIDE DEF I, u
<1>4. u = t
  <2>1. t \in Seq(Msg) /\ Picks(p, s, t) /\ Picks(q, s, u)
    BY <1>2
  <2>2. Places(q, u) = I
    BY <1>2 DEF Places, Picks, I
  <2>3. Places(p, t) = I
    BY <1>3, <2>1, SMTT(60) DEF Places, Picks, I
  <2> HIDE DEF t
  <2> QED BY <1>1, <2>1, <2>2, <2>3, PicksSame
<1> QED BY <1>4 DEF Present, u, I

-----------------------------------------------------------------------------
\* A deque in use.

\* The inductive invariant, on a state's values: besides what the properties
\* say, a value in the deque has been pushed and is there once.
UseInv(d, x, new, order) ==
    /\ d.ordered \in BOOLEAN /\ d \in DequeStores(d.ordered)
    /\ x \subseteq Expirable /\ new \subseteq Msg
    /\ d.ordered => Fits(d)
    /\ Apart(d.data)
    /\ Elements(d) \cap new = {}
    /\ ~d.ordered => d.data = order

Inv == UseInv(deque, expired, fresh, stored)

LEMMA ApartIsDistinct ==
    ASSUME NEW s, Apart(s)
    PROVE  Distinct(s)
BY DEF Apart, Distinct, Clash

LEMMA DistinctAppend ==
    ASSUME NEW s \in Seq(Msg), NEW v \in Msg, Distinct(s), \A i \in DOMAIN s : s[i] # v
    PROVE  Distinct(Append(s, v))
<1> DEFINE w == Append(s, v)
           n == Len(s)
<1>1. /\ n \in Nat /\ DOMAIN s = 1..n /\ DOMAIN w = 1..(n + 1)
      /\ \A i \in 1..n : w[i] = s[i]
      /\ w[n + 1] = v
  BY LenProperties, AppendProperties
<1> HIDE DEF w, n
<1>2. \A i \in 1..(n + 1) : i \in 1..n \/ i = n + 1
  BY <1>1
<1>3. \A i, j \in DOMAIN w : w[i] = w[j] => i = j
  BY <1>1, <1>2 DEF Distinct
<1> QED BY <1>3 DEF Distinct, w

LEMMA BoundedInv ==
    ASSUME NEW o \in BOOLEAN
    PROVE  UseInv(Bounded(o), {}, Msg, <<>>)
<1> DEFINE d == Bounded(o)
<1>1. /\ d \in DequeStores(o) /\ d.ordered = o /\ d.data = <<>> /\ Elements(d) = {}
      /\ Fits(d) /\ Apart(d.data)
  BY BoundedDeque
<1> HIDE DEF d
<1>2. UseInv(d, {}, Msg, <<>>)
  BY <1>1 DEF UseInv
<1> QED BY <1>2 DEF d

LEMMA PushInv ==
    ASSUME NEW d, NEW x, NEW new, NEW order, UseInv(d, x, new, order),
           NEW v \in new, NEW r, r = DequeTryPush(d, v, x)
    PROVE  /\ UseInv(r.store, x, IF r.out = "Full" THEN new ELSE new \ {v},
                     Present(Append(order, v), r.store))
           /\ \A w \in Elements(d) \ Elements(r.store) :
                 GivesWay(w, v, x) /\ v \in Elements(r.store)
           /\ r.out \in {"Full", "Skipped"} => r.store = d
<1> DEFINE o == d.ordered
           e == r.store
<1>0. /\ o \in BOOLEAN /\ d \in DequeStores(o) /\ v \in Msg
      /\ d.data \in Seq(Msg) /\ v \notin Elements(d)
  BY StoresFields DEF UseInv
<1> HIDE DEF o, e
<1>1. /\ e \in DequeStores(o)
      /\ r.out \in {"Pushed", "Skipped", "Full"}
      /\ r.out # "Pushed" => e = d
      /\ Elements(e) \subseteq Elements(d) \cup {v}
      /\ \A w \in Elements(d) \ Elements(e) : GivesWay(w, v, x) /\ v \in Elements(e)
      /\ o /\ Fits(d) => Fits(e)
      /\ Apart(d.data) /\ v \notin Elements(d) => Apart(e.data)
      /\ ~o => \E p : Picks(p, Append(d.data, v), e.data)
  BY <1>0, TryPushFacts DEF e
<1>2. e.ordered = o /\ e.data \in Seq(Msg)
  BY <1>1, StoresFields
<1>3. (o => Fits(e)) /\ Apart(e.data)
  BY <1>0, <1>1 DEF UseInv, o
<1>4. Elements(e) \cap (IF r.out = "Full" THEN new ELSE new \ {v}) = {}
  <2>1. CASE r.out = "Full"
    BY <1>1, <2>1 DEF UseInv
  <2>2. CASE r.out # "Full"
    BY <1>1, <2>2 DEF UseInv
  <2> QED BY <2>1, <2>2
<1>5. ASSUME ~o PROVE e.data = Present(Append(order, v), e)
  <2>1. order = d.data
    BY <1>5 DEF UseInv, o
  <2>2. Distinct(d.data)
    BY ApartIsDistinct DEF UseInv
  <2>3. \A i \in DOMAIN d.data : d.data[i] # v
    BY <1>0 DEF Elements
  <2> DEFINE s == d.data
             w == Append(s, v)
  <2>4. w \in Seq(Msg) /\ Distinct(w)
    <3> HIDE DEF s
    <3> QED BY <1>0, <2>2, <2>3, DistinctAppend, AppendProperties DEF s
  <2>5. PICK p : Picks(p, w, e.data)
    BY <1>1, <1>5
  <2> HIDE DEF w
  <2>6. Present(w, e) = e.data
    BY <1>2, <2>4, <2>5, PresentIsPick
  <2> QED BY <2>1, <2>6 DEF w
<1>6. x \subseteq Expirable /\ (IF r.out = "Full" THEN new ELSE new \ {v}) \subseteq Msg
  BY DEF UseInv
<1>7. UseInv(e, x, IF r.out = "Full" THEN new ELSE new \ {v}, Present(Append(order, v), e))
  BY <1>0, <1>1, <1>2, <1>3, <1>4, <1>5, <1>6 DEF UseInv
<1> QED BY <1>1, <1>7 DEF e

LEMMA PopInv ==
    ASSUME NEW d, NEW x, NEW new, NEW order, UseInv(d, x, new, order),
           NEW g, g = DequeGet(d, x)
    PROVE  /\ UseInv(g.store, x, new, Present(order, g.store))
           /\ \A w \in Elements(d) \ Elements(g.store) : w \in x \/ w = g.val
<1> DEFINE o == d.ordered
           e == g.store
<1>0. o \in BOOLEAN /\ d \in DequeStores(o) /\ d.data \in Seq(Msg)
  BY StoresFields DEF UseInv
<1> HIDE DEF o, e
<1>1. /\ e \in DequeStores(o)
      /\ \A w \in Elements(d) \ Elements(e) : w \in x \/ w = g.val
      /\ Elements(e) \subseteq Elements(d)
      /\ \E p : Picks(p, d.data, e.data)
      /\ Fits(d) => Fits(e)
  BY <1>0, GetFacts DEF e
<1>2. e.ordered = o /\ e.data \in Seq(Msg)
  BY <1>1, StoresFields
<1>3. PICK p : Picks(p, d.data, e.data)
  BY <1>1
<1>4. (o => Fits(e)) /\ Elements(e) \cap new = {}
  BY <1>1 DEF UseInv, o
<1>5. Apart(e.data)
  BY <1>0, <1>2, <1>3, PicksApart DEF UseInv
<1>6. Present(d.data, e) = e.data
  <2> DEFINE s == d.data
  <2>1. s \in Seq(Msg) /\ Distinct(s) /\ Picks(p, s, e.data)
    BY <1>0, <1>3, ApartIsDistinct DEF UseInv
  <2> HIDE DEF s
  <2>2. Present(s, e) = e.data
    BY <1>2, <2>1, PresentIsPick
  <2> QED BY <2>2 DEF s
<1>7. UseInv(e, x, new, Present(order, e))
  BY <1>0, <1>1, <1>2, <1>4, <1>5, <1>6 DEF UseInv, o
<1> QED BY <1>1, <1>7 DEF e

LEMMA InitInv == Init => Inv
<1> SUFFICES ASSUME Init PROVE Inv
  OBVIOUS
<1>1. PICK o \in BOOLEAN : deque = Bounded(o)
  BY DEF Init
<1> QED BY <1>1, BoundedInv DEF Init, Inv

LEMMA NextInv == Inv /\ [Next]_vars => Inv'
<1> SUFFICES ASSUME Inv, [Next]_vars PROVE Inv'
  OBVIOUS
<1>0. UseInv(deque, expired, fresh, stored)
  BY DEF Inv
<1>1. ASSUME NEW v \in Msg, Push(v) PROVE Inv'
  <2>1. /\ v \in fresh /\ expired' = expired
        /\ deque' = DequeTryPush(deque, v, expired).store
        /\ stored' = Present(Append(stored, v), DequeTryPush(deque, v, expired).store)
        /\ fresh' = IF DequeTryPush(deque, v, expired).out = "Full" THEN fresh ELSE fresh \ {v}
    BY <1>1 DEF Push
  <2> DEFINE r == DequeTryPush(deque, v, expired)
  <2>2. r = DequeTryPush(deque, v, expired)
    OBVIOUS
  <2>3. /\ deque' = r.store /\ stored' = Present(Append(stored, v), r.store)
        /\ fresh' = IF r.out = "Full" THEN fresh ELSE fresh \ {v}
    BY <2>1
  <2> HIDE DEF r
  <2>4. UseInv(r.store, expired, IF r.out = "Full" THEN fresh ELSE fresh \ {v},
               Present(Append(stored, v), r.store))
    <3>1. v \in fresh
      BY <2>1
    <3> QED BY <1>0, <2>2, <3>1, PushInv, SMTT(60)
  <2> QED BY <2>1, <2>3, <2>4 DEF Inv
<1>2. CASE Pop
  <2> DEFINE g == DequeGet(deque, expired)
  <2>1. /\ expired' = expired /\ fresh' = fresh
        /\ deque' = g.store /\ stored' = Present(stored, g.store)
    BY <1>2 DEF Pop
  <2>2. g = DequeGet(deque, expired)
    OBVIOUS
  <2> HIDE DEF g
  <2>3. UseInv(g.store, expired, fresh, Present(stored, g.store))
    BY <1>0, <2>2, PopInv
  <2> QED BY <2>1, <2>3 DEF Inv
<1>3. CASE Clear
  <2>1. /\ deque' = Bounded(deque.ordered) /\ stored' = <<>>
        /\ expired' = expired /\ fresh' = fresh
    BY <1>3 DEF Clear, DequeClear
  <2> DEFINE e == Bounded(deque.ordered)
  <2>2. UseInv(e, {}, Msg, <<>>)
    BY <1>0, BoundedInv DEF UseInv
  <2>3. Elements(e) = {}
    BY DEF Bounded, Elements
  <2> HIDE DEF e
  <2>4. UseInv(e, expired, fresh, <<>>)
    BY <1>0, <2>2, <2>3 DEF UseInv
  <2> QED BY <2>1, <2>4 DEF Inv, e
<1>4. ASSUME NEW v \in Expirable, Expire(v) PROVE Inv'
  BY <1>0, <1>4 DEF Expire, Inv, UseInv
<1>5. CASE UNCHANGED vars
  BY <1>0, <1>5 DEF vars, Inv
<1> QED BY <1>1, <1>2, <1>3, <1>4, <1>5 DEF Next

LEMMA InvHolds == Spec => []Inv
BY InitInv, NextInv, PTL DEF Spec

\* The deque's representation is sound and it never outgrows its capacity, on
\* any sequence of pushes, gets, clears and expiries.
THEOREM TypeCorrect == Spec => []TypeOK
<1>1. Inv => TypeOK
  <2> SUFFICES ASSUME Inv PROVE TypeOK
    OBVIOUS
  <2>1. /\ deque.ordered \in BOOLEAN /\ deque \in DequeStores(deque.ordered)
        /\ expired \subseteq Expirable /\ fresh \subseteq Msg
    BY DEF Inv, UseInv
  <2>2. CASE deque.ordered = TRUE
    BY <2>1, <2>2 DEF TypeOK
  <2>3. CASE deque.ordered = FALSE
    BY <2>1, <2>3 DEF TypeOK
  <2> QED BY <2>1, <2>2, <2>3
<1> QED BY <1>1, InvHolds, PTL

\* The assertion of sort_by_priority never fails: a push wraps an ordered deque
\* by one element at most, and the rotation before the sort undoes it.
THEOREM ContiguousCorrect == Spec => []Contiguous
<1>1. Inv => Contiguous
  <2> SUFFICES ASSUME Inv, deque.ordered PROVE Wrapped(deque) = 0
    BY DEF Contiguous
  <2>1. Fits(deque) /\ deque \in DequeStores(deque.ordered)
    BY DEF Inv, UseInv
  <2>2. Len(deque.data) \in Nat /\ deque.head \in Int /\ Capacity \in Int
    <3> DEFINE o == deque.ordered
    <3>1. deque \in DequeStores(o)
      BY <2>1
    <3> HIDE DEF o
    <3>2. Len(deque.data) \in Nat /\ deque.head \in 0..(Capacity - 1)
      BY <3>1, StoresFields
    <3> QED BY <3>2, MsgAssumption, CapacityAssumption
  <2> QED BY <2>1, <2>2 DEF Fits, Wrapped
<1> QED BY <1>1, InvHolds, PTL

\* Without ordering the values are in the deque in the order they were pushed,
\* whatever was evicted, replaced or has expired in between.
THEOREM ArrivalOrderCorrect == Spec => []ArrivalOrder
<1>1. Inv => ArrivalOrder
  BY DEF Inv, UseInv, ArrivalOrder
<1> QED BY <1>1, InvHolds, PTL

\* Two single-copy values of one kind are never in the deque together, also
\* when the later one made room for itself in a full deque.
THEOREM SingleCopyCorrect == Spec => []SingleCopy
<1>1. Inv => SingleCopy
  BY DEF Inv, UseInv, SingleCopy, Apart, Clash
<1> QED BY <1>1, InvHolds, PTL

\* A value that is neither expired nor optional leaves the deque only by get,
\* by clear, or for a value of its kind whose policy replaces, and a push that
\* is refused or skipped changes nothing.
THEOREM NoSilentLossCorrect == Spec => NoSilentLoss
<1> DEFINE Excused(v) ==
             \/ v \in expired \/ IsOptional(v)
             \/ op'.name = "get" /\ op'.val = v
             \/ op'.name = "clear"
             \/ EqKind(op'.val, v) /\ op'.val \in Elements(deque')
                  /\ (IsSingle(op'.val) \/ Policy[op'.val] = "Latest")
           Kept == /\ \A v \in Elements(deque) \ Elements(deque') : Excused(v)
                   /\ op'.out \in {"Full", "Skipped"} => deque' = deque
<1>1. Inv /\ [Next]_vars => [Kept]_vars
  <2> SUFFICES ASSUME Inv, Next PROVE Kept
    OBVIOUS
  <2>0. UseInv(deque, expired, fresh, stored)
    BY DEF Inv
  <2>1. ASSUME NEW v \in Msg, Push(v) PROVE Kept
    <3> DEFINE r == DequeTryPush(deque, v, expired)
    <3>1. /\ v \in fresh /\ deque' = r.store
          /\ op' = [name |-> "try_push", val |-> v, out |-> r.out]
      BY <2>1 DEF Push
    <3>2. r = DequeTryPush(deque, v, expired)
      OBVIOUS
    <3> HIDE DEF r
    <3>3. /\ \A w \in Elements(deque) \ Elements(r.store) :
                GivesWay(w, v, expired) /\ v \in Elements(r.store)
          /\ r.out \in {"Full", "Skipped"} => r.store = deque
      <4>1. v \in fresh
        BY <3>1
      <4>2. /\ UseInv(r.store, expired, IF r.out = "Full" THEN fresh ELSE fresh \ {v},
                      Present(Append(stored, v), r.store))
            /\ \A w \in Elements(deque) \ Elements(r.store) :
                  GivesWay(w, v, expired) /\ v \in Elements(r.store)
            /\ r.out \in {"Full", "Skipped"} => r.store = deque
        <5> HIDE DEF Kept
        <5> QED BY <2>0, <3>2, <4>1, PushInv, SMTT(60)
      <4> QED BY <4>2
    <3>4. op'.val = v /\ op'.out = r.out
      BY <3>1
    <3> QED BY <3>1, <3>3, <3>4 DEF GivesWay
  <2>2. CASE Pop
    <3> DEFINE g == DequeGet(deque, expired)
    <3>1. deque' = g.store /\ op' = [name |-> "get", val |-> g.val, out |-> "none"]
      BY <2>2 DEF Pop
    <3>2. g = DequeGet(deque, expired)
      OBVIOUS
    <3> HIDE DEF g
    <3>3. \A w \in Elements(deque) \ Elements(g.store) : w \in expired \/ w = g.val
      BY <2>0, <3>2, PopInv
    <3>4. op'.val = g.val /\ op'.out = "none" /\ op'.name = "get"
      BY <3>1
    <3> QED BY <3>1, <3>3, <3>4
  <2>3. CASE Clear
    <3>1. op'.name = "clear" /\ op'.out = "none"
      BY <2>3 DEF Clear
    <3> QED BY <3>1
  <2>4. ASSUME NEW v \in Expirable, Expire(v) PROVE Kept
    BY <2>4 DEF Expire
  <2> QED BY <2>1, <2>2, <2>3, <2>4 DEF Next
<1> QED BY <1>1, InvHolds, PTL DEF Spec, NoSilentLoss

=============================================================================
