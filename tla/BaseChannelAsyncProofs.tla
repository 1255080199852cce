------------------------ MODULE BaseChannelAsyncProofs ------------------------
(***************************************************************************)
(* Proofs about the asynchronous channel, for every number of clients and  *)
(* messages, every capacity and every storage that keeps StorageContract:  *)
(* the three records of the waiting futures agree, and neither a close nor *)
(* a message leaves anybody asleep; and, over the policy deque, that       *)
(* Always messages keep their order.                                       *)
(***************************************************************************)
EXTENDS PolicyChannelAsync, PolicyDequeProofs

\* BooksAgree says what the queue of wakers, the set of queued ids and the set
\* of woken ids have to do with each other and with the clients.  It is
\* inductive together with the facts that the ids of a side belong to clients
\* of that side, and that a suspended client owns a future.

\* The part about the records of one side alone, without cardinalities.
Book(w) ==
    /\ \A i \in DOMAIN w.wakers : w.wakers[i] # SyncWaker => w.wakers[i] \in w.ids
    /\ \A id \in w.ids : \E i \in DOMAIN w.wakers : w.wakers[i] = id
    /\ \A i, j \in DOMAIN w.wakers :
          w.wakers[i] = w.wakers[j] /\ w.wakers[i] # SyncWaker => i = j
    /\ w.ids \cap w.pending = {}

\* The ids of a side belong to its clients.
OwnIds(sd) == wk[sd].ids \cup wk[sd].pending \subseteq Group(sd) \X Gens

\* Who sleeps in a future is queued.
Queued(sd) == \A c \in Group(sd) : st[c] = "pending" => Id(c) \in wk[sd].ids

\* Who was woken by an entry of the queue has not been polled since ...
PendingAreWoken(sd) ==
    clean => \A p \in wk[sd].pending : st[p[1]] = "woken" /\ p = Id(p[1])

\* ... and the other way round, unless everybody was woken by a close.
Open(sd) == IF sd = "recv" THEN senders > 0 ELSE receivers > 0

WokenArePending(sd) ==
    clean => \A c \in Group(sd) : Open(sd) /\ st[c] = "woken" => Id(c) \in wk[sd].pending

\* A side whose other end is closed has nobody asleep and no entries.
ClosedIsEmpty(sd) == ~Open(sd) => Asleep(sd) = {} /\ wk[sd].wakers = <<>>

SideInv(sd) ==
    /\ Book(wk[sd]) /\ OwnIds(sd) /\ Queued(sd)
    /\ PendingAreWoken(sd) /\ WokenArePending(sd) /\ ClosedIsEmpty(sd)

OwnsFuture == \A c \in Clients : st[c] \in {"pending", "woken"} => gen[c] \in Gens

CleanMeans == clean => EntriesAreWaiters

BooksInv == TypeOK /\ OwnsFuture /\ CleanMeans /\ \A sd \in Side : SideInv(sd)

-----------------------------------------------------------------------------
\* The records of one side under the operations on them.

\* What a record of waiters consists of.
LEMMA WaitersFields ==
    ASSUME NEW w \in Waiters
    PROVE  /\ w.wakers \in Seq(Ids \cup {SyncWaker})
           /\ w.ids \subseteq Ids /\ w.pending \subseteq Ids
           /\ DOMAIN w.wakers = 1..Len(w.wakers) /\ Len(w.wakers) \in Nat
           /\ \A i \in DOMAIN w.wakers : w.wakers[i] \in Ids \cup {SyncWaker}
<1>1. w.wakers \in Seq(Ids \cup {SyncWaker}) /\ w.ids \subseteq Ids /\ w.pending \subseteq Ids
  BY DEF Waiters
<1> QED BY <1>1, LenProperties, ElementOfSeq

\* An operation id is a client and a generation, and never None.
LEMMA IdShape ==
    ASSUME NEW id \in Ids
    PROVE  /\ id # SyncWaker /\ id = <<id[1], id[2]>>
           /\ id[1] \in Clients /\ id[2] \in Gens
BY DEF Ids, SyncWaker

\* confirm_*_fut_waked touches the set of woken ids alone.
LEMMA ConfirmFacts ==
    ASSUME NEW w \in Waiters, Book(w), NEW id
    PROVE  /\ Confirm(w, id) \in Waiters /\ Book(Confirm(w, id))
           /\ Confirm(w, id).wakers = w.wakers /\ Confirm(w, id).ids = w.ids
           /\ Confirm(w, id).pending = w.pending \ {id}
<1>1. /\ Confirm(w, id) \in Waiters
      /\ Confirm(w, id).wakers = w.wakers /\ Confirm(w, id).ids = w.ids
      /\ Confirm(w, id).pending = w.pending \ {id}
  BY DEF Confirm, Waiters
<1> QED BY <1>1 DEF Book

\* A future that is not marked as woken can be queued.
LEMMA AppendFutFacts ==
    ASSUME NEW w \in Waiters, Book(w), NEW id \in Ids, id \notin w.pending
    PROVE  /\ AppendFut(w, id) \in Waiters /\ Book(AppendFut(w, id))
           /\ AppendFut(w, id).ids = w.ids \cup {id}
           /\ AppendFut(w, id).pending = w.pending
<1> DEFINE v == AppendFut(w, id)
<1>1. CASE id \in w.ids
  BY <1>1 DEF AppendFut
<1>2. CASE id \notin w.ids
  <2>1. v = [wakers |-> Append(w.wakers, id), ids |-> w.ids \cup {id}, pending |-> w.pending]
    BY <1>2 DEF AppendFut
  <2>2. /\ v.wakers = Append(w.wakers, id)
        /\ v.ids = w.ids \cup {id} /\ v.pending = w.pending
    BY <2>1
  <2>3. /\ v.wakers \in Seq(Ids \cup {SyncWaker})
        /\ Len(v.wakers) = Len(w.wakers) + 1 /\ DOMAIN v.wakers = 1..(Len(w.wakers) + 1)
        /\ v.wakers[Len(w.wakers) + 1] = id
        /\ \A i \in 1..Len(w.wakers) : v.wakers[i] = w.wakers[i]
    BY <2>2, WaitersFields, AppendProperties
  <2>4. v \in Waiters
    BY <2>1, <2>2, <2>3, WaitersFields DEF Waiters
  <2>5. \A i \in 1..Len(w.wakers) : w.wakers[i] # id
    BY <1>2, WaitersFields, IdShape DEF Book
  <2>6. Book(v)
    <3>1. \A i \in DOMAIN v.wakers : v.wakers[i] # SyncWaker => v.wakers[i] \in v.ids
      BY <2>2, <2>3, WaitersFields DEF Book
    <3>2. \A x \in v.ids : \E i \in DOMAIN v.wakers : v.wakers[i] = x
      BY <2>2, <2>3, WaitersFields, SMTT(60) DEF Book
    <3>3. ASSUME NEW i \in DOMAIN v.wakers, NEW j \in DOMAIN v.wakers,
                 v.wakers[i] = v.wakers[j], v.wakers[i] # SyncWaker
          PROVE  i = j
      <4>1. /\ Len(w.wakers) \in Nat /\ DOMAIN w.wakers = 1..Len(w.wakers)
            /\ i \in 1..Len(w.wakers) \/ i = Len(w.wakers) + 1
            /\ j \in 1..Len(w.wakers) \/ j = Len(w.wakers) + 1
        BY <2>3, WaitersFields
      <4> QED BY <2>3, <2>5, <3>3, <4>1, SMTT(60) DEF Book
    <3> QED BY <2>2, <3>1, <3>2, <3>3 DEF Book
  <2> QED BY <2>2, <2>4, <2>6
<1> QED BY <1>1, <1>2

\* So can a blocking call.
LEMMA AppendSyncFacts ==
    ASSUME NEW w \in Waiters, Book(w)
    PROVE  /\ AppendSync(w) \in Waiters /\ Book(AppendSync(w))
           /\ AppendSync(w).ids = w.ids /\ AppendSync(w).pending = w.pending
<1> DEFINE v == AppendSync(w)
<1>1. /\ v.wakers = Append(w.wakers, SyncWaker) /\ v.ids = w.ids /\ v.pending = w.pending
  BY DEF AppendSync, Waiters
<1>2. /\ v.wakers \in Seq(Ids \cup {SyncWaker})
      /\ DOMAIN v.wakers = 1..(Len(w.wakers) + 1)
      /\ v.wakers[Len(w.wakers) + 1] = SyncWaker
      /\ \A i \in 1..Len(w.wakers) : v.wakers[i] = w.wakers[i]
  BY <1>1, WaitersFields, AppendProperties
<1>3. v \in Waiters
  BY <1>1, <1>2 DEF AppendSync, Waiters
<1>4. Book(v)
  <2>1. \A i \in DOMAIN v.wakers : v.wakers[i] # SyncWaker => v.wakers[i] \in v.ids
    BY <1>1, <1>2, WaitersFields DEF Book
  <2>2. \A x \in v.ids : \E i \in DOMAIN v.wakers : v.wakers[i] = x
    BY <1>1, <1>2, WaitersFields DEF Book
  <2>3. \A i, j \in DOMAIN v.wakers :
           v.wakers[i] = v.wakers[j] /\ v.wakers[i] # SyncWaker => i = j
    BY <1>2, WaitersFields, SMTT(60) DEF Book
  <2> QED BY <1>1, <2>1, <2>2, <2>3 DEF Book
<1> QED BY <1>1, <1>3, <1>4

\* wake_next_* takes the head of the queue over to the woken ids.
LEMMA WakeNextFacts ==
    ASSUME NEW w \in Waiters, Book(w)
    PROVE  /\ WakeNext(w) \in Waiters /\ Book(WakeNext(w))
           /\ w.wakers = <<>> => WakeNext(w) = w
           /\ w.wakers # <<>> => Head(w.wakers) \in Ids \cup {SyncWaker}
                                 /\ \E i \in DOMAIN w.wakers : w.wakers[i] = Head(w.wakers)
           /\ w.wakers # <<>> /\ Head(w.wakers) = SyncWaker
                 => WakeNext(w).ids = w.ids /\ WakeNext(w).pending = w.pending
           /\ w.wakers # <<>> /\ Head(w.wakers) # SyncWaker
                 => /\ WakeNext(w).ids = w.ids \ {Head(w.wakers)}
                    /\ WakeNext(w).pending = w.pending \cup {Head(w.wakers)}
                    /\ Head(w.wakers) \in w.ids
<1>1. CASE w.wakers = <<>>
  BY <1>1 DEF WakeNext
<1>2. CASE w.wakers # <<>>
  <2> DEFINE h == Head(w.wakers)
             v == WakeNext(w)
  <2>1. /\ h = w.wakers[1] /\ h \in Ids \cup {SyncWaker} /\ 1 \in DOMAIN w.wakers
        /\ Tail(w.wakers) \in Seq(Ids \cup {SyncWaker})
        /\ DOMAIN Tail(w.wakers) = 1..(Len(w.wakers) - 1)
        /\ \A i \in 1..(Len(w.wakers) - 1) : Tail(w.wakers)[i] = w.wakers[i + 1]
    BY <1>2, WaitersFields, HeadTailProperties, EmptySeq
  <2>2. /\ v.wakers = Tail(w.wakers)
        /\ h = SyncWaker => v.ids = w.ids /\ v.pending = w.pending
        /\ h # SyncWaker => v.ids = w.ids \ {h} /\ v.pending = w.pending \cup {h} /\ h \in w.ids
    <3>1. CASE h = SyncWaker
      BY <1>2, <3>1 DEF WakeNext, Waiters
    <3>2. CASE h # SyncWaker
      BY <1>2, <2>1, <3>2 DEF WakeNext, Book
    <3> QED BY <3>1, <3>2
  <2>3. v \in Waiters
    <3>1. CASE h = SyncWaker
      BY <1>2, <2>1, <3>1 DEF WakeNext, Waiters
    <3>2. CASE h # SyncWaker
      <4>1. v = [wakers |-> Tail(w.wakers), ids |-> w.ids \ {h}, pending |-> w.pending \cup {h}]
        BY <1>2, <3>2 DEF WakeNext
      <4> QED BY <2>1, <3>2, <4>1, WaitersFields DEF Waiters
    <3> QED BY <3>1, <3>2
  <2>4. Book(v)
    <3>0. Len(w.wakers) \in Nat \ {0} /\ DOMAIN w.wakers = 1..Len(w.wakers)
      BY <2>1, WaitersFields
    <3>1. \A i \in DOMAIN v.wakers : v.wakers[i] # SyncWaker => v.wakers[i] \in v.ids
      <4> SUFFICES ASSUME NEW i \in 1..(Len(w.wakers) - 1), w.wakers[i + 1] # SyncWaker
                   PROVE  w.wakers[i + 1] \in v.ids
        BY <2>1, <2>2
      <4>1. i + 1 \in DOMAIN w.wakers /\ i + 1 # 1
        BY <3>0
      <4> QED BY <2>1, <2>2, <4>1 DEF Book
    <3>2. ASSUME NEW x \in v.ids PROVE \E i \in DOMAIN v.wakers : v.wakers[i] = x
      <4>1. x \in w.ids /\ x # h
        BY <2>1, <2>2, <3>2, WaitersFields, IdShape
      <4>2. PICK i \in DOMAIN w.wakers : w.wakers[i] = x
        BY <4>1 DEF Book
      <4>3. i # 1 /\ i - 1 \in 1..(Len(w.wakers) - 1)
        BY <2>1, <3>0, <4>1, <4>2
      <4> QED BY <2>1, <2>2, <3>0, <4>2, <4>3
    <3>3. ASSUME NEW i \in DOMAIN v.wakers, NEW j \in DOMAIN v.wakers,
                 v.wakers[i] = v.wakers[j], v.wakers[i] # SyncWaker
          PROVE  i = j
      <4>1. /\ i + 1 \in DOMAIN w.wakers /\ j + 1 \in DOMAIN w.wakers
            /\ v.wakers[i] = w.wakers[i + 1] /\ v.wakers[j] = w.wakers[j + 1]
            /\ i \in Nat /\ j \in Nat
        BY <2>1, <2>2, <3>0, <3>3, SMTT(60)
      <4>2. i + 1 = j + 1
        BY <3>3, <4>1 DEF Book
      <4> QED BY <4>1, <4>2
    <3>4. v.ids \cap v.pending = {}
      BY <2>2 DEF Book
    <3> QED BY <3>1, <3>2, <3>3, <3>4 DEF Book
  <2> QED BY <1>2, <2>1, <2>2, <2>3, <2>4
<1> QED BY <1>1, <1>2

\* wake_all_* empties the queue.
LEMMA WakeAllFacts ==
    ASSUME NEW w \in Waiters, Book(w)
    PROVE  /\ WakeAll(w) \in Waiters /\ Book(WakeAll(w))
           /\ WakeAll(w).wakers = <<>> /\ WakeAll(w).ids = {}
           /\ WakeAll(w).pending = w.pending
<1>1. /\ WakeAll(w).wakers = <<>> /\ WakeAll(w).ids = {} /\ WakeAll(w).pending = w.pending
  BY DEF WakeAll
<1>2. WakeAll(w) \in Waiters
  <2>1. <<>> \in Seq(Ids \cup {SyncWaker}) /\ w.pending \subseteq Ids
    BY EmptySeq, WaitersFields
  <2> QED BY <2>1 DEF WakeAll, Waiters
<1>3. DOMAIN WakeAll(w).wakers = {}
  BY <1>1
<1> QED BY <1>1, <1>2, <1>3 DEF Book

\* Removing the element at k closes the gap.
LEMMA RemoveAtFacts ==
    ASSUME NEW S, NEW s \in Seq(S), NEW k \in 1..Len(s)
    PROVE  /\ RemoveAt(s, k) \in Seq(S) /\ Len(s) \in Nat
           /\ DOMAIN RemoveAt(s, k) = 1..(Len(s) - 1)
           /\ \A i \in 1..(Len(s) - 1) :
                 RemoveAt(s, k)[i] = IF i < k THEN s[i] ELSE s[i + 1]
<1>0. Len(s) \in Nat /\ k \in Nat
  BY LenProperties
<1> DEFINE a == SubSeq(s, 1, k - 1)
           b == SubSeq(s, k + 1, Len(s))
<1>1. a \in Seq(S) /\ Len(a) = k - 1 /\ \A i \in 1..(k - 1) : a[i] = s[i]
  <2>1. \A i \in 1..(k - 1) : s[i] \in S
    BY <1>0, ElementOfSeq
  <2> QED BY <1>0, <2>1, SubSeqProperties
<1>2. /\ b \in Seq(S) /\ Len(b) = Len(s) - k
      /\ \A i \in 1..(Len(s) - k) : b[i] = s[k + i]
  <2>1. \A i \in (k + 1)..Len(s) : s[i] \in S
    BY <1>0, ElementOfSeq
  <2> QED BY <1>0, <2>1, SubSeqProperties
<1>3. /\ a \o b \in Seq(S) /\ Len(a \o b) = Len(s) - 1
      /\ \A i \in 1..(Len(s) - 1) : (a \o b)[i] = IF i <= k - 1 THEN a[i] ELSE b[i - (k - 1)]
  <2>1. /\ a \o b \in Seq(S) /\ Len(a \o b) = Len(a) + Len(b)
        /\ \A i \in 1..(Len(a) + Len(b)) :
              (a \o b)[i] = IF i <= Len(a) THEN a[i] ELSE b[i - Len(a)]
    BY <1>1, <1>2, ConcatProperties
  <2> HIDE DEF a, b
  <2>2. Len(a) + Len(b) = Len(s) - 1
    BY <1>0, <1>1, <1>2
  <2> QED BY <1>1, <2>1, <2>2
<1>4. \A i \in 1..(Len(s) - 1) : (a \o b)[i] = IF i < k THEN s[i] ELSE s[i + 1]
  <2> HIDE DEF a, b
  <2> TAKE i \in 1..(Len(s) - 1)
  <2>1. CASE i < k
    <3>1. i \in 1..(k - 1) /\ i <= k - 1
      BY <1>0, <2>1
    <3>2. (a \o b)[i] = a[i] /\ a[i] = s[i]
      BY <1>1, <1>3, <3>1
    <3> QED BY <2>1, <3>2
  <2>2. CASE ~(i < k)
    <3>1. i - (k - 1) \in 1..(Len(s) - k) /\ k + (i - (k - 1)) = i + 1 /\ ~(i <= k - 1)
      BY <1>0, <2>2
    <3> QED BY <1>2, <1>3, <2>2, <3>1
  <2> QED BY <2>1, <2>2
<1>5. DOMAIN (a \o b) = 1..(Len(s) - 1)
  BY <1>3, LenProperties
<1> QED BY <1>0, <1>3, <1>4, <1>5 DEF RemoveAt

\* notify_*_fut_drop removes every trace of the future and no other entry.
LEMMA ForgetFacts ==
    ASSUME NEW w \in Waiters, Book(w), NEW id \in Ids
    PROVE  /\ Forget(w, id) \in Waiters /\ Book(Forget(w, id))
           /\ Forget(w, id).ids = w.ids \ {id} /\ Forget(w, id).pending = w.pending \ {id}
           /\ \A i \in DOMAIN Forget(w, id).wakers :
                 /\ Forget(w, id).wakers[i] # id
                 /\ \E j \in DOMAIN w.wakers : w.wakers[j] = Forget(w, id).wakers[i]
           /\ \A j \in DOMAIN w.wakers : w.wakers[j] # id =>
                 \E i \in DOMAIN Forget(w, id).wakers : Forget(w, id).wakers[i] = w.wakers[j]
<1> DEFINE v == Forget(w, id)
<1>1. CASE At(w, id) = {}
  <2>1. v = Confirm(w, id) /\ id \notin w.ids /\ \A j \in DOMAIN w.wakers : w.wakers[j] # id
    BY <1>1 DEF Forget, At, Book
  <2>2. /\ v \in Waiters /\ Book(v) /\ v.wakers = w.wakers
        /\ v.ids = w.ids /\ v.pending = w.pending \ {id}
    BY <2>1, ConfirmFacts
  <2> QED BY <2>1, <2>2
<1>2. CASE At(w, id) # {}
  <2>1. PICK k \in DOMAIN w.wakers : w.wakers[k] = id
    BY <1>2 DEF At
  <2>2. At(w, id) = {k}
    BY <2>1, IdShape DEF At, Book
  <2>3. Min({k}) = k
    <3>1. \A x \in {k} : (\A y \in {k} : x <= y) => x = k
      OBVIOUS
    <3>2. k <= k
      BY <2>1, WaitersFields
    <3> QED BY <3>1, <3>2 DEF Min
  <2>4. v = [wakers |-> RemoveAt(w.wakers, k), ids |-> w.ids \ {id}, pending |-> w.pending \ {id}]
    BY <1>2, <2>2, <2>3 DEF Forget
  <2>5. /\ v.wakers = RemoveAt(w.wakers, k)
        /\ v.ids = w.ids \ {id} /\ v.pending = w.pending \ {id}
    BY <2>4
  <2>6. /\ w.wakers \in Seq(Ids \cup {SyncWaker}) /\ Len(w.wakers) \in Nat
        /\ DOMAIN w.wakers = 1..Len(w.wakers) /\ k \in 1..Len(w.wakers)
    BY WaitersFields
  <2>7. /\ v.wakers \in Seq(Ids \cup {SyncWaker})
        /\ DOMAIN v.wakers = 1..(Len(w.wakers) - 1)
        /\ \A i \in 1..(Len(w.wakers) - 1) :
              v.wakers[i] = IF i < k THEN w.wakers[i] ELSE w.wakers[i + 1]
    BY <2>5, <2>6, RemoveAtFacts
  <2>8. v \in Waiters
    BY <2>4, <2>5, <2>7, WaitersFields DEF Waiters
  <2> DEFINE From(i) == IF i < k THEN i ELSE i + 1
  <2>9. /\ \A i \in DOMAIN v.wakers :
              From(i) \in DOMAIN w.wakers /\ From(i) # k /\ v.wakers[i] = w.wakers[From(i)]
        /\ \A i, j \in DOMAIN v.wakers : From(i) = From(j) => i = j
    <3>1. ASSUME NEW i \in DOMAIN v.wakers
          PROVE  /\ From(i) \in DOMAIN w.wakers /\ From(i) # k
                 /\ v.wakers[i] = w.wakers[From(i)]
      <4>1. i \in 1..(Len(w.wakers) - 1)
        BY <2>7, <3>1
      <4>2. From(i) \in 1..Len(w.wakers) /\ From(i) # k
        BY <2>6, <4>1
      <4>3. v.wakers[i] = w.wakers[From(i)]
        BY <2>7, <4>1
      <4> QED BY <2>6, <4>2, <4>3
    <3>2. \A i, j \in 1..(Len(w.wakers) - 1) : From(i) = From(j) => i = j
      BY <2>6
    <3> QED BY <2>7, <3>1, <3>2
  <2>10. \A j \in DOMAIN w.wakers : j # k => \E i \in DOMAIN v.wakers : From(i) = j
    <3> TAKE j \in DOMAIN w.wakers
    <3> HAVE j # k
    <3>1. CASE j < k
      <4>1. j \in DOMAIN v.wakers /\ From(j) = j
        BY <2>6, <2>7, <3>1
      <4> QED BY <4>1
    <3>2. CASE ~(j < k)
      <4>1. j - 1 \in DOMAIN v.wakers /\ From(j - 1) = j
        BY <2>6, <2>7, <3>2
      <4> QED BY <4>1
    <3> QED BY <3>1, <3>2
  <2> HIDE DEF From, v
  <2>11. \A i \in DOMAIN v.wakers : v.wakers[i] # id
    BY <2>1, <2>9, IdShape DEF Book
  <2>12. \A j \in DOMAIN w.wakers : w.wakers[j] # id =>
            \E i \in DOMAIN v.wakers : v.wakers[i] = w.wakers[j]
    BY <2>1, <2>9, <2>10
  <2>13. Book(v)
    <3>1. \A i \in DOMAIN v.wakers : v.wakers[i] # SyncWaker => v.wakers[i] \in v.ids
      BY <2>5, <2>9, <2>11 DEF Book
    <3>2. \A x \in v.ids : \E i \in DOMAIN v.wakers : v.wakers[i] = x
      BY <2>5, <2>12 DEF Book
    <3>3. \A i, j \in DOMAIN v.wakers :
             v.wakers[i] = v.wakers[j] /\ v.wakers[i] # SyncWaker => i = j
      BY <2>9 DEF Book
    <3> QED BY <2>5, <3>1, <3>2, <3>3 DEF Book
  <2> QED BY <2>5, <2>8, <2>9, <2>11, <2>12, <2>13 DEF v
<1> QED BY <1>1, <1>2

-----------------------------------------------------------------------------
\* What a step does to SideInv, by the part the side plays in it.

\* Nothing happens on the side, but that a client c which is in no future and
\* does not go to sleep may move.
LEMMA SideQuiet ==
    ASSUME NEW sd \in Side, SideInv(sd), clean' => clean, wk'[sd] = wk[sd],
           Open(sd)' = Open(sd), NEW c,
           \A u \in Group(sd) \ {c} : st'[u] = st[u] /\ gen'[u] = gen[u],
           c \in Group(sd) => /\ st[c] \notin {"pending", "woken"}
                              /\ st'[c] \notin {"pending", "woken", "waiting"}
    PROVE  SideInv(sd)'
<1>1. Book(wk'[sd]) /\ OwnIds(sd)'
  BY DEF SideInv, OwnIds, Group
<1>2. Queued(sd)' /\ WokenArePending(sd)'
  BY DEF SideInv, Queued, WokenArePending, Id, Group
<1>3. PendingAreWoken(sd)'
  <2> SUFFICES ASSUME clean', NEW p \in wk'[sd].pending
               PROVE  st'[p[1]] = "woken" /\ p = <<p[1], gen'[p[1]]>>
    BY DEF PendingAreWoken, Id
  <2>1. p[1] \in Group(sd) /\ st[p[1]] = "woken" /\ p = <<p[1], gen[p[1]]>>
    BY DEF SideInv, PendingAreWoken, OwnIds, Id
  <2> QED BY <2>1
<1>4. ClosedIsEmpty(sd)'
  BY DEF SideInv, ClosedIsEmpty, Asleep, Group
<1> QED BY <1>1, <1>2, <1>3, <1>4 DEF SideInv

\* The client c of the side ends the operation its future stands for.
LEMMA SideConfirm ==
    ASSUME NEW sd \in Side, wk[sd] \in Waiters, SideInv(sd), clean' => clean,
           NEW c \in Group(sd), st[c] \in {"pending", "woken"},
           wk'[sd] = Confirm(wk[sd], Id(c)), Open(sd)' = Open(sd),
           \A u \in Group(sd) \ {c} : st'[u] = st[u] /\ gen'[u] = gen[u],
           st'[c] = "idle"
    PROVE  SideInv(sd)'
<1>0. /\ Book(wk'[sd]) /\ wk'[sd].wakers = wk[sd].wakers /\ wk'[sd].ids = wk[sd].ids
      /\ wk'[sd].pending = wk[sd].pending \ {Id(c)}
  BY ConfirmFacts DEF SideInv
<1>1. OwnIds(sd)'
  BY <1>0 DEF SideInv, OwnIds, Group
<1>2. Queued(sd)'
  BY <1>0 DEF SideInv, Queued, Id, Group
<1>3. PendingAreWoken(sd)'
  <2> SUFFICES ASSUME clean', NEW p \in wk'[sd].pending
               PROVE  st'[p[1]] = "woken" /\ p = <<p[1], gen'[p[1]]>>
    BY DEF PendingAreWoken, Id
  <2>1. /\ p[1] \in Group(sd) /\ st[p[1]] = "woken"
        /\ p = Id(p[1]) /\ p # Id(c)
    BY <1>0 DEF SideInv, PendingAreWoken, OwnIds
  <2> QED BY <2>1 DEF Id
<1>4. WokenArePending(sd)'
  <2> SUFFICES ASSUME clean', NEW u \in Group(sd), Open(sd)', st'[u] = "woken"
               PROVE  <<u, gen'[u]>> \in wk'[sd].pending
    BY DEF WokenArePending, Id, Group
  <2>1. u # c /\ <<u, gen[u]>> \in wk[sd].pending /\ gen'[u] = gen[u]
    BY DEF SideInv, WokenArePending, Id
  <2> QED BY <1>0, <2>1 DEF Id
<1>5. ClosedIsEmpty(sd)'
  BY <1>0 DEF SideInv, ClosedIsEmpty, Asleep, Group
<1> QED BY <1>0, <1>1, <1>2, <1>3, <1>4, <1>5 DEF SideInv

\* The client c of the side suspends a future of generation g, new or polled
\* again; w is the record with the mark of an earlier wakeup taken off.
LEMMA SideSuspend ==
    ASSUME NEW sd \in Side, wk[sd] \in Waiters, SideInv(sd), clean' => clean,
           NEW c \in Group(sd), c \in Clients, NEW g \in Gens, NEW w,
           \/ /\ w = wk[sd] /\ st[c] \notin {"pending", "woken"}
              /\ <<c, g>> \notin wk[sd].pending
           \/ /\ w = Confirm(wk[sd], Id(c)) /\ g = gen[c],
           wk'[sd] = AppendFut(w, <<c, g>>), Open(sd), Open(sd)',
           \A u \in Group(sd) \ {c} : st'[u] = st[u] /\ gen'[u] = gen[u],
           st'[c] = "pending", gen'[c] = g
    PROVE  SideInv(sd)' /\ wk'[sd] \in Waiters
<1>0. /\ w \in Waiters /\ Book(w) /\ w.ids = wk[sd].ids
      /\ w.pending \subseteq wk[sd].pending /\ <<c, g>> \notin w.pending
      /\ \A p \in wk[sd].pending \ w.pending : p = Id(c)
  BY ConfirmFacts DEF SideInv, Id
<1>1. <<c, g>> \in Ids
  BY DEF Ids
<1>2. /\ wk'[sd] \in Waiters /\ Book(wk'[sd])
      /\ wk'[sd].ids = wk[sd].ids \cup {<<c, g>>} /\ wk'[sd].pending = w.pending
  BY <1>0, <1>1, AppendFutFacts
<1>3. OwnIds(sd)'
  BY <1>0, <1>2 DEF SideInv, OwnIds, Group
<1>4. Queued(sd)'
  BY <1>2 DEF SideInv, Queued, Id, Group
<1>5. PendingAreWoken(sd)'
  <2> SUFFICES ASSUME clean', NEW p \in wk'[sd].pending
               PROVE  st'[p[1]] = "woken" /\ p = <<p[1], gen'[p[1]]>>
    BY DEF PendingAreWoken, Id
  <2>1. /\ p[1] \in Group(sd) /\ st[p[1]] = "woken" /\ p = Id(p[1])
    BY <1>0, <1>2 DEF SideInv, PendingAreWoken, OwnIds
  <2>2. p[1] # c
    BY <1>0, <1>2, <2>1 DEF Id
  <2> QED BY <2>1, <2>2 DEF Id
<1>6. WokenArePending(sd)'
  <2> SUFFICES ASSUME clean', NEW u \in Group(sd), Open(sd)', st'[u] = "woken"
               PROVE  <<u, gen'[u]>> \in wk'[sd].pending
    BY DEF WokenArePending, Id, Group
  <2>1. u # c /\ <<u, gen[u]>> \in wk[sd].pending /\ gen'[u] = gen[u]
    BY DEF SideInv, WokenArePending, Id
  <2> QED BY <1>0, <1>2, <2>1 DEF Id
<1>7. ClosedIsEmpty(sd)'
  BY DEF ClosedIsEmpty
<1> QED BY <1>2, <1>3, <1>4, <1>5, <1>6, <1>7 DEF SideInv

\* The client c of the side blocks.
LEMMA SideBlock ==
    ASSUME NEW sd \in Side, wk[sd] \in Waiters, SideInv(sd), clean' => clean,
           NEW c \in Group(sd), st[c] \notin {"pending", "woken"},
           wk'[sd] = AppendSync(wk[sd]), Open(sd), Open(sd)',
           \A u \in Group(sd) \ {c} : st'[u] = st[u] /\ gen'[u] = gen[u],
           st'[c] = "waiting"
    PROVE  SideInv(sd)' /\ wk'[sd] \in Waiters
<1>1. /\ wk'[sd] \in Waiters /\ Book(wk'[sd])
      /\ wk'[sd].ids = wk[sd].ids /\ wk'[sd].pending = wk[sd].pending
  BY AppendSyncFacts DEF SideInv
<1>2. OwnIds(sd)'
  BY <1>1 DEF SideInv, OwnIds, Group
<1>3. Queued(sd)' /\ WokenArePending(sd)'
  BY <1>1 DEF SideInv, Queued, WokenArePending, Id, Group
<1>4. PendingAreWoken(sd)'
  <2> SUFFICES ASSUME clean', NEW p \in wk'[sd].pending
               PROVE  st'[p[1]] = "woken" /\ p = <<p[1], gen'[p[1]]>>
    BY DEF PendingAreWoken, Id
  <2>1. p[1] \in Group(sd) /\ st[p[1]] = "woken" /\ p = <<p[1], gen[p[1]]>>
    BY <1>1 DEF SideInv, PendingAreWoken, OwnIds, Id
  <2> QED BY <2>1
<1>5. ClosedIsEmpty(sd)'
  BY DEF ClosedIsEmpty
<1> QED BY <1>1, <1>2, <1>3, <1>4, <1>5 DEF SideInv

\* The record w of the side is fit for a wakeup that c, if it is a client of
\* the side, takes no part in.
WakeReady(sd, w, c) ==
    /\ w \in Waiters /\ Book(w) /\ w.ids \cup w.pending \subseteq Group(sd) \X Gens
    /\ \A u \in Group(sd) \ {c} : st[u] = "pending" => Id(u) \in w.ids
    /\ clean =>
          /\ \A p \in w.pending : p[1] # c /\ st[p[1]] = "woken" /\ p = Id(p[1])
          /\ \A u \in Group(sd) \ {c} : Open(sd) /\ st[u] = "woken" => Id(u) \in w.pending
          /\ \A i \in DOMAIN w.wakers : w.wakers[i] # SyncWaker =>
                LET e == w.wakers[i]
                IN  e[1] # c /\ st[e[1]] = "pending" /\ e = Id(e[1])
    /\ ~Open(sd) => Asleep(sd) = {} /\ w.wakers = <<>>

\* The clients of the side after those of W were reached, c aside.
Reaches(sd, W, c) ==
    \A u \in Group(sd) \ {c} :
        /\ gen'[u] = gen[u]
        /\ st'[u] = IF u \in W /\ st[u] = "pending" THEN "woken"
                    ELSE IF u \in W /\ st[u] = "waiting" THEN "signalled"
                    ELSE st[u]

\* The side a step wakes somebody on is ready for it ...
LEMMA OtherReady ==
    ASSUME NEW sd \in Side, SideInv(sd), wk[sd] \in Waiters, CleanMeans,
           NEW c, c \notin Group(sd)
    PROVE  WakeReady(sd, wk[sd], c)
<1>1. ASSUME clean, NEW i \in DOMAIN wk[sd].wakers, wk[sd].wakers[i] # SyncWaker
      PROVE  LET e == wk[sd].wakers[i]
             IN  e[1] # c /\ st[e[1]] = "pending" /\ e = Id(e[1])
  <2>1. wk[sd].wakers[i] \in Group(sd) \X Gens
    BY <1>1 DEF SideInv, Book, OwnIds
  <2> QED BY <1>1, <2>1 DEF CleanMeans, EntriesAreWaiters
<1>2. ASSUME clean, NEW p \in wk[sd].pending
      PROVE  p[1] # c /\ st[p[1]] = "woken" /\ p = Id(p[1])
  BY <1>2 DEF SideInv, PendingAreWoken, OwnIds
<1> QED
  BY <1>1, <1>2
  DEF WakeReady, SideInv, OwnIds, Queued, WokenArePending, ClosedIsEmpty

\* ... and so is the side of a future that is dropped, once it is forgotten.
LEMMA ForgetReady ==
    ASSUME NEW sd \in Side, SideInv(sd), wk[sd] \in Waiters, CleanMeans,
           NEW c \in Group(sd), Id(c) \in Ids
    PROVE  WakeReady(sd, Forget(wk[sd], Id(c)), c)
<1> DEFINE w == Forget(wk[sd], Id(c))
<1>0. /\ w \in Waiters /\ Book(w)
      /\ w.ids = wk[sd].ids \ {Id(c)} /\ w.pending = wk[sd].pending \ {Id(c)}
      /\ \A i \in DOMAIN w.wakers :
            w.wakers[i] # Id(c) /\ \E j \in DOMAIN wk[sd].wakers : wk[sd].wakers[j] = w.wakers[i]
  BY ForgetFacts DEF SideInv
<1> HIDE DEF w
<1>1. ASSUME clean, NEW i \in DOMAIN w.wakers, w.wakers[i] # SyncWaker
      PROVE  LET e == w.wakers[i]
             IN  e[1] # c /\ st[e[1]] = "pending" /\ e = Id(e[1])
  <2>1. PICK j \in DOMAIN wk[sd].wakers : wk[sd].wakers[j] = w.wakers[i]
    BY <1>0, <1>1
  <2>2. LET e == wk[sd].wakers[j] IN st[e[1]] = "pending" /\ e = Id(e[1])
    BY <1>1, <2>1 DEF CleanMeans, EntriesAreWaiters
  <2> QED BY <1>0, <1>1, <2>1, <2>2
<1>2. ASSUME clean, NEW p \in w.pending
      PROVE  p[1] # c /\ st[p[1]] = "woken" /\ p = Id(p[1])
  BY <1>0, <1>2 DEF SideInv, PendingAreWoken
<1>3. \A u \in Group(sd) \ {c} : Id(u) # Id(c)
  BY DEF Id
<1>4. w.wakers # <<>> => wk[sd].wakers # <<>>
  <2>1. ASSUME w.wakers # <<>> PROVE 1 \in DOMAIN w.wakers
    BY <1>0, <2>1, WaitersFields, EmptySeq
  <2> QED BY <1>0, <2>1
<1>5. w.ids \cup w.pending \subseteq Group(sd) \X Gens
  BY <1>0 DEF SideInv, OwnIds
<1>6. \A u \in Group(sd) \ {c} :
         /\ st[u] = "pending" => Id(u) \in w.ids
         /\ clean /\ Open(sd) /\ st[u] = "woken" => Id(u) \in w.pending
  BY <1>0, <1>3 DEF SideInv, Queued, WokenArePending
<1>7. ~Open(sd) => Asleep(sd) = {} /\ w.wakers = <<>>
  BY <1>4 DEF SideInv, ClosedIsEmpty
<1>8. WakeReady(sd, w, c)
  BY <1>0, <1>1, <1>2, <1>5, <1>6, <1>7 DEF WakeReady
<1> QED BY <1>8 DEF w

\* Nobody is woken.
LEMMA SideReady ==
    ASSUME NEW sd \in Side, NEW w, NEW c, WakeReady(sd, w, c), clean' => clean,
           wk'[sd] = w, Reaches(sd, {}, c), c \in Group(sd) => st'[c] = "idle",
           Open(sd)' = Open(sd)
    PROVE  SideInv(sd)'
<1>1. Book(wk'[sd]) /\ OwnIds(sd)'
  BY DEF WakeReady, OwnIds, Group
<1>2. Queued(sd)' /\ WokenArePending(sd)'
  BY DEF WakeReady, Reaches, Queued, WokenArePending, Id, Group
<1>3. PendingAreWoken(sd)'
  <2> SUFFICES ASSUME clean', NEW p \in wk'[sd].pending
               PROVE  st'[p[1]] = "woken" /\ p = <<p[1], gen'[p[1]]>>
    BY DEF PendingAreWoken, Id
  <2>1. p[1] \in Group(sd) \ {c} /\ st[p[1]] = "woken" /\ p = <<p[1], gen[p[1]]>>
    BY DEF WakeReady, Id
  <2> QED BY <2>1 DEF Reaches
<1>4. ClosedIsEmpty(sd)'
  BY DEF WakeReady, Reaches, ClosedIsEmpty, Asleep, Group
<1> QED BY <1>1, <1>2, <1>3, <1>4 DEF SideInv

\* wake_next_send, wake_next_recv.
LEMMA SideWake ==
    ASSUME NEW sd \in Side, NEW w, NEW c, WakeReady(sd, w, c), clean' => clean,
           wk'[sd] = WakeNext(w), NEW W \in Reached(w, sd), Reaches(sd, W, c),
           c \in Group(sd) => st'[c] = "idle", Open(sd)' = Open(sd)
    PROVE  SideInv(sd)' /\ wk'[sd] \in Waiters
<1>0. w \in Waiters /\ Book(w) /\ WakeNext(w) \in Waiters /\ Book(WakeNext(w))
  BY WakeNextFacts DEF WakeReady
<1>1. CASE w.wakers = <<>>
  <2>1. W = {} /\ wk'[sd] = w
    BY <1>0, <1>1, WakeNextFacts DEF Reached
  <2> QED BY <1>0, <2>1, SideReady
<1>2. CASE w.wakers # <<>> /\ Head(w.wakers) = SyncWaker
  <2>1. wk'[sd].ids = w.ids /\ wk'[sd].pending = w.pending
    BY <1>0, <1>2, WakeNextFacts
  <2>2. W \subseteq Waiting(sd)
    BY <1>2 DEF Reached
  <2>3. \A u \in Group(sd) \ {c} : /\ st'[u] = "pending" <=> st[u] = "pending"
                                   /\ st'[u] = "woken" <=> st[u] = "woken"
                                   /\ gen'[u] = gen[u]
    BY <2>2 DEF Reaches, Waiting
  <2>4. OwnIds(sd)'
    BY <2>1 DEF WakeReady, OwnIds, Group
  <2>5. Queued(sd)' /\ WokenArePending(sd)'
    BY <2>1, <2>3 DEF WakeReady, Queued, WokenArePending, Id, Group
  <2>6. PendingAreWoken(sd)'
    <3> SUFFICES ASSUME clean', NEW p \in wk'[sd].pending
                 PROVE  st'[p[1]] = "woken" /\ p = <<p[1], gen'[p[1]]>>
      BY DEF PendingAreWoken, Id
    <3>1. p[1] \in Group(sd) \ {c} /\ st[p[1]] = "woken" /\ p = <<p[1], gen[p[1]]>>
      BY <2>1 DEF WakeReady, Id
    <3> QED BY <2>3, <3>1
  <2>7. ClosedIsEmpty(sd)'
    BY <1>2 DEF WakeReady, ClosedIsEmpty
  <2> QED BY <1>0, <2>4, <2>5, <2>6, <2>7 DEF SideInv
<1>3. CASE w.wakers # <<>> /\ Head(w.wakers) # SyncWaker
  <2> DEFINE h == Head(w.wakers)
  <2>1. /\ wk'[sd].ids = w.ids \ {h} /\ wk'[sd].pending = w.pending \cup {h}
        /\ h \in w.ids
    BY <1>0, <1>3, WakeNextFacts
  <2>2. PICK i \in DOMAIN w.wakers : w.wakers[i] = h
    BY <1>0, <1>3, WakeNextFacts
  <2>3. W = {h[1]} /\ h[1] \in Group(sd)
    BY <1>3, <2>1 DEF Reached, WakeReady
  <2>4. clean => h[1] # c /\ st[h[1]] = "pending" /\ h = Id(h[1])
    BY <1>3, <2>2 DEF WakeReady
  <2> HIDE DEF h
  <2>5. OwnIds(sd)'
    BY <2>1 DEF WakeReady, OwnIds, Group
  <2>6. Queued(sd)'
    <3> SUFFICES ASSUME NEW u \in Group(sd), st'[u] = "pending"
                 PROVE  <<u, gen'[u]>> \in wk'[sd].ids
      BY DEF Queued, Id, Group
    <3>1. u # c /\ st[u] = "pending" /\ u # h[1] /\ gen'[u] = gen[u]
      BY <2>3 DEF Reaches
    <3>2. Id(u) \in w.ids /\ Id(u) # h
      BY <3>1 DEF WakeReady, Id
    <3> QED BY <2>1, <3>1, <3>2 DEF Id
  <2>7. PendingAreWoken(sd)'
    <3> SUFFICES ASSUME clean', NEW p \in wk'[sd].pending
                 PROVE  st'[p[1]] = "woken" /\ p = <<p[1], gen'[p[1]]>>
      BY DEF PendingAreWoken, Id
    <3>1. CASE p = h
      BY <2>3, <2>4, <3>1 DEF Reaches, Id
    <3>2. CASE p \in w.pending
      <4>1. p[1] \in Group(sd) \ {c} /\ st[p[1]] = "woken" /\ p = <<p[1], gen[p[1]]>>
        BY <3>2 DEF WakeReady, Id
      <4> QED BY <4>1 DEF Reaches
    <3> QED BY <2>1, <3>1, <3>2
  <2>8. WokenArePending(sd)'
    <3> SUFFICES ASSUME clean', NEW u \in Group(sd), Open(sd)', st'[u] = "woken"
                 PROVE  <<u, gen'[u]>> \in wk'[sd].pending
      BY DEF WokenArePending, Id, Group
    <3>1. u # c /\ gen'[u] = gen[u] /\ (st[u] = "woken" \/ u = h[1])
      BY <2>3 DEF Reaches
    <3>2. CASE st[u] = "woken"
      BY <2>1, <3>1, <3>2 DEF WakeReady, Id
    <3>3. CASE u = h[1]
      BY <2>1, <2>4, <3>1, <3>3 DEF Id
    <3> QED BY <3>1, <3>2, <3>3
  <2>9. ClosedIsEmpty(sd)'
    BY <1>3 DEF WakeReady, ClosedIsEmpty
  <2> QED BY <1>0, <2>5, <2>6, <2>7, <2>8, <2>9 DEF SideInv
<1> QED BY <1>1, <1>2, <1>3

\* wake_all_sends, wake_all_recvs, by the drop of the last handle of the other
\* side.
LEMMA SideWakeAll ==
    ASSUME NEW sd \in Side, SideInv(sd), wk[sd] \in Waiters, clean' => clean,
           NEW c, c \notin Group(sd),
           wk'[sd] = WakeAll(wk[sd]), Reaches(sd, AllReached(sd), c), ~Open(sd)'
    PROVE  SideInv(sd)' /\ wk'[sd] \in Waiters
<1>1. /\ wk'[sd] \in Waiters /\ Book(wk'[sd]) /\ wk'[sd].wakers = <<>>
      /\ wk'[sd].ids = {} /\ wk'[sd].pending = wk[sd].pending
  BY WakeAllFacts DEF SideInv
<1>2. \A u \in Group(sd) : st'[u] \notin {"pending", "waiting"}
  <2> SUFFICES ASSUME NEW u \in Group(sd), st[u] \in {"pending", "waiting"}
               PROVE  u \in AllReached(sd)
    BY DEF Reaches
  <2>1. CASE st[u] = "waiting"
    BY <2>1 DEF AllReached, Waiting
  <2>2. CASE st[u] = "pending"
    <3>1. Id(u) \in wk[sd].ids
      BY <2>2 DEF SideInv, Queued
    <3>2. PICK i \in DOMAIN wk[sd].wakers : wk[sd].wakers[i] = Id(u)
      BY <3>1 DEF SideInv, Book
    <3>3. Id(u) # SyncWaker /\ Id(u)[1] = u
      BY DEF Id, SyncWaker
    <3> QED BY <3>2, <3>3 DEF AllReached
  <2> QED BY <2>1, <2>2
<1>3. OwnIds(sd)' /\ Queued(sd)' /\ WokenArePending(sd)' /\ ClosedIsEmpty(sd)'
  BY <1>1, <1>2
  DEF SideInv, OwnIds, Queued, WokenArePending, ClosedIsEmpty, Asleep, Group
<1>4. PendingAreWoken(sd)'
  <2> SUFFICES ASSUME clean', NEW p \in wk'[sd].pending
               PROVE  st'[p[1]] = "woken" /\ p = <<p[1], gen'[p[1]]>>
    BY DEF PendingAreWoken, Id
  <2>1. p[1] \in Group(sd) /\ st[p[1]] = "woken" /\ p = <<p[1], gen[p[1]]>>
    BY <1>1 DEF SideInv, PendingAreWoken, OwnIds, Id
  <2> QED BY <2>1 DEF Reaches
<1> QED BY <1>1, <1>3, <1>4 DEF SideInv

-----------------------------------------------------------------------------
\* The clients under the operations on them.

Opposite(sd) == IF sd = "send" THEN "recv" ELSE "send"

\* The part of TypeOK that is about the clients, and OwnsFuture.
ClientsOK ==
    /\ st \in [Clients -> ClientState] /\ timed \in [Clients -> BOOLEAN]
    /\ gen \in [Clients -> Gens \cup {0}] /\ arg \in [Senders -> Msg \cup {NoMsg}]
    /\ \A s \in Senders :
          st[s] \in {"pending", "woken", "waiting", "signalled"} => arg[s] \in Msg
    /\ OwnsFuture

SameLive == \A u \in Clients : st'[u] \in Live <=> st[u] \in Live

\* The two forms in which the code's updates of both sides are written.
LEMMA WkForms ==
    ASSUME NEW w, NEW v
    PROVE  /\ wk' = [send |-> w, recv |-> v] =>
                 wk' = [x \in Side |-> IF x = "send" THEN w ELSE v]
           /\ wk \in [Side -> Waiters] =>
                 /\ wk' = [wk EXCEPT !.send = w] =>
                       wk' = [x \in Side |-> IF x = "send" THEN w ELSE wk["recv"]]
                 /\ wk' = [wk EXCEPT !.recv = w] =>
                       wk' = [x \in Side |-> IF x = "send" THEN wk["send"] ELSE w]
BY DEF Side

\* The clients of a side are clients, and of no other side.
LEMMA Groups ==
    ASSUME NEW sd \in Side
    PROVE  /\ Group(sd) \subseteq Clients /\ IsFiniteSet(Group(sd))
           /\ Opposite(sd) \in Side /\ Opposite(sd) # sd
           /\ \A x \in Side : x = sd \/ x = Opposite(sd)
           /\ Group(sd) \cap Group(Opposite(sd)) = {}
           /\ \A u \in Clients : u \in Group(sd) \/ u \in Group(Opposite(sd))
BY ClientsAssumption DEF Side, Group, Clients, Opposite

\* What reaching the clients of W and moving c does.
LEMMA MovedFacts ==
    ASSUME st \in [Clients -> ClientState], NEW W, NEW c \in Clients, NEW x \in ClientState,
           st' = Moved(W, c, x)
    PROVE  /\ st' \in [Clients -> ClientState] /\ st'[c] = x
           /\ \A u \in Clients \ {c} :
                 /\ st'[u] = IF u \in W /\ st[u] = "pending" THEN "woken"
                             ELSE IF u \in W /\ st[u] = "waiting" THEN "signalled"
                             ELSE st[u]
                 /\ st'[u] \in Live <=> st[u] \in Live
<1>1. /\ st'[c] = x
      /\ \A u \in Clients \ {c} :
            st'[u] = IF u \in W /\ st[u] = "pending" THEN "woken"
                     ELSE IF u \in W /\ st[u] = "waiting" THEN "signalled"
                     ELSE st[u]
  BY DEF Moved
<1>2. \A u \in Clients : st'[u] \in ClientState
  BY <1>1 DEF ClientState
<1>3. st' \in [Clients -> ClientState]
  BY <1>2 DEF Moved
<1>4. \A u \in Clients \ {c} : st'[u] \in Live <=> st[u] \in Live
  BY <1>1 DEF Live, ClientState
<1> QED BY <1>1, <1>3, <1>4

\* An operation ends.
LEMMA FinishOK ==
    ASSUME ClientsOK, NEW c \in Clients, st[c] \in Live, NEW W, Finish(c, W)
    PROVE  /\ ClientsOK' /\ SameLive /\ st'[c] = "idle"
           /\ \A sd \in Side : Reaches(sd, W, c)
<1>1. /\ st' \in [Clients -> ClientState] /\ st'[c] = "idle"
      /\ \A u \in Clients \ {c} :
            /\ st'[u] = IF u \in W /\ st[u] = "pending" THEN "woken"
                        ELSE IF u \in W /\ st[u] = "waiting" THEN "signalled"
                        ELSE st[u]
            /\ st'[u] \in Live <=> st[u] \in Live
  <2>1. "idle" \in ClientState /\ st' = Moved(W, c, "idle") /\ st \in [Clients -> ClientState]
    BY DEF Finish, ClientState, ClientsOK
  <2> QED BY <2>1, MovedFacts
<1>2. timed' \in [Clients -> BOOLEAN]
  BY Zenon DEF Finish, ClientsOK
<1>3. /\ gen' \in [Clients -> Gens \cup {0}] /\ arg' \in [Senders -> Msg \cup {NoMsg}]
      /\ \A u \in Clients \ {c} : gen'[u] = gen[u]
      /\ \A u \in Senders \ {c} : arg'[u] = arg[u]
  BY DEF Finish, ClientsOK
<1>4. SameLive
  BY <1>1 DEF SameLive, Live, ClientState
<1>5. OwnsFuture'
  BY <1>1, <1>3 DEF ClientsOK, OwnsFuture
<1>6. \A s \in Senders :
         st'[s] \in {"pending", "woken", "waiting", "signalled"} => arg'[s] \in Msg
  BY <1>1, <1>3 DEF ClientsOK, Clients
<1>7. \A sd \in Side : Reaches(sd, W, c)
  BY <1>1, <1>3, Groups DEF Reaches
<1> QED BY <1>1, <1>2, <1>3, <1>4, <1>5, <1>6, <1>7 DEF ClientsOK

\* A future returns Pending.
LEMMA SuspendOK ==
    ASSUME ClientsOK, NEW c \in Clients, st[c] \in Live, NEW g \in Gens,
           NEW m, c \in Senders => m \in Msg, Suspend(c, g, m)
    PROVE  /\ ClientsOK' /\ SameLive /\ st'[c] = "pending" /\ gen'[c] = g
           /\ \A u \in Clients \ {c} : st'[u] = st[u] /\ gen'[u] = gen[u]
<1>1. /\ st' \in [Clients -> ClientState] /\ st'[c] = "pending"
      /\ \A u \in Clients \ {c} : st'[u] = st[u]
  <2>1. /\ "pending" \in ClientState /\ st' = Moved({}, c, "pending")
        /\ st \in [Clients -> ClientState]
    BY DEF Suspend, ClientState, ClientsOK
  <2> QED BY <2>1, MovedFacts
<1>2. timed' \in [Clients -> BOOLEAN]
  BY Zenon DEF Suspend, ClientsOK
<1>3. /\ gen' \in [Clients -> Gens \cup {0}] /\ arg' \in [Senders -> Msg \cup {NoMsg}]
      /\ gen'[c] = g /\ \A u \in Clients \ {c} : gen'[u] = gen[u]
      /\ \A u \in Senders : arg'[u] = IF u = c THEN m ELSE arg[u]
  BY DEF Suspend, ClientsOK
<1>4. SameLive
  BY <1>1 DEF SameLive, Live, ClientState
<1>5. OwnsFuture'
  BY <1>1, <1>3 DEF ClientsOK, OwnsFuture
<1>6. \A s \in Senders :
         st'[s] \in {"pending", "woken", "waiting", "signalled"} => arg'[s] \in Msg
  BY <1>1, <1>3 DEF ClientsOK, Clients
<1> QED BY <1>1, <1>2, <1>3, <1>4, <1>5, <1>6 DEF ClientsOK

\* A call blocks.
LEMMA BlockOK ==
    ASSUME ClientsOK, NEW c \in Clients, st[c] \in Live, NEW t \in BOOLEAN,
           NEW m, c \in Senders => m \in Msg, Block(c, t, m)
    PROVE  /\ ClientsOK' /\ SameLive /\ st'[c] = "waiting"
           /\ \A u \in Clients \ {c} : st'[u] = st[u] /\ gen'[u] = gen[u]
<1>1. /\ st' \in [Clients -> ClientState] /\ st'[c] = "waiting"
      /\ \A u \in Clients \ {c} : st'[u] = st[u]
  <2>1. /\ "waiting" \in ClientState /\ st' = Moved({}, c, "waiting")
        /\ st \in [Clients -> ClientState]
    BY DEF Block, ClientState, ClientsOK
  <2> QED BY <2>1, MovedFacts, SMTT(60)
<1>2. timed' \in [Clients -> BOOLEAN]
  BY Zenon DEF Block, ClientsOK
<1>3. /\ gen' = gen /\ arg' \in [Senders -> Msg \cup {NoMsg}]
      /\ \A u \in Senders : arg'[u] = IF u = c THEN m ELSE arg[u]
  BY DEF Block, ClientsOK
<1>4. SameLive
  BY <1>1 DEF SameLive, Live, ClientState
<1>5. OwnsFuture'
  BY <1>1, <1>3 DEF ClientsOK, OwnsFuture
<1>6. \A s \in Senders :
         st'[s] \in {"pending", "woken", "waiting", "signalled"} => arg'[s] \in Msg
  BY <1>1, <1>3 DEF ClientsOK, Clients
<1> QED BY <1>1, <1>2, <1>3, <1>4, <1>5, <1>6 DEF ClientsOK

-----------------------------------------------------------------------------
\* The steps.

\* BooksInv of the next state, but for CleanMeans, which Next itself takes care of.
Kept == TypeOK' /\ OwnsFuture' /\ \A sd \in Side : SideInv(sd)'

\* The record of c's side once c's operation has taken off its mark, if any.
Own(sd, c, w) ==
    \/ w = wk[sd] /\ st[c] \notin {"pending", "woken"}
    \/ w = Confirm(wk[sd], Id(c)) /\ st[c] \in {"pending", "woken"}

\* The parts of TypeOK put together when no handle is made or dropped.
LEMMA Assemble ==
    ASSUME TypeOK, ClientsOK', SameLive, UNCHANGED <<senders, receivers>>,
           queue' \in Stores, wk' \in [Side -> Waiters], fresh' \subseteq Msg
    PROVE  TypeOK' /\ OwnsFuture' /\ \A sd \in Side : Open(sd)' = Open(sd)
<1>1. /\ {s \in Senders : st'[s] \in Live} = {s \in Senders : st[s] \in Live}
      /\ {r \in Receivers : st'[r] \in Live} = {r \in Receivers : st[r] \in Live}
  BY DEF SameLive, Clients
<1> QED BY <1>1 DEF TypeOK, ClientsOK, Open

\* The parts of the invariant a step starts from.
LEMMA Parts ==
    ASSUME BooksInv
    PROVE  /\ TypeOK /\ ClientsOK /\ OwnsFuture /\ CleanMeans
           /\ \A sd \in Side : SideInv(sd) /\ wk[sd] \in Waiters
           /\ queue \in Stores /\ wk \in [Side -> Waiters] /\ fresh \subseteq Msg
BY DEF BooksInv, TypeOK, ClientsOK

\* A wakeup reaches clients of its side only.
LEMMA ReachedOwn ==
    ASSUME NEW sd \in Side, NEW w \in Waiters, Book(w), w.ids \subseteq Group(sd) \X Gens,
           NEW W \in Reached(w, sd)
    PROVE  W \subseteq Group(sd)
<1>1. CASE w.wakers = <<>>
  BY <1>1 DEF Reached
<1>2. CASE w.wakers # <<>> /\ Head(w.wakers) = SyncWaker
  BY <1>2 DEF Reached, Waiting
<1>3. CASE w.wakers # <<>> /\ Head(w.wakers) # SyncWaker
  <2>1. Head(w.wakers) \in w.ids
    BY <1>3, WakeNextFacts
  <2> QED BY <1>3, <2>1 DEF Reached
<1> QED BY <1>1, <1>2, <1>3

\* An operation of c ends, and wakes somebody of the other side or nobody.
LEMMA EndStep ==
    ASSUME BooksInv, clean' => clean, NEW sd \in Side, NEW c \in Group(sd), st[c] \in Live,
           NEW w, Own(sd, c, w), NEW v, NEW W,
           \/ W = {} /\ v = wk[Opposite(sd)]
           \/ /\ v = WakeNext(wk[Opposite(sd)])
              /\ W \in Reached(wk[Opposite(sd)], Opposite(sd)),
           Finish(c, W), wk' = [x \in Side |-> IF x = sd THEN w ELSE v],
           queue' \in Stores, fresh' \subseteq Msg, UNCHANGED <<senders, receivers>>
    PROVE  Kept
<1> DEFINE od == Opposite(sd)
<1>0. /\ ClientsOK /\ TypeOK /\ CleanMeans /\ c \in Clients /\ od \in Side /\ od # sd
      /\ SideInv(sd) /\ SideInv(od) /\ wk[sd] \in Waiters /\ wk[od] \in Waiters
      /\ wk'[sd] = w /\ wk'[od] = v /\ c \notin Group(od)
  BY Parts, Groups
<1>1. /\ ClientsOK' /\ SameLive /\ st'[c] = "idle"
      /\ Reaches(sd, W, c) /\ Reaches(od, W, c)
  BY <1>0, FinishOK
<1> HIDE DEF od
<1>2. W \subseteq Group(od)
  <2>1. wk[od].ids \subseteq Group(od) \X Gens /\ Book(wk[od])
    BY <1>0 DEF SideInv, OwnIds
  <2> QED BY <1>0, <2>1, ReachedOwn DEF od
<1>3. w \in Waiters /\ v \in Waiters
  BY <1>0, ConfirmFacts, WakeNextFacts DEF Own, SideInv, od
<1>4. wk' \in [Side -> Waiters]
  BY <1>3
<1>5. TypeOK' /\ OwnsFuture' /\ Open(sd)' = Open(sd) /\ Open(od)' = Open(od)
  BY <1>0, <1>1, <1>4, Assemble
<1>6. \A u \in Group(sd) \ {c} : st'[u] = st[u] /\ gen'[u] = gen[u]
  <2>1. Group(sd) \cap W = {}
    BY <1>2, Groups DEF od
  <2> QED BY <1>1, <2>1 DEF Reaches
<1>7. SideInv(sd)'
  <2>1. CASE w = wk[sd] /\ st[c] \notin {"pending", "woken"}
    BY <1>0, <1>1, <1>5, <1>6, <2>1, SideQuiet
  <2>2. CASE w = Confirm(wk[sd], Id(c)) /\ st[c] \in {"pending", "woken"}
    BY <1>0, <1>1, <1>5, <1>6, <2>2, SideConfirm
  <2> QED BY <2>1, <2>2 DEF Own
<1>8. SideInv(od)'
  <2>0. WakeReady(od, wk[od], c)
    BY <1>0, OtherReady
  <2>1. CASE W = {} /\ v = wk[od]
    BY <1>0, <1>1, <1>5, <2>0, <2>1, SideReady
  <2>2. CASE v = WakeNext(wk[od]) /\ W \in Reached(wk[od], od)
    BY <1>0, <1>1, <1>5, <2>0, <2>2, SideWake
  <2> QED BY <2>1, <2>2 DEF od
<1>9. \A x \in Side : x = sd \/ x = od
  BY Groups DEF od
<1> QED BY <1>5, <1>7, <1>8, <1>9 DEF Kept

\* A future of c is suspended.
LEMMA SuspendStep ==
    ASSUME BooksInv, clean' => clean, NEW sd \in Side, NEW c \in Group(sd), st[c] \in Live,
           NEW w, NEW g \in Gens, NEW m, c \in Senders => m \in Msg,
           \/ /\ w = wk[sd] /\ st[c] \notin {"pending", "woken"}
              /\ <<c, g>> \notin wk[sd].pending
           \/ /\ w = Confirm(wk[sd], Id(c)) /\ g = gen[c],
           Suspend(c, g, m), Open(sd),
           wk' = [x \in Side |-> IF x = sd THEN AppendFut(w, <<c, g>>) ELSE wk[Opposite(sd)]],
           queue' \in Stores, fresh' \subseteq Msg, UNCHANGED <<senders, receivers>>
    PROVE  Kept
<1> DEFINE od == Opposite(sd)
<1>0. /\ ClientsOK /\ TypeOK /\ c \in Clients /\ od \in Side /\ od # sd
      /\ SideInv(sd) /\ SideInv(od) /\ wk[sd] \in Waiters /\ wk[od] \in Waiters
      /\ wk'[sd] = AppendFut(w, <<c, g>>) /\ wk'[od] = wk[od]
      /\ c \notin Group(od) /\ Group(sd) \subseteq Clients /\ Group(od) \subseteq Clients
  BY Parts, Groups
<1>1. /\ ClientsOK' /\ SameLive /\ st'[c] = "pending" /\ gen'[c] = g
      /\ \A u \in Clients \ {c} : st'[u] = st[u] /\ gen'[u] = gen[u]
  BY <1>0, SuspendOK
<1>2. Open(sd)'
  BY DEF Open
<1>3. SideInv(sd)' /\ wk'[sd] \in Waiters
  BY <1>0, <1>1, <1>2, SideSuspend
<1>4. \A x \in Side : x = sd \/ x = od
  BY Groups
<1>5. wk' \in [Side -> Waiters]
  BY <1>0, <1>3, <1>4
<1>6. TypeOK' /\ OwnsFuture' /\ Open(od)' = Open(od)
  BY <1>0, <1>1, <1>5, Assemble
<1>7. SideInv(od)'
  BY <1>0, <1>1, <1>6, SideQuiet
<1> QED BY <1>3, <1>4, <1>6, <1>7 DEF Kept

\* A call of c blocks.
LEMMA BlockStep ==
    ASSUME BooksInv, clean' => clean, NEW sd \in Side, NEW c \in Group(sd), st[c] \in Live,
           st[c] \notin {"pending", "woken"},
           NEW t \in BOOLEAN, NEW m, c \in Senders => m \in Msg,
           Block(c, t, m), Open(sd),
           wk' = [x \in Side |-> IF x = sd THEN AppendSync(wk[sd]) ELSE wk[Opposite(sd)]],
           queue' \in Stores, fresh' \subseteq Msg, UNCHANGED <<senders, receivers>>
    PROVE  Kept
<1> DEFINE od == Opposite(sd)
<1>0. /\ ClientsOK /\ TypeOK /\ c \in Clients /\ od \in Side /\ od # sd
      /\ SideInv(sd) /\ SideInv(od) /\ wk[sd] \in Waiters /\ wk[od] \in Waiters
      /\ wk'[sd] = AppendSync(wk[sd]) /\ wk'[od] = wk[od]
      /\ c \notin Group(od) /\ Group(sd) \subseteq Clients /\ Group(od) \subseteq Clients
  BY Parts, Groups
<1>1. /\ ClientsOK' /\ SameLive /\ st'[c] = "waiting"
      /\ \A u \in Clients \ {c} : st'[u] = st[u] /\ gen'[u] = gen[u]
  BY <1>0, BlockOK
<1>2. Open(sd)'
  BY DEF Open
<1>3. SideInv(sd)' /\ wk'[sd] \in Waiters
  BY <1>0, <1>1, <1>2, SideBlock
<1>4. \A x \in Side : x = sd \/ x = od
  BY Groups
<1>5. wk' \in [Side -> Waiters]
  BY <1>0, <1>3, <1>4
<1>6. TypeOK' /\ OwnsFuture' /\ Open(od)' = Open(od)
  BY <1>0, <1>1, <1>5, Assemble
<1>7. SideInv(od)'
  BY <1>0, <1>1, <1>6, SideQuiet
<1> QED BY <1>3, <1>4, <1>6, <1>7 DEF Kept

\* A suspended future of c is dropped, and hands on the wakeup it was given.
LEMMA DropFutureStep ==
    ASSUME BooksInv, clean' => clean, NEW sd \in Side, NEW c \in Group(sd), DropFuture(c, sd)
    PROVE  Kept
<1> DEFINE od == Opposite(sd)
           w == Forget(wk[sd], Id(c))
           pass == Id(c) \in wk[sd].pending
<1>0. /\ ClientsOK /\ TypeOK /\ CleanMeans /\ c \in Clients /\ od \in Side /\ od # sd
      /\ SideInv(sd) /\ SideInv(od) /\ wk[sd] \in Waiters /\ wk[od] \in Waiters
      /\ wk \in [Side -> Waiters]
      /\ c \notin Group(od) /\ st[c] \in {"pending", "woken"} /\ st[c] \in Live
      /\ UNCHANGED <<queue, senders, receivers, fresh>>
  BY Parts, Groups DEF DropFuture, inner, Live, ClientState
<1>1. Id(c) \in Ids
  BY <1>0 DEF ClientsOK, OwnsFuture, Id, Ids
<1>2. PICK W \in IF pass THEN Reached(w, sd) ELSE {{}} : Finish(c, W)
  BY DEF DropFuture
<1>3. wk' = [wk EXCEPT ![sd] = IF pass THEN WakeNext(w) ELSE w]
  BY DEF DropFuture
<1>4. WakeReady(sd, w, c)
  BY <1>0, <1>1, ForgetReady
<1> HIDE DEF w, od, pass
<1>5. wk'[sd] = (IF pass THEN WakeNext(w) ELSE w) /\ wk'[od] = wk[od]
  BY <1>0, <1>3
<1>6. w \in Waiters /\ Book(w) /\ w.ids \subseteq Group(sd) \X Gens
  BY <1>4 DEF WakeReady
<1>7. W \subseteq Group(sd)
  BY <1>2, <1>6, ReachedOwn
<1>8. wk' \in [Side -> Waiters]
  BY <1>0, <1>3, <1>6, WakeNextFacts
<1>9. /\ ClientsOK' /\ SameLive /\ st'[c] = "idle"
      /\ Reaches(sd, W, c) /\ Reaches(od, W, c)
  BY <1>0, <1>2, FinishOK
<1>10. TypeOK' /\ OwnsFuture' /\ Open(sd)' = Open(sd) /\ Open(od)' = Open(od)
  <2>1. queue' \in Stores /\ fresh' \subseteq Msg
    BY <1>0, Parts
  <2> QED BY <1>0, <1>8, <1>9, <2>1, Assemble
<1>11. SideInv(sd)'
  <2>1. CASE pass
    BY <1>2, <1>4, <1>5, <1>9, <1>10, <2>1, SideWake
  <2>2. CASE ~pass
    BY <1>2, <1>4, <1>5, <1>9, <1>10, <2>2, SideReady
  <2> QED BY <2>1, <2>2
<1>12. SideInv(od)'
  <2>1. \A u \in Group(od) \ {c} : st'[u] = st[u] /\ gen'[u] = gen[u]
    <3>1. Group(od) \cap W = {}
      BY <1>7, Groups DEF od
    <3> QED BY <1>9, <3>1 DEF Reaches
  <2> QED BY <1>0, <1>5, <1>10, <2>1, SideQuiet
<1>13. \A x \in Side : x = sd \/ x = od
  BY Groups DEF od
<1> QED BY <1>10, <1>11, <1>12, <1>13 DEF Kept

\* wait_for runs out.
LEMMA TimeOutStep ==
    ASSUME BooksInv, clean' => clean, NEW sd \in Side, NEW c \in Group(sd), TimeOut(c, sd)
    PROVE  Kept
<1>0. /\ ClientsOK /\ TypeOK /\ c \in Clients
      /\ \A x \in Side : SideInv(x) /\ Group(x) \subseteq Clients
      /\ wk' = wk /\ wk \in [Side -> Waiters] /\ st[c] = "waiting"
      /\ UNCHANGED <<queue, senders, receivers, timed, gen, arg, fresh>>
  BY Parts, Groups DEF TimeOut, inner
<1>1. /\ st' \in [Clients -> ClientState] /\ st'[c] = "timedout"
      /\ \A u \in Clients \ {c} : st'[u] = st[u]
  <2>1. /\ "timedout" \in ClientState /\ st' = Moved({}, c, "timedout")
        /\ st \in [Clients -> ClientState] /\ c \in Clients
    BY <1>0 DEF TimeOut, ClientState, ClientsOK
  <2> DEFINE W == {}
  <2>2. st' = Moved(W, c, "timedout")
    BY <2>1
  <2>3. \A u : u \notin W
    OBVIOUS
  <2> HIDE DEF W
  <2>4. /\ st' \in [Clients -> ClientState] /\ st'[c] = "timedout"
        /\ \A u \in Clients \ {c} :
              st'[u] = IF u \in W /\ st[u] = "pending" THEN "woken"
                       ELSE IF u \in W /\ st[u] = "waiting" THEN "signalled"
                       ELSE st[u]
    BY <2>1, <2>2, MovedFacts
  <2> QED BY <2>3, <2>4
<1>2. SameLive
  BY <1>0, <1>1 DEF SameLive, Live, ClientState
<1>3. OwnsFuture'
  BY <1>0, <1>1 DEF ClientsOK, OwnsFuture
<1>4. \A s \in Senders :
         st'[s] \in {"pending", "woken", "waiting", "signalled"} => arg'[s] \in Msg
  BY <1>0, <1>1 DEF ClientsOK, Clients
<1>5. ClientsOK'
  BY <1>0, <1>1, <1>3, <1>4 DEF ClientsOK
<1>6. TypeOK' /\ \A x \in Side : Open(x)' = Open(x)
  <2>1. queue' \in Stores /\ fresh' \subseteq Msg /\ wk' \in [Side -> Waiters]
    BY <1>0, Parts
  <2> QED BY <1>0, <1>2, <1>5, <2>1, Assemble
<1>7. ASSUME NEW x \in Side PROVE SideInv(x)'
  BY <1>0, <1>1, <1>6, SideQuiet
<1> QED BY <1>3, <1>6, <1>7 DEF Kept

\* The number of handles of a side.
Count(sd) == IF sd = "send" THEN senders ELSE receivers

\* Who acts through a handle keeps the other side open, and one client more or
\* less is counted.
LEMMA LiveMove ==
    ASSUME TypeOK, NEW sd \in Side
    PROVE  /\ Count(sd) \in Nat
           /\ \A c \in Group(sd) : st[c] \in Live => Count(sd) > 0
           /\ \A c \in Group(sd) :
                 (\A u \in Clients \ {c} : st'[u] \in Live <=> st[u] \in Live) =>
                    /\ st[c] \notin Live /\ st'[c] \in Live =>
                          Cardinality({u \in Group(sd) : st'[u] \in Live}) = Count(sd) + 1
                    /\ st[c] \in Live /\ st'[c] \notin Live =>
                          Cardinality({u \in Group(sd) : st'[u] \in Live}) = Count(sd) - 1
<1> DEFINE L == {u \in Group(sd) : st[u] \in Live}
<1>1. Count(sd) = Cardinality(L)
  BY DEF Count, TypeOK, Group, Side
<1>2. IsFiniteSet(L) /\ Cardinality(L) \in Nat /\ (Cardinality(L) = 0 <=> L = {})
  BY Groups, FS_Subset, FS_CardinalityType, FS_EmptySet, SMTT(60)
<1>3. \A c \in Group(sd) : st[c] \in Live => Count(sd) > 0
  <2> SUFFICES ASSUME NEW c \in Group(sd), st[c] \in Live PROVE Count(sd) > 0
    OBVIOUS
  <2>1. L # {}
    OBVIOUS
  <2> QED BY <1>1, <1>2, <2>1
<1>4. ASSUME NEW c \in Group(sd), \A u \in Clients \ {c} : st'[u] \in Live <=> st[u] \in Live
      PROVE  /\ st[c] \notin Live /\ st'[c] \in Live =>
                   Cardinality({u \in Group(sd) : st'[u] \in Live}) = Count(sd) + 1
             /\ st[c] \in Live /\ st'[c] \notin Live =>
                   Cardinality({u \in Group(sd) : st'[u] \in Live}) = Count(sd) - 1
  <2>1. Group(sd) \subseteq Clients
    BY Groups
  <2>2. ASSUME st[c] \notin Live, st'[c] \in Live
        PROVE  Cardinality({u \in Group(sd) : st'[u] \in Live}) = Count(sd) + 1
    <3>1. {u \in Group(sd) : st'[u] \in Live} = L \cup {c} /\ c \notin L
      BY <1>4, <2>1, <2>2
    <3>2. Cardinality(L \cup {c}) = Cardinality(L) + 1
      BY <1>2, <3>1, FS_AddElement
    <3> QED BY <1>1, <3>1, <3>2
  <2>3. ASSUME st[c] \in Live, st'[c] \notin Live
        PROVE  Cardinality({u \in Group(sd) : st'[u] \in Live}) = Count(sd) - 1
    <3>1. {u \in Group(sd) : st'[u] \in Live} = L \ {c} /\ c \in L
      BY <1>4, <2>1, <2>3
    <3>2. Cardinality(L \ {c}) = Cardinality(L) - 1
      BY <1>2, <3>1, FS_RemoveElement
    <3> QED BY <1>1, <3>1, <3>2
  <2> QED BY <2>2, <2>3
<1> QED BY <1>1, <1>2, <1>3, <1>4

\* A handle of the side is made (x = "idle") or dropped (x = "gone") for n.
LEMMA HandleStep ==
    ASSUME BooksInv, clean' => clean, NEW sd \in Side, NEW n \in Group(sd),
           \E c \in Group(sd) : st[c] \in Live,
           NEW x, \/ x = "idle" /\ st[n] = "new" /\ Count(sd)' = Count(sd) + 1
                  \/ x = "gone" /\ st[n] = "idle" /\ Count(sd)' = Count(sd) - 1,
           NEW W, st' = Moved(W, n, x),
           \/ W = {} /\ wk' = wk /\ Count(sd)' # 0
           \/ /\ W = AllReached(Opposite(sd)) /\ Count(sd)' = 0
              /\ wk' = [wk EXCEPT ![Opposite(sd)] = WakeAll(wk[Opposite(sd)])],
           Count(Opposite(sd))' = Count(Opposite(sd)),
           UNCHANGED <<queue, timed, gen, arg, fresh>>
    PROVE  Kept
<1> DEFINE od == Opposite(sd)
<1>0. /\ ClientsOK /\ TypeOK /\ n \in Clients /\ od \in Side /\ od # sd
      /\ SideInv(sd) /\ SideInv(od) /\ wk[sd] \in Waiters /\ wk[od] \in Waiters
      /\ wk \in [Side -> Waiters] /\ n \notin Group(od)
      /\ Group(sd) \subseteq Clients /\ Group(od) \subseteq Clients
      /\ \A y \in Side : y = sd \/ y = od
      /\ Group(sd) \cap Group(od) = {}
  BY Parts, Groups
<1>1. /\ st' \in [Clients -> ClientState] /\ st'[n] = x
      /\ \A u \in Clients \ {n} :
            /\ st'[u] = IF u \in W /\ st[u] = "pending" THEN "woken"
                        ELSE IF u \in W /\ st[u] = "waiting" THEN "signalled"
                        ELSE st[u]
            /\ st'[u] \in Live <=> st[u] \in Live
  <2>1. x \in ClientState /\ st \in [Clients -> ClientState]
    BY <1>0 DEF ClientState, ClientsOK
  <2> QED BY <1>0, <2>1, MovedFacts
<1>2. W \subseteq Group(od)
  <2>1. AllReached(od) \subseteq Group(od)
    BY <1>0 DEF AllReached, Waiting, SideInv, Book, OwnIds
  <2> QED BY <2>1
<1> HIDE DEF od
<1>3. \A u \in Group(sd) \ {n} : st'[u] = st[u]
  BY <1>0, <1>1, <1>2
<1>4. OwnsFuture'
  <2>1. \A u \in Clients : st'[u] \in {"pending", "woken"} => st[u] \in {"pending", "woken"}
    BY <1>1
  <2> QED BY <1>0, <2>1 DEF ClientsOK, OwnsFuture
<1>5. \A s \in Senders :
         st'[s] \in {"pending", "woken", "waiting", "signalled"} => arg'[s] \in Msg
  <2>1. \A u \in Clients :
           st'[u] \in {"pending", "woken", "waiting", "signalled"} =>
           st[u] \in {"pending", "woken", "waiting", "signalled"}
    BY <1>1
  <2> QED BY <1>0, <2>1 DEF ClientsOK, Clients
<1>6. /\ Count(sd)' = Cardinality({u \in Group(sd) : st'[u] \in Live})
      /\ Count(od)' = Cardinality({u \in Group(od) : st'[u] \in Live})
      /\ Count(sd) > 0
  <2>1. \/ st[n] \notin Live /\ st'[n] \in Live /\ Count(sd)' = Count(sd) + 1
        \/ st[n] \in Live /\ st'[n] \notin Live /\ Count(sd)' = Count(sd) - 1
    BY <1>1 DEF Live, ClientState
  <2>2. {u \in Group(od) : st'[u] \in Live} = {u \in Group(od) : st[u] \in Live}
    BY <1>0, <1>1
  <2>3. Count(od) = Cardinality({u \in Group(od) : st[u] \in Live})
    BY <1>0 DEF TypeOK, Count, Group, Side
  <2>4. Count(od)' = Count(od)
    BY DEF od
  <2> QED BY <1>0, <1>1, <2>1, <2>2, <2>3, <2>4, LiveMove
<1>7. wk' \in [Side -> Waiters]
  BY <1>0, WakeAllFacts DEF SideInv, od
<1>8. /\ senders' = Cardinality({s \in Senders : st'[s] \in Live})
      /\ receivers' = Cardinality({r \in Receivers : st'[r] \in Live})
  BY <1>0, <1>6 DEF Count, Group, Side
<1>9. TypeOK'
  BY <1>0, <1>1, <1>5, <1>7, <1>8 DEF TypeOK, ClientsOK
<1>10. Count(sd) \in Nat /\ Count(sd)' \in Nat
  BY <1>0, <1>6, LiveMove
<1>11. /\ Open(sd)' = Open(sd) /\ Open(od) /\ (Count(sd)' # 0 => Open(od)')
       /\ (Count(sd)' = 0 => ~Open(od)')
  BY <1>0, <1>6, <1>10 DEF Open, Count, Side, od, Opposite
<1>12. SideInv(sd)'
  <2>1. wk'[sd] = wk[sd]
    BY <1>0 DEF od
  <2>2. st[n] \notin {"pending", "woken"} /\ st'[n] \notin {"pending", "woken", "waiting"}
    BY <1>1
  <2> QED BY <1>0, <1>3, <1>11, <2>1, <2>2, SideQuiet
<1>13. SideInv(od)'
  <2>1. CASE W = {} /\ wk' = wk /\ Count(sd)' # 0
    <3>1. Open(od)' = Open(od)
      BY <1>11, <2>1
    <3>2. \A u \in Group(od) \ {n} : st'[u] = st[u] /\ gen'[u] = gen[u]
      BY <1>0, <1>1, <2>1
    <3> QED BY <1>0, <2>1, <3>1, <3>2, SideQuiet
  <2>2. CASE W = AllReached(od) /\ Count(sd)' = 0 /\ wk' = [wk EXCEPT ![od] = WakeAll(wk[od])]
    <3>1. Reaches(od, AllReached(od), n)
      BY <1>0, <1>1, <2>2 DEF Reaches
    <3>2. wk'[od] = WakeAll(wk[od]) /\ ~Open(od)'
      BY <1>0, <1>11, <2>2
    <3> QED BY <1>0, <3>1, <3>2, SideWakeAll
  <2> QED BY <2>1, <2>2 DEF od
<1> QED BY <1>0, <1>4, <1>9, <1>12, <1>13 DEF Kept

\* try_push and get keep the storage's value one of Stores.
LEMMA StorageFacts ==
    ASSUME NEW q \in Stores
    PROVE  /\ \A m \in Msg : /\ TryPush(q, m, {}).store \in Stores
                             /\ TryPush(q, m, {}).out \in PushOutput
                             /\ TryPush(q, m, {}).out = "Pushed"
                                   => Length(TryPush(q, m, {}).store) <= Length(q) + 1
           /\ Get(q, {}).store \in Stores
           /\ Get(q, {}).val = NoMsg => Length(Get(q, {}).store) = 0
           /\ Get(q, {}).val # NoMsg => Length(Get(q, {}).store) < Length(q)
           /\ Length(q) \in Nat
<1>1. {} \in SUBSET Expirable
  OBVIOUS
<1>2. Length(q) \in 0..Capacity
  BY StorageContract
<1> QED BY <1>1, <1>2, StorageContract, CapacityAssumption

\* The ends of a send: closed, pushed or skipped.
LEMMA SendEnds ==
    ASSUME BooksInv, clean' => clean, NEW s \in Senders, st[s] \in Live, NEW m \in Msg,
           NEW w, Own("send", s, w), NEW notify \in BOOLEAN,
           SendClosed(s, w) \/ SendPushed(s, m, w) \/ SendSkipped(s, m, w, notify),
           fresh' \subseteq Msg, SendFrame
    PROVE  Kept
<1>0. /\ "send" \in Side /\ Opposite("send") = "recv" /\ s \in Group("send")
      /\ wk \in [Side -> Waiters] /\ queue \in Stores
      /\ UNCHANGED <<senders, receivers>>
      /\ wk.recv = wk["recv"] /\ wk.send = wk["send"]
  BY Parts DEF Side, Opposite, Group, SendFrame
<1>1. CASE SendClosed(s, w)
  <2>1. wk' = [x \in Side |-> IF x = "send" THEN w ELSE wk["recv"]]
    BY <1>0, <1>1, WkForms DEF SendClosed
  <2>2. Finish(s, {}) /\ queue' \in Stores
    BY <1>0, <1>1 DEF SendClosed
  <2> QED BY <1>0, <2>1, <2>2, EndStep
<1>2. CASE SendPushed(s, m, w)
  <2>1. PICK W \in Reached(wk["recv"], "recv") : Finish(s, W)
    BY <1>0, <1>2 DEF SendPushed
  <2>2. wk' = [x \in Side |-> IF x = "send" THEN w ELSE WakeNext(wk["recv"])]
    BY <1>0, <1>2, WkForms DEF SendPushed
  <2>3. queue' \in Stores
    BY <1>0, <1>2, StorageFacts DEF SendPushed
  <2> QED BY <1>0, <2>1, <2>2, <2>3, EndStep
<1>3. CASE SendSkipped(s, m, w, notify)
  <2>0. queue' \in Stores
    BY <1>0, <1>3 DEF SendSkipped
  <2>1. CASE notify
    <3>1. PICK W \in Reached(wk["recv"], "recv") : Finish(s, W)
      BY <1>0, <1>3, <2>1 DEF SendSkipped
    <3>2. wk' = [x \in Side |-> IF x = "send" THEN w ELSE WakeNext(wk["recv"])]
      BY <1>0, <1>3, <2>1, WkForms, ZenonT(60) DEF SendSkipped
    <3> QED BY <1>0, <2>0, <3>1, <3>2, EndStep
  <2>2. CASE ~notify
    <3>1. Finish(s, {})
      BY <1>3, <2>2 DEF SendSkipped
    <3>2. wk' = [x \in Side |-> IF x = "send" THEN w ELSE wk["recv"]]
      BY <1>0, <1>3, <2>2, WkForms DEF SendSkipped
    <3> QED BY <1>0, <2>0, <3>1, <3>2, EndStep
  <2> QED BY <2>1, <2>2
<1> QED BY <1>1, <1>2, <1>3

\* A poll of a Send future.
LEMMA SendPollStep ==
    ASSUME BooksInv, clean' => clean, NEW s \in Senders, NEW m \in Msg, NEW g \in Gens,
           NEW queued \in BOOLEAN,
           queued => st[s] \in {"pending", "woken"} /\ g = gen[s],
           ~queued => st[s] = "idle" /\ <<s, g>> \notin wk["send"].pending,
           SendPoll(s, m, g, queued), fresh' \subseteq Msg, SendFrame
    PROVE  Kept
<1> DEFINE w == IF queued THEN Confirm(wk.send, <<s, g>>) ELSE wk.send
           tries == queued \/ wk.send.wakers = <<>>
<1>0. /\ "send" \in Side /\ Opposite("send") = "recv" /\ s \in Group("send")
      /\ wk \in [Side -> Waiters] /\ queue \in Stores /\ st[s] \in Live
      /\ UNCHANGED <<senders, receivers>>
      /\ wk.recv = wk["recv"] /\ wk.send = wk["send"]
  BY Parts DEF Side, Opposite, Group, SendFrame, Live, ClientState
<1>1. Own("send", s, w)
  BY <1>0 DEF Own, Id
<1>2. \/ SendClosed(s, w)
      \/ tries /\ SendPushed(s, m, w)
      \/ tries /\ SendSkipped(s, m, w, FALSE)
      \/ /\ receivers > 0 /\ (tries => Full(m))
         /\ wk' = [wk EXCEPT !.send = AppendFut(w, <<s, g>>)]
         /\ Suspend(s, g, m)
         /\ UNCHANGED <<queue, sent>>
  BY DEF SendPoll
<1> HIDE DEF tries
<1>3. CASE SendClosed(s, w) \/ SendPushed(s, m, w) \/ SendSkipped(s, m, w, FALSE)
  <2> HIDE DEF w
  <2> QED BY <1>0, <1>1, <1>3, SendEnds
<1>4. CASE /\ receivers > 0 /\ (tries => Full(m))
           /\ wk' = [wk EXCEPT !.send = AppendFut(w, <<s, g>>)]
           /\ Suspend(s, g, m)
           /\ UNCHANGED <<queue, sent>>
  <2>1. \/ /\ w = wk["send"] /\ st[s] \notin {"pending", "woken"}
           /\ <<s, g>> \notin wk["send"].pending
        \/ /\ w = Confirm(wk["send"], Id(s)) /\ g = gen[s]
    BY <1>0 DEF Id
  <2> HIDE DEF w
  <2>2. wk' = [x \in Side |-> IF x = "send" THEN AppendFut(w, <<s, g>>) ELSE wk["recv"]]
    BY <1>0, <1>4, WkForms
  <2>3. Open("send") /\ queue' \in Stores
    BY <1>0, <1>4 DEF Open
  <2> QED BY <1>0, <1>4, <2>1, <2>2, <2>3, SuspendStep
<1> QED BY <1>2, <1>3, <1>4

\* One pass of a blocking send or of try_send.
LEMMA SendSyncStep ==
    ASSUME BooksInv, clean' => clean, NEW s \in Senders, NEW m \in Msg, NEW md,
           st[s] \in {"idle", "signalled"},
           SendSync(s, m, md), fresh' \subseteq Msg, SendFrame
    PROVE  Kept
<1>0. /\ "send" \in Side /\ Opposite("send") = "recv" /\ s \in Group("send")
      /\ wk \in [Side -> Waiters] /\ queue \in Stores /\ st[s] \in Live
      /\ UNCHANGED <<senders, receivers>>
      /\ wk.recv = wk["recv"] /\ wk.send = wk["send"]
      /\ (md = "timed") \in BOOLEAN
  BY Parts DEF Side, Opposite, Group, SendFrame, Live, ClientState
<1>1. Own("send", s, wk["send"])
  BY DEF Own
<1>2. CASE \/ SendClosed(s, wk.send) \/ SendPushed(s, m, wk.send)
           \/ SendSkipped(s, m, wk.send, md = "timed")
  BY <1>0, <1>1, <1>2, SendEnds
<1>3. CASE Full(m) /\ md = "try" /\ Finish(s, {}) /\ UNCHANGED <<queue, wk, sent>>
  <2>1. wk' = [x \in Side |-> IF x = "send" THEN wk["send"] ELSE wk["recv"]]
    BY <1>0, <1>3 DEF Side
  <2>2. Finish(s, {}) /\ queue' \in Stores
    BY <1>0, <1>3
  <2> QED BY <1>0, <1>1, <2>1, <2>2, EndStep
<1>4. CASE /\ Full(m) /\ md # "try"
           /\ wk' = [wk EXCEPT !.send = AppendSync(@)]
           /\ Block(s, md = "timed", m)
           /\ UNCHANGED <<queue, sent>>
  <2>1. wk' = [x \in Side |-> IF x = "send" THEN AppendSync(wk["send"]) ELSE wk["recv"]]
    BY <1>0, <1>4, WkForms
  <2>2. Open("send") /\ queue' \in Stores
    BY <1>0, <1>4 DEF Open, Full
  <2> QED BY <1>0, <1>4, <2>1, <2>2, BlockStep
<1> QED BY <1>2, <1>3, <1>4 DEF SendSync

\* The updates of the receivers' side, in the form EndStep and its like use.
LEMMA WkFormsRecv ==
    ASSUME NEW w, NEW v
    PROVE  /\ wk' = [send |-> v, recv |-> w] =>
                 wk' = [x \in Side |-> IF x = "recv" THEN w ELSE v]
           /\ wk \in [Side -> Waiters] =>
                 /\ wk' = [wk EXCEPT !.recv = w] =>
                       wk' = [x \in Side |-> IF x = "recv" THEN w ELSE wk["send"]]
                 /\ wk' = wk => wk' = [x \in Side |-> IF x = "recv" THEN wk["recv"] ELSE wk["send"]]
BY DEF Side

\* The ends of a receive: a value, or closed.
LEMMA RecvEnds ==
    ASSUME BooksInv, clean' => clean, NEW r \in Receivers, st[r] \in Live,
           NEW w, Own("recv", r, w), RecvOk(r, w) \/ RecvClosed(r, w),
           queue' \in Stores, RecvFrame
    PROVE  Kept
<1>0. /\ "recv" \in Side /\ Opposite("recv") = "send" /\ r \in Group("recv")
      /\ wk \in [Side -> Waiters] /\ fresh' \subseteq Msg
      /\ UNCHANGED <<senders, receivers>>
      /\ wk.recv = wk["recv"] /\ wk.send = wk["send"]
  BY Parts DEF Side, Opposite, Group, RecvFrame
<1>1. CASE RecvOk(r, w)
  <2>1. PICK W \in Reached(wk["send"], "send") : Finish(r, W)
    BY <1>0, <1>1 DEF RecvOk
  <2>2. wk' = [x \in Side |-> IF x = "recv" THEN w ELSE WakeNext(wk["send"])]
    BY <1>0, <1>1, WkFormsRecv DEF RecvOk
  <2> QED BY <1>0, <2>1, <2>2, EndStep
<1>2. CASE RecvClosed(r, w)
  <2>1. wk' = [x \in Side |-> IF x = "recv" THEN w ELSE wk["send"]]
    BY <1>0, <1>2, WkFormsRecv DEF RecvClosed
  <2>2. Finish(r, {})
    BY <1>2 DEF RecvClosed
  <2> QED BY <1>0, <2>1, <2>2, EndStep
<1> QED BY <1>1, <1>2

\* A poll of a Recv future.
LEMMA RecvPollStep ==
    ASSUME BooksInv, clean' => clean, NEW r \in Receivers, NEW g \in Gens,
           NEW queued \in BOOLEAN,
           queued => st[r] \in {"pending", "woken"} /\ g = gen[r],
           ~queued => st[r] = "idle" /\ <<r, g>> \notin wk["recv"].pending,
           RecvPoll(r, g, queued), RecvFrame
    PROVE  Kept
<1> DEFINE w == IF queued THEN Confirm(wk.recv, <<r, g>>) ELSE wk.recv
           tries == queued \/ wk.recv.wakers = <<>>
<1>0. /\ "recv" \in Side /\ Opposite("recv") = "send" /\ r \in Group("recv")
      /\ wk \in [Side -> Waiters] /\ queue \in Stores /\ st[r] \in Live
      /\ fresh' \subseteq Msg /\ Get(queue, {}).store \in Stores
      /\ UNCHANGED <<senders, receivers>>
      /\ wk.recv = wk["recv"] /\ wk.send = wk["send"]
  BY Parts, StorageFacts DEF Side, Opposite, Group, RecvFrame, Live, ClientState
<1>1. Own("recv", r, w)
  BY <1>0 DEF Own, Id
<1>2. \/ /\ tries
         /\ RecvOk(r, w) \/ RecvClosed(r, w)
         /\ queue' = Get(queue, {}).store
      \/ /\ tries => Empty
         /\ wk' = [wk EXCEPT !.recv = AppendFut(w, <<r, g>>)]
         /\ Suspend(r, g, NoMsg)
         /\ queue' = IF tries THEN Get(queue, {}).store ELSE queue
         /\ UNCHANGED got
  BY DEF RecvPoll
<1>3. CASE (RecvOk(r, w) \/ RecvClosed(r, w)) /\ queue' = Get(queue, {}).store
  <2> HIDE DEF w
  <2> QED BY <1>0, <1>1, <1>3, RecvEnds
<1>4. CASE /\ tries => Empty
           /\ wk' = [wk EXCEPT !.recv = AppendFut(w, <<r, g>>)]
           /\ Suspend(r, g, NoMsg)
           /\ queue' = IF tries THEN Get(queue, {}).store ELSE queue
           /\ UNCHANGED got
  <2>1. \/ /\ w = wk["recv"] /\ st[r] \notin {"pending", "woken"}
           /\ <<r, g>> \notin wk["recv"].pending
        \/ /\ w = Confirm(wk["recv"], Id(r)) /\ g = gen[r]
    BY <1>0 DEF Id
  <2>2. Open("recv")
    <3>1. CASE tries
      BY <1>4, <3>1 DEF Empty, Open
    <3>2. CASE ~tries
      BY <1>0, <3>2, Parts DEF SideInv, ClosedIsEmpty
    <3> QED BY <3>1, <3>2
  <2> HIDE DEF w
  <2>3. wk' = [x \in Side |-> IF x = "recv" THEN AppendFut(w, <<r, g>>) ELSE wk["send"]]
    BY <1>0, <1>4, WkFormsRecv
  <2>4. queue' \in Stores /\ r \notin Senders
    BY <1>0, <1>4, ClientsAssumption
  <2> QED BY <1>0, <1>4, <2>1, <2>2, <2>3, <2>4, SuspendStep
<1> QED BY <1>2, <1>3, <1>4

\* One pass of a blocking receive or of try_recv.
LEMMA RecvSyncStep ==
    ASSUME BooksInv, clean' => clean, NEW r \in Receivers, NEW md,
           st[r] \in {"idle", "signalled"}, RecvSync(r, md), RecvFrame
    PROVE  Kept
<1>0. /\ "recv" \in Side /\ Opposite("recv") = "send" /\ r \in Group("recv")
      /\ wk \in [Side -> Waiters] /\ st[r] \in Live
      /\ fresh' \subseteq Msg /\ r \notin Senders
      /\ UNCHANGED <<senders, receivers>>
      /\ wk.recv = wk["recv"] /\ wk.send = wk["send"]
      /\ (md = "timed") \in BOOLEAN
  BY Parts, ClientsAssumption DEF Side, Opposite, Group, RecvFrame, Live, ClientState
<1>1. queue' \in Stores
  BY Parts, StorageFacts DEF RecvSync
<1>2. Own("recv", r, wk["recv"])
  BY DEF Own
<1>3. CASE RecvOk(r, wk.recv) \/ RecvClosed(r, wk.recv)
  BY <1>0, <1>1, <1>2, <1>3, RecvEnds
<1>4. CASE Empty /\ md = "try" /\ Finish(r, {}) /\ UNCHANGED <<wk, got>>
  <2>1. wk' = [x \in Side |-> IF x = "recv" THEN wk["recv"] ELSE wk["send"]]
    BY <1>0, <1>4, WkFormsRecv
  <2>2. Finish(r, {})
    BY <1>4
  <2> QED BY <1>0, <1>1, <1>2, <2>1, <2>2, EndStep
<1>5. CASE /\ Empty /\ md # "try"
           /\ wk' = [wk EXCEPT !.recv = AppendSync(@)]
           /\ Block(r, md = "timed", NoMsg)
           /\ UNCHANGED got
  <2>1. wk' = [x \in Side |-> IF x = "recv" THEN AppendSync(wk["recv"]) ELSE wk["send"]]
    BY <1>0, <1>5, WkFormsRecv
  <2>2. Open("recv")
    BY <1>5 DEF Open, Empty
  <2> QED BY <1>0, <1>1, <1>5, <2>1, <2>2, BlockStep
<1> QED BY <1>3, <1>4, <1>5 DEF RecvSync

\* A call returns Timeout.
LEMMA ReturnTimeoutStep ==
    ASSUME BooksInv, clean' => clean, NEW sd \in Side, NEW c \in Group(sd), ReturnTimeout(c)
    PROVE  Kept
<1>1. /\ st[c] \in Live /\ Own(sd, c, wk[sd]) /\ Finish(c, {}) /\ wk' = wk
      /\ UNCHANGED <<queue, senders, receivers, fresh>>
  BY DEF ReturnTimeout, Live, ClientState, Own, inner
<1>2. wk' = [x \in Side |-> IF x = sd THEN wk[sd] ELSE wk[Opposite(sd)]]
  BY <1>1, Parts, Groups
<1>3. queue' \in Stores /\ fresh' \subseteq Msg
  BY <1>1, Parts
<1> DEFINE W == {}
           v == wk[Opposite(sd)]
           w == wk[sd]
<1>4. /\ W = {} /\ v = wk[Opposite(sd)] /\ Finish(c, W) /\ Own(sd, c, w)
      /\ wk' = [x \in Side |-> IF x = sd THEN w ELSE v]
      /\ UNCHANGED <<senders, receivers>>
  BY <1>1, <1>2
<1> HIDE DEF W, v, w
<1> QED BY <1>1, <1>3, <1>4, EndStep, SMTT(60)

-----------------------------------------------------------------------------
\* The id of a new future is in no record.
LEMMA NewGenFacts ==
    ASSUME NEW c, NEW sd, NEW g \in NewGen(c, sd)
    PROVE  g \in Gens /\ <<c, g>> \notin wk[sd].ids /\ <<c, g>> \notin wk[sd].pending
BY DEF NewGen

\* The steps of a client that owns a sender.
LEMMA SenderStep ==
    ASSUME BooksInv, clean' => clean, NEW s \in Senders, SenderNext(s)
    PROVE  Kept
<1>0. /\ "send" \in Side /\ s \in Group("send") /\ fresh \subseteq Msg /\ s \in Clients
      /\ wk \in [Side -> Waiters] /\ Opposite("send") = "recv" /\ ClientsOK
  BY Parts DEF Side, Group, Clients, Opposite
<1>1. ASSUME NEW m \in Msg, SendAsync(s, m) PROVE Kept
  <2>1. PICK g \in NewGen(s, "send") : SendPoll(s, m, g, FALSE)
    BY <1>1 DEF SendAsync
  <2>2. st[s] = "idle" /\ fresh' \subseteq Msg /\ SendFrame
    BY <1>0, <1>1 DEF SendAsync
  <2>3. g \in Gens /\ <<s, g>> \notin wk["send"].pending
    BY <2>1, NewGenFacts
  <2> QED BY <2>1, <2>2, <2>3, SendPollStep
<1>2. ASSUME NEW m \in Msg, NEW md \in {"block", "timed", "try"}, SendCall(s, m, md)
      PROVE  Kept
  <2>1. st[s] = "idle" /\ fresh' \subseteq Msg /\ SendFrame /\ SendSync(s, m, md)
    BY <1>0, <1>2 DEF SendCall
  <2> QED BY <2>1, SendSyncStep
<1>3. CASE SendRepoll(s)
  <2>1. /\ st[s] \in {"pending", "woken"} /\ fresh' \subseteq Msg /\ SendFrame
        /\ SendPoll(s, arg[s], gen[s], TRUE)
    BY <1>0, <1>3 DEF SendRepoll
  <2>2. gen[s] \in Gens /\ arg[s] \in Msg
    BY <1>0, <2>1 DEF ClientsOK, OwnsFuture
  <2> QED BY <2>1, <2>2, SendPollStep
<1>4. CASE SendResume(s)
  <2>1. /\ st[s] = "signalled" /\ fresh' \subseteq Msg /\ SendFrame
        /\ SendSync(s, arg[s], IF timed[s] THEN "timed" ELSE "block")
    BY <1>0, <1>4 DEF SendResume
  <2>2. arg[s] \in Msg
    BY <1>0, <2>1 DEF ClientsOK
  <2> QED BY <2>1, <2>2, SendSyncStep
<1>5. CASE DropFuture(s, "send") \/ TimeOut(s, "send") \/ ReturnTimeout(s)
  BY <1>0, <1>5, DropFutureStep, TimeOutStep, ReturnTimeoutStep
<1>6. ASSUME NEW n \in Senders, CloneSender(s, n) PROVE Kept
  <2>1. /\ st[s] \in Live /\ st[n] = "new" /\ n \in Group("send")
        /\ st' = Moved({}, n, "idle") /\ wk' = wk
        /\ Count("send")' = Count("send") + 1 /\ Count("recv")' = Count("recv")
        /\ UNCHANGED <<queue, timed, gen, arg, fresh>>
    BY <1>6 DEF CloneSender, Live, ClientState, Count, Group
  <2>2. Count("send")' # 0
    BY <1>0, <2>1, LiveMove, Parts
  <2> QED BY <1>0, <2>1, <2>2, HandleStep
<1>7. CASE DropSender(s)
  <2> DEFINE W == IF senders' = 0 THEN AllReached("recv") ELSE {}
  <2>1. /\ st[s] = "idle" /\ st[s] \in Live /\ st' = Moved(W, s, "gone")
        /\ Count("send")' = Count("send") - 1 /\ Count("recv")' = Count("recv")
        /\ UNCHANGED <<queue, timed, gen, arg, fresh>>
    BY <1>7 DEF DropSender, Live, ClientState, Count
  <2>2. \/ W = {} /\ wk' = wk /\ Count("send")' # 0
        \/ /\ W = AllReached("recv") /\ Count("send")' = 0
           /\ wk' = [wk EXCEPT !["recv"] = WakeAll(wk["recv"])]
    BY <1>0, <1>7 DEF DropSender, Count
  <2> HIDE DEF W
  <2> QED BY <1>0, <2>1, <2>2, HandleStep
<1> QED BY <1>1, <1>2, <1>3, <1>4, <1>5, <1>6, <1>7 DEF SenderNext

\* The steps of a client that owns a receiver.
LEMMA ReceiverStep ==
    ASSUME BooksInv, clean' => clean, NEW r \in Receivers, ReceiverNext(r)
    PROVE  Kept
<1>0. /\ "recv" \in Side /\ r \in Group("recv") /\ r \in Clients
      /\ wk \in [Side -> Waiters] /\ Opposite("recv") = "send" /\ ClientsOK
  BY Parts DEF Side, Group, Clients, Opposite
<1>1. CASE RecvAsync(r)
  <2>1. PICK g \in NewGen(r, "recv") : RecvPoll(r, g, FALSE)
    BY <1>1 DEF RecvAsync
  <2>2. st[r] = "idle" /\ RecvFrame
    BY <1>1 DEF RecvAsync
  <2>3. g \in Gens /\ <<r, g>> \notin wk["recv"].pending
    BY <2>1, NewGenFacts
  <2> QED BY <2>1, <2>2, <2>3, RecvPollStep
<1>2. ASSUME NEW md \in {"block", "timed", "try"}, RecvCall(r, md)
      PROVE  Kept
  <2>1. st[r] = "idle" /\ RecvFrame /\ RecvSync(r, md)
    BY <1>2 DEF RecvCall
  <2> QED BY <2>1, RecvSyncStep
<1>3. CASE RecvRepoll(r)
  <2>1. st[r] \in {"pending", "woken"} /\ RecvFrame /\ RecvPoll(r, gen[r], TRUE)
    BY <1>3 DEF RecvRepoll
  <2>2. gen[r] \in Gens
    BY <1>0, <2>1 DEF ClientsOK, OwnsFuture
  <2> QED BY <2>1, <2>2, RecvPollStep
<1>4. CASE RecvResume(r)
  <2>1. st[r] = "signalled" /\ RecvFrame /\ RecvSync(r, IF timed[r] THEN "timed" ELSE "block")
    BY <1>4 DEF RecvResume
  <2> QED BY <2>1, RecvSyncStep
<1>5. CASE DropFuture(r, "recv") \/ TimeOut(r, "recv") \/ ReturnTimeout(r)
  BY <1>0, <1>5, DropFutureStep, TimeOutStep, ReturnTimeoutStep
<1>6. ASSUME NEW n \in Receivers, CloneReceiver(r, n) PROVE Kept
  <2>1. /\ st[r] \in Live /\ st[n] = "new" /\ n \in Group("recv")
        /\ st' = Moved({}, n, "idle") /\ wk' = wk
        /\ Count("recv")' = Count("recv") + 1 /\ Count("send")' = Count("send")
        /\ UNCHANGED <<queue, timed, gen, arg, fresh>>
    BY <1>6 DEF CloneReceiver, Live, ClientState, Count, Group
  <2>2. Count("recv")' # 0
    BY <1>0, <2>1, LiveMove, Parts
  <2> QED BY <1>0, <2>1, <2>2, HandleStep
<1>7. CASE DropReceiver(r)
  <2> DEFINE W == IF receivers' = 0 THEN AllReached("send") ELSE {}
  <2>1. /\ st[r] = "idle" /\ st[r] \in Live /\ st' = Moved(W, r, "gone")
        /\ Count("recv")' = Count("recv") - 1 /\ Count("send")' = Count("send")
        /\ UNCHANGED <<queue, timed, gen, arg, fresh>>
    BY <1>7 DEF DropReceiver, Live, ClientState, Count
  <2>2. \/ W = {} /\ wk' = wk /\ Count("recv")' # 0
        \/ /\ W = AllReached("send") /\ Count("recv")' = 0
           /\ wk' = [wk EXCEPT !["send"] = WakeAll(wk["send"])]
    BY <1>0, <1>7 DEF DropReceiver, Count
  <2> HIDE DEF W
  <2> QED BY <1>0, <2>1, <2>2, HandleStep
<1> QED BY <1>1, <1>2, <1>3, <1>4, <1>5, <1>6, <1>7 DEF ReceiverNext

\* The initial states.
LEMMA InitBooksInv == Init => BooksInv
<1> SUFFICES ASSUME Init PROVE BooksInv
  OBVIOUS
<1>1. PICK s \in Senders, r \in Receivers :
         st = [c \in Clients |-> IF c \in {s, r} THEN "idle" ELSE "new"]
  BY DEF Init
<1>2. st \in [Clients -> ClientState] /\ \A c \in Clients : st[c] \in {"idle", "new"}
  BY <1>1 DEF ClientState
<1>3. /\ {u \in Senders : st[u] \in Live} = {s}
      /\ {u \in Receivers : st[u] \in Live} = {r}
  BY <1>1, ClientsAssumption DEF Clients, Live, ClientState
<1>4. Cardinality({s}) = 1 /\ Cardinality({r}) = 1
  BY FS_Singleton
<1>5. NoWaiters \in Waiters
  BY EmptySeq DEF NoWaiters, Waiters
<1>6. wk \in [Side -> Waiters] /\ \A sd \in Side : wk[sd] = NoWaiters
  BY <1>5 DEF Init
<1>7. TypeOK
  <2>1. timed \in [Clients -> BOOLEAN]
    BY Zenon DEF Init
  <2>2. gen \in [Clients -> Gens \cup {0}] /\ arg \in [Senders -> Msg \cup {NoMsg}]
    BY DEF Init
  <2>3. queue \in Stores /\ fresh \subseteq Msg
    BY StorageContract DEF Init
  <2>4. /\ senders = Cardinality({u \in Senders : st[u] \in Live})
        /\ receivers = Cardinality({u \in Receivers : st[u] \in Live})
    BY <1>3, <1>4 DEF Init
  <2>5. \A u \in Senders :
          st[u] \in {"pending", "woken", "waiting", "signalled"} => arg[u] \in Msg
    BY <1>2 DEF Clients
  <2> QED BY <1>2, <1>6, <2>1, <2>2, <2>3, <2>4, <2>5 DEF TypeOK
<1>8. OwnsFuture
  BY <1>2 DEF OwnsFuture
<1>9. CleanMeans
  <2>1. ASSUME NEW sd \in Side
        PROVE  /\ DOMAIN wk[sd].wakers = {}
               /\ Cardinality({i \in DOMAIN wk[sd].wakers : wk[sd].wakers[i] = SyncWaker})
                     = Cardinality(Waiting(sd))
    <3>1. DOMAIN wk[sd].wakers = {}
      BY <1>6 DEF NoWaiters
    <3>2. Waiting(sd) = {}
      BY <1>2, Groups DEF Waiting
    <3> QED BY <3>1, <3>2
  <2> QED BY <2>1 DEF CleanMeans, EntriesAreWaiters
<1>10. ASSUME NEW sd \in Side PROVE SideInv(sd)
  <2>1. wk[sd].wakers = <<>> /\ wk[sd].ids = {} /\ wk[sd].pending = {}
    BY <1>6 DEF NoWaiters
  <2>2. DOMAIN wk[sd].wakers = {}
    BY <2>1
  <2>3. Book(wk[sd]) /\ OwnIds(sd)
    BY <2>1, <2>2 DEF Book, OwnIds
  <2>4. \A c \in Group(sd) : st[c] \in {"idle", "new"}
    BY <1>2, Groups
  <2>5. Queued(sd) /\ PendingAreWoken(sd) /\ WokenArePending(sd) /\ ClosedIsEmpty(sd)
    BY <2>1, <2>4 DEF Queued, PendingAreWoken, WokenArePending, ClosedIsEmpty, Asleep
  <2> QED BY <2>3, <2>5 DEF SideInv
<1> QED BY <1>7, <1>8, <1>9, <1>10 DEF BooksInv

\* Every step keeps the invariant.
LEMMA NextBooksInv == BooksInv /\ [Next]_vars => BooksInv'
<1> SUFFICES ASSUME BooksInv, [Next]_vars PROVE BooksInv'
  OBVIOUS
<1>1. CASE Next
  <2>1. clean' => clean
    BY <1>1 DEF Next
  <2>2. CleanMeans'
    BY <1>1 DEF Next, CleanMeans
  <2>3. Kept
    <3>1. CASE \E s \in Senders : SenderNext(s)
      BY <2>1, <3>1, SenderStep
    <3>2. CASE \E r \in Receivers : ReceiverNext(r)
      BY <2>1, <3>2, ReceiverStep
    <3> QED BY <1>1, <3>1, <3>2 DEF Next
  <2> QED BY <2>2, <2>3 DEF Kept, BooksInv
<1>2. CASE UNCHANGED vars
  <2>1. /\ TypeOK' /\ OwnsFuture' /\ CleanMeans'
    BY <1>2, ZenonT(60)
    DEF vars, inner, BooksInv, TypeOK, OwnsFuture, CleanMeans, EntriesAreWaiters, Waiting, Group, Id
  <2>2. ASSUME NEW sd \in Side PROVE SideInv(sd)'
    <3>1. SideInv(sd)
      BY DEF BooksInv
    <3> QED BY <1>2, <3>1
        DEF vars, inner, SideInv, OwnIds, Queued, PendingAreWoken, WokenArePending,
            ClosedIsEmpty, Open, Asleep, Group, Id
  <2> QED BY <2>1, <2>2 DEF BooksInv
<1> QED BY <1>1, <1>2

\* The invariant.
LEMMA BooksInvCorrect == Spec => []BooksInv
<1> QED BY InitBooksInv, NextBooksInv, PTL DEF Spec

\* Type correctness: the handles counted in InnerData are the handles there
\* are, and who suspends or blocks in a send still holds its value.
THEOREM TypeCorrect == Spec => []TypeOK
<1>1. BooksInv => TypeOK
  BY DEF BooksInv
<1> QED BY <1>1, BooksInvCorrect, PTL

\* The last drop of a handle reaches everyone who sleeps on the other side.
THEOREM ClosedWakesAllCorrect == Spec => []ClosedWakesAll
<1>1. BooksInv => ClosedWakesAll
  <2> SUFFICES ASSUME BooksInv PROVE ClosedWakesAll
    OBVIOUS
  <2>1. ClosedIsEmpty("recv") /\ ClosedIsEmpty("send")
    BY DEF BooksInv, SideInv, Side
  <2> QED BY <2>1 DEF ClosedIsEmpty, Open, ClosedWakesAll
<1> QED BY <1>1, BooksInvCorrect, PTL

\* A queue whose ids are pairwise different holds as many futures as there are ids.
LEMMA BookCounts ==
    ASSUME NEW w \in Waiters, Book(w)
    PROVE  LET fut == {i \in DOMAIN w.wakers : w.wakers[i] # SyncWaker}
           IN  w.ids = {w.wakers[i] : i \in fut} /\ Cardinality(w.ids) = Cardinality(fut)
<1> DEFINE fut == {i \in DOMAIN w.wakers : w.wakers[i] # SyncWaker}
           f == [i \in fut |-> w.wakers[i]]
<1>1. w.ids = {w.wakers[i] : i \in fut}
  <2>1. \A id \in w.ids : id # SyncWaker
    BY WaitersFields, IdShape
  <2> QED BY <2>1 DEF Book
<1>2. IsFiniteSet(fut)
  <2>1. DOMAIN w.wakers = 1..Len(w.wakers) /\ Len(w.wakers) \in Nat
    BY WaitersFields
  <2>2. IsFiniteSet(1..Len(w.wakers))
    BY <2>1, FS_Interval
  <2> QED BY <2>1, <2>2, FS_Subset
<1>3. f \in Bijection(fut, w.ids)
  <2>1. f \in [fut -> w.ids]
    BY <1>1
  <2>2. \A i, j \in fut : f[i] = f[j] => i = j
    BY DEF Book
  <2>3. \A id \in w.ids : \E i \in fut : f[i] = id
    BY <1>1
  <2> HIDE DEF f, fut
  <2>4. IsInjective(f)
    BY <2>1, <2>2 DEF IsInjective
  <2> QED BY <2>1, <2>3, <2>4 DEF Bijection, Injection, Surjection
<1>4. Cardinality(w.ids) = Cardinality(fut)
  <2> HIDE DEF f, fut
  <2>1. ExistsBijection(fut, w.ids)
    BY <1>3 DEF ExistsBijection
  <2> QED BY <1>2, <2>1, FS_Bijection
<1> QED BY <1>1, <1>4

\* The three records of the waiting futures agree with each other and with the
\* tasks that own the futures.
THEOREM BooksAgreeCorrect == Spec => []BooksAgree
<1>1. BooksInv => BooksAgree
  <2> SUFFICES ASSUME BooksInv, NEW sd \in Side
               PROVE  LET w == wk[sd]
                          fut == {i \in DOMAIN w.wakers : w.wakers[i] # SyncWaker}
                      IN  /\ w.ids = {w.wakers[i] : i \in fut}
                          /\ Cardinality(w.ids) = Cardinality(fut)
                          /\ w.ids \cap w.pending = {}
                          /\ \A c \in Group(sd) : st[c] = "pending" => Id(c) \in w.ids
                          /\ clean => \A p \in w.pending : st[p[1]] = "woken" /\ p = Id(p[1])
    BY DEF BooksAgree
  <2>1. SideInv(sd) /\ wk[sd] \in Waiters
    BY Parts
  <2>2. Book(wk[sd]) /\ Queued(sd) /\ PendingAreWoken(sd)
    BY <2>1 DEF SideInv
  <2>3. LET fut == {i \in DOMAIN wk[sd].wakers : wk[sd].wakers[i] # SyncWaker}
        IN  /\ wk[sd].ids = {wk[sd].wakers[i] : i \in fut}
            /\ Cardinality(wk[sd].ids) = Cardinality(fut)
    BY <2>1, <2>2, BookCounts
  <2>4. wk[sd].ids \cap wk[sd].pending = {}
    BY <2>2 DEF Book
  <2> QED BY <2>2, <2>3, <2>4 DEF Queued, PendingAreWoken
<1> QED BY <1>1, BooksInvCorrect, PTL

-----------------------------------------------------------------------------
\* No lost wakeup.  The two sides are treated alike: what a side waits for are
\* elements or free slots, and a wakeup is due for each.

Demand(sd) == IF sd = "recv" THEN Length(queue) ELSE Capacity - Length(queue)

NoLost(sd) ==
    clean /\ Open(sd) /\ Asleep(sd) # {} => Cardinality(OnTheWay(sd)) >= Demand(sd)

\* The entries None stand for blocking calls.
SyncEntries(sd, w) ==
    (\E i \in DOMAIN w.wakers : w.wakers[i] = SyncWaker) <=> Waiting(sd) # {}

\* Taking one away and adding one.
LEMMA Counting ==
    ASSUME NEW S, IsFiniteSet(S), NEW c
    PROVE  /\ Cardinality(S) \in Nat /\ IsFiniteSet(S \ {c})
           /\ c \in S => Cardinality(S \ {c}) = Cardinality(S) - 1
           /\ c \notin S => S \ {c} = S
           /\ \A u : u \notin S => Cardinality(S \cup {u}) = Cardinality(S) + 1
BY FS_CardinalityType, FS_RemoveElement, FS_AddElement

\* The number of clients on their way is finite, and a demand is a number.
LEMMA DemandType ==
    ASSUME TypeOK, NEW sd \in Side
    PROVE  IsFiniteSet(OnTheWay(sd)) /\ Demand(sd) \in Nat
<1>1. IsFiniteSet(OnTheWay(sd))
  BY Groups, FS_Subset DEF OnTheWay
<1>2. Length(queue) \in 0..Capacity
  BY StorageContract DEF TypeOK
<1> QED BY <1>1, <1>2, CapacityAssumption DEF Demand

\* While the entries are waiters, a blocking call that waits has an entry, and
\* an entry has one.
LEMMA CleanSync ==
    ASSUME NEW sd \in Side, wk[sd] \in Waiters, CleanMeans, clean
    PROVE  SyncEntries(sd, wk[sd])
<1> DEFINE E == wk[sd].wakers
           I == {i \in DOMAIN E : E[i] = SyncWaker}
<1>1. Cardinality(I) = Cardinality(Waiting(sd))
  BY DEF CleanMeans, EntriesAreWaiters
<1>2. IsFiniteSet(I)
  <2>1. DOMAIN E = 1..Len(E) /\ Len(E) \in Nat
    BY WaitersFields
  <2>2. IsFiniteSet(1..Len(E))
    BY <2>1, FS_Interval
  <2> QED BY <2>1, <2>2, FS_Subset
<1>3. IsFiniteSet(Waiting(sd))
  BY Groups, FS_Subset DEF Waiting
<1>4. I = {} <=> Waiting(sd) = {}
  <2> HIDE DEF I
  <2> QED BY <1>1, <1>2, <1>3, FS_EmptySet
<1> QED BY <1>4 DEF SyncEntries

\* A wakeup puts one more client of the side on its way, unless nobody sleeps.
LEMMA WakeCounts ==
    ASSUME NEW sd \in Side, NEW w, NEW c, WakeReady(sd, w, c), clean, SyncEntries(sd, w),
           NEW W \in Reached(w, sd), Reaches(sd, W, c),
           c \in Group(sd) => st[c] # "waiting" /\ st'[c] = "idle"
    PROVE  \/ Asleep(sd)' = {}
           \/ /\ Asleep(sd)' \subseteq Asleep(sd)
              /\ \E u \in Group(sd) \ {c} : /\ u \notin OnTheWay(sd)
                                            /\ OnTheWay(sd)' = (OnTheWay(sd) \ {c}) \cup {u}
<1>0. w \in Waiters /\ Book(w)
  BY DEF WakeReady
<1>1. CASE w.wakers = <<>>
  <2>1. W = {} /\ DOMAIN w.wakers = {}
    BY <1>1 DEF Reached
  <2>2. Waiting(sd) = {} /\ w.ids = {}
    BY <2>1 DEF SyncEntries, WakeReady, Book
  <2>3. \A u \in Group(sd) \ {c} : st[u] \notin {"pending", "waiting"} /\ st'[u] = st[u]
    BY <2>1, <2>2 DEF WakeReady, Waiting, Reaches
  <2> QED BY <2>3 DEF Asleep, Group
<1>2. ASSUME NEW u \in Group(sd) \ {c}, W = {u}, st[u] \in {"pending", "waiting"}
      PROVE  /\ Asleep(sd)' \subseteq Asleep(sd) /\ u \notin OnTheWay(sd)
             /\ OnTheWay(sd)' = (OnTheWay(sd) \ {c}) \cup {u}
  <2>1. /\ st'[u] \in {"woken", "signalled"}
        /\ \A x \in Group(sd) \ {c, u} : st'[x] = st[x]
    BY <1>2 DEF Reaches
  <2> QED BY <1>2, <2>1 DEF Asleep, OnTheWay, Group
<1>3. CASE w.wakers # <<>> /\ Head(w.wakers) = SyncWaker
  <2>1. Waiting(sd) # {}
    BY <1>0, <1>3, WakeNextFacts DEF SyncEntries
  <2>2. PICK u \in Waiting(sd) : W = {u}
    BY <1>3, <2>1 DEF Reached
  <2>3. u \in Group(sd) \ {c} /\ st[u] = "waiting"
    BY <2>2 DEF Waiting
  <2> QED BY <1>2, <2>2, <2>3
<1>4. CASE w.wakers # <<>> /\ Head(w.wakers) # SyncWaker
  <2> DEFINE h == Head(w.wakers)
  <2>1. PICK i \in DOMAIN w.wakers : w.wakers[i] = h
    BY <1>0, <1>4, WakeNextFacts
  <2>2. h \in w.ids
    BY <1>0, <1>4, WakeNextFacts
  <2>3. W = {h[1]} /\ h[1] \in Group(sd) \ {c} /\ st[h[1]] = "pending"
    BY <1>4, <2>1, <2>2 DEF Reached, WakeReady
  <2> HIDE DEF h
  <2> QED BY <1>2, <2>3
<1> QED BY <1>1, <1>3, <1>4

\* Nobody of the side is woken, and c, if it is of the side, is awake
\* afterwards: it took an element or a slot, or was not on its way.
LEMMA NoLostEnd ==
    ASSUME TypeOK, TypeOK', NEW sd \in Side, NoLost(sd), clean' => clean, NEW c,
           \A u \in Group(sd) \ {c} : st'[u] = st[u],
           c \in Group(sd) => st'[c] \notin {"pending", "waiting", "woken", "signalled"},
           \/ ~Open(sd)'
           \/ Demand(sd)' = 0
           \/ Open(sd) /\ Demand(sd)' < Demand(sd)
           \/ Open(sd) /\ Demand(sd)' <= Demand(sd)
              /\ (c \in Group(sd) => st[c] \notin {"woken", "signalled"})
    PROVE  NoLost(sd)'
<1> SUFFICES ASSUME clean', Open(sd)', Asleep(sd)' # {}
             PROVE  Cardinality(OnTheWay(sd)') >= Demand(sd)'
  BY DEF NoLost
<1>1. /\ IsFiniteSet(OnTheWay(sd)) /\ Demand(sd) \in Nat
      /\ IsFiniteSet(OnTheWay(sd)') /\ Demand(sd)' \in Nat
  <2>1. IsFiniteSet(OnTheWay(sd)) /\ Demand(sd) \in Nat
    BY DemandType
  <2>2. IsFiniteSet(OnTheWay(sd)')
    BY Groups, FS_Subset DEF OnTheWay, Group
  <2>3. Length(queue') \in 0..Capacity
    BY StorageContract DEF TypeOK
  <2> QED BY <2>1, <2>2, <2>3, CapacityAssumption DEF Demand
<1>2. OnTheWay(sd)' = OnTheWay(sd) \ {c} /\ Asleep(sd)' \subseteq Asleep(sd)
  BY DEF OnTheWay, Asleep, Group
<1>3. Cardinality(OnTheWay(sd)') \in Nat
  BY <1>1, FS_CardinalityType
<1>4. CASE Demand(sd)' = 0
  BY <1>3, <1>4
<1>5. CASE Open(sd) /\ Demand(sd)' < Demand(sd)
  <2>1. Cardinality(OnTheWay(sd)) >= Demand(sd)
    BY <1>2, <1>5 DEF NoLost
  <2> DEFINE n == Cardinality(OnTheWay(sd))
             k == Cardinality(OnTheWay(sd) \ {c})
  <2>2. n \in Nat /\ (k = n - 1 \/ k = n)
    BY <1>1, Counting
  <2>3. Cardinality(OnTheWay(sd)') = k
    BY <1>2
  <2>4. n >= Demand(sd)
    BY <2>1
  <2> HIDE DEF n, k
  <2>5. k >= Demand(sd)'
    BY <1>1, <1>5, <2>2, <2>4
  <2> QED BY <2>3, <2>5
<1>6. CASE Open(sd) /\ Demand(sd)' <= Demand(sd)
           /\ (c \in Group(sd) => st[c] \notin {"woken", "signalled"})
  <2>1. Cardinality(OnTheWay(sd)) >= Demand(sd)
    BY <1>2, <1>6 DEF NoLost
  <2>2. OnTheWay(sd)' = OnTheWay(sd)
    BY <1>2, <1>6 DEF OnTheWay
  <2> QED BY <1>1, <1>3, <1>6, <2>1, <2>2
<1> QED BY <1>4, <1>5, <1>6

\* The client c of the side goes to sleep: there is nothing to wait for, or it
\* queues up behind somebody who sleeps already.
LEMMA NoLostSleep ==
    ASSUME TypeOK, TypeOK', NEW sd \in Side, NoLost(sd), clean' => clean,
           NEW c \in Group(sd),
           \A u \in Group(sd) \ {c} : st'[u] = st[u],
           st'[c] \in {"pending", "waiting"},
           \/ Demand(sd)' = 0
           \/ /\ Open(sd) /\ Demand(sd)' = Demand(sd) /\ (clean => Asleep(sd) # {})
              /\ st[c] \notin {"woken", "signalled"}
    PROVE  NoLost(sd)'
<1> SUFFICES ASSUME clean', Open(sd)', Asleep(sd)' # {}
             PROVE  Cardinality(OnTheWay(sd)') >= Demand(sd)'
  BY DEF NoLost
<1>1. IsFiniteSet(OnTheWay(sd)')
  BY Groups, FS_Subset DEF OnTheWay, Group
<1>2. Cardinality(OnTheWay(sd)') \in Nat
  BY <1>1, FS_CardinalityType
<1>3. CASE Demand(sd)' = 0
  BY <1>2, <1>3
<1>4. CASE /\ Open(sd) /\ Demand(sd)' = Demand(sd) /\ (clean => Asleep(sd) # {})
           /\ st[c] \notin {"woken", "signalled"}
  <2>1. Cardinality(OnTheWay(sd)) >= Demand(sd)
    BY <1>4 DEF NoLost
  <2>2. OnTheWay(sd)' = OnTheWay(sd)
    BY <1>4 DEF OnTheWay, Group
  <2> QED BY <1>4, <2>1, <2>2
<1> QED BY <1>3, <1>4

\* Somebody of the side is woken for what has come in, or in place of c.
LEMMA NoLostWake ==
    ASSUME TypeOK, TypeOK', NEW sd \in Side, NoLost(sd), clean' => clean,
           NEW w, NEW c, WakeReady(sd, w, c), clean => SyncEntries(sd, w),
           NEW W \in Reached(w, sd), Reaches(sd, W, c),
           c \in Group(sd) => st[c] # "waiting" /\ st'[c] = "idle",
           Open(sd)' = Open(sd),
           \/ Demand(sd)' <= Demand(sd) \/ (c \notin Group(sd) /\ Demand(sd)' <= Demand(sd) + 1)
    PROVE  NoLost(sd)'
<1> SUFFICES ASSUME clean', Open(sd)', Asleep(sd)' # {}
             PROVE  Cardinality(OnTheWay(sd)') >= Demand(sd)'
  BY DEF NoLost
<1>1. /\ Asleep(sd)' \subseteq Asleep(sd)
      /\ \E u \in Group(sd) \ {c} : /\ u \notin OnTheWay(sd)
                                    /\ OnTheWay(sd)' = (OnTheWay(sd) \ {c}) \cup {u}
  BY WakeCounts
<1>2. PICK u \in Group(sd) \ {c} : /\ u \notin OnTheWay(sd)
                                   /\ OnTheWay(sd)' = (OnTheWay(sd) \ {c}) \cup {u}
  BY <1>1
<1>3. Cardinality(OnTheWay(sd)) >= Demand(sd)
  BY <1>1 DEF NoLost
<1>4. IsFiniteSet(OnTheWay(sd)) /\ Demand(sd) \in Nat
  BY DemandType
<1>5. Demand(sd)' \in Nat
  <2>1. Length(queue') \in 0..Capacity
    BY StorageContract DEF TypeOK
  <2> QED BY <2>1, CapacityAssumption DEF Demand
<1>6. Cardinality(OnTheWay(sd)') = Cardinality(OnTheWay(sd) \ {c}) + 1
  <2>1. IsFiniteSet(OnTheWay(sd) \ {c}) /\ u \notin OnTheWay(sd) \ {c}
    BY <1>2, <1>4, Counting
  <2> QED BY <1>2, <2>1, FS_AddElement
<1>7. Cardinality(OnTheWay(sd)) \in Nat
  BY <1>4, FS_CardinalityType
<1> DEFINE n == Cardinality(OnTheWay(sd))
           k == Cardinality(OnTheWay(sd) \ {c})
<1>8. n \in Nat /\ (k = n - 1 \/ k = n) /\ (c \notin Group(sd) => k = n)
  <2>1. c \notin Group(sd) => c \notin OnTheWay(sd)
    BY DEF OnTheWay
  <2> QED BY <1>4, <2>1, Counting
<1>9. n >= Demand(sd) /\ Cardinality(OnTheWay(sd)') = k + 1
  BY <1>3, <1>6
<1> HIDE DEF n, k
<1>10. k + 1 >= Demand(sd)'
  BY <1>4, <1>5, <1>8, <1>9
<1> QED BY <1>9, <1>10

\* What a step of the storage does to the demand of the side x: for the
\* receivers by StorageContract, for the senders by SlotsAreKept.
LEMMA DemandMoves ==
    ASSUME TypeOK, NEW x \in Side, x = "send" => SlotsAreKept
    PROVE  /\ Demand(x) \in Nat
           /\ queue' = queue => Demand(x)' = Demand(x)
           /\ \A m \in Msg :
                 /\ TryPush(queue, m, {}).out = "Pushed" /\ queue' = TryPush(queue, m, {}).store =>
                       /\ x = "recv" => Demand(x)' <= Demand(x) + 1
                       /\ x = "send" => Demand(x)' < Demand(x) \/ Demand(x)' = 0
                 /\ TryPush(queue, m, {}).out # "Pushed" => (x = "send" => Demand(x) = 0)
           /\ queue' = Get(queue, {}).store =>
                 /\ Get(queue, {}).val # NoMsg =>
                       /\ x = "recv" => Demand(x)' < Demand(x)
                       /\ x = "send" => Demand(x)' <= Demand(x) + 1
                 /\ Get(queue, {}).val = NoMsg =>
                       /\ x = "recv" => Demand(x)' = 0
                       /\ x = "send" => Demand(x)' <= Demand(x)
<1>0. queue \in Stores /\ Capacity \in Nat \ {0} /\ Length(queue) \in 0..Capacity
  BY StorageContract, CapacityAssumption DEF TypeOK
<1>1. Demand(x) \in Nat /\ (queue' = queue => Demand(x)' = Demand(x))
  BY <1>0 DEF Demand
<1>2. ASSUME NEW m \in Msg
      PROVE  /\ TryPush(queue, m, {}).out = "Pushed" /\ queue' = TryPush(queue, m, {}).store =>
                   /\ x = "recv" => Demand(x)' <= Demand(x) + 1
                   /\ x = "send" => Demand(x)' < Demand(x) \/ Demand(x)' = 0
             /\ TryPush(queue, m, {}).out # "Pushed" => (x = "send" => Demand(x) = 0)
  <2> DEFINE p == TryPush(queue, m, {})
  <2>1. p.out = "Pushed" => Length(p.store) \in 0..Capacity /\ Length(p.store) <= Length(queue) + 1
    BY <1>0, StorageFacts, StorageContract
  <2>2. x = "send" => IF p.out = "Pushed" THEN Length(p.store) \in {Length(queue) + 1, Capacity}
                                          ELSE Length(queue) = Capacity
    BY <1>0 DEF SlotsAreKept
  <2> HIDE DEF p
  <2>3. /\ p.out = "Pushed" /\ queue' = p.store =>
             /\ x = "recv" => Demand(x)' <= Demand(x) + 1
             /\ x = "send" => Demand(x)' < Demand(x) \/ Demand(x)' = 0
        /\ p.out # "Pushed" => (x = "send" => Demand(x) = 0)
    BY <1>0, <2>1, <2>2 DEF Demand
  <2> QED BY <2>3 DEF p
<1>3. ASSUME queue' = Get(queue, {}).store
      PROVE  /\ Get(queue, {}).val # NoMsg =>
                   /\ x = "recv" => Demand(x)' < Demand(x)
                   /\ x = "send" => Demand(x)' <= Demand(x) + 1
             /\ Get(queue, {}).val = NoMsg =>
                   /\ x = "recv" => Demand(x)' = 0
                   /\ x = "send" => Demand(x)' <= Demand(x)
  <2> DEFINE p == Get(queue, {})
  <2>1. /\ p.val = NoMsg => Length(p.store) = 0
        /\ p.val # NoMsg => Length(p.store) < Length(queue)
        /\ Length(p.store) \in 0..Capacity
    BY <1>0, StorageFacts, StorageContract
  <2>2. x = "send" => /\ p.val # NoMsg => Length(p.store) = Length(queue) - 1
                      /\ p.val = NoMsg => Length(queue) = 0
    BY <1>0 DEF SlotsAreKept
  <2>3. queue' = p.store
    BY <1>3
  <2> HIDE DEF p
  <2>4. /\ p.val # NoMsg =>
             /\ x = "recv" => Demand(x)' < Demand(x)
             /\ x = "send" => Demand(x)' <= Demand(x) + 1
        /\ p.val = NoMsg =>
             /\ x = "recv" => Demand(x)' = 0
             /\ x = "send" => Demand(x)' <= Demand(x)
    BY <1>0, <2>1, <2>2, <2>3 DEF Demand
  <2> QED BY <2>4 DEF p
<1> QED BY <1>1, <1>2, <1>3

\* While the entries are waiters, a queue that is not empty has somebody asleep.
LEMMA EntrySleeps ==
    ASSUME BooksInv, clean, NEW sd \in Side, wk[sd].wakers # <<>>
    PROVE  Asleep(sd) # {}
<1> DEFINE w == wk[sd]
<1>0. w \in Waiters /\ SideInv(sd) /\ Book(w) /\ CleanMeans
  BY Parts DEF SideInv
<1>1. PICK i \in DOMAIN w.wakers : w.wakers[i] = Head(w.wakers)
  BY <1>0, WakeNextFacts
<1>2. CASE w.wakers[i] = SyncWaker
  <2>1. Waiting(sd) # {}
    BY <1>0, <1>1, <1>2, CleanSync DEF SyncEntries
  <2> QED BY <2>1 DEF Waiting, Asleep
<1>3. CASE w.wakers[i] # SyncWaker
  <2>1. st[w.wakers[i][1]] = "pending"
    BY <1>0, <1>1, <1>3 DEF CleanMeans, EntriesAreWaiters
  <2>2. w.wakers[i][1] \in Group(sd)
    BY <1>0, <1>1, <1>3 DEF SideInv, Book, OwnIds
  <2> QED BY <2>1, <2>2 DEF Asleep
<1> QED BY <1>2, <1>3

\* The facts every step below starts from.
LostPre(x) ==
    /\ BooksInv /\ (clean' => clean) /\ TypeOK' /\ x \in Side /\ NoLost(x)
    /\ x = "send" => SlotsAreKept

\* An operation of c ends.
LEMMA EndNoLost ==
    ASSUME NEW x, LostPre(x), NEW sd \in Side, NEW c \in Group(sd), st[c] \in Live,
           NEW W, Finish(c, W), UNCHANGED <<senders, receivers>>,
           W = {} \/ W \in Reached(wk[Opposite(sd)], Opposite(sd)),
           x = sd => \/ ~Open(x) \/ Demand(x)' = 0 \/ Demand(x)' < Demand(x)
                     \/ Demand(x)' <= Demand(x) /\ st[c] \notin {"woken", "signalled"},
           x # sd => \/ W = {} /\ Demand(x)' <= Demand(x)
                     \/ W \in Reached(wk[x], x) /\ Demand(x)' <= Demand(x) + 1
    PROVE  NoLost(x)'
<1>0. /\ x \in Side /\ BooksInv /\ TypeOK /\ TypeOK' /\ NoLost(x) /\ (clean' => clean)
      /\ ClientsOK /\ CleanMeans /\ SideInv(x) /\ wk[x] \in Waiters /\ c \in Clients
      /\ Open(x)' = Open(x) /\ Opposite(sd) \in Side /\ SideInv(Opposite(sd))
      /\ wk[Opposite(sd)] \in Waiters
  BY Parts, Groups DEF LostPre, Open
<1>1. st'[c] = "idle" /\ Reaches(x, W, c)
  BY <1>0, FinishOK
<1>2. CASE x = sd
  <2>1. W \subseteq Group(Opposite(sd))
    <3>1. /\ wk[Opposite(sd)].ids \subseteq Group(Opposite(sd)) \X Gens
          /\ Book(wk[Opposite(sd)])
      BY <1>0 DEF SideInv, OwnIds
    <3> QED BY <1>0, <3>1, ReachedOwn
  <2>2. \A u \in Group(x) \ {c} : st'[u] = st[u]
    BY <1>1, <1>2, <2>1, Groups DEF Reaches
  <2>3. st'[c] \notin {"pending", "waiting", "woken", "signalled"}
    BY <1>1
  <2> QED BY <1>0, <1>2, <2>2, <2>3, NoLostEnd
<1>3. CASE x # sd
  <2>0. c \notin Group(x)
    BY <1>0, <1>3, Groups
  <2>1. CASE W = {} /\ Demand(x)' <= Demand(x)
    <3>1. \A u \in Group(x) \ {c} : st'[u] = st[u]
      BY <1>1, <2>1 DEF Reaches
    <3>2. ~Open(x)' \/ Open(x)
      BY <1>0
    <3> QED BY <1>0, <2>0, <2>1, <3>1, <3>2, NoLostEnd
  <2>2. CASE W \in Reached(wk[x], x) /\ Demand(x)' <= Demand(x) + 1
    <3>1. WakeReady(x, wk[x], c)
      BY <1>0, <2>0, OtherReady
    <3>2. clean => SyncEntries(x, wk[x])
      BY <1>0, CleanSync
    <3> QED BY <1>0, <1>1, <2>0, <2>2, <3>1, <3>2, NoLostWake
  <2> QED BY <1>3, <2>1, <2>2
<1> QED BY <1>2, <1>3

\* The client c goes to sleep.
LEMMA SleepNoLost ==
    ASSUME NEW x, LostPre(x), NEW sd \in Side, NEW c \in Group(sd),
           \A u \in Clients \ {c} : st'[u] = st[u], st'[c] \in {"pending", "waiting"},
           UNCHANGED <<senders, receivers>>,
           x = sd => \/ Demand(x)' = 0
                     \/ /\ Open(x) /\ Demand(x)' = Demand(x) /\ wk[x].wakers # <<>>
                        /\ st[c] \notin {"woken", "signalled"},
           x # sd => Demand(x)' <= Demand(x)
    PROVE  NoLost(x)'
<1>0. /\ x \in Side /\ BooksInv /\ TypeOK /\ TypeOK' /\ NoLost(x) /\ (clean' => clean)
      /\ Group(x) \subseteq Clients /\ Open(x)' = Open(x)
  BY Parts, Groups DEF LostPre, Open
<1>1. \A u \in Group(x) \ {c} : st'[u] = st[u]
  BY <1>0
<1>2. CASE x = sd
  <2>1. clean /\ wk[x].wakers # <<>> => Asleep(x) # {}
    BY <1>0, EntrySleeps
  <2> QED BY <1>0, <1>1, <1>2, <2>1, NoLostSleep
<1>3. CASE x # sd
  <2>1. c \notin Group(x) /\ (~Open(x)' \/ Open(x))
    BY <1>0, <1>3, Groups
  <2> QED BY <1>0, <1>1, <1>3, <2>1, NoLostEnd
<1> QED BY <1>2, <1>3

\* The ends of a send.
LEMMA SendEndsNoLost ==
    ASSUME NEW x, LostPre(x), NEW s \in Senders, st[s] \in Live, NEW m \in Msg, NEW w,
           NEW notify \in BOOLEAN,
           SendClosed(s, w) \/ SendPushed(s, m, w) \/ SendSkipped(s, m, w, notify), SendFrame
    PROVE  NoLost(x)'
<1>0. /\ "send" \in Side /\ Opposite("send") = "recv" /\ s \in Group("send")
      /\ x \in Side /\ (x = "send" \/ x = "recv") /\ TypeOK
      /\ UNCHANGED <<senders, receivers>> /\ (x = "send" => SlotsAreKept)
      /\ wk.recv = wk["recv"]
  BY Parts DEF Side, Opposite, Group, SendFrame, LostPre
<1>1. CASE SendClosed(s, w)
  <2>1. Finish(s, {}) /\ Demand(x)' = Demand(x) /\ Demand(x) \in Nat
    BY <1>0, <1>1, DemandMoves DEF SendClosed
  <2>2. x = "send" => ~Open(x)
    BY <1>0, <1>1 DEF SendClosed, Open
  <2> QED BY <1>0, <2>1, <2>2, EndNoLost
<1>2. CASE SendPushed(s, m, w)
  <2>1. PICK W \in Reached(wk["recv"], "recv") : Finish(s, W)
    BY <1>0, <1>2 DEF SendPushed
  <2>2. /\ x = "recv" => Demand(x)' <= Demand(x) + 1
        /\ x = "send" => Demand(x)' < Demand(x) \/ Demand(x)' = 0
    BY <1>0, <1>2, DemandMoves DEF SendPushed
  <2> QED BY <1>0, <2>1, <2>2, EndNoLost
<1>3. CASE SendSkipped(s, m, w, notify)
  <2>1. /\ Demand(x)' = Demand(x) /\ Demand(x) \in Nat /\ (x = "send" => Demand(x) = 0)
        /\ Demand(x) <= Demand(x) + 1 /\ Demand(x) <= Demand(x)
    <3>1. queue' = queue /\ TryPush(queue, m, {}).out # "Pushed"
      BY <1>3 DEF SendSkipped
    <3>2. Demand(x)' = Demand(x) /\ Demand(x) \in Nat /\ (x = "send" => Demand(x) = 0)
      BY <1>0, <3>1, DemandMoves
    <3> QED BY <3>2
  <2>2. CASE notify
    <3>1. PICK W \in Reached(wk["recv"], "recv") : Finish(s, W)
      BY <1>0, <1>3, <2>2 DEF SendSkipped
    <3> QED BY <1>0, <2>1, <3>1, EndNoLost
  <2>3. CASE ~notify
    <3>1. Finish(s, {})
      BY <1>3, <2>3 DEF SendSkipped
    <3> QED BY <1>0, <2>1, <3>1, EndNoLost
  <2> QED BY <2>2, <2>3
<1> QED BY <1>1, <1>2, <1>3

\* A poll of a Send future.
LEMMA SendPollNoLost ==
    ASSUME NEW x, LostPre(x), NEW s \in Senders, NEW m \in Msg, NEW g \in Gens,
           NEW queued \in BOOLEAN,
           queued => st[s] \in {"pending", "woken"}, ~queued => st[s] = "idle",
           SendPoll(s, m, g, queued), SendFrame
    PROVE  NoLost(x)'
<1> DEFINE w == IF queued THEN Confirm(wk.send, <<s, g>>) ELSE wk.send
           tries == queued \/ wk.send.wakers = <<>>
<1>0. /\ "send" \in Side /\ s \in Group("send") /\ s \in Clients /\ st[s] \in Live
      /\ x \in Side /\ (x = "send" \/ x = "recv") /\ TypeOK /\ ClientsOK
      /\ UNCHANGED <<senders, receivers>> /\ (x = "send" => SlotsAreKept)
      /\ wk.send = wk["send"]
  BY Parts DEF Side, Group, SendFrame, LostPre, Live, ClientState, Clients
<1>1. \/ SendClosed(s, w) \/ SendPushed(s, m, w) \/ SendSkipped(s, m, w, FALSE)
      \/ /\ receivers > 0 /\ (tries => Full(m)) /\ Suspend(s, g, m) /\ queue' = queue
  BY DEF SendPoll
<1>2. CASE SendClosed(s, w) \/ SendPushed(s, m, w) \/ SendSkipped(s, m, w, FALSE)
  <2> HIDE DEF w
  <2> QED BY <1>0, <1>2, SendEndsNoLost
<1>3. CASE /\ receivers > 0 /\ (tries => Full(m)) /\ Suspend(s, g, m) /\ queue' = queue
  <2>1. st'[s] = "pending" /\ \A u \in Clients \ {s} : st'[u] = st[u]
    BY <1>0, <1>3, SuspendOK
  <2>2. Demand(x)' = Demand(x) /\ Demand(x) \in Nat
    BY <1>0, <1>3, DemandMoves
  <2>3. CASE tries
    <3>1. x = "send" => Demand(x) = 0
      BY <1>0, <1>3, <2>3, DemandMoves DEF Full
    <3> QED BY <1>0, <2>1, <2>2, <3>1, SleepNoLost
  <2>4. CASE ~tries
    <3>1. wk["send"].wakers # <<>> /\ st[s] = "idle"
      BY <1>0, <2>4
    <3>2. Open("send")
      BY <1>3 DEF Open
    <3> QED BY <1>0, <2>1, <2>2, <3>1, <3>2, SleepNoLost
  <2> QED BY <2>3, <2>4
<1> QED BY <1>1, <1>2, <1>3

\* One pass of a blocking send or of try_send.
LEMMA SendSyncNoLost ==
    ASSUME NEW x, LostPre(x), NEW s \in Senders, NEW m \in Msg, NEW md,
           st[s] \in {"idle", "signalled"}, SendSync(s, m, md), SendFrame
    PROVE  NoLost(x)'
<1>0. /\ "send" \in Side /\ s \in Group("send") /\ s \in Clients /\ st[s] \in Live
      /\ x \in Side /\ (x = "send" \/ x = "recv") /\ TypeOK /\ ClientsOK
      /\ UNCHANGED <<senders, receivers>> /\ (x = "send" => SlotsAreKept)
      /\ (md = "timed") \in BOOLEAN
  BY Parts DEF Side, Group, SendFrame, LostPre, Live, ClientState, Clients
<1>1. CASE \/ SendClosed(s, wk.send) \/ SendPushed(s, m, wk.send)
           \/ SendSkipped(s, m, wk.send, md = "timed")
  BY <1>0, <1>1, SendEndsNoLost
<1>2. ASSUME Full(m), queue' = queue
      PROVE  /\ Demand(x)' = Demand(x) /\ Demand(x) \in Nat /\ (x = "send" => Demand(x)' = 0)
             /\ Demand(x)' <= Demand(x)
  BY <1>0, <1>2, DemandMoves DEF Full
<1>3. CASE Full(m) /\ md = "try" /\ Finish(s, {}) /\ UNCHANGED <<queue, wk, sent>>
  <2>1. Finish(s, {}) /\ (x = "send" => Demand(x)' = 0) /\ Demand(x)' <= Demand(x)
    BY <1>2, <1>3
  <2> QED BY <1>0, <2>1, EndNoLost
<1>4. CASE /\ Full(m) /\ md # "try"
           /\ wk' = [wk EXCEPT !.send = AppendSync(@)]
           /\ Block(s, md = "timed", m)
           /\ UNCHANGED <<queue, sent>>
  <2>1. st'[s] = "waiting" /\ \A u \in Clients \ {s} : st'[u] = st[u]
    BY <1>0, <1>4, BlockOK
  <2>2. (x = "send" => Demand(x)' = 0) /\ Demand(x)' <= Demand(x)
    BY <1>2, <1>4
  <2> QED BY <1>0, <2>1, <2>2, SleepNoLost
<1> QED BY <1>1, <1>3, <1>4 DEF SendSync

\* The ends of a receive.
LEMMA RecvEndsNoLost ==
    ASSUME NEW x, LostPre(x), NEW r \in Receivers, st[r] \in Live, NEW w,
           RecvOk(r, w) \/ RecvClosed(r, w), queue' = Get(queue, {}).store, RecvFrame
    PROVE  NoLost(x)'
<1>0. /\ "recv" \in Side /\ Opposite("recv") = "send" /\ r \in Group("recv")
      /\ x \in Side /\ (x = "send" \/ x = "recv") /\ TypeOK
      /\ UNCHANGED <<senders, receivers>> /\ (x = "send" => SlotsAreKept)
      /\ wk.send = wk["send"]
  BY Parts DEF Side, Opposite, Group, RecvFrame, LostPre
<1>1. CASE RecvOk(r, w)
  <2>1. PICK W \in Reached(wk["send"], "send") : Finish(r, W)
    BY <1>0, <1>1 DEF RecvOk
  <2>2. /\ x = "send" => Demand(x)' <= Demand(x) + 1
        /\ x = "recv" => Demand(x)' < Demand(x)
    BY <1>0, <1>1, DemandMoves DEF RecvOk
  <2> QED BY <1>0, <2>1, <2>2, EndNoLost
<1>2. CASE RecvClosed(r, w)
  <2>1. Finish(r, {}) /\ (x = "send" => Demand(x)' <= Demand(x))
    BY <1>0, <1>2, DemandMoves DEF RecvClosed
  <2>2. x = "recv" => ~Open(x)
    BY <1>0, <1>2 DEF RecvClosed, Open
  <2> QED BY <1>0, <2>1, <2>2, EndNoLost
<1> QED BY <1>1, <1>2

\* A poll of a Recv future.
LEMMA RecvPollNoLost ==
    ASSUME NEW x, LostPre(x), NEW r \in Receivers, NEW g \in Gens,
           NEW queued \in BOOLEAN,
           queued => st[r] \in {"pending", "woken"}, ~queued => st[r] = "idle",
           RecvPoll(r, g, queued), RecvFrame
    PROVE  NoLost(x)'
<1> DEFINE w == IF queued THEN Confirm(wk.recv, <<r, g>>) ELSE wk.recv
           tries == queued \/ wk.recv.wakers = <<>>
<1>0. /\ "recv" \in Side /\ r \in Group("recv") /\ r \in Clients /\ st[r] \in Live
      /\ x \in Side /\ (x = "send" \/ x = "recv") /\ TypeOK /\ ClientsOK /\ r \notin Senders
      /\ UNCHANGED <<senders, receivers>> /\ (x = "send" => SlotsAreKept)
      /\ wk.recv = wk["recv"] /\ SideInv("recv")
  BY Parts, ClientsAssumption DEF Side, Group, RecvFrame, LostPre, Live, ClientState, Clients
<1>1. \/ (RecvOk(r, w) \/ RecvClosed(r, w)) /\ queue' = Get(queue, {}).store
      \/ /\ (tries => Empty) /\ Suspend(r, g, NoMsg)
         /\ queue' = IF tries THEN Get(queue, {}).store ELSE queue
  BY DEF RecvPoll
<1>2. CASE (RecvOk(r, w) \/ RecvClosed(r, w)) /\ queue' = Get(queue, {}).store
  <2> HIDE DEF w
  <2> QED BY <1>0, <1>2, RecvEndsNoLost
<1>3. CASE /\ (tries => Empty) /\ Suspend(r, g, NoMsg)
           /\ queue' = IF tries THEN Get(queue, {}).store ELSE queue
  <2>1. st'[r] = "pending" /\ \A u \in Clients \ {r} : st'[u] = st[u]
    BY <1>0, <1>3, SuspendOK
  <2>2. CASE tries
    <3>1. /\ x = "recv" => Demand(x)' = 0
          /\ x = "send" => Demand(x)' <= Demand(x)
      BY <1>0, <1>3, <2>2, DemandMoves DEF Empty
    <3> QED BY <1>0, <2>1, <3>1, SleepNoLost
  <2>3. CASE ~tries
    <3>1. wk["recv"].wakers # <<>> /\ st[r] = "idle" /\ Open("recv")
      BY <1>0, <2>3 DEF SideInv, ClosedIsEmpty
    <3>2. Demand(x)' = Demand(x) /\ Demand(x) \in Nat
      BY <1>0, <1>3, <2>3, DemandMoves
    <3> QED BY <1>0, <2>1, <3>1, <3>2, SleepNoLost
  <2> QED BY <2>2, <2>3
<1> QED BY <1>1, <1>2, <1>3

\* One pass of a blocking receive or of try_recv.
LEMMA RecvSyncNoLost ==
    ASSUME NEW x, LostPre(x), NEW r \in Receivers, NEW md,
           st[r] \in {"idle", "signalled"}, RecvSync(r, md), RecvFrame
    PROVE  NoLost(x)'
<1>0. /\ "recv" \in Side /\ r \in Group("recv") /\ r \in Clients /\ st[r] \in Live
      /\ x \in Side /\ (x = "send" \/ x = "recv") /\ TypeOK /\ ClientsOK /\ r \notin Senders
      /\ UNCHANGED <<senders, receivers>> /\ (x = "send" => SlotsAreKept)
      /\ queue' = Get(queue, {}).store /\ (md = "timed") \in BOOLEAN
  BY Parts, ClientsAssumption
  DEF Side, Group, RecvFrame, LostPre, Live, ClientState, Clients, RecvSync
<1>1. CASE RecvOk(r, wk.recv) \/ RecvClosed(r, wk.recv)
  BY <1>0, <1>1, RecvEndsNoLost
<1>2. ASSUME Empty
      PROVE  (x = "recv" => Demand(x)' = 0) /\ (x = "send" => Demand(x)' <= Demand(x))
  BY <1>0, <1>2, DemandMoves DEF Empty
<1>3. CASE Empty /\ md = "try" /\ Finish(r, {}) /\ UNCHANGED <<wk, got>>
  <2>1. /\ Finish(r, {}) /\ (x = "recv" => Demand(x)' = 0)
        /\ (x = "send" => Demand(x)' <= Demand(x))
    BY <1>2, <1>3
  <2> QED BY <1>0, <2>1, EndNoLost
<1>4. CASE /\ Empty /\ md # "try"
           /\ wk' = [wk EXCEPT !.recv = AppendSync(@)]
           /\ Block(r, md = "timed", NoMsg)
           /\ UNCHANGED got
  <2>1. st'[r] = "waiting" /\ \A u \in Clients \ {r} : st'[u] = st[u]
    BY <1>0, <1>4, BlockOK
  <2>2. (x = "recv" => Demand(x)' = 0) /\ (x = "send" => Demand(x)' <= Demand(x))
    BY <1>2, <1>4
  <2> QED BY <1>0, <2>1, <2>2, SleepNoLost
<1> QED BY <1>1, <1>3, <1>4 DEF RecvSync

\* A future of c is dropped: a wakeup it had was due to somebody else then.
LEMMA DropFutureNoLost ==
    ASSUME NEW x, LostPre(x), NEW sd \in Side, NEW c \in Group(sd), DropFuture(c, sd)
    PROVE  NoLost(x)'
<1> DEFINE w == Forget(wk[sd], Id(c))
           pass == Id(c) \in wk[sd].pending
<1>0. /\ x \in Side /\ BooksInv /\ TypeOK /\ TypeOK' /\ NoLost(x) /\ (clean' => clean)
      /\ ClientsOK /\ CleanMeans /\ SideInv(sd) /\ wk[sd] \in Waiters /\ c \in Clients
      /\ st[c] \in {"pending", "woken"} /\ st[c] \in Live
      /\ Open(x)' = Open(x) /\ Demand(x)' = Demand(x)
  BY Parts, Groups DEF LostPre, DropFuture, inner, Open, Demand, Live, ClientState
<1>1. Demand(x) \in Nat
  BY <1>0, DemandType
<1>2. PICK W \in IF pass THEN Reached(w, sd) ELSE {{}} : Finish(c, W)
  BY DEF DropFuture
<1>3. Id(c) \in Ids
  BY <1>0 DEF ClientsOK, OwnsFuture, Id, Ids
<1>4. WakeReady(sd, w, c)
  BY <1>0, <1>3, ForgetReady
<1>5. st'[c] = "idle" /\ Reaches(x, W, c)
  BY <1>0, <1>2, FinishOK
<1>6. CASE ~clean
  BY <1>0, <1>6 DEF NoLost
<1>7. CASE clean /\ x = sd /\ pass
  <2>1. SyncEntries(sd, wk[sd])
    BY <1>0, <1>7, CleanSync
  <2>2. SyncEntries(sd, w)
    <3>1. Book(wk[sd]) /\ Id(c) # SyncWaker
      BY <1>0, <1>3, IdShape DEF SideInv
    <3>2. /\ \A i \in DOMAIN w.wakers : \E j \in DOMAIN wk[sd].wakers : wk[sd].wakers[j] = w.wakers[i]
          /\ \A j \in DOMAIN wk[sd].wakers : wk[sd].wakers[j] # Id(c) =>
                \E i \in DOMAIN w.wakers : w.wakers[i] = wk[sd].wakers[j]
      BY <1>0, <1>3, <3>1, ForgetFacts
    <3> QED BY <2>1, <3>1, <3>2 DEF SyncEntries
  <2>3. W \in Reached(w, sd) /\ Demand(x)' <= Demand(x)
    BY <1>0, <1>1, <1>2, <1>7
  <2> HIDE DEF w, pass
  <2> QED BY <1>0, <1>4, <1>5, <1>7, <2>2, <2>3, NoLostWake
<1>8. CASE clean /\ x = sd /\ ~pass
  <2>1. \A u \in Group(x) \ {c} : st'[u] = st[u]
    BY <1>2, <1>5, <1>8 DEF Reaches
  <2>2. Open(x) => st[c] \notin {"woken", "signalled"}
    BY <1>0, <1>8 DEF SideInv, WokenArePending
  <2>3. /\ st'[c] \notin {"pending", "waiting", "woken", "signalled"}
        /\ Demand(x)' <= Demand(x)
    BY <1>0, <1>1, <1>5
  <2> HIDE DEF w, pass
  <2> QED BY <1>0, <1>8, <2>1, <2>2, <2>3, NoLostEnd
<1>9. CASE x # sd
  <2>1. W \subseteq Group(sd)
    <3>1. w \in Waiters /\ Book(w) /\ w.ids \subseteq Group(sd) \X Gens
      BY <1>4 DEF WakeReady
    <3> HIDE DEF w, pass
    <3> QED BY <1>2, <3>1, ReachedOwn
  <2>2. c \notin Group(x) /\ \A u \in Group(x) \ {c} : st'[u] = st[u]
    BY <1>0, <1>5, <1>9, <2>1, Groups DEF Reaches
  <2>3. Demand(x)' <= Demand(x) /\ (~Open(x)' \/ Open(x))
    BY <1>0, <1>1
  <2> HIDE DEF w, pass
  <2> QED BY <1>0, <2>2, <2>3, NoLostEnd
<1> QED BY <1>6, <1>7, <1>8, <1>9

\* wait_for runs out, or its call returns Timeout: who is on its way stays so.
LEMMA TimeoutNoLost ==
    ASSUME NEW x, LostPre(x), NEW sd \in Side, NEW c \in Group(sd),
           TimeOut(c, sd) \/ ReturnTimeout(c)
    PROVE  NoLost(x)'
<1>0. /\ x \in Side /\ BooksInv /\ TypeOK /\ TypeOK' /\ NoLost(x) /\ (clean' => clean)
      /\ ClientsOK /\ c \in Clients /\ Open(x)' = Open(x) /\ Demand(x)' = Demand(x)
      /\ Group(x) \subseteq Clients
  BY Parts, Groups DEF LostPre, TimeOut, ReturnTimeout, inner, Open, Demand
<1>1. Demand(x) \in Nat
  BY <1>0, DemandType
<1>2. /\ st[c] \notin {"woken", "signalled"}
      /\ st'[c] \notin {"pending", "waiting", "woken", "signalled"}
      /\ \A u \in Clients \ {c} : st'[u] = st[u]
  BY <1>0 DEF TimeOut, ReturnTimeout, Finish, Moved
<1>3. /\ \A u \in Group(x) \ {c} : st'[u] = st[u]
      /\ Demand(x)' <= Demand(x) /\ (~Open(x)' \/ Open(x))
  BY <1>0, <1>1, <1>2
<1> QED BY <1>0, <1>2, <1>3, NoLostEnd

\* A handle of the side sd is made or dropped for n.
LEMMA HandleNoLost ==
    ASSUME NEW x, LostPre(x), NEW sd \in Side, NEW n \in Group(sd),
           \E c \in Group(sd) : st[c] \in Live,
           NEW y, \/ y = "idle" /\ st[n] = "new"
                  \/ y = "gone" /\ st[n] = "idle",
           NEW W, st' = Moved(W, n, y),
           \/ W = {} /\ Count(sd)' # 0
           \/ W = AllReached(Opposite(sd)) /\ Count(sd)' = 0,
           Count(Opposite(sd))' = Count(Opposite(sd)), queue' = queue
    PROVE  NoLost(x)'
<1> DEFINE od == Opposite(sd)
<1>0. /\ x \in Side /\ BooksInv /\ TypeOK /\ TypeOK' /\ NoLost(x) /\ (clean' => clean)
      /\ n \in Clients /\ Demand(x)' = Demand(x) /\ od \in Side /\ SideInv(od)
      /\ Group(x) \subseteq Clients /\ (x = sd \/ x = od) /\ n \notin Group(od)
      /\ Group(sd) \cap Group(od) = {} /\ od # sd
  BY Parts, Groups DEF LostPre, Demand
<1>1. Demand(x) \in Nat /\ Demand(x)' <= Demand(x)
  <2>1. Demand(x) \in Nat
    BY <1>0, DemandType
  <2> QED BY <1>0, <2>1
<1>2. /\ st'[n] = y
      /\ \A u \in Clients \ {n} :
            st'[u] = IF u \in W /\ st[u] = "pending" THEN "woken"
                     ELSE IF u \in W /\ st[u] = "waiting" THEN "signalled"
                     ELSE st[u]
  BY <1>0 DEF Moved
<1>3. W \subseteq Group(od)
  <2>1. AllReached(od) \subseteq Group(od)
    BY <1>0 DEF AllReached, Waiting, SideInv, Book, OwnIds
  <2> QED BY <2>1
<1> HIDE DEF od
<1>4. Open(od) /\ (Count(sd)' = 0 => ~Open(od)') /\ Open(sd)' = Open(sd)
  <2>1. Count(sd) > 0
    BY <1>0, LiveMove
  <2> QED BY <1>0, <2>1 DEF Open, Count, Side, od, Opposite
<1>5. /\ st[n] \notin {"woken", "signalled"}
      /\ st'[n] \notin {"pending", "waiting", "woken", "signalled"}
  BY <1>2
<1>6. CASE x = sd
  <2>1. \A u \in Group(x) \ {n} : st'[u] = st[u]
    BY <1>0, <1>2, <1>3, <1>6
  <2>2. ~Open(x)' \/ Open(x)
    BY <1>4, <1>6
  <2> QED BY <1>0, <1>1, <1>5, <2>1, <2>2, NoLostEnd
<1>7. CASE x = od
  <2>1. CASE W = {}
    <3>1. \A u \in Group(x) \ {n} : st'[u] = st[u]
      BY <1>0, <1>2, <2>1
    <3> QED BY <1>0, <1>1, <1>4, <1>5, <1>7, <3>1, NoLostEnd
  <2>2. CASE Count(sd)' = 0
    BY <1>4, <1>7, <2>2 DEF NoLost
  <2> QED BY <2>1, <2>2
<1> QED BY <1>0, <1>6, <1>7

-----------------------------------------------------------------------------
\* Every step keeps NoLost.
LEMMA SenderNoLost ==
    ASSUME NEW x, LostPre(x), NEW s \in Senders, SenderNext(s)
    PROVE  NoLost(x)'
<1>0. /\ "send" \in Side /\ s \in Group("send") /\ Opposite("send") = "recv"
      /\ BooksInv /\ ClientsOK /\ s \in Clients
  BY Parts DEF LostPre, Side, Group, Clients, Opposite
<1>1. ASSUME NEW m \in Msg, SendAsync(s, m) PROVE NoLost(x)'
  <2>1. PICK g \in NewGen(s, "send") : SendPoll(s, m, g, FALSE)
    BY <1>1 DEF SendAsync
  <2>2. st[s] = "idle" /\ SendFrame /\ g \in Gens
    BY <1>1, <2>1, NewGenFacts DEF SendAsync
  <2> QED BY <2>1, <2>2, SendPollNoLost
<1>2. ASSUME NEW m \in Msg, NEW md \in {"block", "timed", "try"}, SendCall(s, m, md)
      PROVE  NoLost(x)'
  <2>1. st[s] = "idle" /\ SendFrame /\ SendSync(s, m, md)
    BY <1>2 DEF SendCall
  <2> QED BY <2>1, SendSyncNoLost
<1>3. CASE SendRepoll(s)
  <2>1. st[s] \in {"pending", "woken"} /\ SendFrame /\ SendPoll(s, arg[s], gen[s], TRUE)
    BY <1>3 DEF SendRepoll
  <2>2. gen[s] \in Gens /\ arg[s] \in Msg
    BY <1>0, <2>1 DEF ClientsOK, OwnsFuture
  <2> QED BY <2>1, <2>2, SendPollNoLost
<1>4. CASE SendResume(s)
  <2>1. /\ st[s] = "signalled" /\ SendFrame
        /\ SendSync(s, arg[s], IF timed[s] THEN "timed" ELSE "block")
    BY <1>4 DEF SendResume
  <2>2. arg[s] \in Msg
    BY <1>0, <2>1 DEF ClientsOK
  <2> QED BY <2>1, <2>2, SendSyncNoLost
<1>5. CASE DropFuture(s, "send") \/ TimeOut(s, "send") \/ ReturnTimeout(s)
  BY <1>0, <1>5, DropFutureNoLost, TimeoutNoLost
<1>6. ASSUME NEW n \in Senders, CloneSender(s, n) PROVE NoLost(x)'
  <2>1. /\ st[s] \in Live /\ st[n] = "new" /\ n \in Group("send")
        /\ st' = Moved({}, n, "idle") /\ queue' = queue
        /\ Count("send")' = Count("send") + 1 /\ Count("recv")' = Count("recv")
    BY <1>6 DEF CloneSender, Live, ClientState, Count, Group
  <2>2. Count("send")' # 0
    BY <1>0, <2>1, LiveMove, Parts
  <2> QED BY <1>0, <2>1, <2>2, HandleNoLost
<1>7. CASE DropSender(s)
  <2> DEFINE W == IF senders' = 0 THEN AllReached("recv") ELSE {}
  <2>1. /\ st[s] = "idle" /\ st[s] \in Live /\ st' = Moved(W, s, "gone")
        /\ Count("recv")' = Count("recv") /\ queue' = queue
    BY <1>7 DEF DropSender, Live, ClientState, Count
  <2>2. \/ W = {} /\ Count("send")' # 0
        \/ W = AllReached("recv") /\ Count("send")' = 0
    BY DEF Count
  <2> HIDE DEF W
  <2> QED BY <1>0, <2>1, <2>2, HandleNoLost
<1> QED BY <1>1, <1>2, <1>3, <1>4, <1>5, <1>6, <1>7 DEF SenderNext

LEMMA ReceiverNoLost ==
    ASSUME NEW x, LostPre(x), NEW r \in Receivers, ReceiverNext(r)
    PROVE  NoLost(x)'
<1>0. /\ "recv" \in Side /\ r \in Group("recv") /\ Opposite("recv") = "send"
      /\ BooksInv /\ ClientsOK /\ r \in Clients
  BY Parts DEF LostPre, Side, Group, Clients, Opposite
<1>1. CASE RecvAsync(r)
  <2>1. PICK g \in NewGen(r, "recv") : RecvPoll(r, g, FALSE)
    BY <1>1 DEF RecvAsync
  <2>2. st[r] = "idle" /\ RecvFrame /\ g \in Gens
    BY <1>1, <2>1, NewGenFacts DEF RecvAsync
  <2> QED BY <2>1, <2>2, RecvPollNoLost
<1>2. ASSUME NEW md \in {"block", "timed", "try"}, RecvCall(r, md)
      PROVE  NoLost(x)'
  <2>1. st[r] = "idle" /\ RecvFrame /\ RecvSync(r, md)
    BY <1>2 DEF RecvCall
  <2> QED BY <2>1, RecvSyncNoLost
<1>3. CASE RecvRepoll(r)
  <2>1. st[r] \in {"pending", "woken"} /\ RecvFrame /\ RecvPoll(r, gen[r], TRUE)
    BY <1>3 DEF RecvRepoll
  <2>2. gen[r] \in Gens
    BY <1>0, <2>1 DEF ClientsOK, OwnsFuture
  <2> QED BY <2>1, <2>2, RecvPollNoLost
<1>4. CASE RecvResume(r)
  <2>1. /\ st[r] = "signalled" /\ RecvFrame
        /\ RecvSync(r, IF timed[r] THEN "timed" ELSE "block")
    BY <1>4 DEF RecvResume
  <2> QED BY <2>1, RecvSyncNoLost
<1>5. CASE DropFuture(r, "recv") \/ TimeOut(r, "recv") \/ ReturnTimeout(r)
  BY <1>0, <1>5, DropFutureNoLost, TimeoutNoLost
<1>6. ASSUME NEW n \in Receivers, CloneReceiver(r, n) PROVE NoLost(x)'
  <2>1. /\ st[r] \in Live /\ st[n] = "new" /\ n \in Group("recv")
        /\ st' = Moved({}, n, "idle") /\ queue' = queue
        /\ Count("recv")' = Count("recv") + 1 /\ Count("send")' = Count("send")
    BY <1>6 DEF CloneReceiver, Live, ClientState, Count, Group
  <2>2. Count("recv")' # 0
    BY <1>0, <2>1, LiveMove, Parts
  <2> QED BY <1>0, <2>1, <2>2, HandleNoLost
<1>7. CASE DropReceiver(r)
  <2> DEFINE W == IF receivers' = 0 THEN AllReached("send") ELSE {}
  <2>1. /\ st[r] = "idle" /\ st[r] \in Live /\ st' = Moved(W, r, "gone")
        /\ Count("send")' = Count("send") /\ queue' = queue
    BY <1>7 DEF DropReceiver, Live, ClientState, Count
  <2>2. \/ W = {} /\ Count("recv")' # 0
        \/ W = AllReached("send") /\ Count("recv")' = 0
    BY DEF Count
  <2> HIDE DEF W
  <2> QED BY <1>0, <2>1, <2>2, HandleNoLost
<1> QED BY <1>1, <1>2, <1>3, <1>4, <1>5, <1>6, <1>7 DEF ReceiverNext

LEMMA NextNoLost ==
    ASSUME NEW x \in Side, x = "send" => SlotsAreKept,
           BooksInv, BooksInv', NoLost(x), [Next]_vars
    PROVE  NoLost(x)'
<1>1. CASE Next
  <2>1. LostPre(x)
    <3>1. clean' => clean
      BY <1>1 DEF Next
    <3>2. TypeOK'
      BY DEF BooksInv
    <3> QED BY <3>1, <3>2 DEF LostPre
  <2>2. CASE \E s \in Senders : SenderNext(s)
    BY <2>1, <2>2, SenderNoLost
  <2>3. CASE \E r \in Receivers : ReceiverNext(r)
    BY <2>1, <2>3, ReceiverNoLost
  <2> QED BY <1>1, <2>2, <2>3 DEF Next
<1>2. CASE UNCHANGED vars
  BY <1>2 DEF vars, inner, NoLost, Open, Asleep, OnTheWay, Demand, Group
<1> QED BY <1>1, <1>2

\* Nobody sleeps at first.
LEMMA InitNoLost ==
    ASSUME NEW x \in Side, Init PROVE NoLost(x)
<1>1. \A c \in Clients : st[c] \in {"idle", "new"}
  BY DEF Init
<1>2. Asleep(x) = {}
  BY <1>1, Groups DEF Asleep
<1> QED BY <1>2 DEF NoLost

\* No wakeup of a receiver is lost, future or blocking call, on any storage
\* that keeps StorageContract.
THEOREM NoLostDataCorrect == Spec => []NoLostData
<1>1. Init => NoLost("recv")
  BY InitNoLost DEF Side
<1>2. BooksInv /\ BooksInv' /\ NoLost("recv") /\ [Next]_vars => NoLost("recv")'
  BY NextNoLost DEF Side
<1>3. BooksInv /\ NoLost("recv") => NoLostData
  <2> SUFFICES ASSUME BooksInv, NoLost("recv"), clean, Asleep("recv") # {}
               PROVE  Cardinality(OnTheWay("recv")) >= Length(queue)
    BY DEF NoLostData
  <2>1. Open("recv")
    BY Parts DEF SideInv, ClosedIsEmpty, Side
  <2> QED BY <2>1 DEF NoLost, Demand
<1> QED BY <1>1, <1>2, <1>3, BooksInvCorrect, PTL DEF Spec

\* No wakeup of a sender is lost either, on a storage where a push makes no
\* room: the VecDeque, and the policy deque without single-copy values.
THEOREM NoLostSpaceCorrect ==
    ASSUME SlotsAreKept
    PROVE  Spec => []NoLostSpace
<1>1. Init => NoLost("send")
  BY InitNoLost DEF Side
<1>2. BooksInv /\ BooksInv' /\ NoLost("send") /\ [Next]_vars => NoLost("send")'
  BY NextNoLost DEF Side
<1>3. NoLost("send") => NoLostSpace
  BY DEF NoLost, NoLostSpace, Open, Demand
<1> QED BY <1>1, <1>2, <1>3, BooksInvCorrect, PTL DEF Spec

-----------------------------------------------------------------------------
\* AlwaysInOrder, of the channel over an unordered policy deque in which nothing
\* takes the place of an Always message.  The deque removes others at any place
\* and adds at its end, so the order of the Always messages survives.

\* What AlwaysOf picks.
LEMMA AlwaysPicks ==
    ASSUME NEW s \in Seq(Msg)
    PROVE  /\ AlwaysOf(s) \in Seq(Msg)
           /\ \E p : /\ Picks(p, s, AlwaysOf(s))
                     /\ Places(p, AlwaysOf(s)) = {i \in DOMAIN s : Policy[s[i]] = "Always"}
<1> DEFINE I == {i \in DOMAIN s : Policy[s[i]] = "Always"}
           t == Retain(s, I)
<1>1. I \in SUBSET DOMAIN s /\ AlwaysOf(s) = t
  BY DEF AlwaysOf
<1> HIDE DEF I
<1>2. t \in Seq(Msg)
  BY <1>1, RetainFacts
<1>3. PICK p : /\ Picks(p, s, t)
               /\ \A i \in DOMAIN s : i \in I <=> \E k \in 1..Len(t) : p[k] = i
  BY <1>1, RetainFacts
<1> HIDE DEF t
<1>4. Places(p, t) = I
  <2>1. \A k \in 1..Len(t) : p[k] \in DOMAIN s
    BY <1>3 DEF Picks
  <2> QED BY <1>1, <1>3, <2>1 DEF Places
<1> QED BY <1>1, <1>2, <1>3, <1>4 DEF I

\* The places determine it.
LEMMA AlwaysUnique ==
    ASSUME NEW s \in Seq(Msg), NEW u \in Seq(Msg), NEW q, Picks(q, s, u),
           Places(q, u) = {i \in DOMAIN s : Policy[s[i]] = "Always"}
    PROVE  u = AlwaysOf(s)
<1> DEFINE t == AlwaysOf(s)
<1>1. t \in Seq(Msg)
  BY AlwaysPicks
<1>2. PICK p : Picks(p, s, t) /\ Places(p, t) = {i \in DOMAIN s : Policy[s[i]] = "Always"}
  BY AlwaysPicks
<1> HIDE DEF t
<1>3. Places(q, u) = Places(p, t)
  BY <1>2
<1>4. u = t
  BY <1>1, <1>2, <1>3, PicksSame
<1> QED BY <1>4 DEF t

\* A pick that leaves out no Always message.
SparesAlways(p, s, t) ==
    Picks(p, s, t) /\ \A i \in DOMAIN s : Policy[s[i]] = "Always" => i \in Places(p, t)

\* It has the same Always messages.
LEMMA AlwaysThinned ==
    ASSUME NEW s \in Seq(Msg), NEW t \in Seq(Msg), NEW p, SparesAlways(p, s, t)
    PROVE  AlwaysOf(s) = AlwaysOf(t)
<1> DEFINE u == AlwaysOf(t)
           n == Len(t)
           m == Len(u)
<1>1. u \in Seq(Msg)
  BY AlwaysPicks
<1>2. PICK q : Picks(q, t, u) /\ Places(q, u) = {i \in DOMAIN t : Policy[t[i]] = "Always"}
  BY AlwaysPicks
<1> HIDE DEF u
<1>3. /\ DOMAIN t = 1..n /\ n \in Nat /\ m \in Nat
      /\ DOMAIN s = 1..Len(s) /\ Len(s) \in Nat
  BY <1>1, LenProperties
<1>4. /\ p \in [1..n -> DOMAIN s]
      /\ \A k, l \in 1..n : k < l => p[k] < p[l]
      /\ \A k \in 1..n : t[k] = s[p[k]]
      /\ q \in [1..m -> 1..n]
      /\ \A k, l \in 1..m : k < l => q[k] < q[l]
      /\ \A k \in 1..m : u[k] = t[q[k]]
  BY <1>2, <1>3 DEF SparesAlways, Picks
<1> DEFINE r == [k \in 1..m |-> p[q[k]]]
<1>5. \A k \in 1..m : r[k] = p[q[k]] /\ r[k] \in DOMAIN s /\ q[k] \in 1..n
  BY <1>4
<1>6. r \in [1..m -> DOMAIN s]
  BY <1>5
<1> HIDE DEF r, n, m
<1>7. \A k, l \in 1..m : k < l => r[k] < r[l]
  BY <1>4, <1>5
<1>8. \A k \in 1..m : u[k] = s[r[k]]
  BY <1>4, <1>5
<1>9. Picks(r, s, u)
  BY <1>6, <1>7, <1>8 DEF Picks, m
<1>10. ASSUME NEW k \in 1..m PROVE Policy[s[r[k]]] = "Always"
  <2>1. q[k] \in Places(q, u)
    BY DEF Places, m
  <2>2. Policy[t[q[k]]] = "Always"
    BY <1>2, <2>1
  <2> QED BY <1>4, <1>5, <2>2
<1>11. ASSUME NEW i \in DOMAIN s, Policy[s[i]] = "Always" PROVE \E k \in 1..m : r[k] = i
  <2>1. PICK j \in 1..n : p[j] = i
    BY <1>11 DEF SparesAlways, Places, n
  <2>2. Policy[t[j]] = "Always" /\ j \in DOMAIN t
    BY <1>3, <1>4, <1>11, <2>1
  <2>3. PICK k \in 1..m : q[k] = j
    BY <1>2, <2>2 DEF Places, m
  <2> QED BY <1>5, <2>1, <2>3
<1>12. Places(r, u) = {i \in DOMAIN s : Policy[s[i]] = "Always"}
  <2>1. Places(r, u) = {r[k] : k \in 1..m}
    BY DEF Places, m
  <2> QED BY <1>5, <1>10, <1>11, <2>1
<1>13. u = AlwaysOf(s)
  BY <1>1, <1>9, <1>12, AlwaysUnique
<1> QED BY <1>13 DEF u

\* Appending a message appends it to the Always messages, if it is one.
LEMMA AlwaysAppend ==
    ASSUME NEW s \in Seq(Msg), NEW v \in Msg
    PROVE  AlwaysOf(Append(s, v)) =
               IF Policy[v] = "Always" THEN Append(AlwaysOf(s), v) ELSE AlwaysOf(s)
<1> DEFINE w == Append(s, v)
           n == Len(s)
           t == AlwaysOf(s)
           m == Len(t)
           u == Append(t, v)
<1>1. t \in Seq(Msg)
  BY AlwaysPicks
<1>2. PICK p : Picks(p, s, t) /\ Places(p, t) = {i \in DOMAIN s : Policy[s[i]] = "Always"}
  BY AlwaysPicks
<1> HIDE DEF t
<1>3. /\ n \in Nat /\ DOMAIN s = 1..n /\ DOMAIN w = 1..(n + 1) /\ w \in Seq(Msg)
      /\ \A i \in 1..n : w[i] = s[i]
      /\ w[n + 1] = v
  BY LenProperties, AppendProperties
<1>4. /\ m \in Nat /\ Len(u) = m + 1 /\ u[m + 1] = v /\ u \in Seq(Msg)
      /\ \A i \in 1..m : u[i] = t[i]
  BY <1>1, LenProperties, AppendProperties
<1>5. /\ p \in [1..m -> 1..n]
      /\ \A k, l \in 1..m : k < l => p[k] < p[l]
      /\ \A k \in 1..m : t[k] = s[p[k]]
  BY <1>2, <1>3 DEF Picks
<1> HIDE DEF w, n, m, u
<1>6. \A i \in 1..n : Policy[s[i]] = "Always" <=> \E k \in 1..m : p[k] = i
  <2>1. Places(p, t) = {p[k] : k \in 1..m}
    BY DEF Places, m
  <2> QED BY <1>2, <1>3, <2>1
<1>7. CASE Policy[v] = "Always"
  <2> DEFINE q == [k \in 1..(m + 1) |-> IF k = m + 1 THEN n + 1 ELSE p[k]]
  <2>1. /\ \A k \in 1..m : q[k] = p[k] /\ q[k] \in 1..n /\ k \in 1..(m + 1)
        /\ q[m + 1] = n + 1 /\ m + 1 \in 1..(m + 1)
        /\ \A k \in 1..(m + 1) : k \in 1..m \/ k = m + 1
        /\ \A i \in 1..(n + 1) : i \in 1..n \/ i = n + 1
        /\ \A i \in 1..n : i \in 1..(n + 1)
        /\ n + 1 \in 1..(n + 1)
    BY <1>3, <1>4, <1>5
  <2>2. q \in [1..(m + 1) -> 1..(n + 1)]
    BY <1>3, <1>5, <2>1
  <2> HIDE DEF q
  <2>3. ASSUME NEW k \in 1..(m + 1), NEW l \in 1..(m + 1), k < l PROVE q[k] < q[l]
    <3>1. k \in 1..m
      BY <1>4, <2>3
    <3>2. CASE l \in 1..m
      BY <1>5, <2>1, <2>3, <3>1, <3>2
    <3>3. CASE l = m + 1
      BY <1>3, <2>1, <3>1, <3>3
    <3> QED BY <2>1, <3>2, <3>3
  <2>4. ASSUME NEW k \in 1..(m + 1) PROVE u[k] = w[q[k]]
    <3>1. CASE k \in 1..m
      <4>1. q[k] = p[k] /\ p[k] \in 1..n
        BY <2>1, <3>1
      <4>2. w[p[k]] = s[p[k]]
        BY <1>3, <4>1
      <4> QED BY <1>4, <1>5, <3>1, <4>1, <4>2
    <3>2. CASE k = m + 1
      BY <1>3, <1>4, <2>1, <3>2
    <3> QED BY <2>1, <3>1, <3>2
  <2>5. Picks(q, w, u)
    BY <1>3, <1>4, <2>2, <2>3, <2>4 DEF Picks
  <2>6. ASSUME NEW i \in 1..(n + 1)
        PROVE  Policy[w[i]] = "Always" <=> \E k \in 1..(m + 1) : q[k] = i
    <3>1. CASE i \in 1..n
      <4>1. q[m + 1] # i
        BY <1>3, <2>1, <3>1
      <4>2. (\E k \in 1..(m + 1) : q[k] = i) <=> \E k \in 1..m : p[k] = i
        BY <2>1, <4>1
      <4> QED BY <1>3, <1>6, <3>1, <4>2
    <3>2. CASE i = n + 1
      BY <1>3, <1>7, <2>1, <3>2
    <3> QED BY <2>1, <3>1, <3>2
  <2>7. Places(q, u) = {i \in DOMAIN w : Policy[w[i]] = "Always"}
    <3>1. Places(q, u) = {q[k] : k \in 1..(m + 1)}
      BY <1>4 DEF Places
    <3>2. \A k \in 1..(m + 1) : q[k] \in 1..(n + 1)
      BY <2>2
    <3> QED BY <1>3, <2>6, <3>1, <3>2
  <2>8. u = AlwaysOf(w)
    BY <1>3, <1>4, <2>5, <2>7, AlwaysUnique
  <2> QED BY <1>7, <2>8 DEF u, w, t
<1>8. CASE Policy[v] # "Always"
  <2>1. Picks(p, w, t)
    BY <1>1, <1>2, PicksWider DEF w
  <2>2. Places(p, t) = {i \in DOMAIN w : Policy[w[i]] = "Always"}
    <3>1. \A i \in 1..(n + 1) : i \in 1..n \/ i = n + 1
      BY <1>3
    <3>2. \A i \in 1..n : i \in 1..(n + 1)
      BY <1>3
    <3>3. \A i \in 1..(n + 1) : Policy[w[i]] = "Always" <=> i \in 1..n /\ Policy[s[i]] = "Always"
      BY <1>3, <1>8, <3>1
    <3> QED BY <1>2, <1>3, <3>2, <3>3
  <2>3. t = AlwaysOf(w)
    BY <1>1, <1>3, <2>1, <2>2, AlwaysUnique
  <2> QED BY <1>8, <2>3 DEF w, t
<1> QED BY <1>7, <1>8

\* The delivered messages in front of both, a pick stays one.
LEMMA SparesBehind ==
    ASSUME NEW g \in Seq(Msg), NEW s \in Seq(Msg), NEW t \in Seq(Msg),
           NEW p, SparesAlways(p, s, t)
    PROVE  \E q : SparesAlways(q, g \o s, g \o t)
<1> DEFINE c == Len(g)
           n == Len(s)
           m == Len(t)
           w == g \o s
           u == g \o t
           q == [k \in 1..(c + m) |-> IF k <= c THEN k ELSE c + p[k - c]]
<1>1. /\ c \in Nat /\ n \in Nat /\ m \in Nat /\ DOMAIN s = 1..n
      /\ w \in Seq(Msg) /\ u \in Seq(Msg)
  BY LenProperties, ConcatProperties
<1>2. /\ Len(w) = c + n /\ \A i \in 1..(c + n) : w[i] = IF i <= c THEN g[i] ELSE s[i - c]
  BY ConcatProperties
<1>3. /\ Len(u) = c + m /\ \A i \in 1..(c + m) : u[i] = IF i <= c THEN g[i] ELSE t[i - c]
  BY ConcatProperties
<1>4. DOMAIN w = 1..(c + n)
  BY <1>1, <1>2, LenProperties
<1>5. /\ p \in [1..m -> 1..n]
      /\ \A k, l \in 1..m : k < l => p[k] < p[l]
      /\ \A k \in 1..m : t[k] = s[p[k]]
      /\ \A i \in 1..n : Policy[s[i]] = "Always" => \E k \in 1..m : p[k] = i
  BY <1>1, ZenonT(60) DEF SparesAlways, Picks, Places
<1> HIDE DEF c, n, m, w, u
<1>6. ASSUME NEW k \in 1..(c + m)
      PROVE  /\ k <= c => q[k] = k
             /\ ~(k <= c) => k - c \in 1..m /\ q[k] = c + p[k - c] /\ p[k - c] \in 1..n
  BY <1>1, <1>5
<1>7. ASSUME NEW k \in 1..(c + m) PROVE q[k] \in 1..(c + n)
  <2>1. CASE k <= c
    BY <1>1, <1>6, <2>1
  <2>2. CASE ~(k <= c)
    <3>1. q[k] = c + p[k - c] /\ p[k - c] \in 1..n
      BY <1>6, <2>2
    <3> HIDE DEF q
    <3> QED BY <1>1, <3>1
  <2> QED BY <2>1, <2>2
<1>8. q \in [1..(c + m) -> 1..(c + n)]
  BY <1>7
<1> HIDE DEF q
<1>9. ASSUME NEW k \in 1..(c + m), NEW l \in 1..(c + m), k < l PROVE q[k] < q[l]
  <2>1. CASE l <= c
    BY <1>1, <1>6, <1>9, <2>1
  <2>2. CASE k <= c /\ ~(l <= c)
    <3>1. q[k] = k /\ l - c \in 1..m /\ q[l] = c + p[l - c] /\ p[l - c] \in 1..n
      BY <1>6, <2>2
    <3> QED BY <1>1, <2>2, <3>1
  <2>3. CASE ~(k <= c) /\ ~(l <= c)
    <3>1. k - c \in 1..m /\ l - c \in 1..m /\ k - c < l - c
      BY <1>1, <1>6, <1>9, <2>3
    <3>2. p[k - c] < p[l - c]
      BY <1>5, <3>1
    <3> QED BY <1>1, <1>6, <2>3, <3>2
  <2> QED BY <1>1, <1>9, <2>1, <2>2, <2>3
<1>10. ASSUME NEW k \in 1..(c + m) PROVE u[k] = w[q[k]]
  <2>1. CASE k <= c
    BY <1>1, <1>2, <1>3, <1>6, <1>7, <2>1
  <2>2. CASE ~(k <= c)
    <3>1. k - c \in 1..m /\ q[k] = c + p[k - c] /\ p[k - c] \in 1..n
      BY <1>6, <2>2
    <3>2. w[q[k]] = s[p[k - c]]
      <4>1. q[k] \in 1..(c + n) /\ ~(q[k] <= c) /\ q[k] - c = p[k - c]
        BY <1>1, <1>7, <3>1
      <4> QED BY <1>2, <4>1
    <3>3. u[k] = t[k - c]
      BY <1>3, <2>2
    <3> QED BY <1>5, <3>1, <3>2, <3>3
  <2> QED BY <2>1, <2>2
<1>11. Picks(q, w, u)
  BY <1>3, <1>4, <1>8, <1>9, <1>10 DEF Picks
<1>12. ASSUME NEW i \in 1..(c + n), Policy[w[i]] = "Always"
       PROVE  \E k \in 1..(c + m) : q[k] = i
  <2>1. CASE i <= c
    <3>1. i \in 1..(c + m)
      BY <1>1, <2>1
    <3> QED BY <1>6, <2>1, <3>1
  <2>2. CASE ~(i <= c)
    <3>1. i - c \in 1..n /\ c + (i - c) = i
      BY <1>1, <2>2
    <3>2. w[i] = s[i - c]
      BY <1>2, <2>2
    <3>3. PICK k \in 1..m : p[k] = i - c
      BY <1>5, <1>12, <3>1, <3>2
    <3>4. k + c \in 1..(c + m) /\ ~(k + c <= c) /\ (k + c) - c = k
      BY <1>1
    <3>5. q[k + c] = c + p[k]
      BY <1>6, <3>4
    <3>6. q[k + c] = i
      BY <3>1, <3>3, <3>5
    <3> QED BY <3>4, <3>6
  <2> QED BY <2>1, <2>2
<1>13. SparesAlways(q, w, u)
  BY <1>3, <1>4, <1>11, <1>12 DEF SparesAlways, Places
<1> QED BY <1>13 DEF w, u

\* AlwaysInOrder of given values, and with it the types it needs.
InOrder(q, sn, gt) ==
    /\ sn \in Seq(Msg) /\ gt \in Seq(Msg)
    /\ AlwaysOf(sn) = AlwaysOf(gt \o q.data)

\* A push: what it removes is no Always message, and it adds at the end.
LEMMA InOrderPush ==
    ASSUME NothingReplacesAlways, NEW d \in DequeStores(FALSE), NEW v \in Msg,
           NEW r, r = DequeTryPush(d, v, {}), r.out = "Pushed",
           NEW sn, NEW gt, InOrder(d, sn, gt)
    PROVE  InOrder(r.store, Append(sn, v), gt)
<1> DEFINE s == d.data
<1>0. /\ sn \in Seq(Msg) /\ gt \in Seq(Msg) /\ AlwaysOf(sn) = AlwaysOf(gt \o s)
      /\ s \in Seq(Msg)
  BY StoresFields DEF InOrder
<1>1. PICK t \in Seq(Msg) : /\ r.store.data = Append(t, v)
                            /\ \E p : Picks(p, s, t) /\ Spares(p, s, t, v, {})
  BY TryPushFacts
<1>2. PICK p : Picks(p, s, t) /\ Spares(p, s, t, v, {})
  BY <1>1
<1> HIDE DEF s
<1>3. SparesAlways(p, s, t)
  <2>1. ASSUME NEW i \in DOMAIN s, Policy[s[i]] = "Always", i \notin Places(p, t)
        PROVE  FALSE
    <3>1. s[i] \in Msg
      BY <1>0, ElementOfSeq, LenProperties
    <3>2. GivesWay(s[i], v, {})
      BY <1>2, <2>1 DEF Spares
    <3> QED BY <2>1, <3>1, <3>2 DEF GivesWay, NothingReplacesAlways, IsOptional, EqKind
  <2> QED BY <1>2, <2>1 DEF SparesAlways
<1>4. AlwaysOf(gt \o s) = AlwaysOf(gt \o t)
  <2>1. PICK q : SparesAlways(q, gt \o s, gt \o t)
    BY <1>0, <1>3, SparesBehind
  <2>2. gt \o s \in Seq(Msg) /\ gt \o t \in Seq(Msg)
    BY <1>0, ConcatProperties
  <2> QED BY <2>1, <2>2, AlwaysThinned
<1>5. gt \o Append(t, v) = Append(gt \o t, v)
  BY <1>0
<1>6. gt \o t \in Seq(Msg) /\ Append(sn, v) \in Seq(Msg)
  BY <1>0, ConcatProperties, AppendProperties
<1> DEFINE b == gt \o t
<1>7. b \in Seq(Msg) /\ AlwaysOf(sn) = AlwaysOf(b)
  BY <1>0, <1>4, <1>6
<1> HIDE DEF b
<1>8. AlwaysOf(Append(sn, v)) = AlwaysOf(Append(b, v))
  BY <1>0, <1>7, AlwaysAppend
<1>9. gt \o r.store.data = Append(b, v)
  BY <1>1, <1>5 DEF b
<1> QED BY <1>0, <1>6, <1>8, <1>9 DEF InOrder

\* A get: the message moves from the front of the queue to the end of what was
\* delivered, and nothing changes when there is none.
LEMMA InOrderGet ==
    ASSUME NEW d \in DequeStores(FALSE), NEW g, g = DequeGet(d, {}),
           NEW sn, NEW gt, InOrder(d, sn, gt)
    PROVE  /\ g.val = NoMsg => InOrder(g.store, sn, gt)
           /\ g.val # NoMsg => InOrder(g.store, sn, Append(gt, g.val))
<1> DEFINE s == d.data
           t == g.store.data
           v == g.val
<1>0. /\ sn \in Seq(Msg) /\ gt \in Seq(Msg) /\ AlwaysOf(sn) = AlwaysOf(gt \o s)
      /\ s \in Seq(Msg)
  BY StoresFields DEF InOrder
<1>1. /\ g.store \in DequeStores(FALSE) /\ v \in Msg \cup {NoMsg}
      /\ \E p : Picks(p, s, t)
      /\ IF v = NoMsg THEN Len(s) = 0 ELSE Len(t) = Len(s) - 1
      /\ v # NoMsg => FrontTaken(v, s, t, {})
  <2> DEFINE x == {}
  <2>1. x = {} /\ g = DequeGet(d, x)
    OBVIOUS
  <2> HIDE DEF x
  <2>2. g.store \in DequeStores(FALSE) /\ g.val \in Msg \cup {NoMsg}
    BY <2>1, GetFacts, ZenonT(60)
  <2>3. \E p : Picks(p, d.data, g.store.data)
    BY <2>1, GetFacts
  <2>4. IF g.val = NoMsg THEN Len(d.data) = 0 ELSE Len(g.store.data) = Len(d.data) - 1
    BY <2>1, GetFacts
  <2>5. g.val # NoMsg => FrontTaken(g.val, d.data, g.store.data, x)
    BY <2>1, GetFacts
  <2> QED BY <2>1, <2>2, <2>3, <2>4, <2>5
<1>2. t \in Seq(Msg)
  BY <1>1, StoresFields
<1> HIDE DEF s, t, v
<1>3. CASE v = NoMsg
  <2>1. s = <<>>
    BY <1>0, <1>1, <1>3, EmptySeq
  <2>2. PICK p : Picks(p, s, t)
    BY <1>1
  <2>3. DOMAIN s = {} /\ Len(t) \in Nat
    BY <1>2, <2>1, LenProperties
  <2>4. Len(t) = 0
    <3>1. 1 \notin 1..Len(t)
      BY <2>2, <2>3 DEF Picks
    <3> QED BY <2>3, <3>1
  <2>5. t = <<>>
    BY <1>2, <2>4, EmptySeq
  <2>6. InOrder(g.store, sn, gt)
    BY <1>0, <2>1, <2>5 DEF InOrder, t
  <2> QED BY <1>3, <2>6 DEF v
<1>4. CASE v # NoMsg
  <2>1. /\ v \in Msg /\ 1 \in 1..Len(s) /\ v = s[1] /\ Len(t) = Len(s) - 1
        /\ \A k \in 1..(Len(s) - 1) : t[k] = s[k + 1]
    BY <1>1, <1>4 DEF FrontTaken
  <2>2. Append(gt, v) \o t = gt \o s
    <3> DEFINE c == Len(gt)
               n == Len(s)
               a == Append(gt, v)
               w == a \o t
               u == gt \o s
    <3>1. c \in Nat /\ n \in Nat /\ Len(t) = n - 1 /\ n >= 1 /\ v = s[1]
      BY <1>0, <2>1, LenProperties
    <3>2. a \in Seq(Msg) /\ Len(a) = c + 1 /\ a[c + 1] = v /\ \A i \in 1..c : a[i] = gt[i]
      BY <1>0, <2>1, AppendProperties
    <3> HIDE DEF a
    <3>3. /\ w \in Seq(Msg) /\ Len(w) = (c + 1) + (n - 1)
          /\ \A i \in 1..((c + 1) + (n - 1)) : w[i] = IF i <= c + 1 THEN a[i] ELSE t[i - (c + 1)]
      <4>1. /\ w \in Seq(Msg) /\ Len(w) = Len(a) + Len(t)
            /\ \A i \in 1..(Len(a) + Len(t)) : w[i] = IF i <= Len(a) THEN a[i] ELSE t[i - Len(a)]
        BY <1>2, <3>2, ConcatProperties
      <4> HIDE DEF c, n, w
      <4> QED BY <3>1, <3>2, <4>1
    <3>4. /\ u \in Seq(Msg) /\ Len(u) = c + n
          /\ \A i \in 1..(c + n) : u[i] = IF i <= c THEN gt[i] ELSE s[i - c]
      BY <1>0, ConcatProperties
    <3>5. \A k \in 1..(n - 1) : t[k] = s[k + 1]
      BY <2>1
    <3> HIDE DEF c, n, w, u
    <3>6. (c + 1) + (n - 1) = c + n
      BY <3>1
    <3>7. ASSUME NEW i \in 1..(c + n) PROVE w[i] = u[i]
      <4>1. CASE i <= c
        BY <3>1, <3>2, <3>3, <3>4, <3>6, <4>1
      <4>2. CASE i = c + 1
        <5>1. w[i] = a[c + 1] /\ u[i] = s[1]
          BY <3>1, <3>3, <3>4, <3>6, <4>2, SMTT(60)
        <5> QED BY <3>1, <3>2, <5>1
      <4>3. CASE ~(i <= c + 1)
        <5>1. i - (c + 1) \in 1..(n - 1) /\ (i - (c + 1)) + 1 = i - c
          BY <3>1, <4>3
        <5>2. t[i - (c + 1)] = s[i - c]
          BY <3>5, <5>1
        <5>3. w[i] = t[i - (c + 1)]
          BY <3>3, <3>6, <4>3
        <5>4. u[i] = s[i - c]
          BY <3>1, <3>4, <4>3
        <5> QED BY <5>2, <5>3, <5>4
      <4> QED BY <3>1, <4>1, <4>2, <4>3
    <3>8. w = u
      BY <3>3, <3>4, <3>6, <3>7, SeqEqual
    <3> QED BY <3>8 DEF w, u, a
  <2>3. Append(gt, v) \in Seq(Msg)
    BY <1>0, <2>1, AppendProperties
  <2>4. InOrder(g.store, sn, Append(gt, v))
    BY <1>0, <2>2, <2>3 DEF InOrder, t
  <2> QED BY <1>4, <2>4 DEF v
<1> QED BY <1>3, <1>4 DEF v

\* What a send and a receive do to the queue and to the histories.
SendEffect(m) ==
    \/ UNCHANGED <<queue, sent>>
    \/ /\ TryPush(queue, m, {}).out = "Pushed"
       /\ queue' = TryPush(queue, m, {}).store /\ sent' = Append(sent, m)

RecvEffect ==
    \/ UNCHANGED <<queue, got>>
    \/ /\ queue' = Get(queue, {}).store
       /\ got' = IF Get(queue, {}).val = NoMsg THEN got ELSE Append(got, Get(queue, {}).val)

LEMMA SendPollEffect ==
    ASSUME NEW s, NEW m, NEW g, NEW queued, SendPoll(s, m, g, queued)
    PROVE  SendEffect(m)
BY DEF SendPoll, SendClosed, SendPushed, SendSkipped, SendEffect

LEMMA SendSyncEffect ==
    ASSUME NEW s, NEW m, NEW md, SendSync(s, m, md)
    PROVE  SendEffect(m)
BY DEF SendSync, SendClosed, SendPushed, SendSkipped, SendEffect

LEMMA RecvPollEffect ==
    ASSUME NEW r, NEW g, NEW queued, RecvPoll(r, g, queued)
    PROVE  RecvEffect
BY DEF RecvPoll, RecvOk, RecvClosed, Empty, RecvEffect

LEMMA RecvSyncEffect ==
    ASSUME NEW r, NEW md, RecvSync(r, md)
    PROVE  RecvEffect
BY DEF RecvSync, RecvOk, RecvClosed, Empty, RecvEffect

\* The hypotheses of the theorem.
UnorderedPolicy == StorageIsPolicyDeque /\ ~Ordered /\ NothingReplacesAlways

LEMMA UnorderedStorage ==
    ASSUME UnorderedPolicy, queue \in Stores
    PROVE  /\ queue \in DequeStores(FALSE)
           /\ \A m \in Msg : TryPush(queue, m, {}) = DequeTryPush(queue, m, {})
           /\ Get(queue, {}) = DequeGet(queue, {})
<1>1. {} \in SUBSET Expirable /\ Ordered = FALSE
  BY DEF UnorderedPolicy, StorageIsPolicyDeque
<1>2. queue \in DequeStores(FALSE)
  BY <1>1 DEF UnorderedPolicy, StorageIsPolicyDeque, PolicyStores
<1> QED BY <1>1, <1>2 DEF UnorderedPolicy, StorageIsPolicyDeque

LEMMA SendInOrder ==
    ASSUME UnorderedPolicy, queue \in Stores, InOrder(queue, sent, got),
           NEW m \in Msg, SendEffect(m), got' = got
    PROVE  InOrder(queue, sent, got)'
<1>1. CASE UNCHANGED <<queue, sent>>
  BY <1>1 DEF InOrder
<1>2. CASE ~UNCHANGED <<queue, sent>>
  <2> DEFINE r == DequeTryPush(queue, m, {})
  <2>1. r.out = "Pushed" /\ queue' = r.store /\ sent' = Append(sent, m)
    BY <1>2, UnorderedStorage DEF SendEffect
  <2>2. r = DequeTryPush(queue, m, {}) /\ queue \in DequeStores(FALSE) /\ NothingReplacesAlways
    BY UnorderedStorage DEF UnorderedPolicy
  <2> HIDE DEF r
  <2>3. InOrder(r.store, Append(sent, m), got)
    BY <2>1, <2>2, InOrderPush
  <2> QED BY <2>1, <2>3 DEF InOrder
<1> QED BY <1>1, <1>2

LEMMA RecvInOrder ==
    ASSUME UnorderedPolicy, queue \in Stores, InOrder(queue, sent, got), RecvEffect, sent' = sent
    PROVE  InOrder(queue, sent, got)'
<1>1. CASE UNCHANGED <<queue, got>>
  BY <1>1 DEF InOrder
<1>2. CASE ~UNCHANGED <<queue, got>>
  <2> DEFINE g == DequeGet(queue, {})
  <2>1. queue' = g.store /\ got' = IF g.val = NoMsg THEN got ELSE Append(got, g.val)
    BY <1>2, UnorderedStorage DEF RecvEffect
  <2>2. g = DequeGet(queue, {}) /\ queue \in DequeStores(FALSE)
    BY UnorderedStorage
  <2> HIDE DEF g
  <2>3. /\ g.val = NoMsg => InOrder(g.store, sent, got)
        /\ g.val # NoMsg => InOrder(g.store, sent, Append(got, g.val))
    BY <2>2, InOrderGet
  <2> QED BY <2>1, <2>3 DEF InOrder
<1> QED BY <1>1, <1>2

LEMMA NextInOrder ==
    ASSUME UnorderedPolicy, BooksInv, InOrder(queue, sent, got), [Next]_vars
    PROVE  InOrder(queue, sent, got)'
<1>0. /\ queue \in Stores
      /\ \A s \in Senders :
            st[s] \in {"pending", "woken", "signalled"} => arg[s] \in Msg
  BY DEF BooksInv, TypeOK
<1>1. CASE UNCHANGED <<queue, sent, got>>
  BY <1>1 DEF InOrder
<1>2. ASSUME NEW s \in Senders, SenderNext(s), ~UNCHANGED <<queue, sent, got>>
      PROVE  \E m \in Msg : SendEffect(m) /\ got' = got
  <2>1. CASE \E m \in Msg : SendAsync(s, m)
    BY <2>1, SendPollEffect DEF SendAsync, SendFrame
  <2>2. CASE \E m \in Msg, md \in {"block", "timed", "try"} : SendCall(s, m, md)
    BY <2>2, SendSyncEffect DEF SendCall, SendFrame
  <2>3. CASE SendRepoll(s)
    BY <1>0, <2>3, SendPollEffect DEF SendRepoll, SendFrame
  <2>4. CASE SendResume(s)
    BY <1>0, <2>4, SendSyncEffect DEF SendResume, SendFrame
  <2>5. CASE \/ DropFuture(s, "send") \/ TimeOut(s, "send") \/ ReturnTimeout(s)
             \/ (\E n \in Senders : CloneSender(s, n)) \/ DropSender(s)
    BY <1>2, <2>5 DEF DropFuture, TimeOut, ReturnTimeout, CloneSender, DropSender, inner
  <2> QED BY <1>2, <2>1, <2>2, <2>3, <2>4, <2>5 DEF SenderNext
<1>3. ASSUME NEW r \in Receivers, ReceiverNext(r), ~UNCHANGED <<queue, sent, got>>
      PROVE  RecvEffect /\ sent' = sent
  <2>1. CASE RecvAsync(r)
    BY <2>1, RecvPollEffect DEF RecvAsync, RecvFrame
  <2>2. CASE \E md \in {"block", "timed", "try"} : RecvCall(r, md)
    BY <2>2, RecvSyncEffect DEF RecvCall, RecvFrame
  <2>3. CASE RecvRepoll(r)
    BY <2>3, RecvPollEffect DEF RecvRepoll, RecvFrame
  <2>4. CASE RecvResume(r)
    BY <2>4, RecvSyncEffect DEF RecvResume, RecvFrame
  <2>5. CASE \/ DropFuture(r, "recv") \/ TimeOut(r, "recv") \/ ReturnTimeout(r)
             \/ (\E n \in Receivers : CloneReceiver(r, n)) \/ DropReceiver(r)
    BY <1>3, <2>5 DEF DropFuture, TimeOut, ReturnTimeout, CloneReceiver, DropReceiver, inner
  <2> QED BY <1>3, <2>1, <2>2, <2>3, <2>4, <2>5 DEF ReceiverNext
<1>4. CASE Next /\ ~UNCHANGED <<queue, sent, got>>
  BY <1>0, <1>2, <1>3, <1>4, SendInOrder, RecvInOrder DEF Next
<1> QED BY <1>1, <1>4 DEF vars, inner

LEMMA InitInOrder ==
    ASSUME UnorderedPolicy, Init
    PROVE  InOrder(queue, sent, got)
<1>1. queue = Bounded(FALSE) /\ sent = <<>> /\ got = <<>>
  BY DEF Init, UnorderedPolicy, StorageIsPolicyDeque, PolicyEmpty
<1>2. queue.data = <<>>
  BY <1>1, BoundedDeque
<1>3. <<>> \in Seq(Msg) /\ <<>> \o <<>> = <<>>
  BY EmptySeq
<1> QED BY <1>1, <1>2, <1>3 DEF InOrder

\* AlwaysInOrder for every number of clients, messages and slots: on a channel
\* over a deque that does not sort, whose Always messages nothing of their kind
\* may replace, they are delivered once each and in the order they were
\* accepted in.
THEOREM AlwaysInOrderCorrect ==
    ASSUME StorageIsPolicyDeque, ~Ordered, NothingReplacesAlways
    PROVE  Spec => []AlwaysInOrder
<1>0. UnorderedPolicy
  BY DEF UnorderedPolicy
<1>1. Init => InOrder(queue, sent, got)
  BY <1>0, InitInOrder
<1>2. BooksInv /\ InOrder(queue, sent, got) /\ [Next]_vars => InOrder(queue, sent, got)'
  BY <1>0, NextInOrder
<1>3. InOrder(queue, sent, got) => AlwaysInOrder
  BY DEF InOrder, AlwaysInOrder
<1> QED BY <1>1, <1>2, <1>3, BooksInvCorrect, PTL DEF Spec

=============================================================================
