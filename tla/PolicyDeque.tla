----------------------------- MODULE PolicyDeque -----------------------------
(***************************************************************************)
(* The deque that stores values by delivery policy (src/pdeque.rs,         *)
(* src/data_policy.rs), as operators on its value.                         *)
(*                                                                         *)
(* A deque is [data, head, ordered]: the VecDeque's elements front to      *)
(* back, the slot of its ring the front is in, and the ordering flag.  The *)
(* slot matters because sort_by_priority works on the ring's slices.  The  *)
(* parameter x of an operator is the set of values whose is_expired() is   *)
(* true; it does not change during a call.                                 *)
(***************************************************************************)
EXTENDS Messages

CONSTANTS
    Policy,    \* delivery_policy()
    Kind,      \* eq_kind() compares these
    Priority   \* priority(), lower is better

DeliveryPolicy == {"Always", "Latest", "Optional", "Single", "SingleOptional"}

ASSUME PolicyAssumption ==
    /\ Policy \in [Msg -> DeliveryPolicy]
    /\ DOMAIN Kind = Msg
    /\ Priority \in [Msg -> Nat]

IsSingle(v) == Policy[v] \in {"Single", "SingleOptional"}
IsOptional(v) == Policy[v] \in {"Optional", "SingleOptional"}
EqKind(v, w) == Kind[v] = Kind[w]

Bounded(ordered) == [data |-> <<>>, head |-> 0, ordered |-> ordered]

-----------------------------------------------------------------------------
\* as_slices().1.len(): how many elements, the last ones, lie before head in
\* the ring.
Wrapped(d) ==
    LET past == d.head + Len(d.data) - Capacity IN IF past > 0 THEN past ELSE 0

\* rotate_right(n): the last n elements become the first.  VecDeque moves the
\* shorter part and the head with it.
RotateRight(d, n) ==
    LET k == Len(d.data) - n
    IN  [data |-> SubSeq(d.data, k + 1, k + n) \o SubSeq(d.data, 1, k),
         head |-> IF n <= k THEN (d.head + Capacity - n) % Capacity
                            ELSE (d.head + k) % Capacity,
         ordered |-> d.ordered]

\* The elements of s in another order, or some of them: upTo[i] is the set of
\* the positions of s that do not come after position i.
Arrange(s, upTo) ==
    [k \in 1..Cardinality(DOMAIN upTo) |->
        s[CHOOSE i \in DOMAIN upTo : Cardinality(upTo[i]) = k]]

\* sort_by on the priority is stable: equal priorities keep their order.
StableSort(s) ==
    Arrange(s, [i \in DOMAIN s |->
        {j \in DOMAIN s : \/ Priority[s[j]] < Priority[s[i]]
                          \/ Priority[s[j]] = Priority[s[i]] /\ j <= i}])

\* retain: the elements at the positions of I stay, in their order.
Retain(s, I) == Arrange(s, [i \in I |-> {j \in I : j <= i}])

\* Mutant: the ring is not made contiguous first.
SortInPlace(d) == [d EXCEPT !.data = StableSort(@)]

\* sort_by_priority, which then asserts that nothing is wrapped (Contiguous).
SortByPriority(d) ==
    LET r == RotateRight(d, Wrapped(d)) IN [r EXCEPT !.data = StableSort(@)]

\* Mutant: sorts before the push.
PushBackSortFirst(d, v) ==
    [IF d.ordered THEN SortByPriority(d) ELSE d EXCEPT !.data = Append(@, v)]

\* macro push!
PushBack(d, v) ==
    LET e == [d EXCEPT !.data = Append(@, v)]
    IN  IF d.ordered THEN SortByPriority(e) ELSE e

\* Mutant: drops the expired entries only.
RetainUnexpired(d, v, x) ==
    [d EXCEPT !.data = Retain(@, {i \in DOMAIN @ : @[i] \notin x})]

\* A single-copy value takes the place of all of its kind; expired ones go too.
RetainOthers(d, v, x) ==
    [d EXCEPT !.data =
        Retain(@, {i \in DOMAIN @ : ~EqKind(@[i], v) /\ @[i] \notin x})]

\* Mutant: the oldest entry gives way, whatever its policy.
MakeRoomOldest(d, v, x) == [d EXCEPT !.data = Tail(@)]

\* Mutant: the last entry takes the place of the removed one.
MakeRoomSwap(d, v, x) ==
    LET n == Len(d.data)
        Out == {i \in 1..n : d.data[i] \in x \/ IsOptional(d.data[i])}
        i == CHOOSE k \in Out : \A j \in Out : k <= j
    IN  IF Out = {} THEN d
        ELSE [d EXCEPT !.data = SubSeq([d.data EXCEPT ![i] = d.data[n]], 1, n - 1)]

\* On a full deque, the first entry that has to give way to v, if any.
MakeRoom(d, v, x) ==
    LET Out == {i \in DOMAIN d.data :
                    \/ d.data[i] \in x
                    \/ IsOptional(d.data[i])
                    \/ Policy[v] = "Latest" /\ EqKind(d.data[i], v)}
    IN  [d EXCEPT !.data =
            Retain(@, {i \in DOMAIN @ : i \in Out => \E j \in Out : j < i})]

\* Mutant: push_final! pushes although no entry gave way.
DequeTryPushUnchecked(d, v, x) ==
    LET kept == IF IsSingle(v) THEN RetainOthers(d, v, x) ELSE d
        full == Len(kept.data) >= Capacity
    IN  IF v \in x THEN [out |-> "Pushed", store |-> d]
        ELSE IF full /\ IsOptional(v) THEN [out |-> "Skipped", store |-> kept]
        ELSE [out |-> "Pushed",
              store |-> PushBack(IF full THEN MakeRoom(kept, v, x) ELSE kept, v)]

DequeTryPush(d, v, x) ==
    LET kept == IF IsSingle(v) THEN RetainOthers(d, v, x) ELSE d
        room == MakeRoom(kept, v, x)
        Pushed(e) == [out |-> "Pushed", store |-> PushBack(e, v)]
    IN  IF v \in x THEN [out |-> "Pushed", store |-> d]
        ELSE IF Len(kept.data) < Capacity THEN Pushed(kept)
        ELSE IF IsOptional(v) THEN [out |-> "Skipped", store |-> kept]
        ELSE IF Len(room.data) < Capacity THEN Pushed(room)
        ELSE [out |-> "Full", store |-> room]

\* pop_front, i times.
PopFront(d, i) ==
    [data |-> SubSeq(d.data, i + 1, Len(d.data)),
     head |-> (d.head + i) % Capacity, ordered |-> d.ordered]

\* get: pops the front until a value that has not expired turns up.
DequeGet(d, x) ==
    LET n == Len(d.data)
        Keep == {i \in 1..n : d.data[i] \notin x}
        first == CHOOSE i \in Keep : \A j \in Keep : i <= j
    IN  IF Keep = {} THEN [val |-> NoMsg, store |-> PopFront(d, n)]
                     ELSE [val |-> d.data[first], store |-> PopFront(d, first)]

DequeClear(d) == Bounded(d.ordered)

DequeLength(d) == Len(d.data)

Elements(d) == {d.data[i] : i \in DOMAIN d.data}

DequeStores(ordered) ==
    [data : UNION {[1..n -> Msg] : n \in 0..Capacity},
     head : 0..(Capacity - 1), ordered : {ordered}]

=============================================================================
