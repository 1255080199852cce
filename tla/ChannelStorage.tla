--------------------------- MODULE ChannelStorage ----------------------------
(***************************************************************************)
(* The trait ChannelStorage (src/base_channel.rs) that both channels are   *)
(* generic over: TryPush, Get and Length are its methods, as operators on  *)
(* the storage's value, and Stores is the set of values it can take.  A    *)
(* method also receives the set of messages whose is_expired() is true at  *)
(* the time of the call.                                                   *)
(***************************************************************************)
EXTENDS Messages

CONSTANTS
    Stores,           \* the values of the storage
    EmptyStore,       \* with_capacity_and_ordering(Capacity, ordering)
    TryPush(_, _, _), \* try_push: [out |-> ..., store |-> ...]
    Get(_, _),        \* get: [val |-> ..., store |-> ...]
    Length(_)         \* len

PushOutput == {"Pushed", "Skipped", "Full"}

\* What the channel relies on in its storage: a push that is refused leaves
\* the storage alone, an accepted one makes it longer by one at most, and get
\* fails only when it leaves the storage empty.
ASSUME StorageContract ==
    /\ EmptyStore \in Stores /\ Length(EmptyStore) = 0
    /\ \A q \in Stores : Length(q) \in 0..Capacity
    /\ \A q \in Stores, m \in Msg, e \in SUBSET Expirable :
          /\ TryPush(q, m, e).store \in Stores
          /\ TryPush(q, m, e).out \in PushOutput
          /\ TryPush(q, m, e).out = "Pushed"
                => Length(TryPush(q, m, e).store) <= Length(q) + 1
          /\ TryPush(q, m, e).out # "Pushed" => TryPush(q, m, e).store = q
    /\ \A q \in Stores, e \in SUBSET Expirable :
          /\ Get(q, e).store \in Stores
          /\ Get(q, e).val \in Msg \cup {NoMsg}
          /\ Get(q, e).val = NoMsg => Length(Get(q, e).store) = 0
          /\ Get(q, e).val # NoMsg => Length(Get(q, e).store) < Length(q)

\* The storages on which no step but a successful get makes room, as long as
\* nothing expires: a VecDeque, and a policy deque without single-copy values.
SlotsAreKept ==
    \A q \in Stores :
        /\ \A m \in Msg :
              LET p == TryPush(q, m, {})
              IN  IF p.out = "Pushed" THEN Length(p.store) \in {Length(q) + 1, Capacity}
                                      ELSE Length(q) = Capacity
        /\ Get(q, {}).val # NoMsg => Length(Get(q, {}).store) = Length(q) - 1
        /\ Get(q, {}).val = NoMsg => Length(q) = 0

=============================================================================
