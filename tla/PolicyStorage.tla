--------------------------- MODULE PolicyStorage -----------------------------
(***************************************************************************)
(* The deque that stores by delivery policy as the storage of a channel:   *)
(* the impl of ChannelStorage for pdeque::Deque (src/policy_channel.rs),   *)
(* which the sync and the async policy channel share.                      *)
(***************************************************************************)
EXTENDS ChannelStorage, PolicyDeque

CONSTANT Ordered   \* the ordering flag given to the channel's constructor

PolicyEmpty == Bounded(Ordered)
PolicyStores == DequeStores(Ordered)

\* The storage of the channel is this deque, as the types Sender and Receiver
\* and the constructors bounded and ordered say.
StorageIsPolicyDeque ==
    /\ Ordered \in BOOLEAN
    /\ Stores = PolicyStores
    /\ EmptyStore = PolicyEmpty
    /\ \A q \in Stores : Length(q) = DequeLength(q)
    /\ \A q \in Stores, m \in Msg, e \in SUBSET Expirable :
          TryPush(q, m, e) = DequeTryPush(q, m, e)
    /\ \A q \in Stores, e \in SUBSET Expirable : Get(q, e) = DequeGet(q, e)

=============================================================================
