------------------------------- MODULE Channel -------------------------------
(***************************************************************************)
(* The plain channel (src/channel.rs): BaseChannel over a VecDeque, whose  *)
(* values are sequences of at most Capacity messages.  VecDeque does not   *)
(* know expiry, so the third argument of TryPush is not looked at.         *)
(***************************************************************************)
EXTENDS BaseChannel

VecStores == UNION {[1..n -> Msg] : n \in 0..Capacity}

VecEmpty == <<>>

VecTryPush(q, m, e) ==
    IF Len(q) = Capacity
    THEN [out |-> "Full", store |-> q]
    ELSE [out |-> "Pushed", store |-> Append(q, m)]

\* Mutant: pop_back for pop_front.
VecGetLifo(q, e) ==
    IF q = <<>>
    THEN [val |-> NoMsg, store |-> q]
    ELSE [val |-> q[Len(q)], store |-> SubSeq(q, 1, Len(q) - 1)]

VecGet(q, e) ==
    IF q = <<>>
    THEN [val |-> NoMsg, store |-> q]
    ELSE [val |-> Head(q), store |-> Tail(q)]

VecLength(q) == Len(q)

\* The storage of BaseChannel is this VecDeque.
StorageIsVecDeque ==
    /\ Stores = VecStores
    /\ EmptyStore = VecEmpty
    /\ \A q \in Stores : Length(q) = VecLength(q)
    /\ \A q \in Stores, m \in Msg, e \in SUBSET Expirable :
          TryPush(q, m, e) = VecTryPush(q, m, e)
    /\ \A q \in Stores, e \in SUBSET Expirable : Get(q, e) = VecGet(q, e)

-----------------------------------------------------------------------------
\* The queue holds exactly what was accepted and not yet delivered, in order.
QueueIsBacklog == sent = got \o queue

\* What a user sees of the two ends of the channel.
TxOpen == senders > 0
RxOpen == receivers > 0
Ended == {r \in Receivers : ret[r] = "ChannelClosed"}

Fifo == INSTANCE BoundedFifo WITH
    Readers <- Receivers, txOpen <- TxOpen, rxOpen <- RxOpen, ended <- Ended

\* channel.rs implements BoundedFifo: every critical section is one step of
\* the FIFO or changes nothing a user can see.
ImplementsFifo == Fifo!Spec

\* Whatever a send returned Ok for is received, if receivers keep receiving.
Delivery ==
    \A n \in 1..Cardinality(Msg) :
        Len(sent) >= n ~> (Len(got) >= n \/ receivers = 0)

=============================================================================
