----------------------------- MODULE BoundedFifo -----------------------------
(***************************************************************************)
(* What a plain channel promises its users: one FIFO of at most Capacity   *)
(* messages between all senders and all receivers, no acceptance once the  *)
(* receiving side is closed, and end of stream for a reader only when the  *)
(* sending side is closed and every accepted message has been taken.       *)
(***************************************************************************)
EXTENDS Integers, Sequences

CONSTANTS Msg, Readers, Capacity

VARIABLES
    sent,    \* messages accepted, in order
    got,     \* messages delivered, in order
    txOpen,  \* some sender exists
    rxOpen,  \* some receiver exists
    ended    \* readers that were told the channel is closed

vars == <<sent, got, txOpen, rxOpen, ended>>

Init ==
    /\ sent = <<>> /\ got = <<>>
    /\ txOpen = TRUE /\ rxOpen = TRUE
    /\ ended = {}

Put(m) ==
    /\ txOpen /\ rxOpen
    /\ Len(sent) - Len(got) < Capacity
    /\ sent' = Append(sent, m)
    /\ UNCHANGED <<got, txOpen, rxOpen, ended>>

Take ==
    /\ rxOpen
    /\ Len(got) < Len(sent)
    /\ got' = Append(got, sent[Len(got) + 1])
    /\ UNCHANGED <<sent, txOpen, rxOpen, ended>>

CloseTx ==
    /\ txOpen
    /\ txOpen' = FALSE
    /\ UNCHANGED <<sent, got, rxOpen, ended>>

CloseRx ==
    /\ rxOpen
    /\ rxOpen' = FALSE
    /\ UNCHANGED <<sent, got, txOpen, ended>>

EndOfStream(r) ==
    /\ ~txOpen /\ got = sent
    /\ ended' = ended \cup {r}
    /\ UNCHANGED <<sent, got, txOpen, rxOpen>>

Next ==
    \/ \E m \in Msg : Put(m)
    \/ Take \/ CloseTx \/ CloseRx
    \/ \E r \in Readers : EndOfStream(r)

Spec == Init /\ [][Next]_vars

=============================================================================
