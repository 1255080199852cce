------------------------------ MODULE Messages -------------------------------
(***************************************************************************)
(* What every channel and every storage is generic over.                   *)
(***************************************************************************)
EXTENDS Integers, Sequences, FiniteSets

CONSTANTS
    Msg,              \* messages, each handed to a send method at most once
    NoMsg,            \* Option::None
    Expirable,        \* messages whose is_expired() may become true
    Capacity          \* the capacity given to the constructor

ASSUME MsgAssumption == NoMsg \notin Msg /\ Expirable \subseteq Msg

\* assert!(capacity > 0, "channel capacity MUST be > 0")
ASSUME CapacityAssumption == Capacity \in Nat \ {0}

=============================================================================
