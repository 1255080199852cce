------------------------------ MODULE DataBuffer -----------------------------
(***************************************************************************)
(* The bounded buffer (src/buf.rs).  Every method is one critical section; *)
(* the values are numbered in the order their pushes get the lock.         *)
(***************************************************************************)
EXTENDS Integers, Sequences

CONSTANTS
    BufCapacity,  \* DataBuffer.capacity
    MaxPushes     \* bound on the pushes

ASSUME BufferAssumption == BufCapacity \in Nat \ {0} /\ MaxPushes \in Nat

VARIABLES
    buf,       \* DataBuffer.data
    pushes,    \* history: the pushes so far
    refused,   \* history: the values try_push has handed back
    gone,      \* history: the values that have left the buffer, in order
    reported   \* history: values handed to a taker or reported as removed

bufferVars == <<buf, pushes, refused, gone, reported>>

Full == Len(buf) >= BufCapacity

BufTryPush ==
    /\ pushes < MaxPushes
    /\ pushes' = pushes + 1
    /\ buf' = IF Full THEN buf ELSE Append(buf, pushes')
    /\ refused' = IF Full THEN refused \cup {pushes'} ELSE refused
    /\ UNCHANGED <<gone, reported>>

\* Mutant: room is made once the value is in.
ForcePushLate ==
    /\ pushes < MaxPushes
    /\ pushes' = pushes + 1
    /\ LET b == Append(buf, pushes')
           drop == IF Len(b) >= BufCapacity THEN Len(b) - BufCapacity + 1 ELSE 0
       IN  /\ buf' = SubSeq(b, drop + 1, Len(b))
           /\ gone' = gone \o SubSeq(b, 1, drop)
           /\ reported' = reported + (IF drop > 0 THEN 1 ELSE 0)
    /\ UNCHANGED refused

\* while buf.len() >= self.capacity { buf.pop_front(); res = false; }; one
\* return of false reports one removed value
ForcePush ==
    /\ pushes < MaxPushes
    /\ pushes' = pushes + 1
    /\ LET drop == IF Full THEN Len(buf) - BufCapacity + 1 ELSE 0
       IN  /\ buf' = Append(SubSeq(buf, drop + 1, Len(buf)), pushes')
           /\ gone' = gone \o SubSeq(buf, 1, drop)
           /\ reported' = reported + (IF drop > 0 THEN 1 ELSE 0)
    /\ UNCHANGED refused

TakeBuffer ==
    /\ buf' = <<>>
    /\ gone' = gone \o buf
    /\ reported' = reported + Len(buf)
    /\ UNCHANGED <<pushes, refused>>

BufferInit ==
    /\ buf = <<>> /\ pushes = 0 /\ refused = {} /\ gone = <<>> /\ reported = 0

BufferNext == BufTryPush \/ ForcePush \/ TakeBuffer

-----------------------------------------------------------------------------
\* Nothing is lost in silence: the values that left the buffer and those in it
\* are all that were not handed back to try_push, in the order of their pushes;
\* every one that left went to a taker or was reported by the false of
\* force_push; and the buffer never outgrows its capacity.
BufferAccounts ==
    LET all == gone \o buf
    IN  /\ \A i, j \in DOMAIN all : i < j => all[i] < all[j]
        /\ {all[i] : i \in DOMAIN all} = (1..pushes) \ refused
        /\ reported = Len(gone)
        /\ Len(buf) <= BufCapacity

=============================================================================
