\* Three senders, two receivers, room for two of four messages: the queue fills
\* and wraps, threads of both kinds block, time out, clone and drop.
CONSTANTS
    Senders = {s1, s2, s3}
    Receivers = {r1, r2}
    Msg = {m1, m2, m3, m4}
    NoMsg = NoMsg
    Expirable = {}
    Capacity = 2
    Stores <- VecStores
    EmptyStore <- VecEmpty
    TryPush <- VecTryPush
    Get <- VecGet
    Length <- VecLength
SPECIFICATION Spec
SYMMETRY Symmetry
INVARIANTS
    TypeOK
    HandleCount
    NoLostData
    ClosedWakesReceivers
    ClosedIsFinal
    NoLostSpace
PROPERTY
    ImplementsFifo
CHECK_DEADLOCK FALSE
