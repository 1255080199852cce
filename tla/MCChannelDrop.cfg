\* The last receiver goes away while a sender waits for room.
CONSTANTS
    Senders = {s1}
    Receivers = {r1}
    Msg = {m1, m2}
    NoMsg = NoMsg
    Expirable = {}
    Capacity = 1
    Stores <- VecStores
    EmptyStore <- VecEmpty
    TryPush <- VecTryPush
    Get <- VecGet
    Length <- VecLength
SPECIFICATION FairSpec
INVARIANT ClosedWakesSenders
CHECK_DEADLOCK FALSE
