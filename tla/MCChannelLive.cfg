\* Liveness under fairness: two senders compete for one slot, one receiver
\* thread keeps receiving.
CONSTANTS
    Senders = {s1, s2}
    Receivers = {r1}
    Msg = {m1, m2, m3}
    NoMsg = NoMsg
    Expirable = {}
    Capacity = 1
    Stores <- VecStores
    EmptyStore <- VecEmpty
    TryPush <- VecTryPush
    Get <- VecGet
    Length <- VecLength
SPECIFICATION FairSpec
PROPERTIES
    SenderProgress
    Delivery
CHECK_DEADLOCK FALSE
