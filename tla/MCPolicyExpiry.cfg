\* Expiry against blocked senders: one slot, an expired message in it.
CONSTANTS
    a = a
    b = b
    s = s
    o = o
    Senders = {s1, s2}
    Receivers = {r1}
    NoMsg = NoMsg
    Msg <- MCMsg
    Expirable <- MCExpirable
    Policy <- MCPolicy
    Kind <- MCKind
    Priority <- MCPriority
    Ordered = FALSE
    Capacity = 1
    Stores <- PolicyStores
    EmptyStore <- PolicyEmpty
    TryPush <- DequeTryPush
    Get <- DequeGet
    Length <- DequeLength
SPECIFICATION FairSpec
INVARIANT AlwaysIsNotHeldUp
CHECK_DEADLOCK FALSE
