\* Two senders and a receiver on an ordered policy channel with room for
\* two; one message may expire.
CONSTANTS
    a = a
    b = b
    s = s
    o = o
    Senders = {s1, s2}
    Receivers = {r1}
    NoMsg = NoMsg
    Msg <- MCMsg
    Expirable <- MCExpirable
    Policy <- MCPolicy
    Kind <- MCKind
    Priority <- MCPriority
    Ordered = TRUE
    Capacity = 2
    Stores <- PolicyStores
    EmptyStore <- PolicyEmpty
    TryPush <- DequeTryPush
    Get <- DequeGet
    Length <- DequeLength
SPECIFICATION Spec
SYMMETRY Symmetry
INVARIANTS
    NothingInvented
    AlwaysIsDelivered
PROPERTY
    DeliversBest
CHECK_DEADLOCK FALSE
