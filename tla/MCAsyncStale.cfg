\* As MCPolicyChannelAsync, for the asserts of test_delivery.
CONSTANTS
    a = a
    b = b
    o = o
    Senders = {s1, s2}
    Receivers = {r1, r2}
    Gens = {1, 2}
    MaxEntries = 2
    NoMsg = NoMsg
    Msg <- MCMsg
    Expirable = {}
    Policy <- MCPolicy
    Kind <- MCKind
    Priority <- MCPriority
    Ordered = FALSE
    Capacity = 1
    Stores <- PolicyStores
    EmptyStore <- PolicyEmpty
    TryPush <- DequeTryPush
    Get <- DequeGet
    Length <- DequeLength
SPECIFICATION Spec
SYMMETRY Symmetry
INVARIANT IdleLeavesNothing
CHECK_DEADLOCK FALSE
