\* A ring of three slots, which seven values fill, wrap and overflow, and which
\* is large enough for a policy to choose between entries.
CONSTANTS
    a = a
    b = b
    l = l
    o = o
    s = s
    t = t
    q = q
    NoMsg = NoMsg
    Msg <- MCMsg
    Policy <- MCPolicy
    Kind <- MCKind
    Priority <- MCPriority
    Expirable <- MCExpirable
    Capacity = 3
SPECIFICATION Spec
INVARIANTS
    TypeOK
    Contiguous
    ArrivalOrder
    SingleCopy
PROPERTY
    NoSilentLoss
