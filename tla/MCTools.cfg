\* One tool at a time: two cells, an interval of two time units, keys of three
\* bits, a buffer of two, three guards on two files, enums of two variants.
CONSTANTS
    c1 = c1
    c2 = c2
    s1 = s1
    s2 = s2
    s3 = s3
    MaxTime = 7
    Cells = {c1, c2}
    Ttl <- MCTtl
    Val = {v1, v2}
    NoVal = NoVal
    MaxDelta = 1
    Period = 2
    TicksMod = 4
    MaxCalls = 6
    Half = 4
    Events = {e1, e2}
    MaxDeltas = {0, 1, 2}
    NoDelta = NoDelta
    BufCapacity = 2
    MaxPushes = 6
    Scopes = {s1, s2, s3}
    Files = 2
    Wants <- MCWants
    Attributes <- MCAttributes
    MaxVariants = 2
    MaxAttributes = 2
SPECIFICATION Spec
INVARIANTS
    IntervalKeepsPace
    ClosestIsNearest
    BufferAccounts
    GuardsRestore
    DeriveKeepsAttributes
PROPERTY
    TtlHonoured
CHECK_DEADLOCK FALSE
