SPECIFICATION FairSpec
CONSTANTS
    k1 = k1
    k2 = k2
    p1 = p1
    p2 = p2
    Callers = {c1, c2}
    Keys = {k1, k2}
    Payloads = {p1, p2}
    Requests <- AnyAsk
    NoKey = NoKey
    MaxHandles = 1
    None = None
CONSTRAINT OneDiffers
INVARIANTS
    TypeOK
    OneTurnPerKey
    SamePublication
    WorkIsAccounted
    ClosedIsQuiet
PROPERTIES
    WaitsEnd
CHECK_DEADLOCK FALSE
