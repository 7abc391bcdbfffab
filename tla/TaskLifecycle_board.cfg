SPECIFICATION Spec
CONSTANTS
    c1 = c1  c2 = c2  a1 = a1  a2 = a2
    Tasks = {c1, c2}
    Agents = {a1, a2}
    Gates = {g1, g2}
    Requests = {r1, r2}
    NoTask = NoTask  NoAgent = NoAgent  NoGate = NoGate  NoEvent = NoEvent
    Parents <- ChainParents
    Mentions <- OnlyParents
    MaxRetries <- FirstRetries
    Qualified <- AllQualified
    Registered <- OnlyFirst
    StaleRelease = FALSE
    CrossTaskUnblock = FALSE
SYMMETRY SlotSymmetry
INVARIANTS OpenGateBlocks RetryBound RequeueOwnsFailure ParentsFirst WorkHasOwner IInv
PROPERTY Implements
