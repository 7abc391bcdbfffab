SPECIFICATION Spec
CONSTANTS
    c1 = c1  c2 = c2  a1 = a1  a2 = a2
    Tasks = {c1}
    Agents = {a1}
    Gates = {g1}
    Requests = {r1, r2}
    NoTask = NoTask  NoAgent = NoAgent  NoGate = NoGate  NoEvent = NoEvent
    Parents <- NoParents
    Mentions <- OnlyParents
    MaxRetries <- NoRetries
    Qualified <- AllQualified
    Registered <- OnlyFirst
    StaleRelease = TRUE
    CrossTaskUnblock = FALSE
SYMMETRY SlotSymmetry
PROPERTY CompletedIsFinal
