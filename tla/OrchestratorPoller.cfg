SPECIFICATION FairSpecAll
CONSTANTS
    c1 = c1  c2 = c2  a1 = a1  o1 = o1  o2 = o2  r1 = r1  g1 = g1
    Tasks = {c1, c2}
    Agents = {a1}
    Gates = {g1}
    Requests = {r1, o1, o2}
    Runs = {o1, o2}
    NoTask = NoTask  NoAgent = NoAgent  NoGate = NoGate  NoEvent = NoEvent
    Parents <- NoParents
    Mentions = {}
    MaxRetries <- NoRetries
    Qualified <- AllQualified
    Registered = {}
    StaleRelease = FALSE
    CrossTaskUnblock = TRUE
    MaxFaults = 1
INVARIANTS RunInv BlockedHasWay
PROPERTIES StaysDisciplined AnsweredIsResumed
