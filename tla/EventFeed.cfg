SPECIFICATION FairSpec
CONSTANTS
    p1 = p1  p2 = p2
    MaxEvents = 4
    Limit = 2
    Pollers = {p1, p2}
    Foreign = {2}
INVARIANTS NoSkip IInv
PROPERTY AllReported
