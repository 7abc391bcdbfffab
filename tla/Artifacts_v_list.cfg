SPECIFICATION Spec
CONSTANTS
    t1 = t1  t2 = t2  t3 = t3  k1 = k1  k2 = k2  k3 = k3  k4 = k4
    Tasks = {t1}
    Keys = {k1, k2}
    TaskOf <- Prefix
    Requests = {r1, r2}
    NoTask = NoTask  NoKey = NoKey
    Alone = {}
    Enabled = TRUE
SYMMETRY SlotSymmetry
INVARIANT ListIsComplete
