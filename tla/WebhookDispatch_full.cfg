SPECIFICATION Spec
CONSTANTS
    d1 = d1  d2 = d2  d3 = d3  d4 = d4  n1 = n1
    k1 = k1  k2 = k2  agent = agent
    Deliveries = {d1, d2, d3, d4, n1}
    Notices = {n1}
    Agents = {agent}
    Target <- OneAgent
    Drainers = {k1}
    Serves <- OneQueue
    NoDelivery = NoDelivery
    Slots = 1
    MaxRetries = 2
    MaxQueue = 2
    TrimFails = FALSE
SYMMETRY Alike
INVARIANTS QueueBound
PROPERTIES KeepsContract
