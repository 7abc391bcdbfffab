SPECIFICATION FairSpec
CONSTANTS
    t1 = t1  live = live  other = other
    Agents = {live, other}
    Admin = Admin  Register = Register  NoAgent = NoAgent
    Steady = {live}
    BeatEvery = 1  Window = 1  StaleLimit = 1
    Tasks = {t1}
    MaxRetries <- NoRetries
    PendingLimit = 1  TaskLimit = 1  PulseEvery = 1
    QuickAnswers = TRUE
    MaxFaults = 1
INVARIANTS LiveIsNotStale IInv
PROPERTIES SteadyKeepsWork PendingEnds HungTaskEnds DeadAgentLetsGo
