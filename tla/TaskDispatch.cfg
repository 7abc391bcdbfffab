SPECIFICATION FairSpec
CONSTANTS
    p = p  q = q  c = c  any = any  able = able
    Tasks = {p, q, c}
    Agents = {able, any}
    NoTask = NoTask
    ParentLists <- Family
    LooksLike <- Lookalike
    Required <- SomeRequired
    Skills <- AgentSkills
    Hooked = {able, any}  Pollers = {able}
    Priority <- Urgency
    MaxRetries <- OneRetry
    Found <- Underway
    MaxFaults = 1
INVARIANTS IInv HeardIsClaimable OfferIsBest PromotionIsTrue ReadyIsHeard
PROPERTY ClaimableIsClaimed
