\* Liveness: one award of a free winner, two replicas.
CONSTANTS
    a1 = a1  a2 = a2  u1 = u1  r1 = r1
    None = None
    Awards <- MCAwards1
    Users = {u1}
    Workers = {w1, w2}
    Refs = {}
    UserOf <- MCSameUser
    Months <- MCTwoMonths
    CreatedAt <- MCCreated
    MonthEnd = {}
    Accounts <- MCFree
    PromotionalGrantsEnabled = TRUE
    IntervalRuleVerified = TRUE
    ProviderMutations = TRUE
    MinimumNotice = 0
    NextPayment <- MCNextPayment
    MaxNow = 1
    MaxVersion = 8
    MaxFaults = 2
SPECIFICATION FairSpec
PROPERTY EventuallyDelivered
