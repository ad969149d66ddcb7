\* Two awards of a subscriber paid for one or three units, two replicas: leases and the provider pause.
CONSTANTS
    a1 = a1  a2 = a2  u1 = u1  r1 = r1
    None = None
    Awards <- MCAwards2
    Users = {u1}
    Workers = {w1, w2}
    Refs = {r1}
    UserOf <- MCSameUser
    Months <- MCTwoThenOne
    CreatedAt <- MCCreated
    MonthEnd = {}
    Accounts <- MCPaid
    PromotionalGrantsEnabled = TRUE
    IntervalRuleVerified = TRUE
    ProviderMutations = TRUE
    MinimumNotice = 0
    NextPayment <- MCNextPayment
    MaxNow = 0
    MaxVersion = 3
    MaxFaults = 2
SPECIFICATION Spec
SYMMETRY WorkerSymmetry
INVARIANT GrantsDisjoint
PROPERTY PauseNotShortened
