\* Two awards of one winner: may their plans overlap?
CONSTANTS
    a1 = a1  a2 = a2  u1 = u1  r1 = r1
    None = None
    Awards <- MCAwards2
    Users = {u1}
    Workers = {w1, w2}
    Refs = {}
    UserOf <- MCSameUser
    Months <- MCOneMonth
    CreatedAt <- MCCreated
    MonthEnd = {}
    Accounts <- MCFree
    PromotionalGrantsEnabled = TRUE
    IntervalRuleVerified = TRUE
    ProviderMutations = TRUE
    MinimumNotice = 0
    NextPayment <- MCNextPayment
    MaxNow = 1
    MaxVersion = 4
    MaxFaults = 1
SPECIFICATION Spec
SYMMETRY WorkerSymmetry
INVARIANT PlansDisjoint
