\* One award of a subscriber: is an applied pause still known after an unreadable answer?
CONSTANTS
    a1 = a1  a2 = a2  u1 = u1  r1 = r1
    None = None
    Awards <- MCAwards1
    Users = {u1}
    Workers = {w1, w2}
    Refs = {r1}
    UserOf <- MCSameUser
    Months <- MCOneMonth
    CreatedAt <- MCCreated
    MonthEnd = {}
    Accounts <- MCSubscriber
    PromotionalGrantsEnabled = TRUE
    IntervalRuleVerified = TRUE
    ProviderMutations = TRUE
    MinimumNotice = 0
    NextPayment <- MCNextPayment
    MaxNow = 2
    MaxVersion = 4
    MaxFaults = 2
SPECIFICATION Spec
SYMMETRY WorkerSymmetry
INVARIANT PauseEvidenceKept
