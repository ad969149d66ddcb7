\* One award of a subscriber, two replicas: retries, crashes, provider pause.
CONSTANTS
    a1 = a1  a2 = a2  u1 = u1  r1 = r1
    None = None
    Awards <- MCAwards1
    Users = {u1}
    Workers = {w1, w2}
    Refs = {r1}
    UserOf <- MCSameUser
    Months <- MCOneMonth
    CreatedAt <- MCCreated
    MonthEnd = {1}
    Accounts <- MCAnyAccount
    PromotionalGrantsEnabled = TRUE
    IntervalRuleVerified = TRUE
    ProviderMutations = TRUE
    MinimumNotice = 0
    NextPayment <- MCNextPayment
    MaxNow = 2
    MaxVersion = 3
    MaxFaults = 3
SPECIFICATION Spec
SYMMETRY WorkerSymmetry
INVARIANT TypeOK
INVARIANT OneInterval
INVARIANT DeliveredIsCommitted
INVARIANT NoUnprotectedCommit
INVARIANT OneWorkerPerUser
PROPERTY PrizeHonoured
