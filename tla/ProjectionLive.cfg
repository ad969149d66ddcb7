SPECIFICATION FairSpec
CONSTANTS
    Pods = {p1}
    None = None
    SlowReaders = TRUE
    Ledger = TRUE
    MaxIncarnation = 1
    MaxRevision = 2
    MaxFaults = 1
    MaxPublishers = 2
    MaxWriters = 1
INVARIANTS ClearedWasPublished
PROPERTIES EventuallyProjected EventuallyRetired
CHECK_DEADLOCK FALSE
