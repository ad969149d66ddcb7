SPECIFICATION Spec
CONSTANTS
    Pods = {p1}
    None = None
    SlowReaders = FALSE
    Ledger = FALSE
    MaxIncarnation = 2
    MaxRevision = 2
    MaxFaults = 1
    MaxPublishers = 1
    MaxWriters = 2
INVARIANTS TypeOK RetiredStaysRetired AdmissionOfRevision
PROPERTIES FenceAdvances
CHECK_DEADLOCK FALSE
