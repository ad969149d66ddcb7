SPECIFICATION FairSpec
CONSTANTS
  Readers = {r1, r2, r3}
  TTL = 1
  Jitter = 1
  StaleWindow = 1
  NoReader = none
  MaxVersion = 2
  MaxFaults = 1
INVARIANTS TypeOK JoinableIsCurrent StalenessBounded
PROPERTIES CallsReturn EventuallyCurrent
