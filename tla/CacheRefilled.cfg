SPECIFICATION Spec
CONSTANTS
  Readers = {r1, r2}
  TTL = 1
  Jitter = 1
  StaleWindow = 1
  NoReader = none
  MaxVersion = 3
  MaxFaults = 2
SYMMETRY ReaderSymmetry
INVARIANTS InvalidationSticks
