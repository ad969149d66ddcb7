SPECIFICATION FairSpec
CONSTANTS
  Keys = {k1, k2}
  MaxSize = 2
  MaxWrites = 3
  MaxFailures = 3
CHECK_DEADLOCK FALSE
INVARIANTS TypeOK NewestKept CloseDrains
PROPERTIES KeepsPromise EverythingSettles
