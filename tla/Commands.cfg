SPECIFICATION Spec
CONSTANTS
  b1 = b1
  b2 = b2
  n1 = n1
  Replicas = {r1, r2}
  Names = {n1, n2}
  Batches <- MCBatches
  Count <- MCCount
  Target <- MCTarget
  RestoreUses = 1
  MaxCounter = 3
  MaxClock = 2
  MaxDirect = 2
  MaxFailures = 2
  None = None
CHECK_DEADLOCK FALSE
SYMMETRY ReplicaSymmetry
INVARIANTS TypeOK UsesExact
PROPERTIES ReplayCreditsNothing FlushIsCallback
