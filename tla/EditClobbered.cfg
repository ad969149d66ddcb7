SPECIFICATION Spec
CONSTANTS
  b1 = b1
  b2 = b2
  n1 = n1
  Replicas = {r1, r2}
  Names = {n1, n2}
  Batches <- NoBatches
  Count <- MCCount
  Target <- MCTarget
  RestoreUses = 1
  MaxCounter = 3
  MaxClock = 3
  MaxDirect = 0
  MaxFailures = 0
  None = None
CHECK_DEADLOCK FALSE
INVARIANTS NewestEditWins
