SPECIFICATION Spec
CONSTANTS
  Admins = {a1, a2}
  Tokens = {"t1", "t2"}
  Kids = {"k1", "k2"}
  MaxRevision = 2
  MaxCrashes = 1
  MaxFaults = 0
CHECK_DEADLOCK FALSE
INVARIANTS
  RecoverySettles
