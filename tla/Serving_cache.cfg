SPECIFICATION Spec
CONSTANTS
  r1 = r1
  r2 = r2
  r3 = r3
  i1 = i1
  i2 = i2
  None = None
  Reads = {r1, r2, r3}
  Instances = {i1, i2}
  InstanceOf <- TwoAndOne
  MaxCommits = 2
  MaxFaults = 1
INVARIANTS
  TypeOK
  StaleWasStoredLate
  LostLockCostsOne
  CacheNeverFailsRead
CHECK_DEADLOCK FALSE
