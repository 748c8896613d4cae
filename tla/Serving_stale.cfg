SPECIFICATION Spec
CONSTANTS
  r1 = r1
  r2 = r2
  r3 = r3
  i1 = i1
  i2 = i2
  None = None
  Reads = {r1, r2, r3}
  Instances = {i1, i2}
  InstanceOf <- TwoAndOne
  MaxCommits = 1
  MaxFaults = 0
INVARIANTS
  CachedIsSwept
CHECK_DEADLOCK FALSE
