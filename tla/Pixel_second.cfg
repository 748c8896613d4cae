SPECIFICATION Spec
CONSTANTS
  p1 = p1
  p2 = p2
  k1 = k1
  Served = {p1, p2}
  Sdk = {}
  MaxQueue = 2
  MaxRetries = 1
  MaxEvents = 3
  MaxFlushes = 1
  MaxFaults = 0
INVARIANTS
  OnlySentDropped
CHECK_DEADLOCK FALSE
