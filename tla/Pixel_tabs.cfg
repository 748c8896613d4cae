SPECIFICATION FairSpec
CONSTANTS
  p1 = p1
  p2 = p2
  k1 = k1
  Served = {p1, p2}
  Sdk = {k1}
  MaxQueue = 2
  MaxRetries = 1
  MaxEvents = 4
  MaxFlushes = 1
  MaxFaults = 1
INVARIANTS
  TypeOK
  LossNeedsReason
  LossIsCounted
PROPERTIES
  HandedInOrder
  OldestNoiseFirst
  NotStranded
CHECK_DEADLOCK FALSE
