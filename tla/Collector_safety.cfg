SPECIFICATION FairSpec
CONSTANTS
  m1 = m1
  m2 = m2
  m3 = m3
  Msgs = {m1, m2, m3}
  Torn = Torn
  MaxBytes = 2
  BatchLines = 1
  MaxFaults = 1
  MaxEvents = 2
  IoFaults = {}
  Requests <- SingleAndPair
INVARIANTS
  TypeOK
  ExactlyOnceWithoutFaults
  GaugeCoversExposure
  WalWithinCap
PROPERTIES
  EveryRequestAnswered
  AckedReachesLog
  GateReopens
  KeepsContract
  UnlinkOnlyProduced
