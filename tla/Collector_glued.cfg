SPECIFICATION Spec
CONSTANTS
  m1 = m1
  m2 = m2
  m3 = m3
  Msgs = {m1, m2, m3}
  Torn = Torn
  MaxBytes = 3
  BatchLines = 1
  MaxFaults = 1
  MaxEvents = 2
  IoFaults = {"crash"}
  Requests <- SingleAndPair
INVARIANT
  AckedDurable
