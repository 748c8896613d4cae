SPECIFICATION FairSpec
CONSTANTS
  e1 = e1
  d1 = d1
  d2 = d2
  d3 = d3
  Events = {e1}
  Deliveries = {d1, d2, d3}
  EventOf <- OfE1
  Natures <- Mapped
  MaxEarly = 2
  MaxFaults = 3
INVARIANTS
  AckedServed
  CopiesPaidFor
  UnproducedKeyHeld
PROPERTIES
  EventLands
CHECK_DEADLOCK FALSE
