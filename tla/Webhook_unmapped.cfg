SPECIFICATION FairSpec
CONSTANTS
  e1 = e1
  d1 = d1
  d2 = d2
  d3 = d3
  Events = {e1}
  Deliveries = {d1}
  EventOf <- OfE1
  Natures <- Payment
  MaxEarly = 0
  MaxFaults = 1
PROPERTIES
  EffectRetried
CHECK_DEADLOCK FALSE
