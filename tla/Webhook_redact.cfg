SPECIFICATION Spec
CONSTANTS
  e1 = e1
  d1 = d1
  d2 = d2
  d3 = d3
  Events = {e1}
  Deliveries = {d1}
  EventOf <- OfE1
  Natures <- Redact
  MaxEarly = 0
  MaxFaults = 0
INVARIANTS
  EffectNotForgotten
CHECK_DEADLOCK FALSE
