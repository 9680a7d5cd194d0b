\* Two events of one unit and a third of another, batches of two.
SPECIFICATION LiveSpec
CONSTANTS
  e1 = e1  e2 = e2  u1 = u1  u2 = u2
  Events = {e1, e2, e3}
  Units = {u1, u2}
  UnitOf <- MCUnitOf
  Processes = {p1}
  Overlap = FALSE
  BatchMax = 2
  MaxAttempts = 1
  Ceiling = 1
  FaultKinds = {}
  MaxFaults = 0
  None = None
INVARIANTS
  NeverOverlapsItself
PROPERTIES
  EveryEventSettles
