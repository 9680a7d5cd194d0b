\* Two dispatchers side by side, as during a deploy, with every fault.
SPECIFICATION Spec
CONSTANTS
  e1 = e1  e2 = e2  u1 = u1  u2 = u2
  Events = {e1}
  Units = {u1, u2}
  UnitOf <- MCUnitOf
  Processes = {p1, p2}
  Overlap = TRUE
  BatchMax = 1
  MaxAttempts = 2
  Ceiling = 1
  FaultKinds = {"crash", "stop", "admission", "connection", "unacked", "escalation"}
  MaxFaults = 2
  None = None
PROPERTIES
  ContractKept
