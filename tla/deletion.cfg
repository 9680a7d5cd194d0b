SPECIFICATION LiveSpec
CONSTANTS
  Mailboxes = {m1}
  Connected = {m1}
  Purgers = {p1, p2}
  MaxRows = 1
  FaultKinds = {"crash", "slow", "billing", "google"}
  MaxFaults = 1
  MaxUser = 3
  MaxBilling = 1
  None = None
INVARIANTS  DeletedIsEmpty
PROPERTIES BilledNeverDropped EveryRequestEnds
CHECK_DEADLOCK FALSE
