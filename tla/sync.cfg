\* Two messages, a scan and the runs after it, one fault of every kind.
SPECIFICATION LiveSpec
CONSTANTS
  Messages = {m1, m2}
  Present = {m1}
  Runs = {r1, r2}
  Scans = {s1, s2}
  Batch = 1
  MaxRestarts = 1
  Limit = 1
  FaultKinds = {"crash", "stall", "transient", "exhausted", "expire", "revoke", "lost_job"}
  MaxFaults = 1
  MaxHistory = 2
  MaxConnects = 1
  None = None
INVARIANTS
  MirrorFollows
  
PROPERTIES
  CursorNeverRewinds
  CatchesUp
CHECK_DEADLOCK FALSE
