SPECIFICATION LiveSpec
CONSTANTS
  Boots = {b1, b2}
  Runs = {r1, r2}
  Enqueuers = {e1, e2}
  MaxAttempts = 2
  FaultKinds = {"crash", "expire", "stall", "silent", "lost_begin", "ack", "abort", "unlist", "drop_hash"}
  MaxFaults = 2
  MaxAdds = 2
  None = None
INVARIANTS SentOnce ReportedWasSent DrainedBeforeGone
PROPERTY Resolves
CHECK_DEADLOCK FALSE
