SPECIFICATION LiveSpec
CONSTANTS
  Requests = {k1, k2}
  HasMailto = TRUE
  Bulk = {}
  Autopilot = {k2}
  Runs = {r1, r2}
  MaxAttempts = 2
  MaxStalls = 1
  FaultKinds = {"network", "db", "crash", "stall", "api", "add", "landed", "redeliver"}
  MaxFaults = 1
  MaxFlips = 1
  MaxActive = 1
  None = None
INVARIANTS AcceptedWasHeard ConsentCoversProtection OutcomeLoggedOnce
PROPERTIES RecordedIsFinal 
CHECK_DEADLOCK FALSE
