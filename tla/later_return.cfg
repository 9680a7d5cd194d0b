\* A user's Later and one of Autopilot's, a reschedule, a Wake now.
SPECIFICATION LiveSpec
CONSTANTS
  Messages = {m1, m2}
  Laters = {l1, l2}
  AutoLaters = {l2}
  Wakers = {w1}
  Clicks = {c1}
  MaxTime = 2
  MaxAttempts = 2
  FaultKinds = {"crash", "lock_timeout", "lock_lost", "client", "partial", "database", "stop", "ambiguous"}
  MaxFaults = 1
  PromptSync = TRUE
  MaxEdits = 1
  None = None
INVARIANTS
  LaterComesBack
PROPERTIES
  NewerTimerWins
  DueReturns
CHECK_DEADLOCK FALSE
