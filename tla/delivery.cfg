\* Every Later is carried, and settles, although workers die, requests fail
\* and adds throw.
SPECIFICATION LiveSpec
CONSTANTS
  Actions = {a1}
  Messages = {m1}
  Workers = {w1, w2}
  Verbs = {"later"}
  Reaches = {"inbox_only"}
  Wakes = {t1}
  ChunkMax = 1
  MaxAttempts = 2
  MaxStalls = 2
  FaultKinds = {"crash", "stall", "ambiguous", "enqueue"}
  MaxFaults = 2
  MaxFlips = 1
  MayMove = TRUE
  None = None
INVARIANTS
  ClickIsCarried
PROPERTIES
  EveryClickSettles
CHECK_DEADLOCK FALSE
