\* One click, two workers, two requests, every fault of the forward path.
SPECIFICATION Spec
CONSTANTS
  Actions = {a1}
  Messages = {m1, m2}
  Workers = {w1, w2}
  Verbs = {"archive"}
  Reaches = {"inbox_only"}
  Wakes = {}
  ChunkMax = 1
  MaxAttempts = 2
  MaxStalls = 1
  FaultKinds = {"crash", "stall", "lock_timeout", "database", "unacked", "client", "refused", "ambiguous", "enqueue", "api_crash"}
  MaxFaults = 2
  MaxFlips = 2
  MayMove = FALSE
  None = None
SYMMETRY Symmetry
INVARIANTS
  TypeOK
  QueuedNeverReachedGmail
  SkipIsTrue
  ChangedIsUndoable
  RecordedOnce
PROPERTIES
  ProtectedMailStays
CHECK_DEADLOCK FALSE
