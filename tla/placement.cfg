\* Deletes at all-mail reach, retried, reviewed and undone, against the sync.
SPECIFICATION Spec
CONSTANTS
  Actions = {a1, a2}
  Messages = {m1, m2}
  Workers = {w1}
  Verbs = {"delete"}
  Reaches = {"all_mail"}
  Wakes = {}
  ChunkMax = 1
  MaxAttempts = 2
  MaxStalls = 1
  FaultKinds = {"refused", "ambiguous", "enqueue", "unacked"}
  MaxFaults = 2
  MaxFlips = 0
  MayMove = FALSE
  None = None
SYMMETRY Symmetry
INVARIANTS
  PlacementIsTrue
  PlacementCovers
  InboxNeverFlooded
  OneAttemptSucceeds
PROPERTIES
  UndoRestoresDelete
CHECK_DEADLOCK FALSE
