SPECIFICATION Spec
CONSTANTS
  Workers = {w1, w2}
  QueueLimit = 2
  Lossy = FALSE
  MaxCommands = 2
  MaxFaults = 1
  None = None
SYMMETRY WorkerSymmetry
INVARIANTS FailureCountedOnce
CHECK_DEADLOCK FALSE
