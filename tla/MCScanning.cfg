SPECIFICATION ScanningSpec
CONSTANTS
  c1 = c1
  x1 = x1
  x2 = x2
  Claude = {c1}
  Codex = {x1, x2}
  Order <- Order3
  FilesCatchUp = 3
  FilesIdle = 3
  ReadBudget = 1
  StatBudget = 2
  DirBudget = 2
  MaxRetries = 3
  Long = 2
  Age0 <- Age3
  Size0 <- Size3
  Stored0 = {c1}
  MaxSize = 2
  MaxWrites = 2
  MaxRefusals = 3
  None = None
  MaxLine = 2
  MaxSkip = 2
  TickLimit = 3
  MaxFailures = 2
  MaxBytes = 6
  MaxRefused = 1
  MaxStarts = 1
  Slots = {claude, codex}
  BackoffInitial = 1
  BackoffMax = 3
  MaxGeneration = 3
  Empty = Empty
INVARIANTS QueuesTrue TakenExactly CurrentIsHonest
PROPERTIES AllRead CaughtUp NoOutcomeLost OnlyNewestShown Released
CHECK_DEADLOCK FALSE
