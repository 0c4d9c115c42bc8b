SPECIFICATION Spec
CONSTANTS
  c1 = c1
  x1 = x1
  x2 = x2
  Claude = {c1}
  Codex = {x1, x2}
  Order <- Order3
  FilesCatchUp = 3
  FilesIdle = 3
  ReadBudget = 1
  StatBudget = 2
  DirBudget = 2
  MaxRetries = 3
  Long = 2
  Age0 <- Age3
  Size0 <- Size3
  Stored0 = {c1}
  MaxSize = 1
  MaxWrites = 0
  MaxRefusals = 3
  None = None
PROPERTIES EverythingRead
CHECK_DEADLOCK FALSE
