SPECIFICATION Spec
CONSTANTS
  Claude = {c}
  Codex = {}
  Ids = {a}
  MaxAmount = 1
  MonthLength = 2
  FirstDay = 2
  LastDay = 3
  MaxLines = 2
  MaxChanges = 2
  MaxStarts = 1
  MidnightInTick = TRUE
  ExitAfterMidnight = FALSE
  AcrossMonths = FALSE
  None = None
INVARIANTS EachRequestOnce
CHECK_DEADLOCK FALSE
