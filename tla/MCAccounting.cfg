SPECIFICATION AccountingSpec
CONSTANTS
  Claude = {c}
  Codex = {}
  Ids = {a}
  MaxAmount = 2
  MonthLength = 2
  FirstDay = 1
  LastDay = 3
  MaxLines = 2
  MaxChanges = 2
  MaxStarts = 2
  MidnightInTick = FALSE
  ExitAfterMidnight = FALSE
  AcrossMonths = FALSE
  Starts <- FiveStarts
  MaxPages = 450
  Moments <- FourMoments
  Offsets <- SixOffsets
  Capacity = 2
  MaxSamples = 3
  MaxResets = 1
  Uptime = 12
  Ticks <- ThreeTicks
  None = None
INVARIANTS TotalsTrue RequestsOnce SameAfterRestart StampIsDay Billed ReadingsTrue
CHECK_DEADLOCK FALSE
