SPECIFICATION DeskSpec
CONSTANTS
  Dpis <- MCDpis
  Desks <- MCDesks
  Contents <- MCContents
  MaxNow = 2
  MaxInputs = 5
  MaxScanInputs = 4
  MaxWait = 4
  MaxAttempts = 3
  MaxRestarts = 2
  MaxSlow = 2
  MaxChanges = 2
  Themes = {"system", "light"}
  Limits = {20, 40}
  Modes = {"dog", "cpu", "claude_week"}
  Loads = {0, 11, 13, 53, 55, 57, 91}
  AppLimits = {40}
  AppLoads = {11, 55}
INVARIANTS CardTrue AppTrue
PROPERTIES DeskSettles IconKept IconFollows NoWobble CardFits
CHECK_DEADLOCK FALSE
