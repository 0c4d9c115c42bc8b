SPECIFICATION FilesSpec
CONSTANTS
  Prior = 2
  MaxGeneration = 6
  MaxDamage = 2
  ReadsFail = FALSE
  Damaged = Damaged
  None = None
  MaxSaves = 3
  MaxStarts = 3
  MaxFailures = 2
  MaxLines = 3
  MaxRuns = 4
  MaxFaults = 2
  MaxToken = 4
  MaxLogins = 2
  MaxLost = 1
  DayLength = 1
  MonthLength = 2
  LastTime = 2
  MaxEpoch = 2
  MaxSpent = 1
  Used = {50}
  Plans = {"max"}
  Themes = {"system", "light"}
  Rates = {40}
  Startups = {TRUE, FALSE}
  Modes = {"dog", "cpu"}
  MaxChoices = 2
  MaxSpoilt = 1
INVARIANTS ToldOnce LimitsTrue ShownIsSpent SettingsKept
PROPERTIES AcknowledgedSurvives NeverReused DirectoryMoved
CHECK_DEADLOCK FALSE
