SPECIFICATION ScheduleSpec
CONSTANTS
  Interval = 4
  RetryBase = 1
  MaxJitter = 0
  ServerMax = 6
  MaxTime = 6
  MaxFailures = 2
  MaxReports = 1
  SetBackWhileAnswered = FALSE
  NoCheck = NoCheck
PROPERTIES RetryHonored
CHECK_DEADLOCK FALSE
