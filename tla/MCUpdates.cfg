SPECIFICATION UpdatesSpec
CONSTANTS
  Workers = {w1, w2}
  QueueLimit = 2
  Lossy = TRUE
  MaxCommands = 3
  MaxFaults = 2
  Interval = 4
  RetryBase = 1
  MaxJitter = 1
  ServerMax = 6
  MaxTime = 8
  MaxFailures = 4
  MaxReports = 1
  SetBackWhileAnswered = FALSE
  Versions = {1, 2, 3, 4, 5}
  MaxRedirects = 2
  MaxCached = 1
  None = None
  NoCheck = NoCheck
INVARIANTS LaunchedOnce OneAtATime NoOrphan
PROPERTIES FetchedSafely NoLaunchAfterCancel InstallAuthorised Answered RetryKept
CHECK_DEADLOCK FALSE
