SPECIFICATION FairSpec
CONSTANTS
  Looks = {dog, text}
  DefaultLook = dog
  None = None
  MaxOperation = 3
  MaxGeneration = 4
  FaultyOps <- RecoverableFails
INVARIANTS FailedLeavesPrevious RunEntryAgrees
PROPERTIES ImplementsAtomic Settles
