SPECIFICATION FairSpec
CONSTANTS
  Looks = {dog, text}
  DefaultLook = dog
  None = None
  MaxOperation = 2
  MaxGeneration = 2
  FaultyOps <- RollbackFails
INVARIANTS
  FailedLeavesPrevious
