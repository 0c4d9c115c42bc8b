SPECIFICATION Spec
CONSTANTS
  QuickClicks = FALSE
  MenusFail = FALSE
  MaxInputs = 2
PROPERTIES NoneLeft
CHECK_DEADLOCK FALSE
