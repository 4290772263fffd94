SPECIFICATION FairSpec
CONSTANTS
  MaxPrompts = 3
PROPERTIES
  ClosingAsks
CHECK_DEADLOCK FALSE
