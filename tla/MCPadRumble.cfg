SPECIFICATION Spec
CONSTANTS
  Handles = {1, 2}
  Adapters = {2}
  MaxLevel = 2
  Step = 2
  Refresh = 2
  SendDuration = 5
  FrameGap = 1
  FrameDelay = 1
  MaxTime = 6
  MaxSwitches = 2
  MaxSeats = 2
  MaxFocus = 1
  MaxFailures = 1
INVARIANTS
  HeldLevelRuns
  SilenceReachesPads
  NewcomerIsTold
  SubsystemBalanced
PROPERTIES
  CountedOnce
CHECK_DEADLOCK FALSE
