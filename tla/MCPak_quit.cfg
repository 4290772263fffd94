SPECIFICATION Spec
CONSTANTS
  NumPorts = 1
  NumBlocks = 1
  Data = {0, 1}
  Blank <- MCBlank
  Zeros <- MCZeros
  NoFile = NoFile
  BadFile = BadFile
  Partial = Partial
  Unavailable = Unavailable
  NoReply = NoReply
  Failed = Failed
  Done = Done
  NoRequest = NoRequest
  MaxFaults = 0
  MaxEnds = 1
PROPERTIES
  SurvivesQuit
