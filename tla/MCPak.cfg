SPECIFICATION LiveSpec
CONSTANTS
  NumPorts = 2
  NumBlocks = 1
  Data = {0, 1}
  Blank <- MCBlank
  Zeros <- MCZeros
  NoFile = NoFile
  BadFile = BadFile
  Partial = Partial
  Unavailable = Unavailable
  NoReply = NoReply
  Failed = Failed
  Done = Done
  NoRequest = NoRequest
  MaxFaults = 1
  MaxEnds = 1
INVARIANTS
  CleanMeansSaved
PROPERTIES
  SavesAreWhole
  UnreadablePreserved
  ImplementsStore
  DirtyIsSaved
  Answered
