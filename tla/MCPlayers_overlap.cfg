SPECIFICATION FairSpec
CONSTANTS
  NumPorts = 2
  MaxPlugs = 1
  Pads = {a}
  NoPad = NoPad
  NoImport = NoImport
  NoLayout = NoLayout
  Imports <- NoImports
  Overlap = TRUE
  SessionHotplug = TRUE
  MaxSessions = 1
  MaxRequests = 1
  MaxProfiles = 1
  MaxLaunches = 0
INVARIANTS
  JoinOrderFollows
PROPERTIES
  Settles
