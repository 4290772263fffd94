SPECIFICATION Spec
CONSTANTS
  NumPorts = 2
  MaxPlugs = 2
  Pads = {a, b}
  NoPad = NoPad
  NoImport = NoImport
  NoLayout = NoLayout
  Imports <- NoImports
  Overlap = FALSE
  SessionHotplug = TRUE
  MaxSessions = 1
  MaxRequests = 0
  MaxProfiles = 0
  MaxLaunches = 0
INVARIANT
  OnePadAtRest
