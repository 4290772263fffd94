SPECIFICATION Spec
CONSTANTS
  NumPorts = 2
  MaxPlugs = 3
  Pads = {a, b}
  NoPad = NoPad
  NoImport = NoImport
  NoLayout = NoLayout
  Imports <- MCImports
  Overlap = FALSE
  SessionHotplug = FALSE
  MaxSessions = 1
  MaxRequests = 1
  MaxProfiles = 0
  MaxLaunches = 1
INVARIANTS
  PlayersTypeOK
  OnePadOnePort
  ReservedPadsSeated
  LayoutRestored
  ChangedSeatsStay
  PadsSeated
  JoinersSound
PROPERTIES
  SurvivorsStay
