SPECIFICATION Spec
CONSTANTS
  Bytes = {0, 254}
  NoOp = NoOp
  GamePorts = {0, 3}
  PlayerPorts = {3}
  SiCapacity = 2
INVARIANTS
  TypeOK
  NoPlaceholders
  ReceiveNeverBlocks
PROPERTIES
  ImplementsAccessories
