SPECIFICATION Spec
CONSTANTS
  a = a
  b = b
  c = c
  Pads = {a, b, c}
  NumPorts = 2
  kMaxClaims = 2
  Guid <- MCGuid
  Serial <- MCSerial
  Configs <- MCConfigs
  RumblePorts = {0, 1}
  MaxPlugs = 3
  MaxFailures = 0
PROPERTIES
  StopsReachPads
