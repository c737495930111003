SPECIFICATION FairSpec
CONSTANTS
  d1 = d1
  d2 = d2
  p1 = p1
  p2 = p2
  p3 = p3
  Devices = {d1}
  Ports = {p1, p2}
  NoPort = NoPort
  NoMessage = NoMessage
  Codes = {1, 2}
  ClientCodes = {1, 2}
  MaxReceived = 2
  MaxOpened = 1
PROPERTIES ExitReleases
CHECK_DEADLOCK FALSE
