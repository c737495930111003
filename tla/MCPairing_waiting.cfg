SPECIFICATION Spec
CONSTANTS
  d1 = d1
  d2 = d2
  p1 = p1
  p2 = p2
  p3 = p3
  Devices = {d1}
  Ports = {p1, p2}
  NoPort = NoPort
  NoMessage = NoMessage
  Codes = {1, 2}
  ClientCodes = {0, 1}
  MaxReceived = 2
  MaxOpened = 2
PROPERTIES AcceptedWhileWaiting
CHECK_DEADLOCK FALSE
