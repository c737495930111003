SPECIFICATION FairSpec
CONSTANTS
  d1 = d1
  d2 = d2
  p1 = p1
  p2 = p2
  p3 = p3
  Devices = {d1, d2}
  Ports = {p1, p2}
  NoPort = NoPort
  NoMessage = NoMessage
  Codes = {1, 2}
  ClientCodes = {1, 2}
  MaxReceived = 2
  MaxOpened = 2
INVARIANTS TypeOK WindowBounded FeedbackPending ReplyTarget NoMapRace PortsLive SuccessIsPaired
PROPERTIES WindowSpec WindowCloses FeedbackHides PairingReported ExitUnlessKilledInLock
CHECK_DEADLOCK FALSE
