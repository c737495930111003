SPECIFICATION Spec
CONSTANTS
  f1 = f1
  f2 = f2
  f3 = f3
  Fingers = {f1, f2, f3}
  NoFinger = NoFinger
  MultiEnabled = TRUE
  Commands = {0, 3}
INVARIANTS TypeOK NoJump ClickOnLift RightClickIsTwo
PROPERTIES LaterTapClicks
CHECK_DEADLOCK FALSE
