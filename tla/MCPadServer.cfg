SPECIFICATION AllSpec
CONSTANTS
  f1 = f1
  f2 = f2
  Fingers = {f1, f2}
  NoFinger = NoFinger
  MultiEnabled = TRUE
  Commands = {0}
  MaxNet = 3
INVARIANTS SettledButtonsUp
SYMMETRY Symmetry
CHECK_DEADLOCK FALSE
