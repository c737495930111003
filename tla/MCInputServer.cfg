SPECIFICATION Spec
CONSTANTS
  Controls <- MCControls
  Metas = {0}
INVARIANTS TypeOK ExitReleasesPrinting
CHECK_DEADLOCK FALSE
