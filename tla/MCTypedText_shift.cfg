SPECIFICATION Spec
CONSTANTS
  Texts <- MCTexts
  MaxEdits = 1
  MaxNet = 4
PROPERTIES HeadsUpPrintsNothing
