SPECIFICATION Spec
CONSTANTS
  Texts <- MCTexts
  MaxEdits = 2
  MaxNet = 4
INVARIANTS PlainPrinted SettledKeysUp
