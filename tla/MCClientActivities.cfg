SPECIFICATION FairSpec
CONSTANTS
  Servers = {s1, s2}
  Codes <- MCCodes
  None = None
  Rejected = Rejected
  Closed = Closed
  MaxActivities = 2
  MaxStack = 4
  MaxKills = 2
INVARIANTS TypeOK CipherUnlessRejected SilentExplained
PROPERTIES SessionSpec AnsweredLeaves
