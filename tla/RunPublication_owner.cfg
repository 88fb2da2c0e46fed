SPECIFICATION FairSpec
CONSTANTS
  Commands = {a, b}
  None = None
  Settings <- AllSettings
  Calls = {"publish", "recover", "cancel", "resume"}
  UserMay = {"commit", "edit", "restore"}
  MaxSequence = 7
INVARIANTS
  PublishedMeansMoved
  ApprovalFirst
PROPERTIES
  UserCommitKept
  CommandsEnd
CHECK_DEADLOCK FALSE
