SPECIFICATION FairSpec
CONSTANTS
  a = a
  b = b
  None = None
  Commands = {a, b}
  N = 2
  Outcomes = {"ReadyToPublish", "ValidatedConditional", "Failed"}
  OwnerMay = {"commit", "cancel", "resume", "close"}
  MaxFaults = 2
INVARIANTS
  AfterMeansPrepared
PROPERTIES
  ImplementsSaga
  EveryTurnCompletes
  
  PrepareEnds
CHECK_DEADLOCK FALSE
