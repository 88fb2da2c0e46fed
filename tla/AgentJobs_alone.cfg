SPECIFICATION FairSpec
CONSTANTS
  Runs = {p}
  None = None
  RepairAttempts = 1
  Expansions = 1
  AuthorCalls = 3
  ReviewerCalls = 5
  FallbackCalls = 1
  Maximum = 2
  StopLoss = 30
  Represented = {"reviewer"}
  Replies = {"proposal", "approve", "reject", "expand", "invalid"}
  Reports = {"less"}
  MaxFaults = 2
INVARIANTS
  RepliesBoughtOnce
  BooksAgree
  ApprovedBeforePublished
  FailedRunsHoldNothing
  EnoughCalls
PROPERTIES
  CommandsEnd
CHECK_DEADLOCK FALSE
