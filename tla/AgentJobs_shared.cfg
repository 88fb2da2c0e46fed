SPECIFICATION Spec
CONSTANTS
  Runs = {p, q}
  None = None
  RepairAttempts = 1
  Expansions = 0
  AuthorCalls = 2
  ReviewerCalls = 2
  FallbackCalls = 0
  Maximum = 2
  StopLoss = 12
  Represented = {}
  Replies = {"proposal", "approve", "reject"}
  Reports = {"unknown", "more"}
  MaxFaults = 1
SYMMETRY Symmetric
INVARIANTS
  SpendBelowStopLoss
  AcceptedIsPublished
PROPERTIES
  PublishedStays
CHECK_DEADLOCK FALSE
