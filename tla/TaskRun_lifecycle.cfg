SPECIFICATION Spec
CONSTANTS
  Commands = {a, b}
  Executors = {d, e}
  None = None
  Usages <- Lives
  Outcomes = {"ReadyToPublish", "ValidatedConditional"}
  MaxSequence = 5
INVARIANTS
  ReadyMeansPrepared
  ClosedMeansInactive
  
SYMMETRY Symmetric
