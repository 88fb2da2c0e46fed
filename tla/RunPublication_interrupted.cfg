SPECIFICATION Spec
CONSTANTS
  Commands = {a, b}
  None = None
  Settings <- Plain
  Calls = {"publish", "recover"}
  UserMay = {}
  MaxSequence = 8
INVARIANT RecoveryCanGoOn
CHECK_DEADLOCK FALSE
