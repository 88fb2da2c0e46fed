SPECIFICATION Spec
CONSTANTS
  Procs = {p1, p2}
  Packs = {a, b}
  None = None
  DueTail = 2
  SnapshotLimit = 1
  TailLimit = 3
  MaxRecords = 4
  IoFaults = FALSE
SYMMETRY Symmetric
INVARIANTS
  CrashOrphansNeverBlockSync
