SPECIFICATION Spec
CONSTANTS
  Procs = {p1, p2}
  Packs = {a, b}
  None = None
  DueTail = 2
  SnapshotLimit = 1
  TailLimit = 2
  MaxRecords = 3
  IoFaults = TRUE
SYMMETRY Symmetric
INVARIANTS
  KnownLocationsReadable
  AckedPacksKept
  MemoryIsAJournalState
  Recoverable
  CorruptionExplained
PROPERTIES
  HeadAdvances
  ImplementsPackStore
