SPECIFICATION FairSpec
CONSTANTS
  Procs = {p1, p2}
  None = None
  manifest = manifest
  blob = blob
  ready = ready
  session = session
  run = run
  Objects <- MCObjects
  Refs <- MCRefs
  Owners <- MCOwners
  LateOwners = {run}
  Target <- MCTarget
INVARIANTS
  RetainedTreesComplete
PROPERTIES
  OnlyGarbageDisappears
  CollectionEnds
