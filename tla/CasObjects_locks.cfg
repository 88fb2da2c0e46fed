SPECIFICATION Spec
CONSTANTS
  Procs = {p1, p2, p3}
  None = None
SYMMETRY Symmetric
INVARIANTS
  PackedObjectIsFound
  
