CONSTANTS
  Procs = {p1, p2, p3}
  Overlap = {TRUE, FALSE}
  MaxEvents = 2
SPECIFICATION Spec
SYMMETRY ProcSymmetry
INVARIANTS
  ForeignKept
  BlockedOnlyByCrash
  OneWriterUnlessCleared
PROPERTIES
  FreshFork
CHECK_DEADLOCK FALSE
