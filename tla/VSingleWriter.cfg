CONSTANTS
  Procs = {p1, p2}
  Overlap = {TRUE}
  MaxEvents = 2
SPECIFICATION Spec
SYMMETRY ProcSymmetry
INVARIANT
  SingleWriter
CHECK_DEADLOCK FALSE
