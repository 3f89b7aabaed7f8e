CONSTANTS
  Procs = {p1, p2, p3}
  Cases <- MCCases
  Suites <- MCSuites
  Events <- MCEvents
  Traces <- MCTraces
  Sound = {"s1", "s2"}
SPECIFICATION Spec
SYMMETRY Symmetry
INVARIANTS
  ExitBand
  ApprovalsKept
  JudgedWhole
CHECK_DEADLOCK FALSE
