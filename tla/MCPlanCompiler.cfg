CONSTANTS
  Names <- MCNames
  RawPlans <- MCRawPlans
SPECIFICATION Spec
INVARIANTS
  WavesSound
  CycleReal
  ChecksAgree
CHECK_DEADLOCK FALSE
