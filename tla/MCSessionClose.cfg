CONSTANTS
  Kinds = {"node.start", "llm.call", "session.close"}
  MaxEvents = 3
  MayDamage = TRUE
SPECIFICATION Spec
INVARIANTS
  VerifiedIsEmitted
  ExitOkMeansSealed
  AuditBacked
CHECK_DEADLOCK FALSE
