CONSTANTS
  Sessions = {"p", "q"}
  Plan <- TwoPlans
  PlanTask = "t"
  TaskArgs <- TaskArguments
  Tools = {"w"}
  Judges = {"j"}
  BudgetSpecs <- Budgets
  NoBudget = NoBudget
  BoundedRetry = 1
  Responses <- NodeResponses
  ToolReplies = {"unmarked", "Clean", "Tainted"}
  JudgeReplies <- NodeJudgments
  Verdicts <- NodeVerdicts
  MaxJudges = 2
SPECIFICATION Spec
INVARIANTS
  JudgmentRecorded
  CallsAccounted
  ExternalTaints
PROPERTIES
  SpentIsFrozen
CHECK_DEADLOCK FALSE
