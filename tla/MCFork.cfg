CONSTANTS
  Nodes <- TailNodes
  Waves <- TailWaves
  Succs <- TailSuccs
  Role <- TailRole
  Criteria <- TailFull
  Widens <- None
  PreGates <- TailPre
  PostGates <- TailPost
  MaxHandoffs = 5
  PingPongWindow = 8
  BoundedRetry = 1
  Roles = {"r", "s"}
  NoCap = NoCap
  SessionCap = NoCap
  TeamCap = NoCap
  AgentCap <- Uncapped
  WarnPct = 80
  SuspendPct = 100
  ForkAt = 2
  OriginTurns <- Origin
  Turns <- RoutedTurns
  ExecFaults <- OneFault
  Transfers <- Always
  MayViolateCache = FALSE
  MayInterrupt = FALSE
  MayCrash = TRUE
SPECIFICATION Spec
INVARIANTS
  TaintFlows
  ReplayedPrefix
CHECK_DEADLOCK FALSE
