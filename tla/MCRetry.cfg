CONSTANTS
  Nodes <- FanNodes
  Waves <- FanWaves
  Succs <- FanSuccs
  Role <- RetryRole
  Criteria <- FanFull
  Widens <- None
  PreGates <- FanPre
  PostGates <- FanPost
  MaxHandoffs = 20
  PingPongWindow = 8
  BoundedRetry = 2
  Roles = {"r", "s", "t"}
  NoCap = NoCap
  SessionCap = NoCap
  TeamCap = NoCap
  AgentCap <- ZeroCap
  WarnPct = 80
  SuspendPct = 100
  ForkAt = 0
  OriginTurns <- NoOrigin
  Turns <- AllTurns
  ExecFaults <- BothFaults
  Transfers <- Either
  MayViolateCache = TRUE
  MayInterrupt = FALSE
  MayCrash = FALSE
SPECIFICATION Spec
INVARIANTS
  AttemptBound
  FirstCallPreBlocked
CHECK_DEADLOCK FALSE
