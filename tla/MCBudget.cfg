CONSTANTS
  Nodes <- FanNodes
  Waves <- FanWaves
  Succs <- FanSuccs
  Role <- FanRole
  Criteria <- FanFull
  Widens <- None
  PreGates <- GatedPre
  PostGates <- GatedPost
  MaxHandoffs = 20
  PingPongWindow = 8
  BoundedRetry = 1
  Roles = {"r", "s"}
  NoCap = NoCap
  SessionCap = 6
  TeamCap = 5
  AgentCap <- AgentCaps
  WarnPct = 50
  SuspendPct = 100
  ForkAt = 0
  OriginTurns <- NoOrigin
  Turns <- SizedTurns
  ExecFaults <- OneFault
  Transfers <- Always
  MayViolateCache = FALSE
  MayInterrupt = FALSE
  MayCrash = FALSE
SPECIFICATION Spec
INVARIANTS
  LedgerMatchesTrace
CHECK_DEADLOCK FALSE
