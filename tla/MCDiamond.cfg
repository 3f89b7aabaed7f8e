CONSTANTS
  Nodes <- DiamondNodes
  Waves <- DiamondWaves
  Succs <- DiamondSuccs
  Role <- DiamondRole
  Criteria <- DiamondFull
  Widens <- None
  PreGates <- DiamondPre
  PostGates <- DiamondPost
  MaxHandoffs = 20
  PingPongWindow = 8
  BoundedRetry = 1
  Roles = {"r", "s"}
  NoCap = NoCap
  SessionCap = 7
  TeamCap = NoCap
  AgentCap <- Uncapped
  WarnPct = 80
  SuspendPct = 100
  ForkAt = 0
  OriginTurns <- NoOrigin
  Turns <- MixedTurns
  ExecFaults <- OneFault
  Transfers <- Always
  MayViolateCache = FALSE
  MayInterrupt = TRUE
  MayCrash = TRUE
SPECIFICATION FairSpec
INVARIANTS
  EngineInStep
  CommitOrder
  CommitBacked
  ResponseWindow
  RoutedOnce
  NodeBrackets
  CompletedMeansAll
  InterruptStops
  MarkersRight
  EndReported
  OverBudgetStops
PROPERTIES
  KeepsPromise
  Terminates
CHECK_DEADLOCK FALSE
