CONSTANTS
  a = a
  b = b
  c = c
  Nodes = {a, b, c}
  MaxHandoffs = 4
  PingPongWindow = 2
  BoundedRetry = 1
  MaxRoutes = 6
SPECIFICATION EnvSpec
SYMMETRY NodeSymmetry
INVARIANTS
  NoPingPong
PROPERTIES
  HaltIsFinal
CHECK_DEADLOCK FALSE
