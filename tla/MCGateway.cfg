CONSTANTS
  Clients = {"c"}
  Kinds <- EventsOfSession
  MaxEvents = 5
  EventsLimit = 2
  FanoutCapacity = 2
  SocketCapacity = 1
SPECIFICATION FairSpec
INVARIANTS
  MissesOnlyWindow
  ViewsAgree
PROPERTIES
  Reaches
CHECK_DEADLOCK FALSE
