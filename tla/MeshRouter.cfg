SPECIFICATION Spec
CONSTANTS
  Ids <- MCIds
  PeerAt <- MCPeerAt
  Self = "me"
  Broadcast = "everyone"
  Senders = {"alice", "bob"}
  Addresses = {"addrA"}
  Ttls = {0, 1, 2}
  MaxTtl = 2
  MaxRelayTtl = 2
  MaxEntries = 2
  Ttl = 1
  StepBack = 1
  MaxTime = 2
  MaxLog = 3
  RateLimit = 2
  RateWindow = 1
  LimiterCap = 1
  MaxRoutes = 2
  RouteTtl = 1
  MaxTasks = 1
INVARIANTS
  ExactMemory
  RouterSafe
PROPERTIES
  ShorterRouteWithRoom
