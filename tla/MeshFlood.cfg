SPECIFICATION FairSpec
CONSTANTS
  Nodes = {"n1", "n2", "n3", "n4"}
  Links <- MCLinks
  Packets <- MCPackets
  Broadcast = "all"
  InitTtl = 5
  MaxRelayTtl = 10
  MaxForgets = 2
  Lossy = TRUE
CHECK_DEADLOCK FALSE
INVARIANTS
  TypeOK
  ProcessedOnce
  
  OwnNeverProcessed
PROPERTIES
  Quiesces
  Reached
