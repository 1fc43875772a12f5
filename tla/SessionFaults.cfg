SPECIFICATION Spec
CONSTANTS
  Lossy = {"msg3"}
  Faults = {"sendError", "disconnect", "restart", "reset", "slow"}
  Mistrusting = {}
  MaxGen = 3
  MaxTexts = 1
INVARIANTS
  TypeOK
  SameKeys
PROPERTIES
  ChannelSpec
CHECK_DEADLOCK FALSE
