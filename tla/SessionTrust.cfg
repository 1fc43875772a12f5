SPECIFICATION Spec
CONSTANTS
  Lossy = {"msg3"}
  Faults = {"disconnect", "restart", "slow"}
  Mistrusting = {1}
  MaxGen = 2
  MaxTexts = 2
INVARIANTS
  
  HandshakesTimed
CHECK_DEADLOCK FALSE
