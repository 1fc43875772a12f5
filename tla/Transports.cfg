SPECIFICATION MCSpec
CONSTANTS
  LanTasks = {"a", "b"}
  LanMaxSockets = 3
  LanMaxFlips = 2
  LanMaxOps = 4
  BtRoleSets = {{}, {"central"}, {"peripheral"}, {"central", "peripheral"}}
  BtMaxFlips = 2
  BtMaxOps = 3
  BleMaxLinks = 3
  BleQueueMax = 1
  LcMaxOps = 4
  LcMaxLosses = 2
INVARIANTS
  LanSafe
  BtSafe
  
  LcSafe
PROPERTIES
  LanSettles
  BtSettles
  
  LcSettles
CHECK_DEADLOCK FALSE
