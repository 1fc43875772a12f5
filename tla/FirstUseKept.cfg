SPECIFICATION MCSpec
CONSTANTS
  Peers = {p, q}
  Sizes = {1, 2, 5}
  MaxTotal = 3
  MaxPerPeer = 2
  MaxBytes = 4
  SfTtl = 1
  SfMaxTime = 2
  MaxPackets = 1
  IdProcs = {1, 2}
  IdMaxKeys = 3
  IdMaxLaunches = 1
  IdMaxFaults = 2
  CfgProcs = {1, 2}
  CfgPeers = {"p"}
  CfgPrints = {1, 2}
  CfgPrefs = {"default", "shortened", "long"}
  CfgLong = {"long"}
  CfgDefaultKeys <- MCDefaultKeys
  CfgKeys = {"", "f1", "f2", "x"}
  CfgMaxOps = 4
  DirPeers = {"abc", "q"}
  DirAddrs = {"x", "y"}
  DirNames = {"ab", "n"}
  DirPrefixOf <- MCPrefixOf
  DirMaxOps = 1
  CnNames = {"@", "@peer", "initialize", "connect", "name", "dm", "disconnect", "configure", "exit", "hi"}
  CnMaxLines = 1
  ShSlots = {1, 2, 3}
  ShMaxOps = 1
  Window = 2
  WireSize = 5
  MaxCounter = 1
  MaxKey = 1
INVARIANT FirstUseKept
CHECK_DEADLOCK FALSE
