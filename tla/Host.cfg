SPECIFICATION MCSpec
CONSTANTS
  Peers = {p, q}
  Sizes = {1, 2, 5}
  MaxTotal = 3
  MaxPerPeer = 2
  MaxBytes = 4
  SfTtl = 1
  SfMaxTime = 2
  MaxPackets = 5
  IdProcs = {1, 2}
  IdMaxKeys = 3
  IdMaxLaunches = 4
  IdMaxFaults = 2
  CfgProcs = {1, 2}
  CfgPeers = {"p"}
  CfgPrints = {1, 2}
  CfgPrefs = {"default", "shortened", "long"}
  CfgLong = {"long"}
  CfgDefaultKeys <- MCDefaultKeys
  CfgKeys = {"", "f1", "f2", "x"}
  CfgMaxOps = 4
  DirPeers = {"abc", "q"}
  DirAddrs = {"x", "y"}
  DirNames = {"ab", "n"}
  DirPrefixOf <- MCPrefixOf
  DirMaxOps = 5
  CnNames = {"@", "@peer", "initialize", "connect", "name", "dm", "disconnect", "configure", "exit", "hi"}
  CnMaxLines = 4
  ShSlots = {1, 2, 3}
  ShMaxOps = 4
  Window = 2
  WireSize = 5
  MaxCounter = 6
  MaxKey = 2
INVARIANTS
  TypeOK
  NoReplay
  WindowBounded
  FreshAccepted
  InOrder
  SfSafe
  IdSafe
  CfgSafe
  
  CnSafe
  ShSafe
PROPERTIES
  FilterSpec
CHECK_DEADLOCK FALSE
