SPECIFICATION MCSpec
CONSTANTS
  DiscPeers = {"me", "me2", "p"}
  DiscIds = {"me", "me2"}
  DiscIps = {"loop", "x", "y"}
  DiscPorts = {1}
  DiscMetas = {"n"}
  OwnPort = 1
  BeaconInterval = 1
  DiscMaxAge = 2
  DiscRate = 2
  DiscWindow = 1
  DiscTrackedIps = 1
  DiscMaxTime = 3
  DiscMaxBeacons = 4
  MaxLinks = 2
  MaxConnections = 2
  MaxBreaks = 1
  KeepsBlind = {1}
  SrvMaxBackends = 3
  SrvAdapters = {1, 2}
  WirePayloads <- MCWirePayloads
  WireForeign <- MCWireForeign
  WireBlocks <- MCWireBlocks
  WireMaxFrame = 8
  WireOverhead = 1
  WireMaxPad = 4
  WireReadSize = 16
  WireMaxSends = 2
  Messages <- MCThree
  Strays <- MCStrays
  Length <- MCLength
  MaxAssemblies = 2
  MaxFragments = 3
  ReMaxBytes = 3
  MaxAge = 0
  ReMaxTime = 1
INVARIANTS
  DiscSafe
  
  
  
  ReSafe
CHECK_DEADLOCK FALSE
