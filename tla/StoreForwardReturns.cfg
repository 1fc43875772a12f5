SPECIFICATION SfFairSpec
CONSTANTS
  Peers = {p, q}
  Sizes = {1}
  MaxTotal = 2
  MaxPerPeer = 2
  MaxBytes = 8
  SfTtl = 1
  SfMaxTime = 1
  MaxPackets = 5
PROPERTY EnqueueReturns
