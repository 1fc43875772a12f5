SPECIFICATION FairSpec
CONSTANTS
  Lossy = {}
  Faults = {"sendError"}
  Mistrusting = {}
  MaxGen = 1
  MaxTexts = 2
PROPERTY EstablishedFlushes
CHECK_DEADLOCK FALSE
