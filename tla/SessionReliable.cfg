SPECIFICATION FairSpec
CONSTANTS
  Lossy = {}
  Faults = {}
  Mistrusting = {}
  MaxGen = 1
  MaxTexts = 2
PROPERTY AllArrive
CHECK_DEADLOCK FALSE
