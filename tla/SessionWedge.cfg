SPECIFICATION FairSpec
CONSTANTS
  Lossy = {"msg3"}
  Faults = {}
  Mistrusting = {}
  MaxGen = 2
  MaxTexts = 2
PROPERTY QueueDrains
CHECK_DEADLOCK FALSE
