CONSTANTS
  Settings <- ConnSettings
  Cap = 1
SPECIFICATION LiveSpec
INVARIANTS
  NothingLost
  RemainingDataSent
PROPERTIES
  EverythingArrives
  ClosedIsRemoved
