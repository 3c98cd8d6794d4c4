CONSTANTS
  Settings <- LiveSettings
  Malformed = {}
  Cap = 1
SPECIFICATION LiveSpec
PROPERTIES
  EverythingArrives
  ClosedIsRemoved
