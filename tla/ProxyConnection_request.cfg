CONSTANTS
  Settings <- RequestSettings
  Cap = 1
SPECIFICATION LiveSpec
PROPERTY RequestArrives
