CONSTANTS
  Settings <- SafetySettings
  Malformed = {3}
  Cap = 1
SPECIFICATION Spec
INVARIANTS
  NothingLost
  RemainingDataSent
PROPERTY Backpressure
