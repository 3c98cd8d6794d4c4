CONSTANTS
  Size = 3
  MinIndex = 2
  MaxIndex = 9
  Addresses = {"old", "new"}
  MaxDials = 5
  MaxAsked = 9
SPECIFICATION Spec
CHECK_DEADLOCK FALSE
PROPERTY OnlyClosedDropped
