CONSTANTS
  Sources = {"s1", "s2"}
  Addresses = {"a1", "a2"}
  MaxDatagrams = 3
  Settings <- UdpSettings
  Cap = 1
SPECIFICATION LiveSpec
INVARIANTS
  DatagramsInOrder
  RepliesFromTheirAddress
PROPERTIES
  ClosedIsRemoved
  DatagramsArrive
