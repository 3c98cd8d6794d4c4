SPECIFICATION LiveSpec
CONSTANTS
  Cap = 2
  Burst = 2
  RxCap = 3
  TxCap = 1
  Apps = {a}
  Sources = {"s1", "s2"}
  Dests = {"d1", "d2", "p"}
  Private = {"p"}
  UdpCap = 1
  Width = 4
  PrivateNets <- Private4
  Settings <- AllSettings
INVARIANT NothingLost
INVARIANT RemainingDataSent
INVARIANT EventsHaveSockets
INVARIANT HandlesCounted
INVARIANT DatagramsInOrder
INVARIANT PacketsInStep
INVARIANT RoutesAreComplement
PROPERTY EverythingArrives
PROPERTY ClosedIsRemoved
PROPERTY OpenerArrives
