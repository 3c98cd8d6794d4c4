CONSTANTS
  MaxIndex = 4
  MaxClients = 2
  Domains = {d1}
  Addresses = {a1}
  NoAddress = NoAddress
  NoDomain = NoDomain
  CacheTime = 1
  MaxTime = 2
SPECIFICATION LiveSpec
CHECK_DEADLOCK FALSE
INVARIANTS
  WaitingIsAsked
  NoStaleAnswer
PROPERTIES
  WaitEnds
