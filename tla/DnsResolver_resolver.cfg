CONSTANTS
  Tokens = {t1, t2, t3}
  Domains = {d1, d2}
  Addresses = {a1}
  NoAddress = NoAddress
  NoDomain = NoDomain
  CacheTime = 1
  MaxTime = 2
SPECIFICATION LiveSpec
CHECK_DEADLOCK FALSE
INVARIANTS
  NoLostWakeup
  OneAnswerEach
  AddressesOfTheirDomain
PROPERTIES
  HitIsFresh
  EventuallyTold
