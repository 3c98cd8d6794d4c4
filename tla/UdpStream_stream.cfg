CONSTANTS
  Packets <- MixedPackets
  MaxPackets = 3
  MAX_PACKET_SIZE = 3
SPECIFICATION Spec
CHECK_DEADLOCK FALSE
INVARIANTS
  TypeOK
  InStep
  IPv4NeverCutOff
