CONSTANTS
  WordSize = 2
  MaxPacket = 4
  Sample = 4
  Probes = 2
  Lengths = {2, 4, 5}
  StreamLen = 5
  MaxChunk = 3
  Unknown = Unknown
  Start = 1
SPECIFICATION Spec
INVARIANTS StaysInPhase
CHECK_DEADLOCK FALSE
