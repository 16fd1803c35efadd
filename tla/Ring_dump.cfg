CONSTANTS
  Capacity = 4
  Modulus = 12
  Sizes = {1, 2, 3}
  MaxWords = 26
SPECIFICATION Spec
INVARIANTS DumpIsExact RingIsRecent TornByOneWord
