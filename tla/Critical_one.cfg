CONSTANTS
  Main = main
  i1 = i1
  i2 = i2
  Isrs = {i1, i2}
  Prio <- OnePriority
  MaxDepth = 3
  BootInterrupts = FALSE
  BootMask = FALSE
SPECIFICATION FairSpec
INVARIANTS TypeOK MutualExclusion MainProtected Sheltered CountIsNesting
PROPERTIES Unmasks WaitEnds
