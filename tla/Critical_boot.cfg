CONSTANTS
  Main = main
  i1 = i1
  i2 = i2
  Isrs = {i1, i2}
  Prio <- OnePriority
  MaxDepth = 1
  BootInterrupts = TRUE
  BootMask = FALSE
SPECIFICATION Spec
INVARIANTS NoInterruptDuringBoot
