CONSTANTS
  None = None
  Junk = Junk
  Period = 3
  Restarts = 2
SPECIFICATION FairSpec
INVARIANTS FlashKeepsUp DrainedIsOut InPlace TicksAtRate
PROPERTIES PllUndisturbed ImplementsLink Heard ReachesLoop
