CONSTANTS
  MaxRows = 3
  TrimSlack = 1
  MaxAppend = 2
  MaxChunk = 2
  MaxRecords = 6
  MaxBuilds = 1
SPECIFICATION FairSpec
INVARIANTS TypeOK Conserved GapsCounted RebuildIsExact CatalogWhole
PROPERTIES Drained ReaderEnds PicksUpRebuild
CHECK_DEADLOCK FALSE
