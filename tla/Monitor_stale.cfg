CONSTANTS
  MaxRows = 3
  TrimSlack = 1
  MaxAppend = 2
  MaxChunk = 0
  MaxRecords = 0
  MaxBuilds = 2
SPECIFICATION FairSpec
PROPERTIES PicksUpRebuild
CHECK_DEADLOCK FALSE
