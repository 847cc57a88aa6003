SPECIFICATION FairSpec
CONSTANTS
  Null = Null
  Entries <- MCEntries
  Lists <- MCLists
  Blocks <- MCBlocks
  Offsets <- MCOffsets
INVARIANTS
  TimelineInv
  TelemetryIntoOpenBlock
PROPERTIES
  SampleAccuracy
  ProcessReturns
