SPECIFICATION Spec
CONSTANTS
  Null = Null
  Entries <- MCEntries
  Lists <- MCLists
  Blocks <- MCBlocks
  Offsets <- MCOffsets
INVARIANTS
  ConstantDuringSpan
