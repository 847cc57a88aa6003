SPECIFICATION FairSpec
CONSTANTS
  Base = 2
  Wide = 2
  Long = 2
  FormatVersion = 1
  MaximumExtraStateBytes = 1
  Highest = 1
  Default = 0
  Transient = {0}
  NotFinite = {3}
  Magic <- MCMagic
  Ids <- MCIds
  Values <- MCValues
  Extras <- MCExtras
  ForeignFiles <- MCForeignFiles
INVARIANTS
  TypeOK
  SavedFilesAreStates
  LoadIsExact
  RoundTrip
  OnlyRecordsChangeValues
PROPERTIES
  CallsReturn
