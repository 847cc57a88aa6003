SPECIFICATION ReloadSpec
CONSTANTS
  Base = 4
  Wide = 1
  Long = 2
  FormatVersion = 1
  MaximumExtraStateBytes = 1
  Highest = 1
  Default = 0
  Transient = {}
  NotFinite = {15}
  Magic <- MCMagic
  Ids <- MCIds
  Values <- MCValues
  Extras <- MCExtras
  ForeignFiles <- MCForeignFiles
INVARIANTS
  HostMissesOnlyFailedLoads
