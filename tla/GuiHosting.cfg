SPECIFICATION HostingFairSpec
CONSTANTS
  Largest = 6
  Scales <- MCScales
  Sizes <- MCSizes
  Delegates = {d1, d2}
  NoDelegate = NoDelegate
  PlugIn = PlugIn
  TimerIds = {1, 2}
  InvalidId = 0
  Layouts <- MCLayouts
INVARIANTS
  TimersOwned
  SizingInv
  ClampIsDefined
  OfferedSizesFit
  SetSizeIsNearlyKept
PROPERTIES
  NoDrift
  TicksReachTheirOwner
  ToolkitIsPumped
