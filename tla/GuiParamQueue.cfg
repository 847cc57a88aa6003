SPECIFICATION FairSpec
CONSTANTS
  Capacity = 4
  Events = {e1, e2}
  Blank = Blank
INVARIANTS
  QueueInv
  RaceFree
PROPERTIES
  FifoRefinement
  NoEventStranded
CHECK_DEADLOCK TRUE
