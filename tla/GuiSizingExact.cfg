SPECIFICATION Spec
CONSTANTS
  Largest = 20
  Scales <- MCDisplayScales
  Sizes <- MCSizes
INVARIANTS
  SetSizeIsExact
