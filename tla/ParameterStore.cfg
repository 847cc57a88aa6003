SPECIFICATION Spec
CONSTANTS
  NaN = NaN
  PosInf = PosInf
  NegInf = NegInf
  Ids <- MCIds
  InvalidId = InvalidId
  Specs <- MCSpecs
  InputEvents <- MCInputEvents
  Values <- MCValues
  TypedTexts <- MCTypedTexts
  ForeignStates <- MCForeignStates
INVARIANTS
  StoreInv
  EffectiveInRange
  TextShowsValue
PROPERTIES
  ReadOnlyIsPluginOwned
  RestoreIsExact
