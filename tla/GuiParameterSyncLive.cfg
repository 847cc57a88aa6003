SPECIFICATION FairSpec
CONSTANTS
  Ids = {p}
  ReadOnly = {}
  Values = {v0, v1}
  Initial = v0
  Events <- MCEvents
  Blank = Blank
  Limit = 1
PROPERTIES
  EventualAgreement
  DrainEnds
