SPECIFICATION Spec
CONSTANTS
  Ids = {p, meter}
  ReadOnly = {meter}
  Values = {v0, v1}
  Initial = v0
  Events <- MCEvents
  Blank = Blank
  Limit = 2
PROPERTIES
  QueuesTheValueSet
