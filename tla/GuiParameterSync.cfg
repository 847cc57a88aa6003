SPECIFICATION Spec
CONSTANTS
  Ids = {p}
  ReadOnly = {}
  Values = {v0, v1}
  Initial = v0
  Events <- MCEvents
  Blank = Blank
  Limit = 2
INVARIANTS
  TypeOK
  Agreement
  GesturesPaired
  NoForgottenEvent
