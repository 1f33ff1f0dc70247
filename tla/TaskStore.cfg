SPECIFICATION Spec
SYMMETRY Symmetry
CONSTANTS
  a = a
  b = b
  c = c
  c1 = c1
  c2 = c2
  i1 = i1
  i2 = i2
  Tasks = {a, b, c}
  Calls = {c1, c2}
  Items = {i1, i2}
  Worlds <- MCWorlds
  Cap = 2
  NoTask = NoTask
CHECK_DEADLOCK FALSE
INVARIANTS
  NobodyIsForgotten
  CyclesNeedTwoEdits
  OnlyLateCriteriaRefuse
PROPERTIES
  StartWasAdmissible
