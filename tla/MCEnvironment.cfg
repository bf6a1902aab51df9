\* One variable, set or erased four times, in up to three nested scopes.
SPECIFICATION Spec
SYMMETRY Symmetric
CONSTANTS
  x = x
  v = v
  w = w
  Keys = {x}
  Values = {v, w}
  NoVar = NoVar
  NoArray = NoArray
  MaxDepth = 3
  MaxGen = 5
  MaxUvarGen = 4
  MaxArrays = 1
  MaxChanges = 4
INVARIANTS LookupsConsistent ArrayFresh ExportedIsSeen
PROPERTIES CallKeepsExports
CHECK_DEADLOCK FALSE
