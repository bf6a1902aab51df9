\* Two shells, two commands, two other operations or one of them and a fault.
SPECIFICATION Spec
SYMMETRY Symmetric
CONSTANTS
  s1 = s1
  s2 = s2
  a = a
  b = b
  Shells = {s1, s2}
  Texts = {a, b}
  NoFile = NoFile
  MaxTime = 2
  MaxAdds = 2
  MaxOps = 2
  MaxFaults = 1
  MaxInodes = 8
INVARIANTS UnwrittenExact WrittenKept OwnItemsOnce QuiescentSaved
CHECK_DEADLOCK FALSE
