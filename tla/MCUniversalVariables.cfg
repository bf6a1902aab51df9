\* Two shells, of which one may be of a later version; two changes of the two
\* variables, one tick of the clock and one fault at any system call.
SPECIFICATION Spec
CONSTANTS
  Shells = {s1, s2}
  u = u
  v = v
  s1 = s1
  s2 = s2
  Vars <- MCVars
  Values = {1}
  Unset = Unset
  Inodes = {1, 2, 3, 4, 5}
  NoFile = NoFile
  Starts <- MCStarts
  MaxTime = 1
  MaxSets = 2
  MaxFaults = 1
INVARIANTS TablesConsistent IdentityTellsContent
PROPERTIES SharedFile LaterFormatKept Converge
CHECK_DEADLOCK FALSE
