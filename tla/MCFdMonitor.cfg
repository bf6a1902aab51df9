\* Two captures, one with a child that outlives it; fds may be used again.
SPECIFICATION Spec
CONSTANTS
  Items = {inner, outer}
  Fds = {5, 6}
  NoFd = NoFd
  Lingering = {outer}
  Capacity = 2
  MaxWrites = 2
  MaxDirect = 1
  Limit = 2
INVARIANTS ItemsConsistent CaptureComplete
PROPERTIES WritersFreed
CHECK_DEADLOCK FALSE
