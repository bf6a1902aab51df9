\* One lingering thread, a limit of two that the urgent items exceed.
SPECIFICATION PoolSpec
CONSTANTS
  Workers = {w1, w2, w3, w4}
  Items = {highlight, suggest, output, error}
  Urgent = {output, error}
  SoftMin = 1
  MaxThreads = 2
INVARIANTS PoolConsistent ThreadPerItem
PROPERTIES AllRun
CHECK_DEADLOCK FALSE
