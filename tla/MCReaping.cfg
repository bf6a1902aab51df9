SPECIFICATION Spec
CONSTANTS
  first = first
  ls = ls
  printf = printf
  cat = cat
  Jobs = {first}
  Pipeline <- LongPipeline
  External = {ls, cat}
  Background = {}
  Pids = {101, 102}
  None = None
  MaxSignals = 1
  MayDisown = TRUE
INVARIANTS PidsConsistent NoMissedNews ExitAnnouncedOnce
PROPERTIES ForegroundReturns
CHECK_DEADLOCK FALSE
