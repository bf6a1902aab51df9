SPECIFICATION Spec
CONSTANTS
  Topics = {sigchld, internal_exit}
  Threads = {main, other}
  Posters = {handler, worker}
  NEEDS_WAKEUP = NEEDS_WAKEUP
  NoThread = NoThread
  MaxPosts = 3
INVARIANTS MonitorConsistent
PROPERTIES Promise
CHECK_DEADLOCK FALSE
