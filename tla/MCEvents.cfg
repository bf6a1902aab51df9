\* Two signals, of which one has two handlers, and a handler of an exit.
SPECIFICATION Spec
CONSTANTS
  usr1 = usr1
  winch = winch
  columns = columns
  exit_P = exit_P
  on_usr1 = on_usr1
  on_winch = on_winch
  also_usr1 = also_usr1
  after_P = after_P
  also_after_P = also_after_P
  SignalOrder <- Order
  Winch = winch
  Handlers = {on_usr1, on_winch, also_usr1, after_P}
  Desc <- Descs
  OneShot = {after_P}
  Named = {columns}
  Exits = {exit_P}
  None = None
  MaxOps = 3
  MaxMarks = 2
  MaxInts = 1
INVARIANTS NothingForgotten NoSelfDeadlock
PROPERTIES RemovedStaysQuiet EventsDelivered
CHECK_DEADLOCK FALSE
