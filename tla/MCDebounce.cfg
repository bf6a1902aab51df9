\* Three requests, a timeout, no handler that hangs for good.
SPECIFICATION DebounceSpec
CONSTANTS
  MaxRequests = 3
  HasTimeout = TRUE
  Hanging = {}
INVARIANTS RequestsConsistent NoResultStranded
PROPERTIES TakenInOrder LastDelivered
CHECK_DEADLOCK FALSE
