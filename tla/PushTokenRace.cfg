\* A device is issued a second token while a push to its first one fails.
SPECIFICATION Spec
CONSTANTS
  Tokens = {t1, t2}
  MaxPushes = 1
INVARIANT EvictsOnlyReported
CHECK_DEADLOCK FALSE
