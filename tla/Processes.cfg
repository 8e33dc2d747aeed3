SPECIFICATION MCSpec
CONSTANTS
  Agents = {a1}
  ListedAgents = {a1}
  Slots = 1
  MaxCalls = 2
  Keys = {k1, k2}
  Calls = {c1, c2}
  None = None
  Requesters = {q1, q2, q3}
  MaxHistory = 3
  MaxItems = 4
  MaxDrops = 2
  Unnumbered = TRUE
SYMMETRY Symmetry
INVARIANT SparesAccountedFor
INVARIANT WarmNotLost
INVARIANT ReplayIsFaithful
PROPERTY NoBorrowedCancel
CHECK_DEADLOCK FALSE
