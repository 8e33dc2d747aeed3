SPECIFICATION MCSpec
CONSTANTS
  Sessions = {s1, s2}
  Devices = {d1}
  MaxPerDevice = 1
  Handlers = {h1, h2}
  MaxGen = 3
  MaxBoots = 1
  StoreMayFail = FALSE
  None = None
SYMMETRY Symmetry
INVARIANT FenceHolds
INVARIANT ActiveHasHandler
INVARIANT ExitLeavesNoSession
INVARIANT NoLeakedProcess
INVARIANT RowsAreTrue
INVARIANT QuotaHeld
INVARIANT ReapedIsIdle
CHECK_DEADLOCK FALSE
