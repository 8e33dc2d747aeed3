\* Two launches of one raw-binary agent download it at the same time.
SPECIFICATION InstSpec
CONSTANTS
  Launchers = {l1, l2}
  Kinds = {"raw"}
  MaxVersion = 2
  MaxBoots = 2
INVARIANT LaunchedIsWhole
CHECK_DEADLOCK FALSE
