SPECIFICATION MCSpec
CONSTANTS
  Tokens = {t1, t2, t3}
  MaxTokens = 2
  TTL = 3
  SweepEvery = 2
  MaxNow = 8
  Branches = {b1, b2}
  Ops = {o1, o2}
  NoBranch = NoBranch
  MaxCommits = 2
  MaxRows = 2
  Launchers = {l1, l2}
  Kinds = {"raw", "archive", "npm"}
  MaxVersion = 2
  MaxBoots = 2
  Sessions = {s1, s2}
  ToolKinds = {k1}
  MaxTurns = 2
SYMMETRY Symmetry
INVARIANT KeptUntilExpiry
INVARIANT NoWorkLost
INVARIANT WholeUnlessShared
PROPERTY IsOneTime
PROPERTY ProgressIsLive
CHECK_DEADLOCK FALSE
