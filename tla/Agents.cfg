SPECIFICATION MCSpec
CONSTANTS
  NoPrompt = NoPrompt
  Prompts = {p1, p2}
  MaxDelivered = 1
  MaxGen = 2
  MaxRequests = 2
  Chats = {c1, c2}
  Cwds = {d1, d2}
  Nowhere = Nowhere
  MaxOpen = 1
  MaxClients = 2
  MaxIds = 3
  MaxAsks = 2
  Writers = {w1, w2}
  i1 = i1
  i2 = i2
  Slugs <- TwoIds
  Commands = {valid, invalid}
  Invalid = {invalid}
  MaxAgents = 2
  MaxWrites = 2
  Documents = {{"binary", "npx"}}
  Hosts = {{"npm"}}
  None = None
SYMMETRY Symmetry
INVARIANT TurnReportsAreTrue
INVARIANT AskedExactlyOnce
INVARIANT CwdIsItsOwn
INVARIANT CustomAgentsHold
PROPERTY ExecutesOnce
CHECK_DEADLOCK FALSE
