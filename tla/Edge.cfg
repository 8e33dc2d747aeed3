SPECIFICATION MCSpec
CONSTANTS
  Gateways = {g1, g2}
  g1 = g1
  g2 = g2
  NoGateway = NoGateway
  Setups <- HostSetups
  MaxQueue = 1
  MaxBurst = 2
  MaxConns = 2
  MaxFrames = 3
  Platforms = {"linux", "darwin", "windows"}
  MaxVersion = 3
INVARIANT WholeStream
INVARIANT NoLeakedNode
PROPERTY QueuedIsWritten
PROPERTY GatewaysKeepApart
PROPERTY FixIsPickedUp
PROPERTY CommandsKeepService
PROPERTY RunsWhatIsInstalled
CHECK_DEADLOCK FALSE
