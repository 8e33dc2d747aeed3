\* An attach races a crash or a close.
SPECIFICATION Spec
CONSTANTS
    Sessions = {s1}
    Devices = {d1}
    MaxPerDevice = 1
    Handlers = {h1}
    MaxGen = 1
    MaxBoots = 0
    StoreMayFail = FALSE
    None = None
INVARIANT ReclaimedRowIsGone
CHECK_DEADLOCK FALSE
