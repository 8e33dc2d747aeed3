\* Two chats of one agent process, one of which ends its turn under the other's call.
SPECIFICATION PushSpec
CONSTANTS
  Sessions = {c1, c2}
  ToolKinds = {k1}
  MaxTurns = 2
INVARIANT ProgressNamesACall
CHECK_DEADLOCK FALSE
