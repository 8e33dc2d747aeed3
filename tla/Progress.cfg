SPECIFICATION MCSpec
CONSTANTS
  Sessions = {s1}
  Devices = {d1}
  MaxPerDevice = 1
  Handlers = {h1}
  MaxGen = 2
  MaxBoots = 0
  StoreMayFail = FALSE
  None = None
  NoPrompt = NoPrompt
  Prompts = {p1}
PROPERTY SessionsProgress
PROPERTY PromptsSettle
PROPERTY ReattachCompletes
CHECK_DEADLOCK FALSE
