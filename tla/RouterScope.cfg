SPECIFICATION PromptSpec
CONSTANTS
  BurstSz = 2
  MaxConn = 2
  MaxPkt = 4
  ScopeJoins = TRUE
PROPERTY MainLoopStarts
CHECK_DEADLOCK FALSE
