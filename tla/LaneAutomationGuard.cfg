CONSTANTS
  Steps <- TwoAndOne
  MaxRecovery = 1
  AutoAdvance = TRUE
  Fallbacks = {FALSE}
  Moves <- Ahead
  EchoOverlaps = FALSE
  BoardFull = TRUE
  StartsFail = FALSE
  MaxSessions = 3
  MaxVisits = 2
  MaxEvents = 2
  MaxCalls = 2
SPECIFICATION Spec

PROPERTIES LastStepReached
CHECK_DEADLOCK FALSE
