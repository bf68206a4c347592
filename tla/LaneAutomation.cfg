CONSTANTS
  Steps <- TwoEach
  MaxRecovery = 1
  AutoAdvance = TRUE
  Fallbacks = {TRUE, FALSE}
  Moves <- Ahead
  EchoOverlaps = FALSE
  BoardFull = TRUE
  StartsFail = TRUE
  MaxSessions = 3
  MaxVisits = 2
  MaxEvents = 2
  MaxCalls = 2
SPECIFICATION FairSpec
INVARIANTS TypeOK RunsWithinBudget StepsInOrder OneAgent
PROPERTIES InTurnSpared WorktreeLast StartsInLane LaneSettles
CHECK_DEADLOCK FALSE
