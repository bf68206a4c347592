CONSTANTS
  c1 = c1
  c2 = c2
  Calls <- TwoCalls
  Kinds <- All
  FirstStep = FALSE
  TimerOverlaps = TRUE
  MaxRuns = 3
  MaxEvents = 2
SPECIFICATION Spec
INVARIANTS TypeOK ClaimHeldByOne
CHECK_DEADLOCK FALSE
