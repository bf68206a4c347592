CONSTANTS
  c1 = c1
  c2 = c2
  Calls <- TwoCalls
  Kinds <- All
  FirstStep = TRUE
  TimerOverlaps = FALSE
  MaxRuns = 3
  MaxEvents = 2
SPECIFICATION FairSpec
INVARIANT OneAgent
PROPERTIES ResumesInterrupted RerunHappens
CHECK_DEADLOCK FALSE
