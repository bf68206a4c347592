CONSTANTS
  none = none  g = g
  d1 = d1  d2 = d2
  NoGroup = none
  NumSteps = 1
  Workflows <- One
  Refs <- NoRefs
  MaxConcurrent = 1
  Dispatchers = {d1}
  MaxSessions = 1
  MaxRestarts = 1
  MaxRequests = 1
  Requests = {"delete", "force", "retry", "edit"}
SPECIFICATION FairSpec
INVARIANTS TypeOK
PROPERTIES RunningEnds
