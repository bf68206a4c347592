CONSTANTS
  none = none  g = g
  d1 = d1  d2 = d2
  NoGroup = none
  NumSteps = 2
  Workflows <- ChainOrPair
  Refs <- RefsToFirst
  MaxConcurrent = 1
  Dispatchers = {d1}
  MaxSessions = 2
  MaxRestarts = 0
  MaxRequests = 0
  Requests = {}
SPECIFICATION Spec
INVARIANTS ConcurrencyLimit
PROPERTIES StepsInOrder
