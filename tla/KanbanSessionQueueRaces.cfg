CONSTANTS
  c1 = c1  c2 = c2  none = none
  dev = dev  blocked = blocked
  p1 = p1  p2 = p2
  BlockedLane = blocked
  Cards = {c1, c2}
  NoCard = none
  Lanes = {blocked}
  Calls = {p1, p2}
  MaxJobs = 3
  Limits = {1, 2}
  Forced = {FALSE}
  Disturbances = {"limit", "early", "fail", "slow"}
SPECIFICATION Spec
SYMMETRY Symmetry
PROPERTIES StartWithinLimit
INVARIANTS StartedOnce
