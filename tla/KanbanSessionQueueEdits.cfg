CONSTANTS
  c1 = c1  c2 = c2  none = none
  dev = dev  blocked = blocked
  p1 = p1  p2 = p2
  BlockedLane = blocked
  Cards = {c1, c2}
  NoCard = none
  Lanes = {dev, blocked}
  Calls = {p1, p2}
  MaxJobs = 2
  Limits = {1}
  Forced = {FALSE}
  Disturbances = {"move", "delete", "cleanup", "again"}
SPECIFICATION Spec
SYMMETRY Symmetry
INVARIANTS TypeOK
PROPERTIES StartWithinLimit
