SPECIFICATION Spec
CONSTANTS
  Sessions = {s1, s2}
  Columns = {dev}
  Writers = {w1, w2}
  NoSession = NoSession
  Stores = {"neon"}
PROPERTIES
  OnlyOverlapLoses
SYMMETRY Symmetric
CHECK_DEADLOCK FALSE
