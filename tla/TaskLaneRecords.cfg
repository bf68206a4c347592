SPECIFICATION Spec
CONSTANTS
  Sessions = {s1, s2}
  Columns = {dev, review}
  Writers = {w1, w2}
  NoSession = NoSession
  Stores = {"sqlite", "postgres"}
INVARIANTS
  TypeOK
  TriggerDocumented
  
PROPERTIES
  LedgerSpec
SYMMETRY Symmetric
CHECK_DEADLOCK FALSE
