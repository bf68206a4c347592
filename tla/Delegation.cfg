CONSTANTS
  c1 = c1
  c2 = c2
  c3 = c3
  Child = {c1, c2}
  NoGroup = NoGroup
  User = User
  Setups <- MixedSetups
  ParentKinds = {TRUE, FALSE}
  WakesFail = TRUE
SPECIFICATION FairSpec
INVARIANTS TypeOK HandledOnce WokenForEnded ReportStands ActiveGroupExists
PROPERTY EndedIsTold
