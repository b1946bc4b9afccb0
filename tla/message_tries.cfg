SPECIFICATION Spec
CONSTANTS
  None = None
  m2 = m2
  u1 = u1
  k1 = k1
  k2 = k2
  Item = {u1, m2}
  MaxTries = 3
  Url = {u1}
  Unparseable = {m2}
  Key = {k1, k2}
  Batches <- Answers
CHECK_DEADLOCK FALSE
INVARIANT TypeOK
INVARIANT VerdictOnlyIfAnalysed
INVARIANT FirstTryVerdictIsExact
PROPERTY FollowsLifecycle
