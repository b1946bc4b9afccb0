SPECIFICATION FairSpec
CONSTANTS
  s1 = s1
  s2 = s2
  k1 = k1
  k2 = k2
  k3 = k3
  Item = {s1, s2}
  MaxTries = 3
  Unparseable = {s2}
  Key = {k1, k2, k3}
  Batches <- Answers
CHECK_DEADLOCK FALSE
INVARIANT TypeOK
INVARIANT CompletedHasItsFindings
INVARIANT FirstTryIsExact
PROPERTY FollowsLifecycle
PROPERTY EveryJobEnds
