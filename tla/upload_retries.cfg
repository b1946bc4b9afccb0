SPECIFICATION FairSpec
CONSTANTS
  None = None
  h1 = h1
  c1 = c1
  c2 = c2
  s1 = s1
  s2 = s2
  Host = {h1}
  Port = {80}
  Candidate = {c1, c2}
  Shape <- EveryShape
  Scan = {s1, s2}
  Run = {}
  Job = {}
  Artifact <- RichArtifacts
  MaxFindingsPerRecheck = 1
  MaxTries = 2
INVARIANT OwnFindingsNotJudged
PROPERTY EveryPassEnds
CHECK_DEADLOCK FALSE
