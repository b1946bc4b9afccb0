SPECIFICATION Spec
CONSTANTS
  None = None
  h1 = h1
  c1 = c1
  c2 = c2
  s1 = s1
  s2 = s2
  Host = {h1}
  Port = {80}
  Candidate = {c1, c2}
  Shape <- ExposedAndPackage
  Scan = {}
  Run = {r1}
  Job = {j1, j2}
  Artifact <- NoArtifacts
  MaxFindingsPerRecheck = 1
  MaxTries = 1
INVARIANT TypeOK
INVARIANT HistoryIsVerifiable
PROPERTY PlatformOnlyCloses
PROPERTY ResolvedOnlyByCoverage
