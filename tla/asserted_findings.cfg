SPECIFICATION Spec
CONSTANTS
  None = None
  h1 = h1
  h2 = h2
  h3 = h3
  c1 = c1
  c2 = c2
  c3 = c3
  Host = {h1}
  Port = {7}
  Candidate = {c1, c2}
  Requests <- OneRequest
  About <- ServiceAndAssertion
  Silences <- SomeSilences
  MaxTargets = 2
  MaxPortsPerTarget = 1
  MaxSpecLength = 1
INVARIANT AssertedFindingsAreRechecked
