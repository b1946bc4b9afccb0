SPECIFICATION FairSpec
CONSTANTS
  None = None
  h1 = h1
  h2 = h2
  h3 = h3
  c1 = c1
  c2 = c2
  c3 = c3
  Host = {h1, h2, h3}
  Port = {7, 80, 443}
  Candidate = {c1, c2, c3}
  Requests <- ThreeRequests
  About <- MarksAndService
  Silences <- SomeSilences
  MaxTargets = 2
  MaxPortsPerTarget = 2
  MaxSpecLength = 4
INVARIANT TypeOK
INVARIANT AnswerIsEngineReport
INVARIANT OnlyReadScansCover
INVARIANT ScannedPortsAreReportedTruly
PROPERTY EveryRequestEnds
