SPECIFICATION Spec
CONSTANTS
  None = None
  h1 = h1
  h2 = h2
  h3 = h3
  v1 = v1
  i1 = i1
  i2 = i2
  i3 = i3
  i4 = i4
  Host = {h1, h2, h3}
  Cve = {v1}
  Id = {i1, i2, i3, i4}
  Fact <- SomeFacts
  Marker <- Markers
  Kinds = {"parsed", "provided", "host", "range", "nothing"}
  Answers <- SomeAnswers
  MaxSweepHosts = 2
  MaxExposureLookups = 1
  MaxCveLookups = 1
CHECK_DEADLOCK FALSE
INVARIANT TypeOK
INVARIANT OneFindingPerId
INVARIANT RankedByUrgency
INVARIANT SeverityIsAccountedFor
INVARIANT CleanMeansExamined
