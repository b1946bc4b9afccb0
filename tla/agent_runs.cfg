SPECIFICATION Spec
CONSTANTS
  None = None
  a1 = a1
  a2 = a2
  pt = pt
  c1 = c1
  c2 = c2
  obs = obs
  Agent = {a1, a2}
  PageTask = {pt}
  PageAgent <- AskedFor
  Client = {c1, c2}
  Request <- Requests3
  Item = {c1, c2}
  Observation = {obs}
  Batch <- Answers2
  MaxTries = 2
SYMMETRY Symmetry
CONSTRAINT AtMostTwo
INVARIANTS
  TypeOK
  OneRowPerObservation
  DoneIsBacked
  LastRecordStands
CHECK_DEADLOCK FALSE
