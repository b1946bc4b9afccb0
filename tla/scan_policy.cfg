SPECIFICATION Spec
CONSTANTS
  NoHost = "nohost"
  Address <- AllAddresses
  IPv6 <- V6
  Name <- Names
  LocalName <- LocalNames
  Forbidden <- MetadataRange
  Inward <- InwardAddresses
  MaxSweep = 2
  Request = {q1, q2}
  Network <- Networks
  Submitted <- Targets
  MaxScope = 2
  MaxResolved = 2
  Answers <- SomeAnswers
  Call = {c1}
  Asks <- SomeAsks
  Static <- OwnNetworks
  ScanResolves = TRUE
  FetchEnabled = TRUE
  MaxHops = 1
  Locations <- Redirects
  StoredScope <- StoredTables
  MaxAsks = 2
CHECK_DEADLOCK FALSE
INVARIANT TypeOK
INVARIANT NothingUnauthorisedIsReached
INVARIANT ForbiddenStaysOut
INVARIANT FetchesStayOutside
PROPERTY RevocationHolds
