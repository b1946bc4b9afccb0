SPECIFICATION Spec
CONSTANTS
  None = None
  Host <- AllHosts
  Looks <- ConfusableLooks
  Script <- LetterScripts
  PublicSuffixes <- TwoLabelSuffixes
  Addresses <- SomeAddresses
  BrandDomains <- ThreeDomains
  MaxDistance = 2
  MinComparable = 4
  Phrase = {"hurry", "login"}
  Technique <- Techniques2
  Alias = {"acme"}
  LocalHosts = {}
  MaxParts = 3
  MaxLinks = 3
  MaxAttachments = 2
  MaxReceived = 2
  MaxBody = 4
  PhraseBook <- Book2
  AliasIndex <- OneAlias
  DomainsOf <- AcmeDomains
  Shorteners <- SomeShorteners
  MaxLabels = 4
  Executable = {".exe"}
  Macro = {".docm"}
  Container = {".zip"}
  Document = {".pdf"}
  ExpectedTypes <- TypesOf
  Mails <- SomeMails
  SubmittedUrls <- SomeUrls
  LongHosts <- LongOnes
  Landing <- Ends
  Answers <- SomeAnswers
  MaxIndicators = 4
  MaxUrls = 2
CHECK_DEADLOCK FALSE
INVARIANT EvidenceIsExact
INVARIANT EnrichmentOnlyAdds
INVARIANT SeverityMatchesEvidence
INVARIANT InjectionIsReported
INVARIANT NothingShownIsLost
INVARIANT LookalikesAreImitations
