SPECIFICATION SpecMatching
CONSTANTS
  CVEs = {1, 2, 3, 4}
  Files <- MCFiles
  Fingerprints <- MCFingerprints
  AliasOf <- MCAliasOf
  Naming <- MCNaming
  Known <- MCKnown
  Reference <- MCReference
  Exploited <- MCExploited
  Likelihood <- MCLikelihood
  Indexed <- MCIndexed
  Rank <- MCRank
  Limit = 4
  MaxStatements = 3
  BatchSize = 2
  MinConfidence = 45
  MaxLeads = 2
  StaleAfter = 1
  MajorDigits = 9
  MaxDay = 4
  MaxFiles = 2
INVARIANT LookupIsExact
INVARIANT NoLeadsIsExplained
INVARIANT ExploitedIsKept
CHECK_DEADLOCK FALSE
