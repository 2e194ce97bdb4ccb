\* Short pages for the two text scanners, competing links for the link scan.
CONSTANTS
  Patterns <- MCPatterns
  Hubs <- MCHubs
  LegalHub = "legal_hub"
  Disclaimer = "disclaimer"
  Hosts <- MCHosts
  BaseHost = "www.shop.example"
  SubdomainOf <- MCSubdomainOf
  Registrable <- MCRegistrable
  Paths <- MCPaths
  Root = "/"
  BarePaths <- MCBarePaths
  PathTypes <- MCPathTypes
  LinkTexts <- MCLinkTexts
  NoText = ""
  TextTypes <- MCTextTypes
  LatinTypes <- MCLatinTypes
  Pages <- MCPages
  MaxPieces = 4
  AnchorTexts <- MCAnchorTexts
  Texts <- VisibleTexts
  Limits = {0, 2}
  Lower <- MCLower
  Orbit <- MCOrbit
  Least <- MCLeast
  Bytes <- MCBytes
  Regexps <- MCRegexps
  Samples <- MCTexts
  MinAnchorBytes = 2
  PrefilterAbove = 2
  TokenLists <- MCTokenLists
  UrlPaths <- MCUrlPaths
SPECIFICATION ReadersSpec
INVARIANTS
  ScannerIsExpression
  ExactlyWhatIsSeen
  WithinLimit
  FirstFooterLinkElseFirst
  OffsiteOnlyByAgreement
  FilterLosesNothing
  SetIsEquivalent
