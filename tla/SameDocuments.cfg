\* Two scans of one site: three terms paths, of which the first answers a page
\* that only mentions the terms, the third the terms.
CONSTANTS
  Types <- MCTypes
  Hubs <- MCHubs
  Expected <- MCExpected
  Core <- MCExpected
  ToS = "tos"
  Privacy = "privacy"
  Disclaimer = "disclaimer"
  Fingerprints <- SiteFingerprints
  Templates = {""}
  URLs <- MCURLs
  Pages <- SitePages
  Statuses = {200, 404}
  HomeFP = "home"
  NoView = NoView
  Plan <- ThreeTerms
  MaxProbes = 3
  ProbeWorkers = 2
  LinkWorkers = 2
  LinkHits <- NoLinks
  NoResponse = NoResponse
  Sites <- TermsSite
SPECIFICATION TwiceSpec
INVARIANTS
  SameDocuments
