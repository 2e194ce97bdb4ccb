\* Links to any of four types beside one probe of each unlinked one.
CONSTANTS
  Types <- MCTypes
  Hubs <- MCHubs
  Expected <- MCExpected
  Core <- MCExpected
  ToS = "tos"
  Privacy = "privacy"
  Disclaimer = "disclaimer"
  Fingerprints <- MCFingerprints
  Templates = {""}
  URLs <- MCURLs
  Pages <- LinkPages
  Statuses = {200, 403, 404, 429}
  HomeFP = "home"
  NoView = NoView
  Plan <- OneEach
  MaxProbes = 2
  ProbeWorkers = 1
  LinkWorkers = 2
  LinkHits <- SomeLinks
  NoResponse = NoResponse
SPECIFICATION HSpec
INVARIANTS
  UnseenLinkSurvives
  LimitIsReal
  DeadLinkNotDocument
  ResponseConsistent
PROPERTIES
  ImplementsSearch
