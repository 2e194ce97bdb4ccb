\* Two probes over two workers and links to any type over one: does every scan answer?
CONSTANTS
  Types <- ThreeTypes
  Hubs = {}
  Expected <- MCExpected
  Core <- MCExpected
  ToS = "tos"
  Privacy = "privacy"
  Disclaimer = "disclaimer"
  Fingerprints <- MCFingerprints
  Templates = {""}
  URLs <- MCURLs
  Pages <- WildcardPages
  Statuses = {200, 429}
  HomeFP = "home"
  NoView = NoView
  Plan <- OneEach
  MaxProbes = 2
  ProbeWorkers = 2
  LinkWorkers = 1
  LinkHits <- OneLink
  NoResponse = NoResponse
SPECIFICATION Spec
PROPERTIES
  ScanAnswers
