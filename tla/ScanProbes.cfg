\* Two paths for each of two types, of which the cap admits three, over two
\* workers; no links.
CONSTANTS
  Types <- MCTypes
  Hubs <- MCHubs
  Expected <- MCExpected
  Core <- MCExpected
  ToS = "tos"
  Privacy = "privacy"
  Disclaimer = "disclaimer"
  Fingerprints <- MCFingerprints
  Templates <- MCTemplates
  URLs <- MCURLs
  Pages <- ProbePages
  Statuses = {200, 404, 429}
  HomeFP = "home"
  NoView = NoView
  Plan <- TwoOfEach
  MaxProbes = 3
  ProbeWorkers = 2
  LinkWorkers = 2
  LinkHits <- NoLinks
  NoResponse = NoResponse
SPECIFICATION HSpec
INVARIANTS
  TypeOK
  InFlightBound
  NoOrphanWorkers
  KeptIsBest
  CountersAgree
  NoCatchAllDocument
  CompleteUnlessFlagged
  ProbeFiguresAddUp
  SpeculationStops
