\* Sites with two paths for the terms and one for the privacy policy, of which
\* any types are linked.
CONSTANTS
  Types <- MCTypes
  Hubs <- MCHubs
  Expected <- MCExpected
  Core <- MCExpected
  ToS = "tos"
  Privacy = "privacy"
  Disclaimer = "disclaimer"
  Fingerprints <- SiteFingerprints
  Templates = {""}
  URLs <- MCURLs
  Pages <- SitePages
  Statuses = {200, 403, 404}
  HomeFP = "home"
  NoView = NoView
  Plan <- TwoTermsOnePrivacy
  MaxProbes = 3
  ProbeWorkers = 2
  LinkWorkers = 2
  LinkHits <- OneLink
  NoResponse = NoResponse
  Sites <- AllSites
SPECIFICATION SiteSpec
INVARIANTS
  TypesAreTheSites
