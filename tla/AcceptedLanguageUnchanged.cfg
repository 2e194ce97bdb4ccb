\* A Greek word before the prefilter.
CONSTANTS
  Lower <- MCLower
  Orbit <- MCOrbit
  Least <- MCLeast
  Bytes <- MCBytes
  Regexps <- GreekWord
  Samples <- GreekTexts
  MinAnchorBytes = 2
  PrefilterAbove = 2
SPECIFICATION FilterSpec
INVARIANTS
  AcceptedLanguageUnchanged
