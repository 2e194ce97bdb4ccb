\* The claim of imprint.go:403-404.
CONSTANTS
  LegalName <- MCLegalName
  FormIn <- MCFormIn
  MaxHits = 3
  MaxNames = 2
  MaxFooters = 1
  Near = 5
  Providers <- MCProviders
  Pages <- MCPages
  PrefixOf <- MCPrefixOf
  CheckOf <- MCCheckOf
  Eponyms <- MCEponyms
SPECIFICATION Spec
CHECK_DEADLOCK FALSE
INVARIANTS
  StructuredDataIsTrusted
