\* Fields, numbers, addresses and names and lines of imprint pages, each on its own input.
CONSTANTS
  LegalName <- MCLegalName
  FormIn <- MCFormIn
  MaxHits = 3
  MaxNames = 2
  MaxFooters = 1
  Near = 5
  Providers <- MCProviders
  Pages <- MCPages
  PrefixOf <- MCPrefixOf
  CheckOf <- MCCheckOf
  Eponyms <- MCEponyms
  MaxLines = 5
  FormLines <- CompanyLines
  Capital <- MCCapital
  Small <- MCSmall
  Window = 9
  MaxPersonWords = 1
  Given <- Wrapped
  Plain <- MCPlain
  Inside <- MCInside
  Ending <- MCEnding
  Uneven <- MCUneven
  MaxLabelWords = 2
  AddressPages <- MCAddressPages
  Reach = 3
  Schemes <- MCSchemes
  MaxParts = 2
SPECIFICATION PageSpec
CHECK_DEADLOCK FALSE
INVARIANTS
  MentionIsNoIdentity
  NumbersReachTheEntity
  NumbersStayWithTheirOwner
  ErrorsAreNoticed
  OneNumberOneVerdict
  AbstentionIsHonest
  OneMentionsAddress
  NameSurvives
  NameOnItsLine
PROPERTIES
  FixedCountryStands
