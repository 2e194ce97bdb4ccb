---------------------------- MODULE NumberKinds -----------------------------
(***************************************************************************)
(* The kinds of VAT and register numbers an imprint is searched for        *)
(* (imprint_vat.go, imprint_checksum.go), what the label of each proves,   *)
(* and which VAT prefix a country has.  Labels outside ASCII are           *)
(* transcribed.                                                            *)
(***************************************************************************)
EXTENDS Naturals, Sequences

(* The order of the patterns; those of the EU prefixes come first.         *)
PatternOrder ==
  <<"VAT", "HRB", "HRA", "USt-IdNr", "Steuernummer", "CorporateNumber",
    "InvoiceIssuerRegistration", "FN", "CompaniesHouse", "EIN", "ABN", "ACN", "CUI", "KvK",
    "SIRET", "SIREN", "OrgNr", "UID", "CIF", "PartitaIVA", "REA", "Hoja", "NIP", "KRS",
    "REGON", "NIPC", "CRO", "RCS", "Organisationsnummer", "CVR", "Y-tunnus", "ICO", "Adoszam",
    "Cegjegyzekszam", "AFM", "GEMI", "EIK", "OIB", "MBS", "Maticna", "HE", "VAT Number",
    "Imones kodas", "Registracijas", "registrikood", "Company Registration Number", "CNPJ",
    "NZBN">>

(* The kinds whose number is the company's VAT number.                     *)
isVATLikeIdentifierKind(kind) ==
  kind \in {"VAT", "PartitaIVA", "CIF", "NIP", "NIPC", "Adoszam", "AFM", "EIK", "OIB",
            "VAT Number", "Registracijas", "InvoiceIssuerRegistration"}

Kinds == {PatternOrder[n] : n \in 1..Len(PatternOrder)}

(* The kinds whose number is a register entry; some are neither.           *)
RegisterKinds ==
  {k \in Kinds \ {"UID", "CNPJ", "NZBN"} : ~isVATLikeIdentifierKind(k)}

(* The kinds only one country uses.                                        *)
KindsOf ==
  [IT |-> {"PartitaIVA", "REA"}, ES |-> {"Hoja", "CIF"}, FR |-> {"SIRET", "SIREN"},
   NL |-> {"KvK"}, PL |-> {"NIP", "KRS", "REGON"}, PT |-> {"NIPC"}, IE |-> {"CRO"},
   LU |-> {"RCS"}, SE |-> {"Organisationsnummer"}, DK |-> {"CVR"}, FI |-> {"Y-tunnus"},
   NO |-> {"OrgNr"}, HU |-> {"Cegjegyzekszam", "Adoszam"}, GR |-> {"GEMI"}, BG |-> {"EIK"},
   HR |-> {"OIB", "MBS"}, SI |-> {"Maticna"}, CY |-> {"HE", "VAT Number"},
   LT |-> {"Imones kodas"}, LV |-> {"Registracijas"}, EE |-> {"registrikood"},
   RO |-> {"CUI"}, MT |-> {"Company Registration Number"},
   JP |-> {"CorporateNumber", "InvoiceIssuerRegistration"}]

singleCountryIdentifierKind(kind) ==
  IF \E cc \in DOMAIN KindsOf : kind \in KindsOf[cc]
  THEN CHOOSE cc \in DOMAIN KindsOf : kind \in KindsOf[cc] ELSE ""

knownVATPrefixes ==
  {"AT", "BE", "BG", "CY", "CZ", "DE", "DK", "EE", "EL", "ES", "FI", "FR", "GB", "HR",
   "HU", "IE", "IT", "LT", "LU", "LV", "MT", "NL", "PL", "PT", "RO", "SE", "SI", "SK"}

vatPrefixForCountry(cc) ==
  CASE cc = "GR" -> "EL" [] cc # "GR" /\ cc \in knownVATPrefixes -> cc [] OTHER -> ""

=============================================================================
