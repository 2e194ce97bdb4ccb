---------------------------- MODULE Identifiers -----------------------------
(***************************************************************************)
(* VAT and register numbers on an imprint: which kinds there are, what     *)
(* their labels prove, how a matched number is cleaned, and the verdict    *)
(* each gets (validateIdentifier, validateVAT).  The behaviour is that of  *)
(* a number on its way from the authority that issues it to this program:  *)
(* it is issued, copied onto the page by hand, perhaps with one slip, and  *)
(* read.                                                                   *)
(***************************************************************************)
EXTENDS Checksums, NumberKinds

StartsWithLetters(s) == Len(s) >= 2 /\ s[1] \in Alpha /\ s[2] \in Alpha

(* The two letters a number starts with.                                   *)
FirstTwo(s) == Alphabet[s[1] - 9] \o Alphabet[s[2] - 9]

-----------------------------------------------------------------------------
DutchBody(s) == IF Len(s) > 9 /\ s[10] = CodeOf["B"] THEN SubSeq(s, 1, 9) ELSE s

(* What a country's algorithm says of a number without its prefix.  It     *)
(* looks at no more than the company's part of a French, Dutch or British  *)
(* number.                                                                 *)
CountryAlgorithm(cc, s) ==
  CASE cc = "DE" -> deVATValid(s)
    [] cc = "NL" -> nlVATValid(DutchBody(s))
    [] cc = "IT" -> luhnValid(extractDigits(s))
    [] cc = "FR" -> luhnValid(SubSeq(s, 3, Len(s)))
    [] cc = "CZ" -> czICOValid(s)
    [] cc = "HU" -> huAdoszamValid(s)
    [] cc = "EE" -> eeVATValid(s)
    [] cc = "GB" -> gbVATValid(SubSeq(s, 1, 9))
    [] cc = "SK" -> skVATValid(s)
    [] cc = "SI" -> siVATValid(s)
    [] cc = "LU" -> luVATValid(s)
    [] cc = "MT" -> mtVATValid(s)
    [] cc = "CH" -> chUIDValid(extractDigits(s))
    [] cc = "AT" -> atVATValid(IF s # <<>> /\ Head(s) = CodeOf["U"] THEN Tail(s) ELSE s)
    [] cc = "BE" -> beVATValid(s)
    [] cc = "PL" -> plVATValid(s)
    [] cc = "SE" -> seVATValid(s)
    [] cc = "DK" -> dkVATValid(s)
    [] cc = "FI" -> fiVATValid(s)
    [] cc = "PT" -> ptVATValid(s)
    [] cc = "IE" -> ieVATValid(s)
    [] cc = "RO" -> roCUIValid(s)
    [] cc \in {"EL", "GR"} -> grVATValid(s)
    [] cc = "BG" -> bgEIKValid(s)
    [] cc = "HR" -> hrOIBValid(s)

(* The lengths of a country's numbers that have a known algorithm, where   *)
(* others are let pass.                                                    *)
CheckedLength(cc, s) ==
  CASE cc = "FR" -> Len(s) = 11
    [] cc = "CZ" -> Len(s) = 8
    [] cc = "GB" -> Len(s) \in {9, 12}
    [] cc = "CH" -> Len(extractDigits(s)) = 9
    [] cc = "BG" -> Len(s) = 9
    [] OTHER -> TRUE

Algorithms ==
  {"DE", "NL", "IT", "FR", "CZ", "HU", "EE", "GB", "SK", "SI", "LU", "MT", "CH", "AT", "BE",
   "PL", "SE", "DK", "FI", "PT", "IE", "RO", "EL", "GR", "BG", "HR"}

(* Two leading letters, whatever they are, take the place of the country   *)
(* the caller names.                                                       *)
validateVAT(country, raw) ==
  LET cc == IF StartsWithLetters(raw) THEN FirstTwo(raw) ELSE country
      s  == IF StartsWithLetters(raw) THEN SubSeq(raw, 3, Len(raw)) ELSE raw
  IN  CASE cc = "ES" -> esNIFVerdict(s)
        [] cc \notin Algorithms \cup {"ES"} -> "format_valid"
        [] cc \in Algorithms /\ ~CheckedLength(cc, s) -> "format_valid"
        [] cc = "NL" /\ ~nlVATValid(DutchBody(s)) /\ nlVATIndeterminate(DutchBody(s)) ->
             "format_valid"
        [] OTHER -> mod11Verdict(CountryAlgorithm(cc, s))

(* A number that was matched behind the label of its kind.                 *)
validateIdentifier(kind, value, country) ==
  LET d == extractDigits(value)
  IN  CASE kind = "VAT" -> validateVAT(country, value)
        [] kind = "USt-IdNr" -> validateVAT("DE", LastOf(d, 9))
        [] kind = "CUI" -> mod11Verdict(roCUIValid(d))
        [] kind = "CIF" -> IF Len(value) < 9 THEN "format_valid"
                           ELSE mod11Verdict(esCIFValid(LastOf(value, 9)))
        [] kind = "UID" -> IF Len(d) = 9 THEN mod11Verdict(chUIDValid(d)) ELSE "format_valid"
        [] kind = "PartitaIVA" -> mod11Verdict(luhnValid(d))
        [] kind = "NIP" -> mod11Verdict(plVATValid(d))
        [] kind = "Adoszam" -> IF Len(d) < 8 THEN "format_valid"
                               ELSE mod11Verdict(huAdoszamValid(SubSeq(d, 1, 8)))
        [] kind = "AFM" -> validateVAT("EL", d)
        [] kind = "EIK" -> validateVAT("BG", d)
        [] kind = "OIB" -> validateVAT("HR", d)
        [] kind = "Registracijas" -> validateVAT("LV", d)
        [] kind = "Imones kodas" -> mod11Verdict(ltCompanyCodeValid(d))
        [] kind = "NIPC" -> mod11Verdict(ptVATValid(d))
        [] kind = "CVR" -> mod11Verdict(dkVATValid(d))
        [] kind = "Y-tunnus" -> mod11Verdict(fiVATValid(d))
        [] kind = "OrgNr" -> mod11Verdict(norwayOrgNrValid(d))
        [] kind = "ICO" -> mod11Verdict(czICOValid(d))
        [] kind = "CorporateNumber" -> mod11Verdict(jpCorporateNumberValid(d))
        [] kind = "ABN" -> mod11Verdict(abnValid(d))
        [] kind = "ACN" -> mod11Verdict(acnValid(d))
        [] kind \in {"SIREN", "SIRET"} ->
             mod11Verdict(\/ Len(d) = 14 /\ luhnValid(d)
                          \/ Len(d) >= 9 /\ luhnValid(SubSeq(d, 1, 9)))
        [] OTHER -> "format_valid"

(* Fault: a Polish number as long as a Portuguese one.                     *)
CleanLength_ShortNIP ==
  [PartitaIVA |-> 11, NIP |-> 9, NIPC |-> 9, Adoszam |-> 11, AFM |-> 9, EIK |-> 9, OIB |-> 11,
   Registracijas |-> 11]

CleanLength ==
  [PartitaIVA |-> 11, NIP |-> 10, NIPC |-> 9, Adoszam |-> 11, AFM |-> 9, EIK |-> 9, OIB |-> 11,
   Registracijas |-> 11]

(* What is reported, and compared, as a VAT number.                        *)
cleanIdentifierValue(kind, value) ==
  CASE kind \in DOMAIN CleanLength -> LastOf(extractDigits(value), CleanLength[kind])
    [] kind \in {"CIF", "VAT Number"} -> LastOf(value, 9)
    [] kind = "CorporateNumber" -> extractDigits(value)
    [] OTHER -> value

-----------------------------------------------------------------------------
(* From the authority to the reader                                        *)

CONSTANT Schemes   \* [kind, country, numbers]: a label, its country, what might be issued

(* National numbers without a VAT number of the same digits.               *)
NationalNumbers ==
  {<<"OrgNr", "NO">>, <<"Imones kodas", "LT">>, <<"CorporateNumber", "JP">>, <<"ABN", "AU">>,
   <<"ACN", "AU">>, <<"SIREN", "FR">>, <<"Adoszam", "HU">>}

(* What the patterns ask of a number, as far as the algorithms do not ask  *)
(* it again: a VAT number has its country's prefix, a Swiss one CHE, the   *)
(* others are digits.                                                      *)
IsMatched(kind, cc, n) ==
  /\ n \in Seq(Digit \cup Alpha) /\ Len(n) > 3
  /\ \/ /\ kind = "VAT" /\ cc \in knownVATPrefixes
        /\ StartsWithLetters(n) /\ FirstTwo(n) = cc
        /\ cc = "IT" => HasDigits(SubSeq(n, 3, Len(n)), 11)
     \/ /\ kind = "UID" /\ cc = "CH" /\ SubSeq(n, 1, 3) = Word(<<"C", "H", "E">>)
        /\ HasDigits(SubSeq(n, 4, Len(n)), 9)
     \/ /\ <<kind, cc>> \in NationalNumbers /\ allDigits(n)
        /\ kind = "SIREN" => Len(n) = 9

VARIABLES
  scheme,   \* [kind, country]: the number's label and its country
  issued,   \* the number, as issued
  copied,   \* the number, as it stands on the page
  verdict   \* what validateIdentifier says of it, "" before it is read

numberVars == <<scheme, issued, copied, verdict>>

Verdict(s) == validateIdentifier(scheme.kind, s, scheme.country)

(* An authority issues numbers whose control agrees.                       *)
NumberInit ==
  /\ \E s \in Schemes :
       scheme = [kind |-> s.kind, country |-> s.country] /\ issued \in s.numbers
  /\ IsMatched(scheme.kind, scheme.country, issued)
  /\ Verdict(issued) = "checksum_valid"
  /\ copied = issued
  /\ verdict = ""

Like(c) == IF c \in Digit THEN Digit ELSE Alpha

(* A character is misread for another of its sort.                         *)
Slip(i) ==
  /\ verdict = "" /\ copied = issued
  /\ \E c \in Like(issued[i]) \ {issued[i]} : copied' = [issued EXCEPT ![i] = c]
  /\ UNCHANGED <<scheme, issued, verdict>>

(* Two neighbouring digits change places.                                  *)
Swap(i) ==
  /\ verdict = "" /\ copied = issued
  /\ {issued[i], issued[i + 1]} \subseteq Digit /\ issued[i] # issued[i + 1]
  /\ copied' = [issued EXCEPT ![i] = issued[i + 1], ![i + 1] = issued[i]]
  /\ UNCHANGED <<scheme, issued, verdict>>

(* findIdentifiers has matched the number and records the verdict.         *)
Read ==
  /\ verdict = ""
  /\ verdict' = Verdict(copied)
  /\ UNCHANGED <<scheme, issued, copied>>

NumberNext ==
  \/ \E i \in DOMAIN issued : Slip(i)
  \/ \E i \in 1..(Len(issued) - 1) : Swap(i)
  \/ Read

NumberSpec == NumberInit /\ [][NumberNext]_numberVars

-----------------------------------------------------------------------------
(* What check characters are for                                           *)

Changed == {i \in DOMAIN issued : issued[i] # copied[i]}

(* Where the last check character stands.                                  *)
ControlAt ==
  CASE scheme.country = "IE" -> 10
    [] scheme.country \in {"NL", "GB"} -> 11
    [] scheme.country = "SE" -> 12
    [] scheme.country = "JP" -> 1
    [] scheme.kind = "Adoszam" -> 8
    [] OTHER -> Len(issued)

(* What the check characters cover: the digits and the control, not the    *)
(* prefix, a branch behind the control, or a French key.                   *)
Covered ==
  {i \in DOMAIN issued :
     /\ issued[i] \in Digit \/ i = ControlAt
     /\ ControlAt # 1 => i <= ControlAt
     /\ scheme.country = "FR" /\ scheme.kind = "VAT" => i > 4}

(* Two remainders have the same check digit, or a weight has a factor in   *)
(* common with the modulus: some slips go through.                         *)
SharesControls ==
  \/ scheme.kind = "VAT" /\ scheme.country \in {"GB", "CZ", "PT", "RO", "EL", "BG"}
  \/ scheme.kind \in {"Imones kodas", "CorporateNumber", "ACN"}

(* The modulus is a prime and no two neighbours weigh the same.            *)
TellsNeighboursApart ==
  scheme.country \in {"NL", "PL", "DK", "FI", "LU", "MT", "BE", "SK", "IE", "CH", "NO"}

(* "the check digit does NOT recompute --- a likely OCR/typo/false match": *)
(* a number with one character misread never passes for the number it is   *)
(* not.  Where controls are shared at least a misread control shows.       *)
SlipIsNoticed ==
  verdict = "checksum_valid" /\ Cardinality(Changed) = 1 =>
    /\ Changed # {ControlAt}
    /\ SharesControls \/ ~(Changed \subseteq Covered)

(* Two digits in the wrong order are noticed wherever the weights are able *)
(* to tell neighbours apart: none of the transcribed weights is wrong.     *)
SwapIsNoticed ==
  verdict = "checksum_valid" /\ Cardinality(Changed) = 2 /\ TellsNeighboursApart =>
    ~(Changed \subseteq Covered)

(* A misread digit or a swapped pair never passes for a genuine number,    *)
(* as far as the scheme's arithmetic can tell (imprint_checksum.go 13-26). *)
ErrorsAreNoticed == SlipIsNoticed /\ SwapIsNoticed

(* Labels a VAT number's digits go by at home.                             *)
DomesticKinds ==
  [PL |-> {"NIP"}, PT |-> {"NIPC"}, EL |-> {"AFM"}, BG |-> {"EIK"}, HR |-> {"OIB"},
   DK |-> {"CVR"}, FI |-> {"Y-tunnus"}, RO |-> {"CUI"}, IT |-> {"PartitaIVA"},
   DE |-> {"USt-IdNr"}, CZ |-> {"ICO"}, HU |-> {"Adoszam"}, ES |-> {"CIF"}]

(* A Spanish number is a CIF when it starts with an organisation's letter. *)
HasDomesticForm ==
  /\ scheme.kind = "VAT" /\ scheme.country \in DOMAIN DomesticKinds
  /\ Changed \cap {1, 2} = {}
  /\ scheme.country = "ES" =>
       copied[3] \in Alpha \ (CodeOf["K"]..CodeOf["M"] \cup CodeOf["X"]..CodeOf["Z"])

(* One number, one verdict: with its prefix, behind its domestic label,    *)
(* and once more when the reported form of the domestic number is checked  *)
(* again under the country that label proves.  (The reported form of a     *)
(* Hungarian number keeps its tax office and is not checked again; no      *)
(* country is inferred from a Greek label.)                                *)
OneNumberOneVerdict ==
  verdict # "" /\ HasDomesticForm =>
    LET digits == SubSeq(copied, 3, Len(copied))
    IN  \A kind \in DomesticKinds[scheme.country] :
          /\ validateIdentifier(kind, digits, scheme.country) = verdict
          /\ isVATLikeIdentifierKind(kind) /\ kind \notin {"Adoszam", "AFM"} =>
               validateVAT(vatPrefixForCountry(singleCountryIdentifierKind(kind)),
                           cleanIdentifierValue(kind, digits)) = verdict

(* A verdict is withheld only where no control could have earned one.      *)
AbstentionIsHonest ==
  verdict = "format_valid" =>
    \A c \in Like(copied[ControlAt]) :
      Verdict([copied EXCEPT ![ControlAt] = c]) # "checksum_valid"

=============================================================================
