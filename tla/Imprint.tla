------------------------------ MODULE Imprint -------------------------------
(***************************************************************************)
(* extractImprintFields (imprint.go): the company behind a verified        *)
(* imprint page, its address, register entry, VAT number with a verdict,   *)
(* country, and how complete the page is under that country's rules.  One  *)
(* action per stage, in the order of the code.  (A name that ends in a     *)
(* colon, which the code drops, does not come out of normalizeCandidates.) *)
(***************************************************************************)
EXTENDS ImprintChoice

CONSTANTS
  Pages,      \* the imprint pages
  PrefixOf,   \* per VAT number, the country its prefix names, "" without one
  CheckOf,    \* per VAT number and country whose algorithm is applied, the verdict
  Eponyms     \* names that contain their owner's

NumberHit ==
  [kind : Kinds, raw : STRING, value : STRING \ {""}, country : STRING, validation : STRING]

TextLine ==
  [sort : {"company", "label", "form", "operator", "other"}, name : STRING, form : STRING,
   country : STRING, conf : STRING, postal : STRING, copyright : BOOLEAN,
   start : Nat, hits : Seq(NumberHit), at : Seq(Nat)]

Declaration ==
  [name : STRING, form : STRING, country : STRING, conf : STRING, postal : STRING,
   source : {"json_ld", "hcard", "og_site_name"}, vat : STRING,
   register : [kind : STRING, value : STRING], ids : Seq(NumberHit)]

(* A line that names something names it, and each number has a place.      *)
ASSUME PagesAssumption ==
  \A p \in Pages :
    /\ p.markup \in Seq(Declaration) /\ p.lines \in Seq(TextLine)
    /\ \A i \in DOMAIN p.lines : /\ p.lines[i].sort # "other" => p.lines[i].name # ""
                            /\ DOMAIN p.lines[i].at = DOMAIN p.lines[i].hits

VARIABLES
  page,       \* the page, never changed
  pc,         \* the stage to come
  cands,      \* the merged candidates
  best,       \* the winner among them, or none
  im,         \* the Imprint under construction
  fixed,      \* identifierCountry: a register number fixed the country
  prefixed    \* vatCountry # "": a VAT prefix did

vars == <<page, pc, cands, best, im, fixed, prefixed>>

Empty ==
  [name |-> "", form |-> "", postal |-> "", register |-> NoNumber, court |-> "", vat |-> "",
   verdict |-> "", country |-> "", person |-> "", missing |-> {}, score |-> 0]

(* validateIdentifier("VAT", v, hint): the prefix, or else the hint, says  *)
(* whose algorithm is applied.                                             *)
Checked(v, hint) ==
  LET cc == IF PrefixOf[v] # "" THEN PrefixOf[v] ELSE hint
  IN  IF cc = "" THEN "format_valid" ELSE CheckOf[v][cc]

-----------------------------------------------------------------------------
Init ==
  /\ page \in Pages
  /\ pc = "extract"
  /\ cands = {} /\ best = {}
  /\ im = Empty
  /\ fixed = FALSE /\ prefixed = FALSE

(* The page is known to be an imprint, but its body is not at hand.        *)
NoBody ==
  /\ pc = "extract" /\ page.blank
  /\ pc' = "done"
  /\ im' = [im EXCEPT !.missing = {"legal_name", "address", "contact"}]
  /\ UNCHANGED <<page, cands, best, fixed, prefixed>>

Extract ==
  /\ pc = "extract" /\ ~page.blank
  /\ pc' = "copy"
  /\ cands' = mergeImprintCandidates(extractImprintCandidates(page))
  /\ best' = bestImprintCandidate(cands')
  /\ UNCHANGED <<page, im, fixed, prefixed>>

Winner == CHOOSE c \in best : TRUE

(* The verdict is that of the winner's last hit for its VAT number, the    *)
(* country that of its last hit of a kind only one country uses.           *)
Copy ==
  /\ pc = "copy" /\ pc' = "numbers"
  /\ UNCHANGED <<page, cands, best, prefixed>>
  /\ IF best = {} THEN UNCHANGED <<im, fixed>>
     ELSE LET w == backfillWinnerIdentifiers(cands, Winner)
              verdicts == LastAmong({id \in w.ids : /\ isVATLikeIdentifierKind(id.hit.kind)
                                                    /\ id.hit.value = w.vat})
              singles  == LastAmong({id \in w.ids : singleCountryIdentifierKind(id.hit.kind) # ""})
          IN  /\ im' = [im EXCEPT
                          !.name = w.name, !.form = w.form, !.postal = w.postal,
                          !.register = w.register, !.vat = w.vat,
                          !.verdict = IF verdicts = {} THEN ""
                                      ELSE (CHOOSE id \in verdicts : TRUE).hit.validation,
                          !.country = IF singles = {} THEN w.country
                                      ELSE singleCountryIdentifierKind((CHOOSE id \in singles : TRUE).hit.kind)]
              /\ fixed' = (singles # {})

Hits(kind) == {HitAt(page.lines, o) : o \in findIdentifiersByKind(page.lines, kind)}

oneDistinctIdentifier(hits) == Cardinality({hit.value : hit \in hits}) = 1

(* A Japanese number standing far from every name is used if it is the     *)
(* only one of its kind on the page.                                       *)
PageNumbers ==
  /\ pc = "numbers" /\ pc' = "country"
  /\ LET corporate == oneDistinctIdentifier(Hits("CorporateNumber"))
         invoice   == oneDistinctIdentifier(Hits("InvoiceIssuerRegistration"))
         number    == CHOOSE hit \in Hits("CorporateNumber") : TRUE
         issuer    == CHOOSE hit \in Hits("InvoiceIssuerRegistration") : TRUE
     IN  im' = [im EXCEPT
                  !.register = IF corporate /\ @ = NoNumber THEN formatRegister(number) ELSE @,
                  !.vat      = IF invoice /\ @ = "" THEN issuer.value ELSE @,
                  !.verdict  = IF invoice /\ im.vat = "" THEN issuer.validation ELSE @,
                  !.country  = IF corporate \/ invoice THEN "JP" ELSE @]
  /\ UNCHANGED <<page, cands, best, fixed, prefixed>>

-----------------------------------------------------------------------------
(* The country                                                             *)

(* Country domains tldCountryOf does not know are those of nationalTLD.    *)
tldCountryOf(host) == IF host \in {"LI", "AR", "CO", "HK"} THEN "" ELSE host

(* The VAT prefix, else the candidate's country, else the domain's.  A VAT *)
(* number that has no verdict gets one under the country so far.           *)
NameCountry ==
  /\ pc = "country" /\ pc' = "register"
  /\ LET prefix == IF im.vat = "" THEN "" ELSE PrefixOf[im.vat]
     IN  /\ prefixed' = (prefix # "")
         /\ im' = [im EXCEPT
                     !.verdict = IF im.vat # "" /\ @ = ""
                                 THEN Checked(im.vat, vatPrefixForCountry(im.country)) ELSE @,
                     !.country = CASE prefix # "" -> prefix
                                   [] prefix = "" /\ @ # "" -> @
                                   [] OTHER -> tldCountryOf(page.host)]
  /\ UNCHANGED <<page, cands, best, fixed>>

SaysAT == im.register.kind = "FN" \/ page.court = "AT"
SaysDE == im.register.kind \in {"HRB", "HRA"} \/ page.court = "DE"

(* Fault: also where a VAT number has settled it.                          *)
refineDEATCountry_DespiteVAT(country) ==
  CASE country \notin {"DE", "AT"} -> country
    [] SaysAT /\ ~SaysDE -> "AT"
    [] SaysDE /\ ~SaysAT -> "DE"
    [] OTHER -> IF im.postal \in {"AT", "DE"} THEN im.postal ELSE country

refineDEATCountry(country) ==
  CASE im.vat # "" \/ country \notin {"DE", "AT"} -> country
    [] im.vat = "" /\ country \in {"DE", "AT"} ->
         CASE SaysAT /\ ~SaysDE -> "AT"
           [] SaysDE /\ ~SaysAT -> "DE"
           [] SaysAT = SaysDE /\ im.postal \in {"AT", "DE"} -> im.postal
           [] SaysAT = SaysDE /\ im.postal \notin {"AT", "DE"} ->
                IF page.host \in {"AT", "DE"} THEN page.host ELSE country

(* A guess between Germany and Austria is settled by the register, the     *)
(* postcode or the domain.                                                 *)
SettleDEAT ==
  /\ pc = "register" /\ pc' = "refine"
  /\ im' = [im EXCEPT !.country = refineDEATCountry(@)]
  /\ UNCHANGED <<page, cands, best, fixed, prefixed>>

(* Where a form is at home, as far as such pages occur; a weak form is at  *)
(* home anywhere.                                                          *)
nativeForms ==
  [GmbH |-> {"DE", "AT", "CH", "LI"}, SRL |-> {"IT", "RO", "BE", "AR", "CO", "ES"},
   Ltd |-> {"GB", "IE", "AU", "HK", "CY", "MT", "JP", "KR"}]
weakForms == {"Inc"}

formNativeIn(form, cc) ==
  form \in weakForms \/ (form \in DOMAIN nativeForms /\ cc \in nativeForms[form])

refineCountry(country) ==
  LET script   == page.script
      evidence == IF page.host # "" THEN page.host ELSE page.phone
      byScript == /\ script \notin {"", country}
                  /\ country \in {"", "US", "GB"} \/ formNativeIn(im.form, script)
      byPlace  == /\ evidence \notin {"", country}
                  /\ ~({country, evidence} \subseteq {"DE", "AT"})
                  /\ country = "" \/ formNativeIn(im.form, evidence)
  IN  CASE fixed \/ prefixed -> country
        [] ~(fixed \/ prefixed) /\ byScript -> script
        [] ~(fixed \/ prefixed) /\ ~byScript /\ byPlace -> evidence
        [] OTHER -> country

(* A country that only the legal form suggests gives way to the page's     *)
(* script, its domain or its phone numbers.                                *)
Refine ==
  /\ pc = "refine" /\ pc' = "fill"
  /\ im' = [im EXCEPT !.country = refineCountry(@)]
  /\ UNCHANGED <<page, cands, best, fixed, prefixed>>

-----------------------------------------------------------------------------
(* Filling and scoring                                                     *)

FirstOperator ==
  LET rows == FirstFew(Of(page.lines, "operator"), 1)
  IN  IF rows = {} THEN [name |-> "", postal |-> ""] ELSE page.lines[CHOOSE i \in rows : TRUE]

(* A number without a prefix may now pass its country's check.             *)
Upgraded ==
  LET hint == vatPrefixForCountry(im.country)
  IN  /\ im.vat # "" /\ im.verdict = "format_valid" /\ PrefixOf[im.vat] = ""
      /\ hint # "" /\ Checked(im.vat, hint) = "checksum_valid"

(* The operator's row for a Japanese page, the publisher and the postal    *)
(* address for an Austrian one, the owner for a name that contains it.     *)
Fill ==
  /\ pc = "fill" /\ pc' = "score"
  /\ LET name == IF im.country = "JP" THEN OrElse(im.name, "", FirstOperator.name) ELSE im.name
     IN  im' = [im EXCEPT
                  !.name = IF im.country = "AT" THEN OrElse(name, "", page.publisher) ELSE name,
                  !.postal = CASE im.country = "JP" -> OrElse(@, "", FirstOperator.postal)
                               [] im.country = "AT" -> OrElse(@, "", page.address)
                               [] OTHER -> @,
                  !.verdict = IF Upgraded THEN "checksum_valid" ELSE @,
                  !.person = OrElse(page.person, "",
                                    IF im.form = "" /\ name \in Eponyms THEN name ELSE ""),
                  !.court = page.court]
  /\ UNCHANGED <<page, cands, best, fixed, prefixed>>

imprintFieldChecklist(country) ==
  {"legal_name", "address", "contact"}
    \cup (IF country \in {"DE", "AT", "FR", "IT", "ES", "NL", "PL"} THEN {"register"} ELSE {})
    \cup (IF country \in {"DE", "AT"} THEN {"responsible_person"} ELSE {})

Have(field) ==
  CASE field = "legal_name" -> im.name # ""
    [] field = "address" -> im.postal # ""
    [] field = "contact" -> page.contact
    [] field = "register" -> im.register # NoNumber \/ im.court # ""
    [] field = "responsible_person" -> im.person # ""
    [] field = "vat_valid" -> im.verdict = "checksum_valid"

(* A VAT number is never required, but one that is there must check out.   *)
scoreImprint ==
  /\ pc = "score" /\ pc' = "done"
  /\ LET asked == imprintFieldChecklist(im.country) \cup (IF im.vat # "" THEN {"vat_valid"} ELSE {})
         found == {field \in asked : Have(field)}
     IN  im' = [im EXCEPT !.missing = asked \ found,
                          !.score = (Cardinality(found) * 100) \div Cardinality(asked)]
  /\ UNCHANGED <<page, cands, best, fixed, prefixed>>

Next ==
  \/ NoBody \/ Extract \/ Copy \/ PageNumbers \/ NameCountry
  \/ SettleDEAT \/ Refine \/ Fill \/ scoreImprint

Spec == Init /\ [][Next]_vars

-----------------------------------------------------------------------------
(* What can be said of the result                                          *)

Lines == DOMAIN page.lines

(* A name on the page is that of the company, as it stands or cleaned.     *)
Called(name, company) == name # "" /\ company \in {name, LegalName[name]}

Counts(o) ==
  LET kind == HitAt(page.lines, o).kind IN kind \in RegisterKinds \/ isVATLikeIdentifierKind(kind)

(* The page does no more than mention the name, without an address beside  *)
(* it or a number within reach.                                            *)
OnlyMentioned ==
  /\ im.name # page.publisher
  /\ \A n \in DOMAIN page.markup : ~Called(page.markup[n].name, im.name)
  /\ \A i \in Lines : Called(page.lines[i].name, im.name) =>
       /\ page.lines[i].sort # "operator" /\ ~page.lines[i].copyright
       /\ page.lines[i].postal = ""
       /\ \A o \in Places(page.lines) : Counts(o) => Away(page.lines, o, i) > Near

(* A company that is only mentioned, as a competitor, a customer or a      *)
(* reviewed brand is, is never taken for the operator of the site          *)
(* (imprint.go 366-415).                                                   *)
MentionIsNoIdentity == pc = "done" /\ im.name # "" => ~OnlyMentioned

(* The names a number stands with: no other one begins nearer to it, in    *)
(* bytes and counted from the start of a line.  A number at the end of a   *)
(* long line may so stand with the name below it (imprint_jsonld.go        *)
(* 733-756); what the code owes is owed to the names in that sense.        *)
Beside(o) ==
  {page.lines[i].name :
     i \in {i \in Reached(page.lines, o) :
              \A j \in Reached(page.lines, o) :
                Away(page.lines, o, i) <= Away(page.lines, o, j)}}

(* The numbers of the text that stand with some name, or only with names,  *)
(* of a kind.                                                              *)
NumbersAmong(names) ==
  {o \in findIdentifiers(page.lines, MaxHits) : Beside(o) \cap names # {}}

NumbersOnlyAmong(names) == {o \in NumbersAmong(names) : Beside(o) \subseteq names}

VATsOf(numbers) ==
  {HitAt(page.lines, o).value :
     o \in {o \in numbers : isVATLikeIdentifierKind(HitAt(page.lines, o).kind)}}

RegistersOf(numbers) ==
  {formatRegister(HitAt(page.lines, o)) :
     o \in {o \in numbers : HitAt(page.lines, o).kind \in RegisterKinds}}

(* A number that stands with any name but a provider's or a credited       *)
(* one's, a caption mistaken for a name included, is not lost for the      *)
(* entity (imprint.go 441-470).                                            *)
NumbersReachTheEntity ==
  pc = "done" /\ best # {} =>
    LET names == {page.lines[i].name : i \in Lines}
        ids == NumbersOnlyAmong({n \in names : LegalName[n] \notin Providers \cup page.credits})
    IN  /\ VATsOf(ids) # {} => im.vat # ""
        /\ RegistersOf(ids) # {} => im.register # NoNumber

(* What a name is a candidate under.                                       *)
KnownAs(name) == IF LegalName[name] = "" THEN name ELSE LegalName[name]

(* A page that names several companies: where numbers stand with the       *)
(* winner, which is no credit, and its markup declares none, what is       *)
(* reported is one of those and no other company's (imprint_jsonld.go      *)
(* 605-607, 749-770).                                                      *)
NumbersStayWithTheirOwner ==
  pc = "done" /\ best # {} /\ Winner.name \notin page.credits =>
    LET names == {page.lines[i].name : i \in Lines}
        own   == {n \in names : KnownAs(n) = Winner.name}
        declared == {n \in DOMAIN page.markup : KnownAs(page.markup[n].name) = Winner.name}
    IN  /\ VATsOf(NumbersOnlyAmong(own)) # {} /\ (\A n \in declared : page.markup[n].vat = "") =>
             im.vat \in VATsOf(NumbersAmong(own))
        /\ /\ RegistersOf(NumbersOnlyAmong(own)) # {}
           /\ \A n \in declared : page.markup[n].register = NoNumber
           => im.register \in RegistersOf(NumbersAmong(own))

(* A country that a VAT prefix or a register number has fixed is not       *)
(* overruled by a court, a postcode, a script, a domain or a phone number  *)
(* (imprint_country_signals.go 162-163, imprint_at.go 46-50).              *)
FixedCountryStands ==
  [][(pc \in {"register", "refine"} /\ (fixed \/ prefixed)) => im'.country = im.country]_vars

(* What imprint.go:403-404 says: a company the page's markup declares      *)
(* needs no corroboration.                                                 *)
StructuredDataIsTrusted ==
  pc = "done" =>
    \A n \in DOMAIN page.markup :
      page.markup[n].source \in {"json_ld", "hcard"}
        /\ LegalName[page.markup[n].name] \notin Providers \cup {""} => im.name # ""

=============================================================================
