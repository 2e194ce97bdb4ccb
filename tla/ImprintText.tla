---------------------------- MODULE ImprintText -----------------------------
(***************************************************************************)
(* The identity candidates an imprint page offers (imprint_jsonld.go,      *)
(* imprint_normalize.go): what its markup declares, what its copyright     *)
(* lines and its text name, and which VAT and register numbers of the text *)
(* go to which of them.                                                    *)
(*                                                                         *)
(* A page's text is a sequence of lines, one of                            *)
(*   company    a name with a legal form, "copyright" when behind a (c);   *)
(*   label      a trading name behind "Firmenname:";                       *)
(*   form       a trading name above a bare legal form ("Eenmanszaak");    *)
(*   operator   the operator's row of a Japanese disclosure table;         *)
(*   other      anything else.                                             *)
(* Numbers may stand on any line: "at" tells the byte at which the text of *)
(* each is first found on the page, "start" the byte from which distances  *)
(* to the line's name are counted, which for a company and a label is the  *)
(* start of the line and for the others that of the name.  "postal" is the *)
(* shape of the address found beside a name: that of an Austrian or a      *)
(* German one, "other", or "" when there is none.                          *)
(*                                                                         *)
(* The code's slices of candidates and of hits are sets here, and "at" is  *)
(* the place an element has in its slice, in the order Before.             *)
(***************************************************************************)
EXTENDS Integers, FiniteSets, NumberKinds

CONSTANTS
  LegalName,   \* what normalizeLegalName makes of a name, "" when it is none
  FormIn,      \* per legal name, the form detectSuffix finds in it, with its country and
               \* its confidence, and all forms whose letters it contains
  MaxHits,     \* numbers looked at on a page
  MaxNames,    \* companies looked at in its text
  MaxFooters,  \* and in its copyright lines
  Near,        \* bytes a number may be away from a name (800)
  Providers    \* names of hosting companies and other service providers

ASSUME LimitsAssumption == {MaxHits, MaxNames, MaxFooters, Near} \subseteq Nat

ASSUME LegalNameAssumption == LegalName[""] = ""

NoNumber == [kind |-> "", value |-> ""]

(* Places are compared part by part.                                       *)
Before(a, b) == \E k \in DOMAIN a : a[k] < b[k] /\ \A j \in 1..(k - 1) : a[j] = b[j]

-----------------------------------------------------------------------------
(* Numbers: a hit has its text on the page ("raw") and, cleaned, its value *)

(* A number's place is its line and its place on that.                     *)
HitAt(lines, o) == lines[o[1]].hits[o[2]]

Places(lines) == UNION {{i} \X DOMAIN lines[i].hits : i \in DOMAIN lines}

SameHit(a, b) == a.kind = b.kind /\ a.raw = b.raw

(* A number that occurs again is found once.                               *)
findIdentifiersByKind(lines, kind) ==
  {o \in Places(lines) :
     /\ HitAt(lines, o).kind = kind
     /\ \A p \in Places(lines) : SameHit(HitAt(lines, p), HitAt(lines, o)) => ~Before(p, o)}

(* Kind by kind, and in the order of the page.                             *)
Order(lines, o) ==
  <<CHOOSE k \in DOMAIN PatternOrder : PatternOrder[k] = HitAt(lines, o).kind, o[1], o[2]>>

FirstHit(lines, S) ==
  HitAt(lines, CHOOSE o \in S : \A p \in S : ~Before(Order(lines, p), Order(lines, o)))

(* No further than the limit: numbers of a late kind are not seen behind   *)
(* enough of an early one.                                                 *)
findIdentifiers(lines, max) ==
  LET all == UNION {findIdentifiersByKind(lines, kind) : kind \in Kinds}
  IN  {o \in all : Cardinality({p \in all : Before(Order(lines, p), Order(lines, o))}) < max}

formatRegister(hit) == [kind |-> hit.kind, value |-> hit.value]

-----------------------------------------------------------------------------
(* Names                                                                   *)

Of(lines, sort) == {i \in DOMAIN lines : lines[i].sort = sort}

(* The first of the chosen lines for each name, and the first few of those *)
LinesNaming(lines, chosen) ==
  {i \in chosen : \A j \in chosen : j < i => lines[j].name # lines[i].name}

FirstFew(S, n) == {i \in S : Cardinality({j \in S : j < i}) < n}

(* A label counts only where no company is named; the operator's row only  *)
(* where its name is not yet a candidate.                                  *)
NamedLines(lines) ==
  LET companies == FirstFew(LinesNaming(lines, Of(lines, "company")), MaxNames)
      labelled  == IF Of(lines, "label") # {} THEN Of(lines, "label") ELSE Of(lines, "form")
      named     == IF companies # {} THEN companies ELSE FirstFew(labelled, 1)
  IN  named \cup {i \in FirstFew(Of(lines, "operator"), 1) :
                    \A j \in named : lines[j].name # lines[i].name}

(* What a line's name is a candidate with.                                 *)
Candidate(source, at, l) ==
  [name |-> l.name, form |-> l.form, country |-> l.country, conf |-> l.conf, source |-> source,
   register |-> NoNumber, vat |-> "", postal |-> l.postal, ids |-> {}, idOnly |-> FALSE,
   at |-> at]

extractCopyrightFooter(lines) ==
  LET signed == {i \in Of(lines, "company") : lines[i].copyright}
  IN  {[Candidate("copyright_footer", <<2, i>>, lines[i]) EXCEPT !.postal = ""] :
         i \in FirstFew(LinesNaming(lines, signed), MaxFooters)}

(* The operator's row comes behind the other names.                        *)
NameAt(lines, i) == IF lines[i].sort = "operator" THEN <<4, i>> ELSE <<3, i>>

NamedBy(lines, i) ==
  Candidate(IF lines[i].sort = "company" THEN "imprint_text" ELSE "imprint_label",
            NameAt(lines, i), lines[i])

Distance(a, b) == IF a < b THEN b - a ELSE a - b

(* From a number to the name of a line, in bytes.                          *)
Away(lines, o, i) == Distance(lines[o[1]].at[o[2]], lines[i].start)

(* The names within reach of a number.                                     *)
Reached(lines, o) == {i \in NamedLines(lines) : Away(lines, o, i) <= Near}

(* Fault: the first name within reach gets the number.                     *)
NearestName_First(lines, o) ==
  {i \in Reached(lines, o) :
     \A j \in Reached(lines, o) : ~Before(NameAt(lines, j), NameAt(lines, i))}

(* The name nearest to a number, the earlier on a tie; none if there is    *)
(* none within reach.  Behind a long line that is the next line's.         *)
NearestName(lines, o) ==
  {i \in Reached(lines, o) :
     \A j \in Reached(lines, o) :
       \/ Away(lines, o, i) < Away(lines, o, j)
       \/ /\ Away(lines, o, i) = Away(lines, o, j)
          /\ ~Before(NameAt(lines, j), NameAt(lines, i))}

(* The first number of each sort fixes what the candidate has; kinds that  *)
(* are neither are dropped, having used up the limit.                      *)
WithHits(lines, c, numbers) ==
  LET regs == {o \in numbers : HitAt(lines, o).kind \in RegisterKinds}
      vats == {o \in numbers : isVATLikeIdentifierKind(HitAt(lines, o).kind)}
  IN  [c EXCEPT
         !.register = IF regs = {} THEN @ ELSE formatRegister(FirstHit(lines, regs)),
         !.vat      = IF vats = {} THEN @ ELSE FirstHit(lines, vats).value,
         !.country  = IF vats # {} /\ @ = "" THEN FirstHit(lines, vats).country ELSE @,
         !.conf     = IF vats # {} /\ c.country = "" THEN "high" ELSE @,
         !.ids      = {[hit |-> HitAt(lines, o), at |-> <<0>> \o c.at \o Order(lines, o)] :
                         o \in regs \cup vats}]

(* Off the usual addresses the text is read only if it has a number.       *)
extractImprintText(lines, legalURL) ==
  LET found == findIdentifiers(lines, MaxHits)
  IN  IF ~legalURL /\ findIdentifiers(lines, 3) = {} THEN {}
      ELSE {WithHits(lines, NamedBy(lines, i), {o \in found : i \in NearestName(lines, o)}) :
              i \in NamedLines(lines)}

-----------------------------------------------------------------------------
(* Where cleaning took away the form the name was found by ("Company       *)
(* Name: Acme Ltd"), its own form counts, and what that says of a country. *)
Renamed(c, name) ==
  IF c.form \in {""} \cup FormIn[name].letters THEN [c EXCEPT !.name = name]
  ELSE [c EXCEPT !.name = name, !.form = FormIn[name].form,
                 !.country = FormIn[name].country, !.conf = FormIn[name].conf]

(* Fault: what is no name goes, and its numbers with it.                   *)
Normalized_NumbersDropped(c, credits) ==
  LET name == LegalName[c.name]
  IN  IF name \in Providers \cup {""}
         \/ (name \in credits /\ c.source \in {"imprint_text", "imprint_label"})
      THEN {} ELSE {Renamed(c, name)}

(* A candidate under its legal name, or without one but for the sake of    *)
(* its numbers, or dropped: a provider, or a credit ("Webdesign by ...").  *)
Normalized(c, credits) ==
  LET name == LegalName[c.name]
      numbered == c.register # NoNumber \/ c.vat # "" \/ c.ids # {}
      credited == name \in credits /\ c.source \in {"imprint_text", "imprint_label"}
  IN  CASE name = "" -> IF numbered THEN {[c EXCEPT !.idOnly = TRUE]} ELSE {}
        [] name # "" /\ (name \in Providers \/ credited) -> {}
        [] name # "" /\ name \notin Providers /\ ~credited -> {Renamed(c, name)}

normalizeCandidates(cands, credits) == UNION {Normalized(c, credits) : c \in cands}

(* What the markup declares, a record of its own for each name.            *)
Declared(page) ==
  {[name |-> page.markup[n].name, form |-> page.markup[n].form,
    country |-> page.markup[n].country, conf |-> page.markup[n].conf,
    source |-> page.markup[n].source, register |-> page.markup[n].register,
    vat |-> page.markup[n].vat, postal |-> page.markup[n].postal, idOnly |-> FALSE,
    ids |-> {[hit |-> page.markup[n].ids[k], at |-> <<0, 1, n, 0, 0, k>>] :
               k \in DOMAIN page.markup[n].ids},
    at |-> <<1, n>>] : n \in DOMAIN page.markup}

extractImprintCandidates(page) ==
  normalizeCandidates(
    Declared(page) \cup extractCopyrightFooter(page.lines)
      \cup extractImprintText(page.lines, page.legalURL), page.credits)

=============================================================================
