--------------------------- MODULE ImprintProofs ----------------------------
(***************************************************************************)
(* extractImprintFields, for any page, any tables of names and numbers and *)
(* any limits: a country that a VAT prefix or a register number has fixed  *)
(* stands, a company that is only mentioned is not taken for the entity,   *)
(* its numbers are not lost and no other company's are reported as its.    *)
(*                                                                         *)
(* Candidates have places in pairs and numbers in triples, so that of some *)
(* one comes first: the choices the code makes are made.  What a candidate *)
(* is (Shape) and where its numbers come from (Origin) then carries over   *)
(* from the extraction to the merged candidates and to the result.         *)
(***************************************************************************)
EXTENDS Imprint, FiniteSetTheorems, WellFoundedInduction, TLAPS

(* A register number never fixes Germany nor Austria, between which a      *)
(* court, a postcode or a domain decides; and a prefix is that of a VAT    *)
(* number.                                                                 *)
FixedInv ==
  /\ {"country", "vat"} \subseteq DOMAIN im
  /\ pc \in {"extract", "copy"} => ~fixed
  /\ pc \in {"extract", "copy", "numbers", "country"} => ~prefixed
  /\ pc \in {"numbers", "country", "register"} /\ fixed /\ ~prefixed =>
       im.country \notin {"", "DE", "AT"}
  /\ pc = "register" /\ prefixed => im.vat # ""

(* No kind of number settles between Germany and Austria.                  *)
LEMMA SingleCountries ==
  ASSUME NEW kind
  PROVE  singleCountryIdentifierKind(kind) \notin {"DE", "AT"}
<1>1. DOMAIN KindsOf \cap {"DE", "AT"} = {}
  BY DEF KindsOf
<1> HIDE DEF KindsOf
<1> QED
  BY <1>1 DEF singleCountryIdentifierKind

LEMMA CopyKeeps == FixedInv /\ Copy => FixedInv'
<1> SUFFICES ASSUME FixedInv, Copy PROVE FixedInv'
  OBVIOUS
<1>1. pc = "copy" /\ pc' = "numbers" /\ ~fixed /\ ~prefixed /\ prefixed' = prefixed
  BY DEF Copy, FixedInv
<1>2. CASE best = {}
  <2>1. im' = im /\ fixed' = fixed
    BY <1>2, Zenon DEF Copy
  <2> QED
    BY <1>1, <2>1 DEF FixedInv
<1>3. CASE best # {}
  <2> DEFINE w == backfillWinnerIdentifiers(cands, Winner)
             country(id) == singleCountryIdentifierKind(id.hit.kind)
             singles == LastAmong({id \in w.ids : country(id) # ""})
             one == CHOOSE id \in singles : TRUE
  <2>1. /\ fixed' = (singles # {})
        /\ DOMAIN im' = DOMAIN im
        /\ im'.country = IF singles = {} THEN w.country ELSE country(one)
    <3>1. fixed' = (singles # {})
      BY <1>3 DEF Copy
    <3> DEFINE verdicts == LastAmong({id \in w.ids : /\ isVATLikeIdentifierKind(id.hit.kind)
                                                     /\ id.hit.value = w.vat})
               verdict == IF verdicts = {} THEN ""
                          ELSE (CHOOSE id \in verdicts : TRUE).hit.validation
    <3>2. im' = [im EXCEPT
                   !.name = w.name, !.form = w.form, !.postal = w.postal,
                   !.register = w.register, !.vat = w.vat, !.verdict = verdict,
                   !.country = IF singles = {} THEN w.country ELSE country(one)]
      BY <1>3 DEF Copy
    <3> HIDE DEF verdicts, verdict
    <3> HIDE DEF country, singles, one, w
    <3> QED
      BY <3>1, <3>2 DEF FixedInv
  <2>2. ASSUME singles # {} PROVE country(one) \notin {"", "DE", "AT"}
    <3>1. one \in singles
      BY <2>2
    <3>2. country(one) # ""
      BY <3>1 DEF LastAmong
    <3>3. country(one) \notin {"DE", "AT"}
      BY SingleCountries
    <3> QED
      BY <3>2, <3>3
  <2> HIDE DEF country, singles, one
  <2> QED
    BY <1>1, <2>1, <2>2 DEF FixedInv
<1> QED
  BY <1>2, <1>3

LEMMA StepFixed == FixedInv /\ [Next]_vars => FixedInv'
<1> SUFFICES ASSUME FixedInv, [Next]_vars PROVE FixedInv'
  OBVIOUS
<1>1. CASE NoBody
  BY <1>1 DEF NoBody, FixedInv
<1>2. CASE Extract
  BY <1>2 DEF Extract, FixedInv
<1>3. CASE Copy
  BY <1>3, CopyKeeps
<1>4. CASE PageNumbers
  <2>1. /\ pc = "numbers" /\ pc' = "country" /\ fixed' = fixed /\ prefixed' = prefixed
        /\ DOMAIN im' = DOMAIN im /\ im'.country \in {im.country, "JP"}
    BY <1>4 DEF PageNumbers, FixedInv
  <2> QED
    BY <2>1 DEF FixedInv
<1>5. CASE NameCountry
  <2> DEFINE prefix == IF im.vat = "" THEN "" ELSE PrefixOf[im.vat]
  <2>1. /\ pc = "country" /\ pc' = "register" /\ fixed' = fixed /\ prefixed' = (prefix # "")
        /\ DOMAIN im' = DOMAIN im /\ im'.vat = im.vat
        /\ prefix = "" /\ im.country # "" => im'.country = im.country
    BY <1>5 DEF NameCountry, FixedInv
  <2>2. prefix # "" => im.vat # ""
    OBVIOUS
  <2> HIDE DEF prefix
  <2> QED
    BY <2>1, <2>2 DEF FixedInv
<1>6. CASE SettleDEAT \/ Refine \/ Fill \/ scoreImprint
  <2>1. DOMAIN im' = DOMAIN im /\ pc' \in {"refine", "fill", "score", "done"}
    BY <1>6 DEF SettleDEAT, Refine, Fill, scoreImprint
  <2> QED
    BY <2>1 DEF FixedInv
<1>7. CASE UNCHANGED vars
  BY <1>7 DEF vars, FixedInv
<1> QED
  BY <1>1, <1>2, <1>3, <1>4, <1>5, <1>6, <1>7 DEF Next

(* Of the four sources that come behind the VAT prefix and the register    *)
(* number, a court, a postcode, a script and a domain or a phone number,   *)
(* none overrules a country that one of those two has fixed.               *)
THEOREM FixedCountryIsKept == Spec => FixedCountryStands
<1>1. Init => FixedInv
  BY DEF Init, Empty, FixedInv
<1>2. ASSUME FixedInv, [Next]_vars, pc \in {"register", "refine"}, fixed \/ prefixed
      PROVE  im'.country = im.country
  <2>1. CASE SettleDEAT
    <3>1. im'.country = refineDEATCountry(im.country)
      BY <1>2, <2>1 DEF SettleDEAT, FixedInv
    <3>2. pc = "register"
      BY <2>1 DEF SettleDEAT
    <3>3. im.vat # "" \/ im.country \notin {"DE", "AT"}
      BY <1>2, <3>2 DEF FixedInv
    <3> QED
      BY <3>1, <3>3 DEF refineDEATCountry
  <2>2. CASE Refine
    <3>1. im'.country = refineCountry(im.country)
      BY <1>2, <2>2 DEF Refine, FixedInv
    <3> QED
      BY <1>2, <3>1 DEF refineCountry
  <2>3. CASE UNCHANGED vars
    BY <2>3 DEF vars
  <2> QED
    BY <1>2, <2>1, <2>2, <2>3
       DEF Next, NoBody, Extract, Copy, PageNumbers, NameCountry, Fill, scoreImprint
<1>3. FixedInv /\ [Next]_vars =>
        [(pc \in {"register", "refine"} /\ (fixed \/ prefixed)) => im'.country = im.country]_vars
  BY <1>2
<1> QED
  BY <1>1, <1>3, StepFixed, PTL DEF Spec, FixedCountryStands

-----------------------------------------------------------------------------
(* Places                                                                  *)

LEMMA LeastExists ==
  ASSUME NEW S \in SUBSET Nat, S # {}
  PROVE  \E m \in S : \A n \in S : m <= n
<1> DEFINE R == {ss \in Nat \X Nat : ss[1] < ss[2]}
<1>1. R = OpToRel(<, Nat)
  BY DEF OpToRel
<1>2. IsWellFoundedOn(R, Nat)
  BY <1>1, NatLessThanWellFounded
<1> HIDE DEF R
<1>3. PICK m \in S : \A n \in S : ~(<<n, m>> \in R)
  BY <1>2, WFMin
<1>4. ASSUME NEW n \in S PROVE m <= n
  <2>1. m \in Nat /\ n \in Nat
    OBVIOUS
  <2>2. n < m => <<n, m>> \in R
    BY <2>1 DEF R
  <2> QED
    BY <1>3, <2>1, <2>2
<1> QED
  BY <1>4

Triple == Nat \X Nat \X Nat

LEMMA BeforeTriple ==
  ASSUME NEW a \in Triple, NEW b \in Triple
  PROVE  Before(a, b) <=> \/ a[1] < b[1]
                          \/ a[1] = b[1] /\ a[2] < b[2]
                          \/ a[1] = b[1] /\ a[2] = b[2] /\ a[3] < b[3]
<1>1. DOMAIN a = 1..3
  BY DEF Triple
<1>2. \A k \in 1..3 : k = 1 \/ k = 2 \/ k = 3
  OBVIOUS
<1>3. 1..(1 - 1) = {} /\ 1..(2 - 1) = {1} /\ 1..(3 - 1) = {1, 2}
  OBVIOUS
<1> QED
  BY <1>1, <1>2, <1>3 DEF Before

(* Some triples, one of which comes first.                                 *)
LEMMA LeastTriple ==
  ASSUME NEW T \in SUBSET Triple, T # {}
  PROVE  \E t \in T : \A u \in T : ~Before(u, t)
<1> DEFINE S1 == {t[1] : t \in T}
<1>1. PICK x \in S1 : \A n \in S1 : x <= n
  <2>1. S1 \in SUBSET Nat /\ S1 # {}
    BY DEF Triple
  <2> QED
    BY <2>1, LeastExists
<1> DEFINE S2 == {t[2] : t \in {t \in T : t[1] = x}}
<1>2. PICK y \in S2 : \A n \in S2 : y <= n
  <2>1. S2 \in SUBSET Nat /\ S2 # {}
    BY <1>1 DEF Triple
  <2> QED
    BY <2>1, LeastExists
<1> DEFINE S3 == {t[3] : t \in {t \in T : t[1] = x /\ t[2] = y}}
<1>3. PICK z \in S3 : \A n \in S3 : z <= n
  <2>1. S3 \in SUBSET Nat /\ S3 # {}
    BY <1>2 DEF Triple
  <2> QED
    BY <2>1, LeastExists
<1>4. PICK t \in T : t[1] = x /\ t[2] = y /\ t[3] = z
  BY <1>3
<1>5. ASSUME NEW u \in T PROVE ~Before(u, t)
  <2>1. /\ u \in Triple /\ t \in Triple
        /\ u[1] \in Nat /\ u[2] \in Nat /\ u[3] \in Nat /\ x \in Nat /\ y \in Nat /\ z \in Nat
    BY <1>4 DEF Triple
  <2>2. x <= u[1]
    BY <1>1
  <2>3. u[1] = x => y <= u[2]
    BY <1>2
  <2>4. u[1] = x /\ u[2] = y => z <= u[3]
    BY <1>3
  <2> QED
    BY <1>4, <2>1, <2>2, <2>3, <2>4, BeforeTriple
<1> QED
  BY <1>5

LEMMA BeforePair ==
  ASSUME NEW a \in Nat \X Nat, NEW b \in Nat \X Nat
  PROVE  Before(a, b) <=> a[1] < b[1] \/ (a[1] = b[1] /\ a[2] < b[2])
<1>1. DOMAIN a = 1..2
  OBVIOUS
<1>2. \A k \in 1..2 : k = 1 \/ k = 2
  OBVIOUS
<1>3. 1..(1 - 1) = {} /\ 1..(2 - 1) = {1}
  OBVIOUS
<1> QED
  BY <1>1, <1>2, <1>3 DEF Before

LEMMA PairInTriple ==
  ASSUME NEW a \in Nat \X Nat, NEW m \in Nat
  PROVE  <<m, a[1], a[2]>> \in Triple
BY DEF Triple

(* Places that come in pairs, behind a number of some kind.                *)
LEMMA TripleOfPair ==
  ASSUME NEW a \in Nat \X Nat, NEW b \in Nat \X Nat, NEW m \in Nat, NEW n \in Nat
  PROVE  Before(<<m, a[1], a[2]>>, <<n, b[1], b[2]>>) <=> m < n \/ (m = n /\ Before(a, b))
<1>1. <<m, a[1], a[2]>> \in Triple /\ <<n, b[1], b[2]>> \in Triple
  BY DEF Triple
<1> QED
  BY <1>1, BeforeTriple, BeforePair

-----------------------------------------------------------------------------
(* Candidates                                                              *)

Textual == {"imprint_text", "imprint_label"}

SourceNames == Textual \cup {"json_ld", "hcard", "copyright_footer", "og_site_name"}

Shape(c) ==
  /\ DOMAIN c = {"name", "form", "country", "conf", "source", "register", "vat", "postal",
                 "ids", "idOnly", "at"}
  /\ c.source \in SourceNames
  /\ c.at \in Nat \X Nat

(* Of some candidates one comes first,                                     *)
LEMMA FirstIsIn ==
  ASSUME NEW S, S # {}, \A c \in S : Shape(c)
  PROVE  First(S) \in S /\ \A d \in S : ~Before(d.at, First(S).at)
<1> DEFINE T == {<<0, c.at[1], c.at[2]>> : c \in S}
<1>1. \A c \in S : c.at \in Nat \X Nat
  BY DEF Shape
<1>2. T \in SUBSET Triple /\ T # {}
  <2>1. T # {}
    OBVIOUS
  <2>2. ASSUME NEW c \in S PROVE <<0, c.at[1], c.at[2]>> \in Triple
    BY <1>1, PairInTriple
  <2> QED
    BY <2>1, <2>2
<1>3. PICK t \in T : \A u \in T : ~Before(u, t)
  BY <1>2, LeastTriple
<1>4. PICK c \in S : t = <<0, c.at[1], c.at[2]>>
  BY <1>3
<1>5. ASSUME NEW d \in S PROVE ~Before(d.at, c.at)
  <2>1. ~Before(<<0, d.at[1], d.at[2]>>, <<0, c.at[1], c.at[2]>>)
    BY <1>3, <1>4
  <2> QED
    BY <1>1, <2>1, TripleOfPair
<1> QED
  BY <1>5, Zenon DEF First

(* each source has a rank,                                                 *)
LEMMA SourceRanks ==
  ASSUME NEW s \in SourceNames
  PROVE  candidateSourceRank(s) \in 0..5 /\ Sources[candidateSourceRank(s) + 1] = s
<1>1. \E r \in 0..5 : Sources[r + 1] = s
  <2>1. /\ Sources[0 + 1] = "json_ld" /\ Sources[1 + 1] = "imprint_text"
        /\ Sources[2 + 1] = "imprint_label" /\ Sources[3 + 1] = "hcard"
        /\ Sources[4 + 1] = "copyright_footer" /\ Sources[5 + 1] = "og_site_name"
    BY DEF Sources
  <2>2. 0 \in 0..5 /\ 1 \in 0..5 /\ 2 \in 0..5 /\ 3 \in 0..5 /\ 4 \in 0..5 /\ 5 \in 0..5
    OBVIOUS
  <2> QED
    BY <2>1, <2>2 DEF SourceNames, Textual
<1> QED
  BY <1>1 DEF candidateSourceRank

LEMMA Scores == ASSUME NEW c, Shape(c) PROVE Score(c) \in Nat
<1>1. candidateSourceRank(c.source) \in Nat
  BY SourceRanks DEF Shape
<1>2. candidateConfRank(c.conf) \in {0, 1, 2, 9}
  BY DEF candidateConfRank
<1> QED
  BY <1>1, <1>2 DEF Score

(* and one is the best.                                                    *)
LEMMA BestExists ==
  ASSUME NEW S, S # {}, \A c \in S : Shape(c)
  PROVE  Best(S) # {}
<1> DEFINE T == {<<Score(c), c.at[1], c.at[2]>> : c \in S}
<1>1. \A c \in S : c.at \in Nat \X Nat /\ Score(c) \in Nat
  BY Scores DEF Shape
<1>2. T \in SUBSET Triple /\ T # {}
  <2>1. T # {}
    OBVIOUS
  <2>2. ASSUME NEW c \in S PROVE <<Score(c), c.at[1], c.at[2]>> \in Triple
    BY <1>1, PairInTriple
  <2> QED
    BY <2>1, <2>2
<1>3. PICK t \in T : \A u \in T : ~Before(u, t)
  BY <1>2, LeastTriple
<1>4. PICK c \in S : t = <<Score(c), c.at[1], c.at[2]>>
  BY <1>3
<1>5. ASSUME NEW d \in S
      PROVE  Score(c) < Score(d) \/ (Score(c) = Score(d) /\ ~Before(d.at, c.at))
  <2>1. ~Before(<<Score(d), d.at[1], d.at[2]>>, <<Score(c), c.at[1], c.at[2]>>)
    BY <1>3, <1>4
  <2>2. ~(Score(d) < Score(c) \/ (Score(d) = Score(c) /\ Before(d.at, c.at)))
    BY <1>1, <2>1, TripleOfPair
  <2> QED
    BY <1>1, <2>2
<1> QED
  BY <1>5 DEF Best

-----------------------------------------------------------------------------
(* Pages and their numbers                                                 *)

LEMMA InSequence ==
  ASSUME NEW S, NEW s \in Seq(S)
  PROVE  DOMAIN s \subseteq Nat /\ \A i \in DOMAIN s : s[i] \in S
OBVIOUS

LEMMA PageIs ==
  ASSUME NEW p \in Pages
  PROVE  /\ DOMAIN p.lines \subseteq Nat /\ DOMAIN p.markup \subseteq Nat
         /\ \A n \in DOMAIN p.markup : p.markup[n] \in Declaration
         /\ \A i \in DOMAIN p.lines :
              /\ p.lines[i] \in TextLine
              /\ p.lines[i].sort # "other" => p.lines[i].name # ""
              /\ DOMAIN p.lines[i].hits \subseteq Nat /\ p.lines[i].start \in Nat
              /\ \A n \in DOMAIN p.lines[i].hits :
                   p.lines[i].hits[n] \in NumberHit /\ p.lines[i].at[n] \in Nat
<1>1. /\ p.markup \in Seq(Declaration) /\ p.lines \in Seq(TextLine)
      /\ \A i \in DOMAIN p.lines : /\ p.lines[i].sort # "other" => p.lines[i].name # ""
                                  /\ DOMAIN p.lines[i].at = DOMAIN p.lines[i].hits
  BY PagesAssumption
<1>2. ASSUME NEW i \in DOMAIN p.lines
      PROVE  /\ p.lines[i] \in TextLine /\ p.lines[i].hits \in Seq(NumberHit)
             /\ p.lines[i].start \in Nat /\ p.lines[i].at \in Seq(Nat)
  <2>1. p.lines[i] \in TextLine
    BY <1>1, InSequence, Zenon
  <2> QED
    BY <2>1 DEF TextLine
<1>3. ASSUME NEW i \in DOMAIN p.lines
      PROVE  /\ DOMAIN p.lines[i].hits \subseteq Nat
             /\ \A n \in DOMAIN p.lines[i].hits :
                  p.lines[i].hits[n] \in NumberHit /\ p.lines[i].at[n] \in Nat
  <2>1. /\ DOMAIN p.lines[i].hits \subseteq Nat
        /\ \A n \in DOMAIN p.lines[i].hits : p.lines[i].hits[n] \in NumberHit
    BY <1>2, InSequence
  <2>2. \A n \in DOMAIN p.lines[i].at : p.lines[i].at[n] \in Nat
    BY <1>2, InSequence
  <2> QED
    BY <1>1, <2>1, <2>2
<1>4. DOMAIN p.lines \subseteq Nat /\ DOMAIN p.markup \subseteq Nat
  BY <1>1, InSequence, Zenon
<1>5. \A n \in DOMAIN p.markup : p.markup[n] \in Declaration
  BY <1>1, InSequence, Zenon
<1> QED
  BY <1>1, <1>2, <1>3, <1>4, <1>5

LEMMA PlaceIs ==
  ASSUME NEW p \in Pages, NEW o \in Places(p.lines)
  PROVE  /\ o[1] \in DOMAIN p.lines /\ o[1] \in Nat
         /\ o[2] \in DOMAIN p.lines[o[1]].hits /\ o[2] \in Nat
         /\ HitAt(p.lines, o) \in NumberHit /\ p.lines[o[1]].at[o[2]] \in Nat
<1>1. PICK i \in DOMAIN p.lines : o \in {i} \X DOMAIN p.lines[i].hits
  BY DEF Places
<1>2. o[1] = i /\ o[2] \in DOMAIN p.lines[i].hits
  BY <1>1
<1> QED
  BY <1>1, <1>2, PageIs DEF HitAt

LEMMA OrderIs ==
  ASSUME NEW p \in Pages, NEW o \in Places(p.lines)
  PROVE  Order(p.lines, o) \in Triple
<1> DEFINE kind == HitAt(p.lines, o).kind
<1>1. kind \in Kinds
  BY PlaceIs DEF NumberHit
<1>2. DOMAIN PatternOrder = 1..Len(PatternOrder) /\ Len(PatternOrder) \in Nat
  BY DEF PatternOrder
<1>3. \E k \in DOMAIN PatternOrder : PatternOrder[k] = kind
  BY <1>1, <1>2 DEF Kinds
<1> DEFINE rank == CHOOSE k \in DOMAIN PatternOrder : PatternOrder[k] = kind
<1>4. rank \in DOMAIN PatternOrder
  BY <1>3
<1>5. rank \in Nat
  BY <1>2, <1>4
<1>6. Order(p.lines, o) = <<rank, o[1], o[2]>>
  BY DEF Order
<1> HIDE DEF rank
<1> QED
  BY <1>5, <1>6, PlaceIs DEF Triple

(* Of some numbers on a page one comes first.                              *)
LEMMA FirstPlace ==
  ASSUME NEW p \in Pages, NEW S \in SUBSET Places(p.lines), S # {}
  PROVE  \E o \in S : \A q \in S : ~Before(Order(p.lines, q), Order(p.lines, o))
<1> DEFINE T == {Order(p.lines, o) : o \in S}
<1>1. T \in SUBSET Triple /\ T # {}
  BY OrderIs
<1>2. PICK t \in T : \A u \in T : ~Before(u, t)
  BY <1>1, LeastTriple
<1> QED
  BY <1>2

LEMMA FirstHitIsIn ==
  ASSUME NEW p \in Pages, NEW S \in SUBSET Places(p.lines), S # {}
  PROVE  \E o \in S : FirstHit(p.lines, S) = HitAt(p.lines, o)
<1> DEFINE first == CHOOSE o \in S : \A q \in S : ~Before(Order(p.lines, q), Order(p.lines, o))
<1>1. first \in S
  BY FirstPlace, Zenon
<1> QED
  BY <1>1, Zenon DEF FirstHit

LEMMA FoundArePlaces ==
  ASSUME NEW lines, NEW max
  PROVE  findIdentifiers(lines, max) \subseteq Places(lines)
BY DEF findIdentifiers, findIdentifiersByKind

(* If numbers are found at all then within any limit.                      *)
LEMMA FoundWithin ==
  ASSUME NEW p \in Pages, NEW max, findIdentifiers(p.lines, max) # {}
  PROVE  findIdentifiers(p.lines, 3) # {}
<1> DEFINE all == UNION {findIdentifiersByKind(p.lines, kind) : kind \in Kinds}
<1>1. all # {} /\ all \in SUBSET Places(p.lines)
  BY DEF findIdentifiers, findIdentifiersByKind
<1>2. PICK o \in all : \A q \in all : ~Before(Order(p.lines, q), Order(p.lines, o))
  BY <1>1, FirstPlace
<1>3. {q \in all : Before(Order(p.lines, q), Order(p.lines, o))} = {}
  BY <1>2
<1>4. Cardinality({q \in all : Before(Order(p.lines, q), Order(p.lines, o))}) < 3
  BY <1>3, FS_EmptySet
<1> QED
  BY <1>2, <1>4 DEF findIdentifiers

-----------------------------------------------------------------------------
(* Where candidates come from                                              *)

Regs(p, numbers) == {o \in numbers : HitAt(p.lines, o).kind \in RegisterKinds}

VATs(p, numbers) == {o \in numbers : isVATLikeIdentifierKind(HitAt(p.lines, o).kind)}

(* The numbers a line's name is nearest to.                                *)
Attached(p, i) == {o \in findIdentifiers(p.lines, MaxHits) : i \in NearestName(p.lines, o)}

FromMarkup(c, p, name, n) ==
  /\ n \in DOMAIN p.markup /\ name = p.markup[n].name
  /\ c.register = p.markup[n].register /\ c.vat = p.markup[n].vat

FromFooter(c, p, name, i) ==
  /\ i \in DOMAIN p.lines /\ name = p.lines[i].name /\ p.lines[i].copyright
  /\ c.source = "copyright_footer" /\ c.register = NoNumber /\ c.vat = ""

Carries(c, p, i, numbers) ==
  /\ c.source \in Textual /\ c.postal = p.lines[i].postal
  /\ c.register = IF Regs(p, numbers) = {} THEN NoNumber
                  ELSE formatRegister(FirstHit(p.lines, Regs(p, numbers)))
  /\ c.vat = IF VATs(p, numbers) = {} THEN "" ELSE FirstHit(p.lines, VATs(p, numbers)).value

FromText(c, p, name, i) ==
  /\ i \in NamedLines(p.lines) /\ name = p.lines[i].name
  /\ Carries(c, p, i, Attached(p, i))

Origin(c, p, name) ==
  \/ \E n : FromMarkup(c, p, name, n)
  \/ \E i : FromFooter(c, p, name, i)
  \/ \E i : FromText(c, p, name, i)

LEMMA NamedAreLines ==
  ASSUME NEW p \in Pages, NEW i \in NamedLines(p.lines)
  PROVE  /\ i \in DOMAIN p.lines /\ i \in Nat /\ p.lines[i] \in TextLine
         /\ p.lines[i].sort # "other" /\ p.lines[i].name # ""
<1>1. i \in DOMAIN p.lines /\ p.lines[i].sort # "other"
  BY DEF NamedLines, FirstFew, LinesNaming, Of
<1> QED
  BY <1>1, PageIs

LEMMA DeclaredIs ==
  ASSUME NEW p \in Pages, NEW c \in Declared(p)
  PROVE  Shape(c) /\ Origin(c, p, c.name) /\ ~c.idOnly
<1>1. PICK n \in DOMAIN p.markup :
        /\ DOMAIN c = {"name", "form", "country", "conf", "source", "register", "vat",
                       "postal", "ids", "idOnly", "at"}
        /\ c.name = p.markup[n].name /\ c.source = p.markup[n].source /\ c.idOnly = FALSE
        /\ c.register = p.markup[n].register /\ c.vat = p.markup[n].vat /\ c.at = <<1, n>>
  BY DEF Declared
<1>2. n \in Nat /\ p.markup[n].source \in {"json_ld", "hcard", "og_site_name"}
  BY PageIs DEF Declaration
<1> QED
  BY <1>1, <1>2 DEF Shape, SourceNames, Origin, FromMarkup

LEMMA FooterIs ==
  ASSUME NEW p \in Pages, NEW c \in extractCopyrightFooter(p.lines)
  PROVE  Shape(c) /\ Origin(c, p, c.name) /\ ~c.idOnly
<1>1. PICK i \in DOMAIN p.lines :
        /\ p.lines[i].copyright
        /\ c = [Candidate("copyright_footer", <<2, i>>, p.lines[i]) EXCEPT !.postal = ""]
  BY DEF extractCopyrightFooter, FirstFew, LinesNaming, Of
<1>2. i \in Nat
  BY PageIs
<1>3. /\ DOMAIN c = {"name", "form", "country", "conf", "source", "register", "vat",
                     "postal", "ids", "idOnly", "at"}
      /\ c.name = p.lines[i].name /\ c.source = "copyright_footer" /\ c.idOnly = FALSE
      /\ c.register = NoNumber /\ c.vat = "" /\ c.at = <<2, i>>
  BY <1>1 DEF Candidate
<1>4. FromFooter(c, p, c.name, i)
  BY <1>1, <1>3, Zenon DEF FromFooter
<1>5. Shape(c)
  <2>1. <<2, i>> \in Nat \X Nat
    BY <1>2
  <2> QED
    BY <1>3, <2>1 DEF Shape, SourceNames
<1> QED
  BY <1>3, <1>4, <1>5, Zenon DEF Origin

LEMMA WithHitsIs ==
  ASSUME NEW p \in Pages, NEW i \in NamedLines(p.lines), NEW numbers, NEW c,
         c = WithHits(p.lines, NamedBy(p.lines, i), numbers)
  PROVE  Shape(c) /\ ~c.idOnly /\ c.name = p.lines[i].name /\ Carries(c, p, i, numbers)
<1> DEFINE b == NamedBy(p.lines, i)
           regs == Regs(p, numbers)
           vats == VATs(p, numbers)
<1>1. /\ DOMAIN b = {"name", "form", "country", "conf", "source", "register", "vat",
                     "postal", "ids", "idOnly", "at"}
      /\ b.name = p.lines[i].name /\ b.source \in Textual /\ b.idOnly = FALSE
      /\ b.postal = p.lines[i].postal /\ b.register = NoNumber /\ b.vat = ""
      /\ b.at = NameAt(p.lines, i)
  BY DEF NamedBy, Candidate, Textual
<1>2. NameAt(p.lines, i) \in Nat \X Nat
  BY NamedAreLines DEF NameAt
<1> HIDE DEF b
<1>3. c = [b EXCEPT
             !.register = IF regs = {} THEN @ ELSE formatRegister(FirstHit(p.lines, regs)),
             !.vat      = IF vats = {} THEN @ ELSE FirstHit(p.lines, vats).value,
             !.country  = IF vats # {} /\ @ = "" THEN FirstHit(p.lines, vats).country ELSE @,
             !.conf     = IF vats # {} /\ b.country = "" THEN "high" ELSE @,
             !.ids      = {[hit |-> HitAt(p.lines, o), at |-> <<0>> \o b.at \o Order(p.lines, o)] :
                             o \in regs \cup vats}]
  BY DEF WithHits, b, Regs, VATs
<1> HIDE DEF regs, vats
<1>4. /\ DOMAIN c = DOMAIN b /\ c.name = b.name /\ c.source = b.source /\ c.idOnly = b.idOnly
      /\ c.postal = b.postal /\ c.at = b.at
      /\ c.register = IF regs = {} THEN b.register ELSE formatRegister(FirstHit(p.lines, regs))
      /\ c.vat = IF vats = {} THEN b.vat ELSE FirstHit(p.lines, vats).value
  BY <1>1, <1>3
<1> QED
  BY <1>1, <1>2, <1>4 DEF Shape, SourceNames, Carries, regs, vats

LEMMA TextIs ==
  ASSUME NEW p \in Pages, NEW c \in extractImprintText(p.lines, p.legalURL)
  PROVE  Shape(c) /\ Origin(c, p, c.name) /\ ~c.idOnly
<1>1. PICK i \in NamedLines(p.lines) : c = WithHits(p.lines, NamedBy(p.lines, i), Attached(p, i))
  BY DEF extractImprintText, Attached
<1>2. FromText(c, p, c.name, i)
  <2>1. c.name = p.lines[i].name /\ Carries(c, p, i, Attached(p, i))
    BY <1>1, WithHitsIs
  <2> QED
    BY <2>1 DEF FromText
<1>3. Shape(c) /\ ~c.idOnly
  BY <1>1, WithHitsIs
<1> QED
  BY <1>2, <1>3, Zenon DEF Origin

(* A candidate under its legal name is still from where it was.            *)
LEMMA NormalizedIs ==
  ASSUME NEW p \in Pages, NEW b, Shape(b), Origin(b, p, b.name), ~b.idOnly,
         NEW c \in Normalized(b, p.credits)
  PROVE  /\ Shape(c) /\ Origin(c, p, b.name) /\ c.name = KnownAs(b.name)
         /\ c.idOnly \/ c.name \notin Providers
<1> DEFINE name == LegalName[b.name]
           credited == name \in p.credits /\ b.source \in Textual
<1>1. \/ name = "" /\ c = [b EXCEPT !.idOnly = TRUE]
      \/ name # "" /\ name \notin Providers /\ c = Renamed(b, name)
  BY DEF Normalized, Textual
<1> HIDE DEF name
<1>2. /\ DOMAIN c = DOMAIN b /\ c.source = b.source /\ c.at = b.at /\ c.postal = b.postal
      /\ c.register = b.register /\ c.vat = b.vat
      /\ \/ name = "" /\ c.name = b.name /\ c.idOnly = TRUE
         \/ name # "" /\ name \notin Providers /\ c.name = name
  <2>1. CASE name = ""
    BY <1>1, <2>1 DEF Shape
  <2>2. CASE name # ""
    BY <1>1, <2>2 DEF Renamed, Shape
  <2> QED
    BY <2>1, <2>2
<1>3. Shape(c)
  BY <1>2 DEF Shape
<1>4. Origin(c, p, b.name)
  BY <1>2 DEF Origin, FromMarkup, FromFooter, FromText, Carries
<1>5. c.name = KnownAs(b.name) /\ (c.idOnly \/ c.name \notin Providers)
  BY <1>2 DEF KnownAs, name
<1> QED
  BY <1>3, <1>4, <1>5

LEMMA ExtractedIs ==
  ASSUME NEW p \in Pages, NEW c \in extractImprintCandidates(p)
  PROVE  /\ Shape(c) /\ (c.idOnly \/ c.name \notin Providers)
         /\ \E name : Origin(c, p, name) /\ c.name = KnownAs(name)
<1>1. PICK b \in Declared(p) \cup extractCopyrightFooter(p.lines)
                   \cup extractImprintText(p.lines, p.legalURL) : c \in Normalized(b, p.credits)
  BY DEF extractImprintCandidates, normalizeCandidates
<1>2. Shape(b) /\ Origin(b, p, b.name) /\ ~b.idOnly
  BY DeclaredIs, FooterIs, TextIs
<1> QED
  BY <1>1, <1>2, NormalizedIs

-----------------------------------------------------------------------------
(* Candidates of one name                                                  *)

LEMMA FirstGivenIs ==
  ASSUME NEW G, \A c \in G : Shape(c), NEW field, NEW none
  PROVE  \/ FirstGiven(G, field, none) = none /\ \A c \in G : c[field] = none
         \/ /\ FirstGiven(G, field, none) # none
            /\ \E c \in G : FirstGiven(G, field, none) = c[field]
<1> DEFINE given == {c \in G : c[field] # none}
<1>1. CASE given = {}
  BY <1>1 DEF FirstGiven
<1>2. CASE given # {}
  <2>1. First(given) \in given
    BY <1>2, FirstIsIn
  <2>2. FirstGiven(G, field, none) = First(given)[field]
    BY <1>2 DEF FirstGiven
  <2> QED
    BY <2>1, <2>2
<1> QED
  BY <1>1, <1>2

(* What a group of candidates has, its merged candidate has; and that has  *)
(* nothing else.                                                           *)
MergedFrom(m, G) ==
  /\ Shape(m)
  /\ \E c \in G : m.source = c.source
  /\ \E c \in G : m.idOnly = c.idOnly
  /\ m.postal # "" => \E c \in G : c.postal # ""
  /\ \/ m.register = NoNumber /\ \A c \in G : c.register = NoNumber
     \/ m.register # NoNumber /\ \E c \in G : m.register = c.register
  /\ \/ m.vat = "" /\ \A c \in G : c.vat = ""
     \/ m.vat # "" /\ \E c \in G : m.vat = c.vat

LEMMA MergedIs ==
  ASSUME NEW G, G # {}, \A c \in G : Shape(c), NEW x, NEW m, m = Merged(x, G)
  PROVE  m.name = x /\ MergedFrom(m, G)
<1> DEFINE rank == CHOOSE r \in 0..5 :
                     /\ \E c \in G : candidateSourceRank(c.source) = r
                     /\ \A c \in G : r <= candidateSourceRank(c.source)
<1>1. /\ DOMAIN m = {"name", "form", "country", "conf", "source", "register", "vat",
                     "postal", "ids", "idOnly", "at"}
      /\ m.name = x /\ m.source = Sources[rank + 1]
      /\ m.idOnly = First(G).idOnly /\ m.at = First(G).at
      /\ m.postal = FirstGiven(G, "postal", "")
      /\ m.register = FirstGiven(G, "register", NoNumber)
      /\ m.vat = FirstGiven(G, "vat", "")
  BY DEF Merged
<1>2. PICK c \in G : candidateSourceRank(c.source) = rank
  <2> DEFINE R == {candidateSourceRank(c.source) : c \in G}
  <2>1. R # {} /\ R \subseteq 0..5
    BY SourceRanks DEF Shape
  <2> HIDE DEF R
  <2>2. PICK r \in R : \A n \in R : r <= n
    <3>1. R \in SUBSET Nat
      BY <2>1
    <3> QED
      BY <2>1, <3>1, LeastExists
  <2> USE DEF R
  <2>3. \E r_1 \in 0..5 : /\ \E c \in G : candidateSourceRank(c.source) = r_1
                         /\ \A c \in G : r_1 <= candidateSourceRank(c.source)
    BY <2>1, <2>2
  <2> QED
    BY <2>3
<1> HIDE DEF rank
<1>3. m.source = c.source /\ c.source \in SourceNames
  BY <1>1, <1>2, SourceRanks DEF Shape
<1>4. First(G) \in G
  BY FirstIsIn
<1>5. Shape(m) /\ \E d \in G : m.idOnly = d.idOnly
  BY <1>1, <1>3, <1>4 DEF Shape
<1>6. m.postal # "" => \E d \in G : d.postal # ""
  <2> DEFINE none == ""
  <2> HIDE DEF none
  <2>1. \/ FirstGiven(G, "postal", none) = none /\ \A d \in G : d["postal"] = none
        \/ /\ FirstGiven(G, "postal", none) # none
           /\ \E d \in G : FirstGiven(G, "postal", none) = d["postal"]
    BY FirstGivenIs
  <2> QED
    BY <1>1, <2>1 DEF none
<1>7. \/ m.register = NoNumber /\ \A d \in G : d.register = NoNumber
      \/ m.register # NoNumber /\ \E d \in G : m.register = d.register
  <2>1. \/ FirstGiven(G, "register", NoNumber) = NoNumber /\ \A d \in G : d["register"] = NoNumber
        \/ /\ FirstGiven(G, "register", NoNumber) # NoNumber
           /\ \E d \in G : FirstGiven(G, "register", NoNumber) = d["register"]
    BY FirstGivenIs
  <2> QED
    BY <1>1, <2>1
<1>8. \/ m.vat = "" /\ \A d \in G : d.vat = ""
      \/ m.vat # "" /\ \E d \in G : m.vat = d.vat
  <2> DEFINE none == ""
  <2> HIDE DEF none
  <2>1. \/ FirstGiven(G, "vat", none) = none /\ \A d \in G : d["vat"] = none
        \/ /\ FirstGiven(G, "vat", none) # none
           /\ \E d \in G : FirstGiven(G, "vat", none) = d["vat"]
    BY FirstGivenIs
  <2> QED
    BY <1>1, <2>1 DEF none
<1> QED
  BY <1>1, <1>3, <1>5, <1>6, <1>7, <1>8 DEF MergedFrom

Group(p, x) == {c \in extractImprintCandidates(p) : c.name = x}

LEMMA CandidateIs ==
  ASSUME NEW p \in Pages, NEW m \in mergeImprintCandidates(extractImprintCandidates(p))
  PROVE  /\ m.name # "" /\ MergedFrom(m, Group(p, m.name))
         /\ \A c \in Group(p, m.name) : c \in extractImprintCandidates(p) /\ c.name = m.name
<1> DEFINE C == extractImprintCandidates(p)
<1>1. PICK x \in {c.name : c \in C} \ {""} : m = Merged(x, {c \in C : c.name = x})
  BY DEF mergeImprintCandidates
<1>2. {c \in C : c.name = x} # {} /\ \A c \in {c \in C : c.name = x} : Shape(c)
  BY <1>1, ExtractedIs
<1>3. m.name = x /\ MergedFrom(m, {c \in C : c.name = x})
  BY <1>1, <1>2, MergedIs
<1> QED
  BY <1>1, <1>3 DEF Group

(* And every name of a candidate has a merged one.                         *)
LEMMA EveryNameIsMerged ==
  ASSUME NEW p \in Pages, NEW c \in extractImprintCandidates(p), c.name # ""
  PROVE  \E m \in mergeImprintCandidates(extractImprintCandidates(p)) :
           m.name = c.name /\ MergedFrom(m, Group(p, c.name))
<1> DEFINE C == extractImprintCandidates(p)
           G == {d \in C : d.name = c.name}
<1>1. Merged(c.name, G) \in mergeImprintCandidates(C)
  BY DEF mergeImprintCandidates
<1>2. G # {} /\ \A d \in G : Shape(d)
  BY ExtractedIs
<1>3. Merged(c.name, G).name = c.name /\ MergedFrom(Merged(c.name, G), G)
  BY <1>2, MergedIs
<1> QED
  BY <1>1, <1>3 DEF Group

-----------------------------------------------------------------------------
(* Numbers and the names they stand with                                   *)

LEMMA Distances ==
  ASSUME NEW a \in Nat, NEW b \in Nat
  PROVE  Distance(a, b) \in Nat
BY DEF Distance

LEMMA AwayIs ==
  ASSUME NEW p \in Pages, NEW o \in Places(p.lines), NEW i \in DOMAIN p.lines
  PROVE  Away(p.lines, o, i) \in Nat
BY PlaceIs, PageIs, Distances DEF Away

LEMMA NameAtIs ==
  ASSUME NEW p \in Pages, NEW i \in NamedLines(p.lines)
  PROVE  NameAt(p.lines, i) \in Nat \X Nat
BY NamedAreLines DEF NameAt

(* A number goes to a name if one is within reach,                         *)
LEMMA NearestExists ==
  ASSUME NEW p \in Pages, NEW o \in Places(p.lines), Reached(p.lines, o) # {}
  PROVE  NearestName(p.lines, o) # {}
<1> DEFINE R == Reached(p.lines, o)
           d(i) == Away(p.lines, o, i)
           at(i) == NameAt(p.lines, i)
           T == {<<d(i), at(i)[1], at(i)[2]>> : i \in R}
<1>1. ASSUME NEW i \in R PROVE d(i) \in Nat /\ at(i) \in Nat \X Nat
  <2>1. i \in NamedLines(p.lines)
    BY DEF Reached
  <2> QED
    BY <2>1, NamedAreLines, AwayIs, NameAtIs
<1> HIDE DEF d, at, R
<1>2. T \in SUBSET Triple /\ T # {}
  <2>1. T # {}
    BY DEF R
  <2>2. ASSUME NEW i \in R PROVE <<d(i), at(i)[1], at(i)[2]>> \in Triple
    BY <1>1, PairInTriple
  <2> QED
    BY <2>1, <2>2
<1>3. PICK t \in T : \A u \in T : ~Before(u, t)
  BY <1>2, LeastTriple
<1>4. PICK i \in R : t = <<d(i), at(i)[1], at(i)[2]>>
  BY <1>3
<1>5. ASSUME NEW j \in R
      PROVE  d(i) < d(j) \/ (d(i) = d(j) /\ ~Before(at(j), at(i)))
  <2>1. ~Before(<<d(j), at(j)[1], at(j)[2]>>, <<d(i), at(i)[1], at(i)[2]>>)
    BY <1>3, <1>4
  <2>2. ~(d(j) < d(i) \/ (d(j) = d(i) /\ Before(at(j), at(i))))
    BY <1>1, <2>1, TripleOfPair
  <2> QED
    BY <1>1, <2>2
<1>6. i \in NearestName(p.lines, o)
  BY <1>5 DEF NearestName, R, d, at
<1> QED
  BY <1>6

(* and then to one that it stands with.                                    *)
LEMMA NearestIs ==
  ASSUME page \in Pages, NEW o \in Places(page.lines), NEW i \in NearestName(page.lines, o)
  PROVE  /\ i \in NamedLines(page.lines) /\ Away(page.lines, o, i) <= Near
         /\ page.lines[i].name \in Beside(o)
<1>1. /\ i \in NamedLines(page.lines) /\ i \in Reached(page.lines, o)
      /\ Away(page.lines, o, i) <= Near
  BY DEF NearestName, Reached
<1>2. ASSUME NEW j \in Reached(page.lines, o)
      PROVE  Away(page.lines, o, i) <= Away(page.lines, o, j)
  <2>1. j \in NamedLines(page.lines)
    BY DEF Reached
  <2> DEFINE d(k) == Away(page.lines, o, k)
  <2>2. d(i) \in Nat /\ d(j) \in Nat
    BY <1>1, <2>1, NamedAreLines, AwayIs
  <2>3. d(i) < d(j) \/ d(i) = d(j)
    BY DEF NearestName
  <2> HIDE DEF d
  <2>4. d(i) <= d(j)
    BY <2>2, <2>3
  <2> QED
    BY <2>4 DEF d
<1> QED
  BY <1>1, <1>2 DEF Beside

(* The candidate of a line's name has a number of each sort that goes to   *)
(* the name.                                                               *)
LEMMA CandidateHas ==
  ASSUME NEW p \in Pages, NEW i \in NamedLines(p.lines), NEW c, Carries(c, p, i, Attached(p, i))
  PROVE  /\ VATs(p, Attached(p, i)) # {} =>
              c.vat # "" /\ \E o \in VATs(p, Attached(p, i)) : c.vat = HitAt(p.lines, o).value
         /\ Regs(p, Attached(p, i)) # {} =>
              /\ c.register # NoNumber
              /\ \E o \in Regs(p, Attached(p, i)) : c.register = formatRegister(HitAt(p.lines, o))
<1>1. /\ VATs(p, Attached(p, i)) \in SUBSET Places(p.lines)
      /\ Regs(p, Attached(p, i)) \in SUBSET Places(p.lines)
  BY FoundArePlaces DEF VATs, Regs, Attached
<1>2. ASSUME VATs(p, Attached(p, i)) # {}
      PROVE  c.vat # "" /\ \E o \in VATs(p, Attached(p, i)) : c.vat = HitAt(p.lines, o).value
  <2>1. PICK o \in VATs(p, Attached(p, i)) :
          FirstHit(p.lines, VATs(p, Attached(p, i))) = HitAt(p.lines, o)
    BY <1>1, <1>2, FirstHitIsIn
  <2>2. c.vat = HitAt(p.lines, o).value
    BY <1>2, <2>1 DEF Carries
  <2>3. HitAt(p.lines, o).value # ""
    BY <1>1, PlaceIs DEF NumberHit
  <2> QED
    BY <2>2, <2>3
<1>3. ASSUME Regs(p, Attached(p, i)) # {}
      PROVE  /\ c.register # NoNumber
             /\ \E o \in Regs(p, Attached(p, i)) : c.register = formatRegister(HitAt(p.lines, o))
  <2>1. PICK o \in Regs(p, Attached(p, i)) :
          FirstHit(p.lines, Regs(p, Attached(p, i))) = HitAt(p.lines, o)
    BY <1>1, <1>3, FirstHitIsIn
  <2>2. c.register = formatRegister(HitAt(p.lines, o))
    BY <1>3, <2>1 DEF Carries
  <2>3. HitAt(p.lines, o).value # ""
    BY <1>1, PlaceIs DEF NumberHit
  <2>4. formatRegister(HitAt(p.lines, o)).value = HitAt(p.lines, o).value /\ NoNumber.value = ""
    BY DEF formatRegister, NoNumber
  <2>5. c.register # NoNumber
    BY <2>2, <2>3, <2>4, Zenon
  <2> QED
    BY <2>2, <2>5
<1> QED
  BY <1>2, <1>3

(* A number that stands with names that are kept is that of a candidate.   *)
LEMMA NumberIsExtracted ==
  ASSUME page \in Pages, NEW names, NEW o \in NumbersOnlyAmong(names),
         \A n \in names : LegalName[n] = "" \/ LegalName[n] \notin Providers \cup page.credits,
         \/ HitAt(page.lines, o).kind \in RegisterKinds
         \/ isVATLikeIdentifierKind(HitAt(page.lines, o).kind)
  PROVE  \E i \in NamedLines(page.lines), c \in extractImprintCandidates(page) :
           /\ o \in Attached(page, i) /\ Carries(c, page, i, Attached(page, i))
           /\ page.lines[i].name \in names /\ c.name = KnownAs(page.lines[i].name)
<1>1. /\ o \in findIdentifiers(page.lines, MaxHits) /\ o \in Places(page.lines)
      /\ Beside(o) # {} /\ Beside(o) \subseteq names
  BY FoundArePlaces DEF NumbersOnlyAmong, NumbersAmong
<1>2. PICK i \in NearestName(page.lines, o) : TRUE
  <2>1. Reached(page.lines, o) # {}
    BY <1>1 DEF Beside
  <2> QED
    BY <1>1, <2>1, NearestExists
<1>3. /\ i \in NamedLines(page.lines) /\ page.lines[i].name \in names
      /\ o \in Attached(page, i)
  BY <1>1, <1>2, NearestIs DEF Attached
<1> DEFINE b == WithHits(page.lines, NamedBy(page.lines, i), Attached(page, i))
           name == LegalName[b.name]
<1>4. b \in extractImprintText(page.lines, page.legalURL)
  <2>1. findIdentifiers(page.lines, 3) # {}
    BY <1>1, FoundWithin
  <2> QED
    BY <1>3, <2>1 DEF extractImprintText, Attached
<1>5. Shape(b) /\ b.name = page.lines[i].name /\ Carries(b, page, i, Attached(page, i))
  <2>1. b = WithHits(page.lines, NamedBy(page.lines, i), Attached(page, i))
    OBVIOUS
  <2> HIDE DEF b
  <2> QED
    BY <1>3, <2>1, WithHitsIs, ZenonT(60)
<1> HIDE DEF b
<1>6. b.register # NoNumber \/ b.vat # ""
  <2>1. o \in Regs(page, Attached(page, i)) \/ o \in VATs(page, Attached(page, i))
    BY <1>3 DEF Regs, VATs
  <2> QED
    BY <1>3, <1>5, <2>1, CandidateHas
<1>7. PICK c \in Normalized(b, page.credits) :
        \/ name = "" /\ c = [b EXCEPT !.idOnly = TRUE]
        \/ name # "" /\ c = Renamed(b, name)
  <2>1. name = "" \/ name \notin Providers \cup page.credits
    BY <1>3, <1>5
  <2> HIDE DEF name
  <2>2. CASE name = ""
    <3>1. Normalized(b, page.credits) = {[b EXCEPT !.idOnly = TRUE]}
      BY <1>6, <2>2 DEF Normalized, name
    <3> QED
      BY <2>2, <3>1
  <2>3. CASE name # ""
    <3>1. Normalized(b, page.credits) = {Renamed(b, name)}
      BY <2>1, <2>3 DEF Normalized, name
    <3> QED
      BY <2>3, <3>1
  <2> QED
    BY <2>2, <2>3
<1>8. c \in extractImprintCandidates(page)
  BY <1>4, <1>7 DEF extractImprintCandidates, normalizeCandidates
<1>9. c.name = KnownAs(b.name) /\ Carries(c, page, i, Attached(page, i))
  <2>1. /\ c.source = b.source /\ c.postal = b.postal /\ c.register = b.register /\ c.vat = b.vat
        /\ c.name = KnownAs(b.name)
    <3>1. CASE name = ""
      BY <1>5, <1>7, <3>1 DEF Shape, KnownAs
    <3>2. CASE name # ""
      <4>1. c = Renamed(b, name)
        BY <1>7, <3>2
      <4> HIDE DEF name
      <4>2. /\ c.source = b.source /\ c.postal = b.postal /\ c.register = b.register
            /\ c.vat = b.vat /\ c.name = name
        BY <1>5, <4>1 DEF Renamed, Shape
      <4> QED
        BY <3>2, <4>2 DEF name, KnownAs
    <3> QED
      BY <3>1, <3>2
  <2> QED
    BY <1>5, <2>1 DEF Carries
<1> QED
  BY <1>3, <1>5, <1>8, <1>9

-----------------------------------------------------------------------------
(* What the winner takes over                                              *)

(* Numbers that are missing, and no others.                                *)
LEMMA BackfillIs ==
  ASSUME NEW C, \A c \in C : Shape(c), NEW m \in C, NEW w, w = backfillWinnerIdentifiers(C, m)
  PROVE  /\ w.name = m.name
         /\ m.vat # "" => w.vat = m.vat
         /\ (\E c \in C : c.vat # "") => w.vat # ""
         /\ m.register # NoNumber => w.register = m.register
         /\ (\E c \in C : c.register # NoNumber) => w.register # NoNumber
<1> DEFINE r == WithRegister(C, m)
<1>1. /\ r.name = m.name /\ r.vat = m.vat /\ DOMAIN r = DOMAIN m
      /\ m.register # NoNumber => r.register = m.register
      /\ (\E c \in C : c.register # NoNumber) => r.register # NoNumber
  <2> DEFINE S == {c \in C \ {m} : c.register # NoNumber}
             donor == CHOOSE d \in Best(S) : TRUE
             hits == TakenOver({id \in donor.ids : formatRegister(id.hit) = donor.register}, 1)
  <2>1. r = IF m.register # NoNumber \/ Best(S) = {} THEN m
            ELSE [m EXCEPT !.register = donor.register, !.ids = @ \cup hits]
    BY DEF WithRegister
  <2>2. Best(S) # {} => donor \in S
    BY DEF Best
  <2>3. S # {} => Best(S) # {}
    BY BestExists
  <2>4. (\E c \in C : c.register # NoNumber) /\ m.register = NoNumber => S # {}
    OBVIOUS
  <2>5. donor \in S => donor.register # NoNumber
    OBVIOUS
  <2> HIDE DEF S, donor, hits, r
  <2>6. CASE m.register # NoNumber \/ Best(S) = {}
    <3>1. r = m
      BY <2>1, <2>6
    <3> QED
      BY <2>3, <2>4, <2>6, <3>1
  <2>7. CASE ~(m.register # NoNumber \/ Best(S) = {})
    <3>1. r = [m EXCEPT !.register = donor.register, !.ids = @ \cup hits]
      BY <2>1, <2>7
    <3>2. /\ DOMAIN r = DOMAIN m /\ r.name = m.name /\ r.vat = m.vat
          /\ r.register = donor.register
      BY <3>1 DEF Shape
    <3> QED
      BY <2>2, <2>5, <2>7, <3>2
  <2> QED
    BY <2>6, <2>7
<1>2. w = WithVAT(C, m, r)
  BY DEF backfillWinnerIdentifiers
<1> HIDE DEF r
<1>3. /\ w.name = r.name /\ w.register = r.register
      /\ r.vat # "" => w.vat = r.vat
      /\ (\E c \in C : c.vat # "") /\ m.vat = r.vat => w.vat # ""
  <2> DEFINE S == {c \in C \ {m} : c.vat # ""}
             donor == CHOOSE d \in Best(S) : TRUE
             hits == TakenOver({id \in donor.ids : /\ isVATLikeIdentifierKind(id.hit.kind)
                                                   /\ id.hit.value = donor.vat}, 2)
  <2>1. w = IF r.vat # "" \/ Best(S) = {} THEN r
            ELSE [r EXCEPT !.vat = donor.vat, !.ids = @ \cup hits]
    BY <1>2 DEF WithVAT
  <2>2. Best(S) # {} => donor \in S
    BY DEF Best
  <2>3. S # {} => Best(S) # {}
    BY BestExists
  <2>4. (\E c \in C : c.vat # "") /\ m.vat = "" => S # {}
    OBVIOUS
  <2>5. donor \in S => donor.vat # ""
    OBVIOUS
  <2> HIDE DEF S, donor, hits
  <2>6. CASE r.vat # "" \/ Best(S) = {}
    <3>1. w = r
      BY <2>1, <2>6
    <3> QED
      BY <2>3, <2>4, <2>6, <3>1
  <2>7. CASE ~(r.vat # "" \/ Best(S) = {})
    <3>1. w = [r EXCEPT !.vat = donor.vat, !.ids = @ \cup hits]
      BY <2>1, <2>7
    <3>2. w.name = r.name /\ w.register = r.register /\ w.vat = donor.vat
      BY <1>1, <3>1 DEF Shape
    <3> QED
      BY <2>2, <2>5, <2>7, <3>2
  <2> QED
    BY <2>6, <2>7
<1> QED
  BY <1>1, <1>3

-----------------------------------------------------------------------------
(* The choice                                                              *)

(* The winner is among the merged candidates of the page.                  *)
LEMMA WinnerIs ==
  ASSUME NEW p \in Pages, NEW C, C = mergeImprintCandidates(extractImprintCandidates(p)),
         NEW w \in bestImprintCandidate(C)
  PROVE  w \in C /\ ~w.idOnly /\ hasProximityCorroboration(w)
BY DEF bestImprintCandidate, Best

LEMMA MergedShapes ==
  ASSUME NEW p \in Pages, NEW C, C = mergeImprintCandidates(extractImprintCandidates(p))
  PROVE  \A c \in C : Shape(c)
BY CandidateIs DEF MergedFrom

(* The candidates stay what the page offers, the winner the best of them,  *)
(* and the numbers it has or takes over are reported.                      *)
ChoiceInv ==
  /\ page \in Pages
  /\ DOMAIN im = DOMAIN Empty
  /\ pc = "extract" => best = {}
  /\ best # {} => /\ cands = mergeImprintCandidates(extractImprintCandidates(page))
                  /\ best = bestImprintCandidate(cands)
  /\ best # {} /\ pc # "copy" =>
       LET w == backfillWinnerIdentifiers(cands, Winner)
       IN  /\ w.vat # "" => im.vat = w.vat
           /\ w.register # NoNumber => im.register = w.register

LEMMA CopyTakes ==
  ASSUME ChoiceInv, Copy
  PROVE  /\ DOMAIN im' = DOMAIN Empty
         /\ best = {} => im' = im
         /\ best # {} => LET w == backfillWinnerIdentifiers(cands, Winner)
                         IN  im'.name = w.name /\ im'.vat = w.vat /\ im'.register = w.register
<1>1. CASE best = {}
  <2>1. im' = im
    BY <1>1, Zenon DEF Copy
  <2> QED
    BY <1>1, <2>1 DEF ChoiceInv
<1>2. CASE best # {}
  <2> DEFINE w == backfillWinnerIdentifiers(cands, Winner)
             verdicts == LastAmong({id \in w.ids : /\ isVATLikeIdentifierKind(id.hit.kind)
                                                   /\ id.hit.value = w.vat})
             singles  == LastAmong({id \in w.ids : singleCountryIdentifierKind(id.hit.kind) # ""})
             verdict == IF verdicts = {} THEN ""
                        ELSE (CHOOSE id \in verdicts : TRUE).hit.validation
             country == IF singles = {} THEN w.country
                        ELSE singleCountryIdentifierKind((CHOOSE id \in singles : TRUE).hit.kind)
  <2>1. im' = [im EXCEPT
                 !.name = w.name, !.form = w.form, !.postal = w.postal,
                 !.register = w.register, !.vat = w.vat, !.verdict = verdict,
                 !.country = country]
    BY <1>2 DEF Copy
  <2> HIDE DEF verdict, country, singles, verdicts, w
  <2>2. /\ DOMAIN im' = DOMAIN im
        /\ im'.name = w.name /\ im'.vat = w.vat /\ im'.register = w.register
    BY <2>1 DEF ChoiceInv, Empty
  <2> QED
    BY <1>2, <2>2 DEF ChoiceInv, w
<1> QED
  BY <1>1, <1>2

LEMMA StepChoice == ChoiceInv /\ [Next]_vars => ChoiceInv'
<1> SUFFICES ASSUME ChoiceInv, [Next]_vars PROVE ChoiceInv'
  OBVIOUS
<1>0. page' = page
  BY DEF Next, NoBody, Extract, Copy, PageNumbers, NameCountry, SettleDEAT, Refine, Fill,
         scoreImprint, vars
<1>1. CASE NoBody
  <2>1. best = {} /\ best' = {} /\ DOMAIN im' = DOMAIN im /\ pc' = "done"
    BY <1>1 DEF NoBody, ChoiceInv
  <2> QED
    BY <1>0, <2>1 DEF ChoiceInv
<1>2. CASE Extract
  <2>1. /\ cands' = mergeImprintCandidates(extractImprintCandidates(page))
        /\ best' = bestImprintCandidate(cands') /\ pc' = "copy" /\ im' = im
    BY <1>2 DEF Extract
  <2> QED
    BY <1>0, <2>1 DEF ChoiceInv
<1>3. CASE Copy
  <2>1. pc' = "numbers" /\ cands' = cands /\ best' = best
    BY <1>3 DEF Copy
  <2>2. Winner' = Winner
    BY <2>1 DEF Winner
  <2> QED
    BY <1>0, <1>3, <2>1, <2>2, CopyTakes DEF ChoiceInv
<1>4. CASE /\ cands' = cands /\ best' = best /\ DOMAIN im' = DOMAIN im
           /\ im.vat # "" => im'.vat = im.vat
           /\ im.register # NoNumber => im'.register = im.register
           /\ pc \notin {"extract", "copy"} /\ pc' \notin {"extract", "copy"}
  <2>1. Winner' = Winner
    BY <1>4 DEF Winner
  <2> QED
    BY <1>0, <1>4, <2>1 DEF ChoiceInv
<1>5. CASE PageNumbers
  <2> DEFINE corporate == oneDistinctIdentifier(Hits("CorporateNumber"))
             invoice   == oneDistinctIdentifier(Hits("InvoiceIssuerRegistration"))
             number    == CHOOSE hit \in Hits("CorporateNumber") : TRUE
             issuer    == CHOOSE hit \in Hits("InvoiceIssuerRegistration") : TRUE
  <2>1. /\ pc = "numbers" /\ pc' = "country" /\ cands' = cands /\ best' = best
        /\ im' = [im EXCEPT
                    !.register = IF corporate /\ @ = NoNumber THEN formatRegister(number) ELSE @,
                    !.vat      = IF invoice /\ @ = "" THEN issuer.value ELSE @,
                    !.verdict  = IF invoice /\ im.vat = "" THEN issuer.validation ELSE @,
                    !.country  = IF corporate \/ invoice THEN "JP" ELSE @]
    BY <1>5 DEF PageNumbers
  <2> HIDE DEF corporate, invoice, number, issuer
  <2>2. /\ DOMAIN im' = DOMAIN im
        /\ im.vat # "" => im'.vat = im.vat
        /\ im.register # NoNumber => im'.register = im.register
    BY <2>1 DEF ChoiceInv, Empty
  <2> QED
    BY <1>4, <2>1, <2>2
<1>6. CASE NameCountry
  BY <1>4, <1>6 DEF NameCountry, ChoiceInv, Empty
<1>7. CASE SettleDEAT
  BY <1>4, <1>7 DEF SettleDEAT, ChoiceInv, Empty
<1>8. CASE Refine
  BY <1>4, <1>8 DEF Refine, ChoiceInv, Empty
<1>9. CASE Fill
  BY <1>4, <1>9 DEF Fill, ChoiceInv, Empty
<1>10. CASE scoreImprint
  BY <1>4, <1>10 DEF scoreImprint, ChoiceInv, Empty
<1>11. CASE UNCHANGED vars
  <2>1. Winner' = Winner
    BY <1>11 DEF Winner, vars
  <2> QED
    BY <1>11, <2>1 DEF ChoiceInv, vars
<1> QED
  BY <1>1, <1>2, <1>3, <1>5, <1>6, <1>7, <1>8, <1>9, <1>10, <1>11 DEF Next

LEMMA ChoiceHolds == Spec => []ChoiceInv
<1>1. Init => ChoiceInv
  BY DEF Init, ChoiceInv
<1> QED
  BY <1>1, StepChoice, PTL DEF Spec

-----------------------------------------------------------------------------
(* The numbers                                                             *)

(* Where some candidate has a number so has the result, and the winner's   *)
(* own stands.                                                             *)
LEMMA NumbersReported ==
  ASSUME ChoiceInv, pc = "done", best # {}
  PROVE  /\ Winner \in cands /\ ~Winner.idOnly /\ hasProximityCorroboration(Winner)
         /\ \A c \in cands : Shape(c)
         /\ (\E c \in cands : c.vat # "") => im.vat # ""
         /\ Winner.vat # "" => im.vat = Winner.vat
         /\ (\E c \in cands : c.register # NoNumber) => im.register # NoNumber
         /\ Winner.register # NoNumber => im.register = Winner.register
<1> DEFINE w == backfillWinnerIdentifiers(cands, Winner)
<1>1. /\ page \in Pages /\ cands = mergeImprintCandidates(extractImprintCandidates(page))
      /\ best = bestImprintCandidate(cands)
      /\ w.vat # "" => im.vat = w.vat
      /\ w.register # NoNumber => im.register = w.register
  BY DEF ChoiceInv
<1>2. Winner \in best
  BY DEF Winner
<1>3. Winner \in cands /\ ~Winner.idOnly /\ hasProximityCorroboration(Winner)
  BY <1>1, <1>2, WinnerIs
<1>4. \A c \in cands : Shape(c)
  BY <1>1, MergedShapes
<1>5. /\ Winner.vat # "" => w.vat = Winner.vat
      /\ (\E c \in cands : c.vat # "") => w.vat # ""
      /\ Winner.register # NoNumber => w.register = Winner.register
      /\ (\E c \in cands : c.register # NoNumber) => w.register # NoNumber
  BY <1>3, <1>4, BackfillIs
<1> HIDE DEF w
<1> QED
  BY <1>1, <1>3, <1>4, <1>5

(* The merged candidate of the name that a number stands with has a number *)
(* of that sort.                                                           *)
LEMMA NumberIsMerged ==
  ASSUME page \in Pages, NEW names, NEW o \in NumbersOnlyAmong(names),
         \A n \in names : LegalName[n] = "" \/ LegalName[n] \notin Providers \cup page.credits
  PROVE  /\ isVATLikeIdentifierKind(HitAt(page.lines, o).kind) =>
              \E n \in names, m \in mergeImprintCandidates(extractImprintCandidates(page)) :
                m.name = KnownAs(n) /\ m.vat # ""
         /\ HitAt(page.lines, o).kind \in RegisterKinds =>
              \E n \in names, m \in mergeImprintCandidates(extractImprintCandidates(page)) :
                m.name = KnownAs(n) /\ m.register # NoNumber
<1> SUFFICES ASSUME \/ HitAt(page.lines, o).kind \in RegisterKinds
                    \/ isVATLikeIdentifierKind(HitAt(page.lines, o).kind)
             PROVE  /\ isVATLikeIdentifierKind(HitAt(page.lines, o).kind) =>
                         \E n \in names, m \in mergeImprintCandidates(extractImprintCandidates(page)) :
                           m.name = KnownAs(n) /\ m.vat # ""
                    /\ HitAt(page.lines, o).kind \in RegisterKinds =>
                         \E n \in names, m \in mergeImprintCandidates(extractImprintCandidates(page)) :
                           m.name = KnownAs(n) /\ m.register # NoNumber
  OBVIOUS
<1>1. PICK i \in NamedLines(page.lines), c \in extractImprintCandidates(page) :
        /\ o \in Attached(page, i) /\ Carries(c, page, i, Attached(page, i))
        /\ page.lines[i].name \in names /\ c.name = KnownAs(page.lines[i].name)
  BY NumberIsExtracted, ZenonT(60)
<1>2. c.name # ""
  BY <1>1, NamedAreLines DEF KnownAs
<1>3. PICK m \in mergeImprintCandidates(extractImprintCandidates(page)) :
        m.name = c.name /\ MergedFrom(m, Group(page, c.name))
  BY <1>2, EveryNameIsMerged
<1>4. c \in Group(page, c.name)
  BY DEF Group
<1>5. /\ c.vat # "" => m.vat # ""
      /\ c.register # NoNumber => m.register # NoNumber
  BY <1>3, <1>4 DEF MergedFrom
<1>6. /\ isVATLikeIdentifierKind(HitAt(page.lines, o).kind) => o \in VATs(page, Attached(page, i))
      /\ HitAt(page.lines, o).kind \in RegisterKinds => o \in Regs(page, Attached(page, i))
  BY <1>1 DEF VATs, Regs
<1>7. /\ VATs(page, Attached(page, i)) # {} => c.vat # ""
      /\ Regs(page, Attached(page, i)) # {} => c.register # NoNumber
  BY <1>1, CandidateHas
<1> QED
  BY <1>1, <1>3, <1>5, <1>6, <1>7

(* A number that stands with a name the code keeps is never lost: its      *)
(* candidate is kept, be it for its numbers only, is merged with those of  *)
(* the same name, and wins or is one the winner takes over from.           *)
THEOREM NumbersAreNotLost == Spec => []NumbersReachTheEntity
<1>1. ASSUME ChoiceInv, pc = "done", best # {} PROVE NumbersReachTheEntity
  <2> DEFINE names == {page.lines[i].name : i \in Lines}
             kept == {n \in names : LegalName[n] \notin Providers \cup page.credits}
  <2>1. /\ page \in Pages
        /\ cands = mergeImprintCandidates(extractImprintCandidates(page))
    BY <1>1 DEF ChoiceInv
  <2>2. \A n \in kept : LegalName[n] = "" \/ LegalName[n] \notin Providers \cup page.credits
    OBVIOUS
  <2> HIDE DEF kept
  <2>3. ASSUME VATsOf(NumbersOnlyAmong(kept)) # {} PROVE im.vat # ""
    <3>1. PICK o \in NumbersOnlyAmong(kept) : isVATLikeIdentifierKind(HitAt(page.lines, o).kind)
      BY <2>3 DEF VATsOf
    <3>2. \E m \in cands : m.vat # ""
      BY <2>1, <2>2, <3>1, NumberIsMerged
    <3> QED
      BY <1>1, <3>2, NumbersReported
  <2>4. ASSUME RegistersOf(NumbersOnlyAmong(kept)) # {} PROVE im.register # NoNumber
    <3>1. PICK o \in NumbersOnlyAmong(kept) : HitAt(page.lines, o).kind \in RegisterKinds
      BY <2>4 DEF RegistersOf
    <3>2. \E m \in cands : m.register # NoNumber
      BY <2>1, <2>2, <3>1, NumberIsMerged
    <3> QED
      BY <1>1, <3>2, NumbersReported
  <2> QED
    BY <2>3, <2>4 DEF NumbersReachTheEntity, kept
<1>2. ChoiceInv => NumbersReachTheEntity
  BY <1>1 DEF NumbersReachTheEntity
<1> QED
  BY <1>2, ChoiceHolds, PTL

(* What a text candidate has is the number of a place its name is nearest  *)
(* to, and so one that stands with it.                                     *)
LEMMA OwnNumbers ==
  ASSUME page \in Pages, NEW names, NEW c, NEW i, FromText(c, page, page.lines[i].name, i),
         page.lines[i].name \in names
  PROVE  /\ c.vat # "" => c.vat \in VATsOf(NumbersAmong(names))
         /\ c.register # NoNumber => c.register \in RegistersOf(NumbersAmong(names))
<1>1. i \in NamedLines(page.lines) /\ Carries(c, page, i, Attached(page, i))
  BY DEF FromText
<1>2. ASSUME NEW o \in Attached(page, i) PROVE o \in NumbersAmong(names)
  <2>1. /\ o \in findIdentifiers(page.lines, MaxHits) /\ o \in Places(page.lines)
        /\ i \in NearestName(page.lines, o)
    BY FoundArePlaces DEF Attached
  <2>2. page.lines[i].name \in Beside(o)
    BY <2>1, NearestIs
  <2> QED
    BY <2>1, <2>2 DEF NumbersAmong
<1>3. ASSUME c.vat # "" PROVE c.vat \in VATsOf(NumbersAmong(names))
  <2>1. VATs(page, Attached(page, i)) # {}
    BY <1>1, <1>3 DEF Carries
  <2>2. PICK o \in VATs(page, Attached(page, i)) : c.vat = HitAt(page.lines, o).value
    BY <1>1, <2>1, CandidateHas
  <2> QED
    BY <1>2, <2>2 DEF VATs, VATsOf
<1>4. ASSUME c.register # NoNumber PROVE c.register \in RegistersOf(NumbersAmong(names))
  <2>1. Regs(page, Attached(page, i)) # {}
    BY <1>1, <1>4 DEF Carries
  <2>2. PICK o \in Regs(page, Attached(page, i)) : c.register = formatRegister(HitAt(page.lines, o))
    BY <1>1, <2>1, CandidateHas
  <2> QED
    BY <1>2, <2>2 DEF Regs, RegistersOf
<1> QED
  BY <1>3, <1>4

(* Every candidate of the winner's name comes from a line that bears that  *)
(* name, or from the markup: so its numbers are from there.                *)
LEMMA NumbersOfTheGroup ==
  ASSUME page \in Pages, NEW m \in mergeImprintCandidates(extractImprintCandidates(page)),
         NEW own, own = {n \in {page.lines[i].name : i \in Lines} : KnownAs(n) = m.name},
         NEW declared, declared = {n \in DOMAIN page.markup : KnownAs(page.markup[n].name) = m.name}
  PROVE  /\ m.vat # "" /\ (\A n \in declared : page.markup[n].vat = "") =>
              m.vat \in VATsOf(NumbersAmong(own))
         /\ m.register # NoNumber /\ (\A n \in declared : page.markup[n].register = NoNumber) =>
              m.register \in RegistersOf(NumbersAmong(own))
<1>1. ASSUME NEW c \in Group(page, m.name)
      PROVE  \/ \E n \in declared : c.register = page.markup[n].register /\ c.vat = page.markup[n].vat
             \/ c.register = NoNumber /\ c.vat = ""
             \/ \E i : FromText(c, page, page.lines[i].name, i) /\ page.lines[i].name \in own
  <2>1. c \in extractImprintCandidates(page) /\ c.name = m.name
    BY DEF Group
  <2>2. PICK name : Origin(c, page, name) /\ c.name = KnownAs(name)
    BY <2>1, ExtractedIs
  <2>3. CASE \E n : FromMarkup(c, page, name, n)
    BY <2>1, <2>2, <2>3 DEF FromMarkup
  <2>4. CASE \E i : FromFooter(c, page, name, i)
    BY <2>4 DEF FromFooter
  <2>5. CASE \E i : FromText(c, page, name, i)
    <3>1. PICK i : FromText(c, page, name, i)
      BY <2>5
    <3>2. i \in Lines /\ name = page.lines[i].name
      BY <3>1, NamedAreLines DEF FromText, Lines
    <3> QED
      BY <2>1, <2>2, <3>1, <3>2
  <2> QED
    BY <2>2, <2>3, <2>4, <2>5 DEF Origin
<1>2. MergedFrom(m, Group(page, m.name))
  BY CandidateIs
<1>3. ASSUME m.vat # "", \A n \in declared : page.markup[n].vat = ""
      PROVE  m.vat \in VATsOf(NumbersAmong(own))
  <2>1. PICK c \in Group(page, m.name) : c.vat = m.vat
    BY <1>2, <1>3 DEF MergedFrom
  <2>2. PICK i : FromText(c, page, page.lines[i].name, i) /\ page.lines[i].name \in own
    BY <1>1, <1>3, <2>1
  <2> QED
    BY <1>3, <2>1, <2>2, OwnNumbers
<1>4. ASSUME m.register # NoNumber, \A n \in declared : page.markup[n].register = NoNumber
      PROVE  m.register \in RegistersOf(NumbersAmong(own))
  <2>1. PICK c \in Group(page, m.name) : c.register = m.register
    BY <1>2, <1>4 DEF MergedFrom
  <2>2. PICK i : FromText(c, page, page.lines[i].name, i) /\ page.lines[i].name \in own
    BY <1>1, <1>4, <2>1
  <2> QED
    BY <1>4, <2>1, <2>2, OwnNumbers
<1> QED
  BY <1>3, <1>4

LEMMA OneForEachName ==
  ASSUME NEW cs, NEW m \in mergeImprintCandidates(cs), NEW n \in mergeImprintCandidates(cs),
         m.name = n.name
  PROVE  m = n
<1>1. ASSUME NEW d \in mergeImprintCandidates(cs)
      PROVE  d = Merged(d.name, {c \in cs : c.name = d.name})
  <2>1. PICK x : d = Merged(x, {c \in cs : c.name = x})
    BY DEF mergeImprintCandidates
  <2>2. d.name = x
    BY <2>1 DEF Merged
  <2> QED
    BY <2>1, <2>2, Zenon
<1> QED
  BY <1>1, Zenon

(* A name that wins is no provider's.                                      *)
LEMMA WinnerIsNoProvider ==
  ASSUME page \in Pages, NEW m \in mergeImprintCandidates(extractImprintCandidates(page)),
         ~m.idOnly
  PROVE  m.name \notin Providers
<1>1. PICK c \in Group(page, m.name) : m.idOnly = c.idOnly
  BY CandidateIs DEF MergedFrom
<1>2. c \in extractImprintCandidates(page) /\ c.name = m.name
  BY DEF Group
<1> QED
  BY <1>1, <1>2, ExtractedIs

(* The winner's numbers are its own: each number of the text goes to one   *)
(* name, no other being nearer; candidates are merged by name only; and    *)
(* what the winner has is not replaced by what others have.                *)
THEOREM NumbersAreTheWinners == Spec => []NumbersStayWithTheirOwner
<1>1. ASSUME ChoiceInv, pc = "done", best # {}, Winner.name \notin page.credits
      PROVE  NumbersStayWithTheirOwner
  <2> DEFINE own == {n \in {page.lines[i].name : i \in Lines} : KnownAs(n) = Winner.name}
             declared == {n \in DOMAIN page.markup : KnownAs(page.markup[n].name) = Winner.name}
             C == mergeImprintCandidates(extractImprintCandidates(page))
  <2>1. page \in Pages /\ cands = C
    BY <1>1 DEF ChoiceInv
  <2>2. /\ Winner \in C /\ ~Winner.idOnly
        /\ Winner.vat # "" => im.vat = Winner.vat
        /\ Winner.register # NoNumber => im.register = Winner.register
    BY <1>1, <2>1, NumbersReported
  <2>3. /\ Winner.vat # "" /\ (\A n \in declared : page.markup[n].vat = "") =>
             Winner.vat \in VATsOf(NumbersAmong(own))
        /\ Winner.register # NoNumber /\ (\A n \in declared : page.markup[n].register = NoNumber) =>
             Winner.register \in RegistersOf(NumbersAmong(own))
    BY <2>1, <2>2, NumbersOfTheGroup
  <2>4. \A n \in own : LegalName[n] = "" \/ LegalName[n] \notin Providers \cup page.credits
    <3>1. Winner.name \notin Providers
      BY <2>1, <2>2, WinnerIsNoProvider
    <3> QED
      BY <1>1, <3>1 DEF KnownAs
  <2>5. ASSUME NEW n \in own, NEW m \in C, m.name = KnownAs(n)
        PROVE  m = Winner
    <3>1. m.name = Winner.name
      BY <2>5
    <3> QED
      BY <2>2, <3>1, OneForEachName
  <2>6. NumbersStayWithTheirOwner <=>
          /\ VATsOf(NumbersOnlyAmong(own)) # {} /\ (\A n \in declared : page.markup[n].vat = "") =>
               im.vat \in VATsOf(NumbersAmong(own))
          /\ /\ RegistersOf(NumbersOnlyAmong(own)) # {}
             /\ \A n \in declared : page.markup[n].register = NoNumber
             => im.register \in RegistersOf(NumbersAmong(own))
    BY <1>1, Zenon DEF NumbersStayWithTheirOwner
  <2> HIDE DEF own, declared, C
  <2>7. ASSUME VATsOf(NumbersOnlyAmong(own)) # {}, \A n \in declared : page.markup[n].vat = ""
        PROVE  im.vat \in VATsOf(NumbersAmong(own))
    <3>1. PICK o \in NumbersOnlyAmong(own) : isVATLikeIdentifierKind(HitAt(page.lines, o).kind)
      BY <2>7 DEF VATsOf
    <3>2. \E n \in own, m \in C : m.name = KnownAs(n) /\ m.vat # ""
      BY <2>1, <2>4, <3>1, NumberIsMerged DEF C
    <3>3. Winner.vat # ""
      BY <2>5, <3>2
    <3> QED
      BY <2>2, <2>3, <2>7, <3>3
  <2>8. ASSUME RegistersOf(NumbersOnlyAmong(own)) # {},
               \A n \in declared : page.markup[n].register = NoNumber
        PROVE  im.register \in RegistersOf(NumbersAmong(own))
    <3>1. PICK o \in NumbersOnlyAmong(own) : HitAt(page.lines, o).kind \in RegisterKinds
      BY <2>8 DEF RegistersOf
    <3>2. \E n \in own, m \in C : m.name = KnownAs(n) /\ m.register # NoNumber
      BY <2>1, <2>4, <3>1, NumberIsMerged DEF C
    <3>3. Winner.register # NoNumber
      BY <2>5, <3>2
    <3> QED
      BY <2>2, <2>3, <2>8, <3>3
  <2> QED
    BY <2>6, <2>7, <2>8
<1>2. ChoiceInv => NumbersStayWithTheirOwner
  BY <1>1 DEF NumbersStayWithTheirOwner
<1> QED
  BY <1>2, ChoiceHolds, PTL

-----------------------------------------------------------------------------
(* The name                                                                *)

Counted(p, o) ==
  \/ HitAt(p.lines, o).kind \in RegisterKinds
  \/ isVATLikeIdentifierKind(HitAt(p.lines, o).kind)

(* A name with more than its mention on the page.                          *)
Anchored(p, x) ==
  \/ \E n \in DOMAIN p.markup : Called(p.markup[n].name, x)
  \/ \E i \in DOMAIN p.lines :
       /\ Called(p.lines[i].name, x)
       /\ \/ p.lines[i].sort = "operator" \/ p.lines[i].copyright \/ p.lines[i].postal # ""
          \/ \E o \in Places(p.lines) : Counted(p, o) /\ Away(p.lines, o, i) <= Near

LEMMA Beyond == ASSUME NEW a \in Nat, NEW b \in Nat, a > b PROVE ~(a <= b)
OBVIOUS

LEMMA NameIsCalled ==
  ASSUME NEW name, NEW x, x = KnownAs(name), x # ""
  PROVE  Called(name, x)
BY LegalNameAssumption DEF KnownAs, Called

(* A corroborated candidate has an address beside its line or a number     *)
(* within reach of it.                                                     *)
LEMMA CorroboratedIsAnchored ==
  ASSUME page \in Pages, NEW c \in extractImprintCandidates(page), c.name # "",
         hasProximityCorroboration(c)
  PROVE  Anchored(page, c.name)
<1>1. PICK name : Origin(c, page, name) /\ c.name = KnownAs(name)
  BY ExtractedIs
<1>2. Called(name, c.name)
  BY <1>1, NameIsCalled
<1>3. CASE \E n : FromMarkup(c, page, name, n)
  BY <1>2, <1>3 DEF FromMarkup, Anchored
<1>4. CASE \E i : FromFooter(c, page, name, i)
  BY <1>2, <1>4 DEF FromFooter, Anchored
<1>5. CASE \E i : FromText(c, page, name, i)
  <2>1. PICK i : FromText(c, page, name, i)
    BY <1>5
  <2>2. /\ i \in NamedLines(page.lines) /\ i \in DOMAIN page.lines /\ i \in Nat
        /\ name = page.lines[i].name /\ Carries(c, page, i, Attached(page, i))
    BY <2>1, NamedAreLines DEF FromText
  <2>3. c.postal # "" \/ c.register # NoNumber \/ c.vat # ""
    BY <2>2 DEF Carries, hasProximityCorroboration, Textual
  <2>4. CASE c.postal # ""
    BY <1>2, <2>2, <2>4 DEF Carries, Anchored
  <2>5. CASE c.register # NoNumber \/ c.vat # ""
    <3>1. Regs(page, Attached(page, i)) \cup VATs(page, Attached(page, i)) # {}
      BY <2>2, <2>5 DEF Carries
    <3>2. PICK o \in Attached(page, i) : Counted(page, o)
      BY <3>1 DEF Regs, VATs, Counted
    <3>3. o \in Places(page.lines) /\ i \in NearestName(page.lines, o)
      BY FoundArePlaces DEF Attached
    <3>4. Away(page.lines, o, i) <= Near
      BY <3>3, NearestIs
    <3> QED
      BY <1>2, <2>2, <3>2, <3>3, <3>4 DEF Anchored
  <2> QED
    BY <2>3, <2>4, <2>5
<1> QED
  BY <1>1, <1>3, <1>4, <1>5 DEF Origin

LEMMA MergedIsAnchored ==
  ASSUME page \in Pages, NEW m \in mergeImprintCandidates(extractImprintCandidates(page)),
         hasProximityCorroboration(m)
  PROVE  Anchored(page, m.name)
<1>1. /\ m.name # "" /\ MergedFrom(m, Group(page, m.name))
      /\ \A c \in Group(page, m.name) : c \in extractImprintCandidates(page) /\ c.name = m.name
  BY CandidateIs
<1>2. PICK c \in Group(page, m.name) : hasProximityCorroboration(c)
  <2>1. CASE m.source \notin Textual
    BY <1>1, <2>1 DEF MergedFrom, hasProximityCorroboration, Textual
  <2>2. CASE m.source \in Textual
    <3>1. m.postal # "" \/ m.register # NoNumber \/ m.vat # ""
      BY <2>2 DEF hasProximityCorroboration, Textual
    <3>2. CASE m.postal # ""
      BY <1>1, <3>2 DEF MergedFrom, hasProximityCorroboration
    <3>3. CASE m.register # NoNumber
      BY <1>1, <3>3 DEF MergedFrom, hasProximityCorroboration
    <3>4. CASE m.vat # ""
      BY <1>1, <3>4 DEF MergedFrom, hasProximityCorroboration
    <3> QED
      BY <3>1, <3>2, <3>3, <3>4
  <2> QED
    BY <2>1, <2>2
<1> QED
  BY <1>1, <1>2, CorroboratedIsAnchored

(* The name so far has more than its mention, or is the publisher's.       *)
NameInv ==
  /\ ChoiceInv
  /\ pc = "copy" /\ best # {} => Anchored(page, Winner.name)
  /\ im.name = "" \/ im.name = page.publisher \/ Anchored(page, im.name)

LEMMA OperatorIsAnchored ==
  ASSUME page \in Pages
  PROVE  FirstOperator.name = "" \/ Anchored(page, FirstOperator.name)
<1> DEFINE rows == FirstFew(Of(page.lines, "operator"), 1)
           i == CHOOSE i \in rows : TRUE
<1>1. CASE rows = {}
  BY <1>1 DEF FirstOperator
<1>2. CASE rows # {}
  <2>1. i \in rows
    BY <1>2
  <2>2. i \in DOMAIN page.lines /\ page.lines[i].sort = "operator"
    BY <2>1 DEF FirstFew, Of
  <2>3. FirstOperator = page.lines[i]
    BY <1>2 DEF FirstOperator
  <2>4. page.lines[i].name # ""
    BY <2>2, PageIs
  <2> HIDE DEF i
  <2> QED
    BY <2>2, <2>3, <2>4 DEF Anchored, Called
<1> QED
  BY <1>1, <1>2

LEMMA StepName == NameInv /\ [Next]_vars => NameInv'
<1> SUFFICES ASSUME NameInv, [Next]_vars PROVE NameInv'
  OBVIOUS
<1>0. page \in Pages /\ page' = page /\ ChoiceInv /\ ChoiceInv' /\ DOMAIN im = DOMAIN Empty
  <2>1. page' = page
    BY DEF Next, NoBody, Extract, Copy, PageNumbers, NameCountry, SettleDEAT, Refine, Fill,
           scoreImprint, vars
  <2>2. ChoiceInv /\ ChoiceInv'
    BY StepChoice DEF NameInv
  <2> QED
    BY <2>1, <2>2 DEF ChoiceInv
<1>1. CASE pc' # "copy" /\ im'.name = im.name
  BY <1>0, <1>1 DEF NameInv
<1>2. CASE NoBody
  <2>1. pc' # "copy" /\ im'.name = im.name
    BY <1>0, <1>2 DEF NoBody, Empty
  <2> QED
    BY <1>1, <2>1
<1>3. CASE Extract
  <2>1. /\ cands' = mergeImprintCandidates(extractImprintCandidates(page))
        /\ best' = bestImprintCandidate(cands') /\ im' = im
    BY <1>3 DEF Extract
  <2>2. ASSUME best' # {} PROVE Anchored(page, Winner'.name)
    <3>1. Winner' \in best'
      BY <2>2 DEF Winner
    <3>2. Winner' \in cands' /\ hasProximityCorroboration(Winner')
      BY <1>0, <2>1, <3>1, WinnerIs
    <3> QED
      BY <1>0, <2>1, <3>2, MergedIsAnchored
  <2> QED
    BY <1>0, <2>1, <2>2 DEF NameInv
<1>4. CASE Copy
  <2>1. pc = "copy" /\ pc' = "numbers"
    BY <1>4 DEF Copy
  <2>2. CASE best = {}
    <3>1. im' = im
      BY <1>0, <1>4, <2>2, CopyTakes
    <3> QED
      BY <1>1, <2>1, <3>1
  <2>3. CASE best # {}
    <3> DEFINE w == backfillWinnerIdentifiers(cands, Winner)
    <3>1. im'.name = w.name
      BY <1>0, <1>4, <2>3, CopyTakes
    <3>2. /\ cands = mergeImprintCandidates(extractImprintCandidates(page))
          /\ best = bestImprintCandidate(cands)
      BY <1>0, <2>3 DEF ChoiceInv
    <3>3. Winner \in best
      BY <2>3 DEF Winner
    <3>4. Winner \in cands /\ \A c \in cands : Shape(c)
      BY <1>0, <3>2, <3>3, WinnerIs, MergedShapes
    <3>5. w.name = Winner.name
      BY <3>4, BackfillIs
    <3>6. Anchored(page, Winner.name)
      BY <2>1, <2>3 DEF NameInv
    <3> HIDE DEF w
    <3> QED
      BY <1>0, <2>1, <3>1, <3>5, <3>6 DEF NameInv
  <2> QED
    BY <2>2, <2>3
<1>5. CASE PageNumbers \/ NameCountry \/ SettleDEAT \/ Refine \/ scoreImprint
  <2>1. pc' # "copy" /\ im'.name = im.name
    BY <1>0, <1>5 DEF PageNumbers, NameCountry, SettleDEAT, Refine, scoreImprint, Empty
  <2> QED
    BY <1>1, <2>1
<1>6. CASE Fill
  <2>1. pc' = "score" /\ im'.name \in {im.name, page.publisher, FirstOperator.name}
    <3> DEFINE name == IF im.country = "JP" THEN OrElse(im.name, "", FirstOperator.name)
                       ELSE im.name
    <3>1. im'.name = IF im.country = "AT" THEN OrElse(name, "", page.publisher) ELSE name
      BY <1>0, <1>6 DEF Fill, Empty
    <3> QED
      BY <1>6, <3>1 DEF Fill, OrElse
  <2> QED
    BY <1>0, <2>1, OperatorIsAnchored DEF NameInv
<1>7. CASE UNCHANGED vars
  <2>1. Winner' = Winner
    BY <1>7 DEF Winner, vars
  <2> QED
    BY <1>0, <1>7, <2>1 DEF NameInv, vars
<1> QED
  BY <1>2, <1>3, <1>4, <1>5, <1>6, <1>7 DEF Next

(* Whoever is named as the operator of the site has an address, a number   *)
(* within reach, a copyright line, an operator's row or markup to its name *)
(* or is the stated publisher: the choice rejects every other candidate,   *)
(* merging gives none of these to a name that has none, and the numbers    *)
(* filled in later are not counted as its own.                             *)
THEOREM MentionNeverWins == Spec => []MentionIsNoIdentity
<1>1. Init => NameInv
  <2> SUFFICES ASSUME Init PROVE NameInv
    OBVIOUS
  <2>1. ChoiceInv
    BY DEF Init, ChoiceInv
  <2>2. im.name = "" /\ pc = "extract"
    BY DEF Init, Empty
  <2> QED
    BY <2>1, <2>2 DEF NameInv
<1>2. NameInv => MentionIsNoIdentity
  <2> SUFFICES ASSUME NameInv, im.name # "", OnlyMentioned PROVE FALSE
    BY DEF MentionIsNoIdentity
  <2>1. page \in Pages /\ Anchored(page, im.name)
    BY DEF NameInv, ChoiceInv, OnlyMentioned
  <2>2. PICK i \in DOMAIN page.lines :
          /\ Called(page.lines[i].name, im.name)
          /\ \/ page.lines[i].sort = "operator" \/ page.lines[i].copyright
             \/ page.lines[i].postal # ""
             \/ \E o \in Places(page.lines) : Counted(page, o) /\ Away(page.lines, o, i) <= Near
    BY <2>1 DEF Anchored, OnlyMentioned
  <2>3. PICK o \in Places(page.lines) : Counted(page, o) /\ Away(page.lines, o, i) <= Near
    BY <2>2 DEF OnlyMentioned, Lines
  <2>4. Counts(o)
    BY <2>3 DEF Counted, Counts
  <2> DEFINE d == Away(page.lines, o, i)
  <2>5. d > Near
    BY <2>2, <2>4 DEF OnlyMentioned, Lines
  <2>6. d \in Nat /\ Near \in Nat
    BY <2>1, AwayIs, LimitsAssumption
  <2>7. d <= Near
    BY <2>3
  <2> HIDE DEF d
  <2>8. ~(d <= Near)
    BY <2>5, <2>6, Beyond, Zenon
  <2> QED
    BY <2>7, <2>8
<1> QED
  BY <1>1, <1>2, StepName, PTL DEF Spec

=============================================================================
