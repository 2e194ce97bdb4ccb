--------------------------- MODULE CompanyProofs ----------------------------
(***************************************************************************)
(* What a page says of its company, for any words and any text.            *)
(*                                                                         *)
(* normalizeLegalName: a name wrapped in the order of the passes is        *)
(* recovered, a heading is refused, and no name is cut short.  Two         *)
(* invariants carry this.  The one (Shape, Stage, RecoverInv) divides the  *)
(* string as it was cut into the parts that the passes take off, and says  *)
(* before each pass which of them are gone.  The other (Held, UnharmedInv) *)
(* says of any surroundings that the name is in the string still, or else  *)
(* the letters of no legal form are.                                       *)
(*                                                                         *)
(* extractAddressNearEntity, for any reach and any number of lines in an   *)
(* address: what it returns is what one mention of the company states,     *)
(* and that the first mention to state anything.                           *)
(***************************************************************************)
EXTENDS CompanyName, EntityAddress, SequenceTheorems, FiniteSetTheorems, WellFoundedInduction, TLAPS

-----------------------------------------------------------------------------
(* A set of numbers has a least one, and Min finds it.                     *)

LEMMA LeastExists ==
  ASSUME NEW S \in SUBSET Nat, S # {}
  PROVE  \E m \in S : \A n \in S : m <= n
<1> DEFINE R == {ss \in Nat \X Nat : ss[1] < ss[2]}
<1>1. R = OpToRel(<, Nat)
  BY DEF OpToRel
<1>2. IsWellFoundedOn(R, Nat)
  BY <1>1, NatLessThanWellFounded
<1> HIDE DEF R
<1>3. PICK m \in S : \A n \in S : ~(<<n, m>> \in R)
  BY <1>2, WFMin
<1>4. ASSUME NEW n \in S PROVE m <= n
  <2>1. m \in Nat /\ n \in Nat
    OBVIOUS
  <2>2. n < m => <<n, m>> \in R
    BY <2>1 DEF R
  <2> QED
    BY <1>3, <2>1, <2>2
<1> QED
  BY <1>4

LEMMA MinIn ==
  ASSUME NEW P \in SUBSET Nat, P # {}
  PROVE  Min(P) \in P /\ \A n \in P : Min(P) <= n
<1>1. \E m \in P : \A n \in P : m <= n
  BY LeastExists
<1> QED
  BY <1>1, Zenon DEF Min

LEMMA MinIsLeast ==
  ASSUME NEW S \in SUBSET Nat, NEW m \in S, \A n \in S : m <= n
  PROVE  Min(S) = m
<1>1. Min(S) \in S /\ \A n \in S : Min(S) <= n
  BY Zenon DEF Min
<1>2. m \in Nat /\ Min(S) \in Nat /\ m <= Min(S) /\ Min(S) <= m
  BY <1>1
<1> QED
  BY <1>2

-----------------------------------------------------------------------------
(* normalizeLegalName                                                      *)

FrontTokens == leadingSigns \cup leadingBoilerplate \cup leadingYear
NameWords == Plain \cup genericWords \cup Range(suffixOrder)

(* What no word of a name or a heading is.                                 *)
Surroundings ==
  FrontTokens \cup Range(leadingConnectives) \cup functionWords \cup pageLabels
    \cup Range(connectivePhrases) \cup Range(proseMarkers) \cup Signs \cup numbers \cup {"none"}

-----------------------------------------------------------------------------
(* The tables                                                              *)

LEMMA RangeOfTwo ==
  ASSUME NEW x, NEW y
  PROVE  Range(<<x, y>>) = {x, y}
<1>1. DOMAIN <<x, y>> = {1, 2} /\ <<x, y>>[1] = x /\ <<x, y>>[2] = y
  OBVIOUS
<1> HIDE DEF Range
<1> QED
  BY <1>1 DEF Range

LEMMA Tables ==
  /\ Range(suffixOrder) = {"Company", "GmbH", "AG"}
  /\ Range(leadingConnectives) = {"propiedad-de", "la-sociedad"}
  /\ Range(connectivePhrases) = {"pertenece-a", "is-operated-by"}
  /\ Range(proseMarkers) = {"au-capital", "mit-sitz"}
  /\ FrontTokens = {"copyright", ":", "-", "&", "all-rights-reserved", "2024"}
<1>1. DOMAIN suffixOrder = {1, 2, 3} /\ suffixOrder[1] = "Company" /\ suffixOrder[2] = "GmbH"
        /\ suffixOrder[3] = "AG"
  BY DEF suffixOrder
<1>2. Range(suffixOrder) = {"Company", "GmbH", "AG"}
  BY <1>1 DEF Range
<1>3. /\ Range(leadingConnectives) = {"propiedad-de", "la-sociedad"}
      /\ Range(connectivePhrases) = {"pertenece-a", "is-operated-by"}
      /\ Range(proseMarkers) = {"au-capital", "mit-sitz"}
  BY RangeOfTwo DEF leadingConnectives, connectivePhrases, proseMarkers
<1> QED
  BY <1>2, <1>3 DEF FrontTokens, leadingSigns, leadingBoilerplate, leadingYear

LEMMA Vocabulary ==
  ASSUME NEW x \in NameWords
  PROVE  x \notin Surroundings
<1> DEFINE Explicit ==
      {"copyright", ":", "-", "&", "all-rights-reserved", "2024", "propiedad-de",
       "la-sociedad", "der", "impressum", "pertenece-a", "is-operated-by", "au-capital",
       "mit-sitz", "|", "(", ")", "[", "]", "12345", "none"}
<1>1. Surroundings = Explicit
  BY Tables DEF Surroundings, functionWords, pageLabels, Signs, leadingSigns, separators, numbers
<1>2. Explicit \subseteq Signs \cup Sorts \cup {"none"}
  BY Tables DEF Signs, Sorts, leadingSigns, separators, leadingBoilerplate, functionWords,
    pageLabels, numbers
<1>3. x \in Plain \/ x \in {"Company", "private", "links", "GmbH", "AG"}
  BY Tables DEF NameWords, genericWords
<1> QED
  BY <1>1, <1>2, <1>3, NamesAssumption

-----------------------------------------------------------------------------
(* Pieces of a string                                                      *)

LEMMA PieceOf ==
  ASSUME NEW w \in Seq(Tokens), NEW lo \in Nat \ {0}, NEW hi \in Nat, lo <= hi + 1, hi <= Len(w)
  PROVE  /\ SubSeq(w, lo, hi) \in Seq(Tokens)
         /\ Len(SubSeq(w, lo, hi)) = hi - lo + 1
         /\ \A n \in 1..(hi - lo + 1) : SubSeq(w, lo, hi)[n] = w[lo + n - 1]
<1>1. \A n \in lo..hi : w[n] \in Tokens
  OBVIOUS
<1>2. lo \in Int /\ hi \in Int
  OBVIOUS
<1> QED
  BY <1>1, <1>2, SubSeqProperties

LEMMA PieceOfPiece ==
  ASSUME NEW w \in Seq(Tokens), NEW lo \in Nat \ {0}, NEW hi \in Nat, lo <= hi + 1, hi <= Len(w),
         NEW m \in Nat \ {0}, NEW n \in Nat, m <= n + 1, n <= hi - lo + 1
  PROVE  SubSeq(SubSeq(w, lo, hi), m, n) = SubSeq(w, lo + m - 1, lo + n - 1)
<1> DEFINE t == SubSeq(w, lo, hi)
           u == SubSeq(t, m, n)
           v == SubSeq(w, lo + m - 1, lo + n - 1)
<1>1. /\ t \in Seq(Tokens) /\ Len(t) = hi - lo + 1
      /\ \A k \in 1..(hi - lo + 1) : t[k] = w[lo + k - 1]
  BY PieceOf
<1> HIDE DEF t
<1>2. u \in Seq(Tokens) /\ Len(u) = n - m + 1 /\ \A k \in 1..(n - m + 1) : u[k] = t[m + k - 1]
  BY <1>1, PieceOf
<1>3. /\ v \in Seq(Tokens) /\ Len(v) = n - m + 1
      /\ \A k \in 1..(n - m + 1) : v[k] = w[lo + m - 1 + k - 1]
  <2>1. lo + m - 1 \in Nat \ {0} /\ lo + n - 1 \in Nat /\ lo + m - 1 <= lo + n - 1 + 1
          /\ lo + n - 1 <= Len(w) /\ (lo + n - 1) - (lo + m - 1) + 1 = n - m + 1
    OBVIOUS
  <2> DEFINE l2 == lo + m - 1
             h2 == lo + n - 1
  <2> HIDE DEF l2, h2
  <2>2. /\ SubSeq(w, l2, h2) \in Seq(Tokens) /\ Len(SubSeq(w, l2, h2)) = h2 - l2 + 1
        /\ \A k \in 1..(h2 - l2 + 1) : SubSeq(w, l2, h2)[k] = w[l2 + k - 1]
    BY <2>1, PieceOf DEF l2, h2
  <2> QED
    BY <2>1, <2>2 DEF l2, h2
<1>4. ASSUME NEW k \in 1..(n - m + 1) PROVE u[k] = v[k]
  <2>1. m + k - 1 \in 1..(hi - lo + 1) /\ lo + (m + k - 1) - 1 = lo + m - 1 + k - 1
    OBVIOUS
  <2> QED
    BY <1>1, <1>2, <1>3, <2>1
<1> HIDE DEF u, v
<1>5. u = v
  BY <1>2, <1>3, <1>4, SeqEqual
<1> QED
  BY <1>5 DEF u, v, t

(* The first place of a token of some kind, and the last                   *)
LEMMA FirstPlace ==
  ASSUME NEW t \in Seq(Tokens), NEW S, PlacesOf(t, S) # {}
  PROVE  LET k == Min(PlacesOf(t, S)) IN
         k \in 1..Len(t) /\ t[k] \in S /\ \A n \in 1..Len(t) : t[n] \in S => k <= n
<1> DEFINE P == PlacesOf(t, S)
<1>1. P \in SUBSET Nat /\ P \subseteq 1..Len(t) /\ \A n \in 1..Len(t) : n \in P <=> t[n] \in S
  BY DEF PlacesOf
<1> HIDE DEF P
<1>2. Min(P) \in P /\ \A n \in P : Min(P) <= n
  BY <1>1, MinIn DEF P
<1> QED
  BY <1>1, <1>2 DEF P

LEMMA LastPlace ==
  ASSUME NEW t \in Seq(Tokens), NEW S, PlacesOf(t, S) # {}
  PROVE  LET k == Max(PlacesOf(t, S)) IN
         k \in 1..Len(t) /\ t[k] \in S /\ \A n \in 1..Len(t) : t[n] \in S => n <= k
<1> DEFINE P == PlacesOf(t, S)
           R == {ss \in Nat \X Nat : ss[1] < ss[2]}
           Q == {n \in 0..Len(t) : \A k \in P : k <= n}
<1>1. P \in SUBSET Nat /\ P \subseteq 1..Len(t) /\ \A n \in 1..Len(t) : n \in P <=> t[n] \in S
  BY DEF PlacesOf
<1>2. IsWellFoundedOn(R, Nat)
  <2>1. R = OpToRel(<, Nat)
    BY DEF OpToRel
  <2> QED
    BY <2>1, NatLessThanWellFounded
<1> HIDE DEF R, P
<1>3. Len(t) \in Q /\ Q \in SUBSET Nat
  BY <1>1
<1> HIDE DEF Q
<1>4. PICK m \in Q : \A n \in Q : ~(<<n, m>> \in R)
  BY <1>2, <1>3, WFMin
<1>5. m \in 0..Len(t) /\ \A k \in P : k <= m
  BY DEF Q
<1>6. m \in P
  <2>1. SUFFICES ASSUME m \notin P PROVE FALSE
    OBVIOUS
  <2>2. PICK k \in P : TRUE
    BY DEF P
  <2>3. k >= 1 /\ k <= m /\ k \in Nat
    BY <1>1, <1>5, <2>2
  <2>4. \A j \in P : j <= m - 1
    BY <1>1, <1>5, <2>1
  <2>5. m - 1 \in 0..Len(t)
    BY <1>5, <2>3
  <2>6. m - 1 \in Q
    BY <2>4, <2>5 DEF Q
  <2>7. <<m - 1, m>> \in R
    BY <1>5, <2>5 DEF R
  <2> QED
    BY <1>4, <2>6, <2>7
<1>7. Max(P) \in P /\ \A n \in P : n <= Max(P)
  <2>1. \A n \in P : m >= n
    BY <1>1, <1>5, <1>6
  <2>2. Max(P) \in P /\ \A n \in P : Max(P) >= n
    BY <1>6, <2>1, Zenon DEF Max
  <2> QED
    BY <1>1, <2>2
<1> QED
  BY <1>1, <1>7 DEF P

LEMMA FirstOf ==
  ASSUME NEW t \in Seq(Tokens), NEW x, PlacesOf(t, {x}) # {}
  PROVE  Min(PlacesOf(t, {x})) \in 1..Len(t) /\ t[Min(PlacesOf(t, {x}))] = x
<1>1. Min(PlacesOf(t, {x})) \in 1..Len(t) /\ t[Min(PlacesOf(t, {x}))] \in {x}
  BY FirstPlace
<1> QED
  BY <1>1

LEMMA LastOf ==
  ASSUME NEW t \in Seq(Tokens), NEW x, PlacesOf(t, {x}) # {}
  PROVE  LET k == Max(PlacesOf(t, {x})) IN
         k \in 1..Len(t) /\ t[k] = x /\ \A n \in 1..Len(t) : t[n] = x => n <= k
<1> DEFINE k == Max(PlacesOf(t, {x}))
<1>1. k \in 1..Len(t) /\ t[k] \in {x} /\ \A n \in 1..Len(t) : t[n] \in {x} => n <= k
  BY LastPlace
<1> HIDE DEF k
<1>2. k \in 1..Len(t) /\ t[k] = x /\ \A n \in 1..Len(t) : t[n] = x => n <= k
  BY <1>1
<1> QED
  BY <1>2 DEF k

LEMMA NoPlace ==
  ASSUME NEW t \in Seq(Tokens), NEW S
  PROVE  PlacesOf(t, S) = {} <=> \A n \in 1..Len(t) : t[n] \notin S
BY DEF PlacesOf

-----------------------------------------------------------------------------
(* What each pass takes off a string                                       *)

LEMMA HasEnds ==
  ASSUME NEW t \in Seq(Tokens), Len(t) > 0
  PROVE  t # <<>> /\ Head(t) = t[1] /\ Last(t) = t[Len(t)]
<1>1. t # <<>>
  <2>1. Len(<<>>) = 0
    OBVIOUS
  <2> QED
    BY <2>1
<1> QED
  BY <1>1 DEF Last

LEMMA WholePiece ==
  ASSUME NEW t \in Seq(Tokens)
  PROVE  SubSeq(t, 1, Len(t)) = t
BY SubSeqFull

LEMMA Stripped ==
  ASSUME NEW t \in Seq(Tokens)
  PROVE  \E k \in 1..(Len(t) + 1) :
           /\ stripLeadingBoilerplate(t) = SubSeq(t, k, Len(t))
           /\ \A n \in 1..(k - 1) : t[n] \in FrontTokens
           /\ (k <= Len(t) /\ t[k] \notin FrontTokens) \/ \A n \in 1..Len(t) : t[n] \in FrontTokens
<1> DEFINE rest == Others(t, FrontTokens)
<1>1. rest = PlacesOf(t, Tokens \ FrontTokens)
  BY DEF Others, PlacesOf
<1>2. rest = {} <=> \A n \in 1..Len(t) : t[n] \in FrontTokens
  BY DEF Others
<1>3. CASE rest # {}
  <2>1. stripLeadingBoilerplate(t) = SubSeq(t, Min(rest), Len(t))
    BY <1>3 DEF stripLeadingBoilerplate, From, FrontTokens
  <2>2. /\ Min(rest) \in 1..Len(t) /\ t[Min(rest)] \in Tokens \ FrontTokens
        /\ \A n \in 1..Len(t) : t[n] \in Tokens \ FrontTokens => Min(rest) <= n
    BY <1>1, <1>3, FirstPlace
  <2> DEFINE m == Min(rest)
  <2> HIDE DEF m
  <2>3. m \in 1..Len(t) /\ t[m] \notin FrontTokens
    BY <2>2 DEF m
  <2>4. \A n \in 1..(m - 1) : t[n] \in FrontTokens
    <3>1. ASSUME NEW n \in 1..(m - 1) PROVE t[n] \in FrontTokens
      <4>1. n \in 1..Len(t) /\ ~(m <= n) /\ t[n] \in Tokens
        BY <2>3
      <4> QED
        BY <2>2, <4>1 DEF m
    <3> QED
      BY <3>1
  <2>5. stripLeadingBoilerplate(t) = SubSeq(t, m, Len(t))
    BY <2>1 DEF m
  <2>6. m \in 1..(Len(t) + 1) /\ m <= Len(t)
    BY <2>3
  <2> HIDE DEF rest
  <2> QED
    BY <2>3, <2>4, <2>5, <2>6
<1>4. CASE rest = {} /\ t # <<>> /\ Last(t) \notin leadingSigns
  <2>1. stripLeadingBoilerplate(t) = <<Last(t)>>
    BY <1>4 DEF stripLeadingBoilerplate, FrontTokens
  <2>2. Len(t) \in Nat \ {0}
    BY <1>4, EmptySeq
  <2>3. SubSeq(t, Len(t), Len(t)) = <<t[Len(t)]>>
    <3> DEFINE u == SubSeq(t, Len(t), Len(t))
               v == <<t[Len(t)]>>
    <3>1. u \in Seq(Tokens) /\ Len(u) = 1 /\ u[1] = t[Len(t)]
      BY <2>2, PieceOf
    <3>2. v \in Seq(Tokens) /\ Len(v) = 1 /\ v[1] = t[Len(t)]
      BY <2>2
    <3> HIDE DEF u, v
    <3>3. \A n \in 1..Len(u) : u[n] = v[n]
      BY <3>1, <3>2
    <3>4. u = v
      BY <3>1, <3>2, <3>3, SeqEqual
    <3> QED
      BY <3>4 DEF u, v
  <2>4. \A n \in 1..Len(t) : t[n] \in FrontTokens
    BY <1>2, <1>4
  <2>5. stripLeadingBoilerplate(t) = SubSeq(t, Len(t), Len(t))
    BY <2>1, <2>3 DEF Last
  <2>6. Len(t) \in 1..(Len(t) + 1) /\ \A n \in 1..(Len(t) - 1) : n \in 1..Len(t)
    BY <2>2
  <2> HIDE DEF rest
  <2> QED
    BY <2>4, <2>5, <2>6
<1>5. CASE rest = {} /\ (t = <<>> \/ Last(t) \in leadingSigns)
  <2>1. stripLeadingBoilerplate(t) = <<>>
    BY <1>5 DEF stripLeadingBoilerplate, FrontTokens
  <2>2. SubSeq(t, Len(t) + 1, Len(t)) = <<>>
    BY SubSeqEmpty
  <2>3. \A n \in 1..Len(t) : t[n] \in FrontTokens
    BY <1>2, <1>5
  <2> DEFINE m == Len(t) + 1
  <2>4. m \in 1..(Len(t) + 1) /\ m - 1 = Len(t)
    OBVIOUS
  <2>5. stripLeadingBoilerplate(t) = SubSeq(t, m, Len(t))
    BY <2>1, <2>2
  <2> HIDE DEF m, rest
  <2> QED
    BY <2>3, <2>4, <2>5
<1> QED
  BY <1>3, <1>4, <1>5

LEMMA StripsTo ==
  ASSUME NEW t \in Seq(Tokens), NEW k \in 1..Len(t),
         t[k] \notin FrontTokens, \A n \in 1..(k - 1) : t[n] \in FrontTokens
  PROVE  stripLeadingBoilerplate(t) = SubSeq(t, k, Len(t))
<1>1. PICK m \in 1..(Len(t) + 1) :
        /\ stripLeadingBoilerplate(t) = SubSeq(t, m, Len(t))
        /\ \A n \in 1..(m - 1) : t[n] \in FrontTokens
        /\ (m <= Len(t) /\ t[m] \notin FrontTokens) \/ \A n \in 1..Len(t) : t[n] \in FrontTokens
  BY Stripped
<1>2. m <= Len(t) /\ t[m] \notin FrontTokens
  BY <1>1
<1>3. ~(m < k) /\ ~(k < m)
  BY <1>1, <1>2
<1>4. m = k
  BY <1>3
<1> QED
  BY <1>1, <1>4

LEMMA ConnectivesTwice ==
  ASSUME NEW t
  PROVE  withoutConnectives(t) = Without(Without(t, "propiedad-de"), "la-sociedad")
<1> DEFINE Is(f) == f = [k \in 0..2 |-> IF k = 0 THEN t ELSE Without(f[k - 1], leadingConnectives[k])]
           g == [k \in 0..2 |-> IF k = 0 THEN t
                                ELSE IF k = 1 THEN Without(t, leadingConnectives[1])
                                ELSE Without(Without(t, leadingConnectives[1]), leadingConnectives[2])]
<1>1. Len(leadingConnectives) = 2 /\ leadingConnectives[1] = "propiedad-de"
        /\ leadingConnectives[2] = "la-sociedad"
  BY DEF leadingConnectives
<1>2. withoutConnectives(t) = (CHOOSE f : Is(f))[2]
  BY <1>1, Zenon DEF withoutConnectives
<1>3. \E f : Is(f)
  <2>1. ASSUME NEW k \in 0..2
        PROVE  g[k] = IF k = 0 THEN t ELSE Without(g[k - 1], leadingConnectives[k])
    <3>1. g[0] = t /\ g[1] = Without(t, leadingConnectives[1])
            /\ g[2] = Without(Without(t, leadingConnectives[1]), leadingConnectives[2])
      OBVIOUS
    <3> HIDE DEF g
    <3>2. k = 0 \/ k = 1 \/ k = 2
      OBVIOUS
    <3> QED
      BY <3>1, <3>2
  <2>2. g = [k \in 0..2 |-> g[k]]
    OBVIOUS
  <2> HIDE DEF g
  <2>3. Is(g)
    BY <2>1, <2>2
  <2> QED
    BY <2>3
<1> DEFINE h == CHOOSE f : Is(f)
<1>4. Is(h)
  BY <1>3, Zenon
<1> HIDE DEF h
<1>5. h[0] = t /\ h[1] = Without(h[0], leadingConnectives[1])
        /\ h[2] = Without(h[1], leadingConnectives[2])
  BY <1>4
<1> QED
  BY <1>1, <1>2, <1>5 DEF h

LEMMA WithoutOne ==
  ASSUME NEW t \in Seq(Tokens), NEW c
  PROVE  Without(t, c) = IF Len(t) > 1 /\ t[1] = c THEN SubSeq(t, 2, Len(t)) ELSE t
<1>1. CASE Len(t) > 1
  <2>1. t # <<>>
    BY <1>1
  <2>2. Tail(t) = SubSeq(t, 2, Len(t)) /\ Head(t) = t[1]
    BY <2>1, TailIsSubSeq
  <2> QED
    BY <1>1, <2>2 DEF Without
<1>2. CASE ~(Len(t) > 1)
  BY <1>2 DEF Without
<1> QED
  BY <1>1, <1>2

-----------------------------------------------------------------------------
(* The name, at this place of a string, and held by it: whole, or the      *)
(* string is without the letters of a legal form                           *)

Marked(x) == \E f \in Range(suffixOrder) : Bears(x, f)

NameAt(g, t, p) ==
  /\ p \in 0..Len(t) /\ p + Len(g.name) <= Len(t)
  /\ \A n \in 1..Len(g.name) : t[p + n] = g.name[n]

FormsInName(g, t, p) ==
  \A n \in 1..Len(t) : Marked(t[n]) => p < n /\ n <= p + Len(g.name)

Held(g, t) ==
  \/ \A n \in 1..Len(t) : ~Marked(t[n])
  \/ \E p \in 0..Len(t) : NameAt(g, t, p) /\ FormsInName(g, t, p)

(* A cut spares the name, or takes it away altogether or up to its end.    *)
Spares(g, t, k, m) ==
  \A p \in 0..Len(t) : NameAt(g, t, p) =>
    \/ k <= p + 1 /\ p + Len(g.name) <= m
    \/ p + Len(g.name) < k
    \/ m <= p

LEMMA SparedIsHeld ==
  ASSUME NEW g \in Cut, NEW t \in Seq(Tokens), Held(g, t),
         NEW k \in Nat \ {0}, NEW m \in Nat, k <= m + 1, m <= Len(t), Spares(g, t, k, m)
  PROVE  Held(g, SubSeq(t, k, m))
<1> DEFINE u == SubSeq(t, k, m)
           N == Len(g.name)
<1>1. u \in Seq(Tokens) /\ Len(u) = m - k + 1 /\ \A n \in 1..(m - k + 1) : u[n] = t[k + n - 1]
  BY PieceOf
<1>2. N \in Nat
  <2>1. g.name \in Seq(Tokens)
    BY DEF Cut
  <2> QED
    BY <2>1
<1> HIDE DEF u, N
<1>3. \A n \in 1..Len(u) : k + n - 1 \in 1..Len(t) /\ u[n] = t[k + n - 1]
  BY <1>1
<1>4. CASE \A n \in 1..Len(t) : ~Marked(t[n])
  <2>1. \A n \in 1..Len(u) : ~Marked(u[n])
    BY <1>3, <1>4
  <2> QED
    BY <2>1 DEF Held, u
<1>5. CASE \E p \in 0..Len(t) : NameAt(g, t, p) /\ FormsInName(g, t, p)
  <2>1. PICK p \in 0..Len(t) : NameAt(g, t, p) /\ FormsInName(g, t, p)
    BY <1>5
  <2>2. CASE k <= p + 1 /\ p + N <= m
    <3> DEFINE q == p - k + 1
    <3>0. Len(u) = m - k + 1
      BY <1>1
    <3>1. q \in 0..Len(u) /\ q + N <= Len(u)
      BY <1>2, <2>2, <3>0
    <3> HIDE DEF q
    <3>2. ASSUME NEW n \in 1..N PROVE u[q + n] = g.name[n]
      <4>1. q + n \in 1..Len(u) /\ k + (q + n) - 1 = p + n
        BY <1>2, <3>0, <3>1 DEF q
      <4>2. u[q + n] = t[p + n]
        BY <1>3, <4>1
      <4> QED
        BY <2>1, <4>2 DEF NameAt, N
    <3>3. ASSUME NEW n \in 1..Len(u), Marked(u[n]) PROVE q < n /\ n <= q + N
      <4>1. k + n - 1 \in 1..Len(t) /\ Marked(t[k + n - 1])
        BY <1>3, <3>3
      <4>2. p < k + n - 1 /\ k + n - 1 <= p + N
        BY <2>1, <4>1 DEF FormsInName, N
      <4> QED
        BY <1>1, <1>2, <4>2 DEF q
    <3>4. NameAt(g, u, q) /\ FormsInName(g, u, q)
      BY <3>1, <3>2, <3>3 DEF NameAt, FormsInName, N
    <3> QED
      BY <3>1, <3>4 DEF Held, u
  <2>3. CASE p + N < k \/ m <= p
    <3>1. ASSUME NEW n \in 1..Len(u) PROVE ~Marked(u[n])
      <4>1. k + n - 1 \in 1..Len(t) /\ u[n] = t[k + n - 1]
        BY <1>3
      <4>2. ~(p < k + n - 1 /\ k + n - 1 <= p + N)
        BY <1>1, <1>2, <2>1, <2>3
      <4> QED
        BY <2>1, <4>1, <4>2 DEF FormsInName, N
    <3> QED
      BY <3>1 DEF Held, u
  <2> QED
    BY <2>1, <2>2, <2>3 DEF Spares, N
<1> QED
  BY <1>4, <1>5 DEF Held

(* The words of a name                                                     *)
LEMMA NameIsWords ==
  ASSUME NEW g \in Cut, IsName(g)
  PROVE  /\ Len(g.name) \in Nat \ {0}
         /\ g.name[1] \in NameWords /\ g.name[Len(g.name)] \in NameWords
         /\ \A n \in 1..Len(g.name) : g.name[n] \in NameWords \cup {"-"}
<1>1. g.name \in Seq(Tokens) /\ g.name # <<>>
  BY DEF Cut, IsName
<1>2. Len(g.name) \in Nat \ {0}
  BY <1>1, EmptySeq
<1>3. Head(g.name) = g.name[1] /\ Last(g.name) = g.name[Len(g.name)]
  BY <1>1 DEF Last
<1>4. g.name[1] \in NameWords /\ g.name[Len(g.name)] \in NameWords
  BY <1>3 DEF IsName, NameWords
<1>5. \A n \in 1..Len(g.name) : g.name[n] \in Range(g.name)
  BY <1>1 DEF Range
<1>6. \A n \in 1..Len(g.name) : g.name[n] \in NameWords \cup {"-"}
  BY <1>5 DEF IsName, NameWords
<1> QED
  BY <1>2, <1>4, <1>6

LEMMA FrontSpares ==
  ASSUME NEW g \in Cut, IsName(g), NEW t \in Seq(Tokens), NEW k \in 1..(Len(t) + 1),
         \A n \in 1..(k - 1) : t[n] \in Surroundings
  PROVE  Spares(g, t, k, Len(t))
<1> SUFFICES ASSUME NEW p \in 0..Len(t), NameAt(g, t, p)
             PROVE  k <= p + 1 /\ p + Len(g.name) <= Len(t)
  BY DEF Spares
<1>1. Len(g.name) \in Nat \ {0} /\ g.name[1] \in NameWords
  BY NameIsWords
<1>2. t[p + 1] \in NameWords /\ p + Len(g.name) <= Len(t)
  BY <1>1 DEF NameAt
<1>3. t[p + 1] \notin Surroundings
  BY <1>2, Vocabulary
<1>4. ~(p + 1 <= k - 1)
  BY <1>3
<1> QED
  BY <1>2, <1>4

LEMMA CutSpares ==
  ASSUME NEW g \in Cut, IsName(g), NEW t \in Seq(Tokens), NEW k \in 1..Len(t),
         t[k] \in Surroundings \ {"-"}
  PROVE  Spares(g, t, k, Len(t)) /\ Spares(g, t, k + 1, Len(t)) /\ Spares(g, t, 1, k - 1)
<1>1. Len(g.name) \in Nat \ {0} /\ \A n \in 1..Len(g.name) : g.name[n] \in NameWords \cup {"-"}
  BY NameIsWords
<1>2. ASSUME NEW p \in 0..Len(t), NameAt(g, t, p)
      PROVE  (k <= p \/ p + Len(g.name) < k) /\ p + Len(g.name) <= Len(t)
  <2>1. SUFFICES ASSUME p < k, k <= p + Len(g.name) PROVE FALSE
    BY <1>1, <1>2 DEF NameAt
  <2>2. k - p \in 1..Len(g.name) /\ p + (k - p) = k
    BY <1>1, <2>1
  <2>3. t[k] \in NameWords \cup {"-"}
    BY <1>1, <1>2, <2>2 DEF NameAt
  <2> QED
    BY <2>3, Vocabulary
<1>3. Spares(g, t, k, Len(t)) /\ Spares(g, t, k + 1, Len(t))
  BY <1>1, <1>2 DEF Spares
<1>4. Spares(g, t, 1, k - 1)
  BY <1>1, <1>2 DEF Spares
<1> QED
  BY <1>3, <1>4

-----------------------------------------------------------------------------
(* What the passes do                                                      *)

Labels == functionWords \cup pageLabels

LEMMA SignDoes ==
  ASSUME cleaned \in Seq(Tokens), CopyrightSign
  PROVE  \/ /\ cleaned' = cleaned
            /\ \/ \A n \in 1..Len(cleaned) : cleaned[n] # "copyright"
               \/ Len(cleaned) > 0 /\ cleaned[1] = "copyright"
         \/ \E m \in 1..Len(cleaned) :
              /\ cleaned[m] = "copyright"
              /\ \A n \in 1..(m - 1) : cleaned[n] # "copyright"
              /\ cleaned' = stripLeadingBoilerplate(SubSeq(cleaned, m, Len(cleaned)))
<1> DEFINE signs == PlacesOf(cleaned, {"copyright"})
           m == Min(signs)
<1>0. Len(cleaned) \in Nat /\ DOMAIN cleaned = 1..Len(cleaned)
  OBVIOUS
<1>1. CASE signs = {}
  <2>1. cleaned' = cleaned
    BY <1>1 DEF CopyrightSign
  <2> QED
    BY <1>1, <2>1, NoPlace
<1>2. CASE 1 \in signs
  <2>1. cleaned' = cleaned
    BY <1>2 DEF CopyrightSign
  <2>2. 1 \in 1..Len(cleaned) /\ cleaned[1] = "copyright"
    BY <1>0, <1>2 DEF PlacesOf
  <2>3. Len(cleaned) > 0
    BY <1>0, <2>2
  <2> QED
    BY <2>1, <2>2, <2>3
<1>3. CASE signs # {} /\ 1 \notin signs
  <2>1. cleaned' = stripLeadingBoilerplate(SubSeq(cleaned, m, Len(cleaned)))
    BY <1>3 DEF CopyrightSign, From
  <2>2. /\ m \in 1..Len(cleaned) /\ cleaned[m] \in {"copyright"}
        /\ \A n \in 1..Len(cleaned) : cleaned[n] \in {"copyright"} => m <= n
    BY <1>3, FirstPlace
  <2> HIDE DEF m
  <2>3. ASSUME NEW n \in 1..(m - 1) PROVE cleaned[n] # "copyright"
    <3>1. n \in 1..Len(cleaned) /\ ~(m <= n)
      BY <1>0, <2>2
    <3> QED
      BY <2>2, <3>1
  <2> QED
    BY <2>1, <2>2, <2>3
<1> QED
  BY <1>1, <1>2, <1>3

LEMMA PeelDoes ==
  ASSUME cleaned \in Seq(Tokens), PeelWord
  PROVE  \E k \in 2..(Len(cleaned) + 1) :
           /\ Len(cleaned) > 1 /\ cleaned[1] \in Labels
           /\ cleaned' = SubSeq(cleaned, k, Len(cleaned))
           /\ \A n \in 2..(k - 1) : cleaned[n] \in {":", "-"}
           /\ cleaned[1] \in functionWords => k = 2
           /\ cleaned[1] \notin functionWords =>
                \/ k <= Len(cleaned) /\ cleaned[k] \notin {":", "-"}
                \/ \A n \in 2..Len(cleaned) : cleaned[n] \in {":", "-"}
<1> DEFINE L == Len(cleaned)
           tail == Tail(cleaned)
<1>1. cleaned # <<>> /\ L \in Nat /\ L > 1 /\ Head(cleaned) \in Labels
  BY DEF PeelWord, Peels, Labels
<1>2. tail = SubSeq(cleaned, 2, L) /\ Head(cleaned) = cleaned[1]
  BY <1>1, TailIsSubSeq
<1>3. tail \in Seq(Tokens) /\ Len(tail) = L - 1 /\ \A n \in 1..(L - 1) : tail[n] = cleaned[n + 1]
  BY <1>1, HeadTailProperties
<1>4. CASE cleaned[1] \in functionWords
  <2>1. cleaned' = SubSeq(cleaned, 2, L)
    BY <1>2, <1>4 DEF PeelWord
  <2>2. 2 \in 2..(L + 1) /\ 2..(2 - 1) = {}
    BY <1>1
  <2> QED
    BY <1>1, <1>2, <1>4, <2>1, <2>2
<1>5. CASE cleaned[1] \notin functionWords
  <2>1. cleaned' = AfterLabel(cleaned)
    BY <1>2, <1>5 DEF PeelWord
  <2> DEFINE rest == Others(tail, {":", "-"})
  <2> HIDE DEF tail
  <2>2. rest = PlacesOf(tail, Tokens \ {":", "-"})
    BY <1>3 DEF Others, PlacesOf
  <2>3. CASE rest = {}
    <3>1. cleaned' = SubSeq(cleaned, L + 1, L)
      <4>1. cleaned' = <<>>
        BY <2>1, <2>3 DEF AfterLabel, tail
      <4> QED
        BY <4>1, SubSeqEmpty
    <3>2. \A n \in 1..(L - 1) : tail[n] \in {":", "-"}
      BY <1>3, <2>3 DEF Others
    <3>3. \A n \in 2..L : cleaned[n] \in {":", "-"}
      <4>1. ASSUME NEW n \in 2..L PROVE cleaned[n] \in {":", "-"}
        <5>1. n - 1 \in 1..(L - 1) /\ (n - 1) + 1 = n
          BY <1>1
        <5> QED
          BY <1>3, <3>2, <5>1
      <4> QED
        BY <4>1
    <3>4. L + 1 \in 2..(L + 1) /\ (L + 1) - 1 = L
      BY <1>1
    <3> DEFINE k == L + 1
    <3> HIDE DEF k
    <3>5. k \in 2..(L + 1) /\ k - 1 = L /\ cleaned' = SubSeq(cleaned, k, L)
      BY <3>1, <3>4 DEF k
    <3> QED
      BY <1>1, <1>2, <1>5, <3>3, <3>5
  <2>4. CASE rest # {}
    <3> DEFINE m == Min(rest)
    <3>1. /\ m \in 1..Len(tail) /\ tail[m] \in Tokens \ {":", "-"}
          /\ \A n \in 1..Len(tail) : tail[n] \in Tokens \ {":", "-"} => m <= n
      BY <1>3, <2>2, <2>4, FirstPlace
    <3>2. cleaned' = SubSeq(tail, m, Len(tail))
      BY <2>1, <2>4 DEF AfterLabel, From, tail
    <3> HIDE DEF m, rest
    <3>3. SubSeq(SubSeq(cleaned, 2, L), m, L - 1) = SubSeq(cleaned, 2 + m - 1, 2 + (L - 1) - 1)
      <4>1. 2 <= L + 1 /\ L <= Len(cleaned) /\ m \in Nat \ {0} /\ L - 1 \in Nat /\ m <= (L - 1) + 1
              /\ L - 1 <= L - 2 + 1
        BY <1>1, <1>3, <3>1
      <4> QED
        BY <1>1, <4>1, PieceOfPiece
    <3> DEFINE k == m + 1
    <3>4. k \in 2..(L + 1) /\ k <= L /\ 2 + m - 1 = k /\ 2 + (L - 1) - 1 = L
      BY <1>1, <1>3, <3>1
    <3>5. cleaned' = SubSeq(cleaned, k, L)
      BY <1>2, <1>3, <3>2, <3>3, <3>4 DEF tail
    <3>6. cleaned[k] \notin {":", "-"}
      BY <1>3, <3>1
    <3>7. ASSUME NEW n \in 2..(k - 1) PROVE cleaned[n] \in {":", "-"}
      <4>1. n - 1 \in 1..(L - 1) /\ (n - 1) + 1 = n /\ ~(m <= n - 1)
        BY <1>3, <3>1
      <4>2. tail[n - 1] \in {":", "-"}
        BY <1>3, <3>1, <4>1
      <4> QED
        BY <1>3, <4>1, <4>2
    <3> HIDE DEF k
    <3> QED
      BY <1>1, <1>2, <1>5, <3>4, <3>5, <3>6, <3>7
  <2> QED
    BY <2>3, <2>4
<1> QED
  BY <1>4, <1>5

LEMMA PhraseDoes ==
  ASSUME cleaned \in Seq(Tokens), Phrase
  PROVE  \/ /\ cleaned' = cleaned
            /\ \A m \in 2..(Len(cleaned) - 1) :
                 cleaned[m] \in Range(connectivePhrases) /\ hasLegalSuffix(cleaned) /\ Even(cleaned) =>
                   \E n \in 1..Len(cleaned) : n # m /\ cleaned[n] = cleaned[m]
         \/ \E m \in 2..(Len(cleaned) - 1) :
              /\ cleaned[m] \in Range(connectivePhrases)
              /\ cleaned' = SubSeq(cleaned, m + 1, Len(cleaned))
<1> DEFINE D == DOMAIN connectivePhrases
           at(k) == PlacesOf(cleaned, {connectivePhrases[k]})
           Works == {k \in D : /\ at(k) # {} /\ Min(at(k)) \in 2..(Len(cleaned) - 1)
                               /\ hasLegalSuffix(cleaned) /\ Even(cleaned)}
<1>1. D = 1..2
  BY DEF connectivePhrases
<1>2. Range(connectivePhrases) = {connectivePhrases[k] : k \in D}
  BY DEF Range
<1>3. ASSUME NEW k \in D, at(k) # {}
      PROVE  Min(at(k)) \in 1..Len(cleaned) /\ cleaned[Min(at(k))] = connectivePhrases[k]
  BY <1>3, FirstOf, Zenon
<1>4. cleaned' = IF Works = {} THEN cleaned ELSE From(cleaned, Min(at(Min(Works))) + 1)
  BY Zenon DEF Phrase
<1> HIDE DEF D
<1>5. CASE Works = {}
  <2>1. ASSUME NEW m \in 2..(Len(cleaned) - 1), cleaned[m] \in Range(connectivePhrases),
               hasLegalSuffix(cleaned), Even(cleaned)
        PROVE  \E n \in 1..Len(cleaned) : n # m /\ cleaned[n] = cleaned[m]
    <3>1. PICK k \in D : cleaned[m] = connectivePhrases[k]
      BY <1>2, <2>1
    <3>2. m \in 1..Len(cleaned)
      OBVIOUS
    <3>3. at(k) # {}
      BY <3>1, <3>2, NoPlace
    <3>4. Min(at(k)) # m
      BY <1>5, <2>1, <3>3
    <3>5. Min(at(k)) \in 1..Len(cleaned) /\ cleaned[Min(at(k))] = cleaned[m]
      BY <1>3, <3>1, <3>3
    <3> QED
      BY <3>4, <3>5
  <2>2. cleaned' = cleaned
    BY <1>4, <1>5
  <2> QED
    BY <2>1, <2>2
<1>6. CASE Works # {}
  <2>1. Works \in SUBSET Nat
    BY <1>1
  <2>2. Min(Works) \in Works
    BY <1>6, <2>1, MinIn
  <2> DEFINE k == Min(Works)
             m == Min(at(k))
  <2>3. cleaned' = SubSeq(cleaned, m + 1, Len(cleaned))
    BY <1>4, <1>6 DEF From
  <2>4. k \in D /\ at(k) # {} /\ m \in 2..(Len(cleaned) - 1)
    BY <2>2
  <2> HIDE DEF k
  <2>5. cleaned[m] \in Range(connectivePhrases)
    BY <1>2, <1>3, <2>4
  <2> HIDE DEF m
  <2> QED
    BY <2>3, <2>4, <2>5
<1> QED
  BY <1>5, <1>6

LEMMA ProseDoes ==
  ASSUME cleaned \in Seq(Tokens), Prose
  PROVE  \/ /\ cleaned' = cleaned
            /\ \A m \in 2..Len(cleaned) :
                 cleaned[m] \in Range(proseMarkers) /\ Even(cleaned) =>
                   \E n \in 1..Len(cleaned) : n # m /\ cleaned[n] = cleaned[m]
         \/ \E m \in 2..Len(cleaned) :
              /\ cleaned[m] \in Range(proseMarkers)
              /\ cleaned' = SubSeq(cleaned, 1, m - 1)
<1> DEFINE D == DOMAIN proseMarkers
           at(k) == PlacesOf(cleaned, {proseMarkers[k]})
           Ends == {k \in D : at(k) # {} /\ Min(at(k)) > 1 /\ Even(cleaned)}
<1>1. D = 1..2
  BY DEF proseMarkers
<1>2. Range(proseMarkers) = {proseMarkers[k] : k \in D}
  BY DEF Range
<1>3. ASSUME NEW k \in D, at(k) # {}
      PROVE  Min(at(k)) \in 1..Len(cleaned) /\ cleaned[Min(at(k))] = proseMarkers[k]
  BY <1>3, FirstOf, Zenon
<1>4. cleaned' = IF Ends = {} THEN cleaned ELSE SubSeq(cleaned, 1, Min(at(Min(Ends))) - 1)
  BY Zenon DEF Prose
<1> HIDE DEF D
<1>5. CASE Ends = {}
  <2>1. ASSUME NEW m \in 2..Len(cleaned), cleaned[m] \in Range(proseMarkers), Even(cleaned)
        PROVE  \E n \in 1..Len(cleaned) : n # m /\ cleaned[n] = cleaned[m]
    <3>1. PICK k \in D : cleaned[m] = proseMarkers[k]
      BY <1>2, <2>1
    <3>2. m \in 1..Len(cleaned) /\ m > 1
      OBVIOUS
    <3>3. at(k) # {}
      BY <3>1, <3>2, NoPlace
    <3>4. Min(at(k)) # m
      BY <1>5, <2>1, <3>2, <3>3
    <3>5. Min(at(k)) \in 1..Len(cleaned) /\ cleaned[Min(at(k))] = cleaned[m]
      BY <1>3, <3>1, <3>3
    <3> QED
      BY <3>4, <3>5
  <2>2. cleaned' = cleaned
    BY <1>4, <1>5
  <2> QED
    BY <2>1, <2>2
<1>6. CASE Ends # {}
  <2>1. Ends \in SUBSET Nat
    BY <1>1
  <2>2. Min(Ends) \in Ends
    BY <1>6, <2>1, MinIn
  <2> DEFINE k == Min(Ends)
             m == Min(at(k))
  <2>3. cleaned' = SubSeq(cleaned, 1, m - 1)
    BY <1>4, <1>6
  <2>4. k \in D /\ at(k) # {} /\ m > 1
    BY <2>2
  <2> HIDE DEF k
  <2>5. cleaned[m] \in Range(proseMarkers) /\ m \in 1..Len(cleaned)
    BY <1>2, <1>3, <2>4
  <2> HIDE DEF m
  <2>6. m \in 2..Len(cleaned)
    BY <2>4, <2>5
  <2> QED
    BY <2>3, <2>5, <2>6
<1> QED
  BY <1>5, <1>6

(* At the last colon, if that is not the first sign, the label before it   *)
(* is short and letters follow.                                            *)
LEMMA ColonDoes ==
  ASSUME cleaned \in Seq(Tokens), Colon
  PROVE  \/ /\ pass' = "again" /\ cleaned' = cleaned
            /\ \A m \in 2..Len(cleaned) :
                 cleaned[m] = ":" /\ (\A n \in (m + 1)..Len(cleaned) : cleaned[n] # ":") =>
                   ~(Cardinality(Others(SubSeq(cleaned, 1, m - 1), {":"})) <= MaxLabelWords)
         \/ /\ pass' = "again"
            /\ \E m \in 1..Len(cleaned) :
                 cleaned[m] = ":" /\ cleaned' = SubSeq(cleaned, m + 1, Len(cleaned))
         \/ /\ pass' = "refused" /\ cleaned' = cleaned
            /\ \E m \in 1..Len(cleaned) :
                 cleaned[m] = ":" /\ ~hasLetter(SubSeq(cleaned, m + 1, Len(cleaned)))
<1> DEFINE colons == PlacesOf(cleaned, {":"})
           c == Max(colons)
           short(m) == Cardinality(Others(SubSeq(cleaned, 1, m - 1), {":"})) <= MaxLabelWords
           label == colons \ {1} # {} /\ short(c)
           after == SubSeq(cleaned, c + 1, Len(cleaned))
<1>1. \/ ~label /\ pass' = "again" /\ cleaned' = cleaned
      \/ label /\ hasLetter(after) /\ pass' = "again" /\ cleaned' = after
      \/ label /\ ~hasLetter(after) /\ pass' = "refused" /\ cleaned' = cleaned
  BY Zenon DEF Colon, lastColon, From
<1>2. colons # {} => /\ c \in 1..Len(cleaned) /\ cleaned[c] = ":"
                     /\ \A n \in 1..Len(cleaned) : cleaned[n] = ":" => n <= c
  BY LastPlace
<1>3. \A m \in 1..Len(cleaned) : m \in colons <=> cleaned[m] = ":"
  BY DEF PlacesOf
<1> HIDE DEF c, short, colons
<1>4. CASE ~label /\ pass' = "again" /\ cleaned' = cleaned
  <2>1. ASSUME NEW m \in 2..Len(cleaned), cleaned[m] = ":",
               \A n \in (m + 1)..Len(cleaned) : cleaned[n] # ":"
        PROVE  ~short(m)
    <3>1. m \in 1..Len(cleaned) /\ m # 1
      OBVIOUS
    <3>2. m \in colons \ {1}
      BY <1>3, <2>1, <3>1
    <3>3. c \in 1..Len(cleaned) /\ cleaned[c] = ":" /\ m <= c
      BY <1>2, <2>1, <3>1, <3>2
    <3>4. c = m
      BY <2>1, <3>3
    <3> QED
      BY <1>4, <3>2, <3>4
  <2> QED
    BY <1>4, <2>1 DEF short
<1>5. CASE label /\ hasLetter(after) /\ pass' = "again" /\ cleaned' = after
  BY <1>2, <1>5
<1>6. CASE label /\ ~hasLetter(after) /\ pass' = "refused" /\ cleaned' = cleaned
  BY <1>2, <1>6
<1> QED
  BY <1>1, <1>4, <1>5, <1>6

LEMMA TaglineDoes ==
  ASSUME cleaned \in Seq(Tokens), Tagline
  PROVE  \/ /\ cleaned' = cleaned
            /\ \A m \in 1..Len(cleaned) :
                 cleaned[m] = form /\ (\A n \in (m + 1)..Len(cleaned) : ~Bears(cleaned[n], form))
                   /\ m + 1 < Len(cleaned) => cleaned[m + 1] \notin separators
         \/ \E m \in 1..Len(cleaned) :
              /\ EndsIn(cleaned[m], form)
              /\ \A n \in (m + 1)..Len(cleaned) : ~Bears(cleaned[n], form)
              /\ m + 1 < Len(cleaned) /\ cleaned[m + 1] \in separators
              /\ cleaned' = SubSeq(cleaned, 1, m)
<1> DEFINE Bearing == {x \in Tokens : Bears(x, form)}
           forms == PlacesOf(cleaned, Bearing)
           c == Max(forms)
           cut == /\ forms # {} /\ c + 1 < Len(cleaned)
                  /\ EndsIn(cleaned[c], form) /\ cleaned[c + 1] \in separators
<1>0. {n \in DOMAIN cleaned : Bears(cleaned[n], form)} = forms
  BY DEF PlacesOf
<1>1. cleaned' = IF cut THEN SubSeq(cleaned, 1, c) ELSE cleaned
  BY <1>0, Zenon DEF Tagline
<1>2. forms # {} => /\ c \in 1..Len(cleaned) /\ cleaned[c] \in Bearing
                    /\ \A n \in 1..Len(cleaned) : cleaned[n] \in Bearing => n <= c
  BY LastPlace, Zenon
<1>3. /\ \A m \in 1..Len(cleaned) : m \in forms <=> cleaned[m] \in Bearing
      /\ \A m \in 1..Len(cleaned) : cleaned[m] \in Bearing <=> Bears(cleaned[m], form)
  BY DEF PlacesOf
<1>7. EndsIn(form, form) /\ Bears(form, form)
  BY DEF EndsIn, Bears
<1>8. Len(cleaned) \in Nat
  OBVIOUS
<1> HIDE DEF c, forms, Bearing
<1>4. CASE ~cut
  <2>1. ASSUME NEW m \in 1..Len(cleaned), cleaned[m] = form,
               \A n \in (m + 1)..Len(cleaned) : ~Bears(cleaned[n], form), m + 1 < Len(cleaned)
        PROVE  cleaned[m + 1] \notin separators
    <3>1. m \in forms /\ forms # {} /\ cleaned[m] \in Bearing
      BY <1>3, <1>7, <2>1
    <3>2. c \in 1..Len(cleaned) /\ Bears(cleaned[c], form) /\ m <= c
      BY <1>2, <1>3, <2>1, <3>1
    <3>3. c = m
      BY <1>8, <2>1, <3>2
    <3> QED
      BY <1>4, <1>7, <2>1, <3>1, <3>3
  <2> QED
    BY <1>1, <1>4, <2>1
<1>5. CASE cut
  <2>1. c \in 1..Len(cleaned) /\ \A n \in 1..Len(cleaned) : Bears(cleaned[n], form) => n <= c
    BY <1>2, <1>3, <1>5
  <2>2. \A n \in (c + 1)..Len(cleaned) : ~Bears(cleaned[n], form)
    BY <1>8, <2>1
  <2> QED
    BY <1>1, <1>5, <2>1, <2>2
<1> QED
  BY <1>4, <1>5

LEMMA CountPlaces ==
  ASSUME NEW t \in Seq(Tokens), NEW S
  PROVE  /\ Cardinality(PlacesOf(t, S)) \in Nat
         /\ Cardinality(PlacesOf(t, S)) = 0 <=> PlacesOf(t, S) = {}
         /\ Cardinality(PlacesOf(t, S)) <= Len(t)
<1>1. PlacesOf(t, S) \subseteq 1..Len(t)
  BY DEF PlacesOf
<1>2. IsFiniteSet(1..Len(t)) /\ Cardinality(1..Len(t)) = Len(t)
  <2>1. Len(t) \in Nat
    OBVIOUS
  <2>2. 1 \in Int /\ Len(t) \in Int
    BY <2>1
  <2>3. /\ IsFiniteSet(1..Len(t))
        /\ Cardinality(1..Len(t)) = IF 1 > Len(t) THEN 0 ELSE Len(t) - 1 + 1
    BY <2>2, FS_Interval, Zenon
  <2> QED
    BY <2>1, <2>3
<1>3. IsFiniteSet(PlacesOf(t, S)) /\ Cardinality(PlacesOf(t, S)) <= Cardinality(1..Len(t))
  BY <1>1, <1>2, FS_Subset, Zenon
<1>4. Cardinality(PlacesOf(t, S)) \in Nat
  BY <1>3, FS_CardinalityType, Zenon
<1>5. Cardinality(PlacesOf(t, S)) = 0 <=> PlacesOf(t, S) = {}
  BY <1>3, FS_EmptySet, Zenon
<1> QED
  BY <1>2, <1>3, <1>4, <1>5

(* A bracket is cut at if it is the only one and not closed.               *)
LEMMA CutOpenDoes ==
  ASSUME NEW t \in Seq(Tokens), NEW b
  PROVE  \/ /\ CutOpen(t, b) = t
            /\ \A m \in 2..Len(t) :
                 t[m] = b.open /\ (\A n \in 1..Len(t) : t[n] # b.close) =>
                   \E n \in 1..Len(t) : n # m /\ t[n] = b.open
         \/ \E m \in 2..Len(t) : t[m] = b.open /\ CutOpen(t, b) = SubSeq(t, 1, m - 1)
<1> DEFINE opens == PlacesOf(t, {b.open})
           closes == PlacesOf(t, {b.close})
           c == Max(opens)
           more == Cardinality(opens) > Cardinality(closes)
<1>1. CutOpen(t, b) = IF more /\ c > 1 THEN SubSeq(t, 1, c - 1) ELSE t
  BY Zenon DEF CutOpen
<1>2. /\ Cardinality(opens) \in Nat /\ Cardinality(closes) \in Nat
      /\ Cardinality(opens) = 0 <=> opens = {}
      /\ Cardinality(closes) = 0 <=> closes = {}
  BY CountPlaces
<1>3. opens # {} => /\ c \in 1..Len(t) /\ t[c] = b.open
                    /\ \A n \in 1..Len(t) : t[n] = b.open => n <= c
  BY LastOf, Zenon
<1>4. closes = {} <=> \A n \in 1..Len(t) : t[n] # b.close
  BY DEF PlacesOf
<1>5. \A m \in 1..Len(t) : m \in opens <=> t[m] = b.open
  BY DEF PlacesOf
<1> HIDE DEF c, opens, closes
<1>6. CASE more /\ c > 1
  <2>1. opens # {}
    BY <1>2, <1>6
  <2>2. c \in 2..Len(t) /\ t[c] = b.open /\ CutOpen(t, b) = SubSeq(t, 1, c - 1)
    BY <1>1, <1>3, <1>6, <2>1
  <2> QED
    BY <2>2
<1>7. CASE ~(more /\ c > 1)
  <2>1. ASSUME NEW m \in 2..Len(t), t[m] = b.open, \A n \in 1..Len(t) : t[n] # b.close
        PROVE  \E n \in 1..Len(t) : n # m /\ t[n] = b.open
    <3>1. m \in 1..Len(t) /\ m > 1
      OBVIOUS
    <3>2. opens # {} /\ closes = {}
      BY <1>4, <1>5, <2>1, <3>1
    <3>3. more
      BY <1>2, <3>2
    <3>4. m <= c
      BY <1>3, <2>1, <3>1, <3>2
    <3>5. c \in 1..Len(t)
      BY <1>3, <3>2
    <3> QED
      BY <1>7, <3>1, <3>3, <3>4, <3>5
  <2> QED
    BY <1>1, <1>7, <2>1
<1> QED
  BY <1>6, <1>7

LEMMA BracketsTwice ==
  ASSUME NEW t
  PROVE  closeOrCutBrackets(t) = CutOpen(CutOpen(t, brackets[1]), brackets[2])
<1> DEFINE Is(f) == f = [k \in 0..2 |-> IF k = 0 THEN t ELSE CutOpen(f[k - 1], brackets[k])]
           g == [k \in 0..2 |-> IF k = 0 THEN t
                                ELSE IF k = 1 THEN CutOpen(t, brackets[1])
                                ELSE CutOpen(CutOpen(t, brackets[1]), brackets[2])]
<1>1. Len(brackets) = 2
  BY DEF brackets
<1>2. closeOrCutBrackets(t) = (CHOOSE f : Is(f))[2]
  BY <1>1, Zenon DEF closeOrCutBrackets
<1>3. \E f : Is(f)
  <2>1. ASSUME NEW k \in 0..2
        PROVE  g[k] = IF k = 0 THEN t ELSE CutOpen(g[k - 1], brackets[k])
    <3>1. g[0] = t /\ g[1] = CutOpen(t, brackets[1])
            /\ g[2] = CutOpen(CutOpen(t, brackets[1]), brackets[2])
      OBVIOUS
    <3> HIDE DEF g
    <3>2. k = 0 \/ k = 1 \/ k = 2
      OBVIOUS
    <3> QED
      BY <3>1, <3>2
  <2>2. g = [k \in 0..2 |-> g[k]]
    OBVIOUS
  <2> HIDE DEF g
  <2>3. Is(g)
    BY <2>1, <2>2
  <2> QED
    BY <2>3
<1> DEFINE h == CHOOSE f : Is(f)
<1>4. Is(h)
  BY <1>3, Zenon
<1> HIDE DEF h
<1>5. h[0] = t /\ h[1] = CutOpen(h[0], brackets[1]) /\ h[2] = CutOpen(h[1], brackets[2])
  BY <1>4
<1> QED
  BY <1>2, <1>5 DEF h

Trimmed == {":", "-", "|"}

LEMMA TrimDoes ==
  ASSUME NEW t \in Seq(Tokens)
  PROVE  \/ Trim(t) = <<>> /\ \A n \in 1..Len(t) : t[n] \in Trimmed
         \/ \E k \in 1..Len(t), m \in 1..Len(t) :
              /\ k <= m /\ Trim(t) = SubSeq(t, k, m)
              /\ t[k] \notin Trimmed /\ t[m] \notin Trimmed
              /\ \A n \in 1..Len(t) : n < k \/ m < n => t[n] \in Trimmed
<1> DEFINE kept == Others(t, Trimmed)
           k == Min(kept)
           m == Max(kept)
<1>1. kept = PlacesOf(t, Tokens \ Trimmed)
  BY DEF Others, PlacesOf
<1>2. CASE kept = {}
  <2>1. Trim(t) = <<>>
    BY <1>2 DEF Trim, Trimmed
  <2>2. \A n \in 1..Len(t) : t[n] \in Trimmed
    BY <1>2 DEF Others
  <2> QED
    BY <2>1, <2>2
<1>3. CASE kept # {}
  <2>1. Trim(t) = SubSeq(t, k, m)
    BY <1>3 DEF Trim, Trimmed
  <2>2. /\ k \in 1..Len(t) /\ t[k] \in Tokens \ Trimmed
        /\ \A n \in 1..Len(t) : t[n] \in Tokens \ Trimmed => k <= n
    BY <1>1, <1>3, FirstPlace
  <2>3. /\ m \in 1..Len(t) /\ t[m] \in Tokens \ Trimmed
        /\ \A n \in 1..Len(t) : t[n] \in Tokens \ Trimmed => n <= m
    BY <1>1, <1>3, LastPlace
  <2> HIDE DEF k, m, kept
  <2>4. k <= m
    BY <2>2, <2>3
  <2>5. ASSUME NEW n \in 1..Len(t), n < k \/ m < n PROVE t[n] \in Trimmed
    <3>1. ~(k <= n) \/ ~(n <= m)
      BY <2>2, <2>3, <2>5
    <3>2. t[n] \in Tokens
      OBVIOUS
    <3> QED
      BY <2>2, <2>3, <3>1, <3>2
  <2> QED
    BY <2>1, <2>2, <2>3, <2>4, <2>5
<1> QED
  BY <1>2, <1>3

-----------------------------------------------------------------------------
(* Every pass keeps what is held.                                          *)

Harmless(g) ==
  /\ IsName(g) /\ g.form \in Range(g.name)
  /\ \A w \in Range(g.before \o g.after) : ~Marked(w)

Passes ==
  {"front", "connectives", "sign", "words", "phrase", "prose", "colon", "again", "tagline",
   "brackets", "judge", "accepted", "refused"}

NameTypeOK ==
  /\ given \in Given
  /\ cleaned \in Seq(Tokens)
  /\ form \in Range(suffixOrder) \cup {"none"}
  /\ pass \in Passes
  /\ pass # "accepted" => form = given.form

UnharmedInv ==
  Harmless(given) =>
    /\ Held(given, cleaned)
    /\ pass = "accepted" => \E n \in 1..Len(cleaned) : Marked(cleaned[n])

LEMMA StripHolds ==
  ASSUME NEW g \in Cut, IsName(g), NEW t \in Seq(Tokens), Held(g, t)
  PROVE  Held(g, stripLeadingBoilerplate(t)) /\ stripLeadingBoilerplate(t) \in Seq(Tokens)
<1>1. PICK k \in 1..(Len(t) + 1) :
        /\ stripLeadingBoilerplate(t) = SubSeq(t, k, Len(t))
        /\ \A n \in 1..(k - 1) : t[n] \in FrontTokens
  BY Stripped
<1>2. \A n \in 1..(k - 1) : t[n] \in Surroundings
  BY <1>1 DEF Surroundings
<1>3. Spares(g, t, k, Len(t))
  BY <1>2, FrontSpares
<1>4. k \in Nat \ {0} /\ Len(t) \in Nat /\ k <= Len(t) + 1
  OBVIOUS
<1> QED
  BY <1>1, <1>3, <1>4, SparedIsHeld, PieceOf

LEMMA WithoutHolds ==
  ASSUME NEW g \in Cut, IsName(g), NEW t \in Seq(Tokens), Held(g, t),
         NEW c \in Range(leadingConnectives)
  PROVE  Held(g, Without(t, c)) /\ Without(t, c) \in Seq(Tokens)
<1>1. CASE Len(t) > 1 /\ t[1] = c
  <2>1. 2 \in 1..(Len(t) + 1) /\ \A n \in 1..(2 - 1) : n = 1
    BY <1>1
  <2>2. t[1] \in Surroundings
    BY <1>1 DEF Surroundings
  <2>3. Spares(g, t, 2, Len(t))
    BY <2>1, <2>2, FrontSpares
  <2>4. 2 \in Nat \ {0} /\ Len(t) \in Nat /\ 2 <= Len(t) + 1
    BY <1>1
  <2>5. Without(t, c) = SubSeq(t, 2, Len(t))
    BY <1>1, WithoutOne
  <2>6. Held(g, SubSeq(t, 2, Len(t))) /\ SubSeq(t, 2, Len(t)) \in Seq(Tokens)
    BY <2>3, <2>4, SparedIsHeld, PieceOf
  <2> QED
    BY <2>5, <2>6
<1>2. CASE ~(Len(t) > 1 /\ t[1] = c)
  BY <1>2, WithoutOne
<1> QED
  BY <1>1, <1>2

LEMMA SignHolds ==
  ASSUME given \in Cut, IsName(given), cleaned \in Seq(Tokens), Held(given, cleaned), CopyrightSign
  PROVE  Held(given, cleaned') /\ cleaned' \in Seq(Tokens)
<1>1. CASE cleaned' = cleaned
  BY <1>1
<1>2. ASSUME NEW m \in 1..Len(cleaned), cleaned[m] = "copyright",
             cleaned' = stripLeadingBoilerplate(SubSeq(cleaned, m, Len(cleaned)))
      PROVE  Held(given, cleaned') /\ cleaned' \in Seq(Tokens)
  <2>1. cleaned[m] \in Surroundings \ {"-"}
    BY <1>2, Tables DEF Surroundings
  <2>2. Spares(given, cleaned, m, Len(cleaned))
    BY <2>1, CutSpares
  <2>3. m \in Nat \ {0} /\ Len(cleaned) \in Nat /\ m <= Len(cleaned) + 1
    OBVIOUS
  <2>4. /\ Held(given, SubSeq(cleaned, m, Len(cleaned)))
        /\ SubSeq(cleaned, m, Len(cleaned)) \in Seq(Tokens)
    BY <2>2, <2>3, SparedIsHeld, PieceOf
  <2> QED
    BY <1>2, <2>4, StripHolds
<1> QED
  BY <1>1, <1>2, SignDoes

LEMMA PeelHolds ==
  ASSUME given \in Cut, IsName(given), cleaned \in Seq(Tokens), Held(given, cleaned), PeelWord
  PROVE  Held(given, cleaned') /\ cleaned' \in Seq(Tokens)
<1>1. PICK k \in 2..(Len(cleaned) + 1) :
        /\ cleaned[1] \in Labels /\ cleaned' = SubSeq(cleaned, k, Len(cleaned))
        /\ \A n \in 2..(k - 1) : cleaned[n] \in {":", "-"}
  BY PeelDoes
<1>2. Labels \subseteq Surroundings /\ {":", "-"} \subseteq Surroundings
  BY Tables DEF Labels, Surroundings
<1>3. k \in 1..(Len(cleaned) + 1) /\ k \in Nat \ {0} /\ Len(cleaned) \in Nat /\ k <= Len(cleaned) + 1
  OBVIOUS
<1>4. ASSUME NEW n \in 1..(k - 1) PROVE cleaned[n] \in Surroundings
  <2>1. n = 1 \/ n \in 2..(k - 1)
    OBVIOUS
  <2> QED
    BY <1>1, <1>2, <2>1
<1>5. Spares(given, cleaned, k, Len(cleaned))
  BY <1>3, <1>4, FrontSpares
<1> QED
  BY <1>1, <1>3, <1>5, SparedIsHeld, PieceOf

(* A string is cut behind a token that stands in no name, or before it.    *)
LEMMA CutHolds ==
  ASSUME NEW g \in Cut, IsName(g), NEW t \in Seq(Tokens), Held(g, t),
         NEW m \in 1..Len(t), t[m] \in Surroundings \ {"-"}
  PROVE  /\ Held(g, SubSeq(t, m + 1, Len(t))) /\ SubSeq(t, m + 1, Len(t)) \in Seq(Tokens)
         /\ Held(g, SubSeq(t, 1, m - 1)) /\ SubSeq(t, 1, m - 1) \in Seq(Tokens)
<1>1. Spares(g, t, m + 1, Len(t)) /\ Spares(g, t, 1, m - 1)
  BY CutSpares
<1>2. /\ m + 1 \in Nat \ {0} /\ Len(t) \in Nat /\ m + 1 <= Len(t) + 1
      /\ 1 \in Nat \ {0} /\ m - 1 \in Nat /\ 1 <= (m - 1) + 1 /\ m - 1 <= Len(t)
  OBVIOUS
<1>3. Held(g, SubSeq(t, m + 1, Len(t))) /\ Held(g, SubSeq(t, 1, m - 1))
  BY <1>1, <1>2, SparedIsHeld
<1> QED
  BY <1>2, <1>3, PieceOf

LEMMA PhraseHolds ==
  ASSUME given \in Cut, IsName(given), cleaned \in Seq(Tokens), Held(given, cleaned), Phrase
  PROVE  Held(given, cleaned') /\ cleaned' \in Seq(Tokens)
<1>1. CASE cleaned' = cleaned
  BY <1>1
<1>2. ASSUME NEW m \in 2..(Len(cleaned) - 1), cleaned[m] \in Range(connectivePhrases),
             cleaned' = SubSeq(cleaned, m + 1, Len(cleaned))
      PROVE  Held(given, cleaned') /\ cleaned' \in Seq(Tokens)
  <2>1. m \in 1..Len(cleaned) /\ cleaned[m] \in Surroundings \ {"-"}
    BY <1>2, Tables DEF Surroundings
  <2> QED
    BY <1>2, <2>1, CutHolds
<1> QED
  BY <1>1, <1>2, PhraseDoes

LEMMA ProseHolds ==
  ASSUME given \in Cut, IsName(given), cleaned \in Seq(Tokens), Held(given, cleaned), Prose
  PROVE  Held(given, cleaned') /\ cleaned' \in Seq(Tokens)
<1>1. CASE cleaned' = cleaned
  BY <1>1
<1>2. ASSUME NEW m \in 2..Len(cleaned), cleaned[m] \in Range(proseMarkers),
             cleaned' = SubSeq(cleaned, 1, m - 1)
      PROVE  Held(given, cleaned') /\ cleaned' \in Seq(Tokens)
  <2>1. m \in 1..Len(cleaned) /\ cleaned[m] \in Surroundings \ {"-"}
    BY <1>2, Tables DEF Surroundings
  <2> QED
    BY <1>2, <2>1, CutHolds
<1> QED
  BY <1>1, <1>2, ProseDoes

LEMMA ColonHolds ==
  ASSUME given \in Cut, IsName(given), cleaned \in Seq(Tokens), Held(given, cleaned), Colon
  PROVE  Held(given, cleaned') /\ cleaned' \in Seq(Tokens) /\ pass' \in {"again", "refused"}
<1>1. CASE cleaned' = cleaned /\ pass' \in {"again", "refused"}
  BY <1>1
<1>2. ASSUME NEW m \in 1..Len(cleaned), cleaned[m] = ":", pass' = "again",
             cleaned' = SubSeq(cleaned, m + 1, Len(cleaned))
      PROVE  Held(given, cleaned') /\ cleaned' \in Seq(Tokens) /\ pass' \in {"again", "refused"}
  <2>1. cleaned[m] \in Surroundings \ {"-"}
    BY <1>2, Tables DEF Surroundings
  <2> QED
    BY <1>2, <2>1, CutHolds
<1> QED
  BY <1>1, <1>2, ColonDoes

LEMMA TaglineHolds ==
  ASSUME given \in Cut, IsName(given), cleaned \in Seq(Tokens), Held(given, cleaned), Tagline,
         form = given.form
  PROVE  Held(given, cleaned') /\ cleaned' \in Seq(Tokens)
<1>1. CASE cleaned' = cleaned
  BY <1>1
<1>2. ASSUME NEW m \in 1..Len(cleaned), EndsIn(cleaned[m], form), m + 1 < Len(cleaned),
             \A n \in (m + 1)..Len(cleaned) : ~Bears(cleaned[n], form),
             cleaned[m + 1] \in separators, cleaned' = SubSeq(cleaned, 1, m)
      PROVE  Held(given, cleaned') /\ cleaned' \in Seq(Tokens)
  <2> DEFINE N == Len(given.name)
  <2>1. N \in Nat \ {0} /\ \A n \in 1..N : given.name[n] \in NameWords \cup {"-"}
    BY NameIsWords
  <2> HIDE DEF N
  <2>2. ASSUME NEW p \in 0..Len(cleaned), NameAt(given, cleaned, p)
        PROVE  (1 <= p + 1 /\ p + N <= m) \/ m <= p
    <3>1. SUFFICES ASSUME p < m, m < p + N PROVE FALSE
      BY <2>1
    <3>2. m - p \in 1..N /\ m - p + 1 \in 1..N /\ p + (m - p) = m /\ p + (m - p + 1) = m + 1
            /\ m - p + 1 \in 2..N /\ (m - p + 1) - 1 = m - p
      BY <2>1, <3>1
    <3>0. \A n \in 1..N : cleaned[p + n] = given.name[n]
      BY <2>2 DEF NameAt, N
    <3>3. EndsIn(given.name[m - p], form) /\ given.name[m - p + 1] \in separators
      <4>1. cleaned[p + (m - p)] = given.name[m - p]
        BY <3>0, <3>2
      <4>2. cleaned[p + (m - p + 1)] = given.name[m - p + 1]
        BY <3>0, <3>2
      <4> QED
        BY <1>2, <3>2, <4>1, <4>2
    <3>4. given.name[m - p + 1] \in NameWords \cup {"-"}
      BY <2>1, <3>2
    <3>5. given.name[m - p + 1] = "-"
      BY <3>3, <3>4, Vocabulary DEF separators, Surroundings, Signs
    <3>6. PICK q \in (m - p + 1)..N : Bears(given.name[q], form)
      BY <3>2, <3>3, <3>5 DEF IsName, N
    <3>7. q \in 1..N /\ p + q \in (m + 1)..Len(cleaned)
      BY <2>1, <2>2, <3>2 DEF NameAt, N
    <3>8. cleaned[p + q] = given.name[q]
      BY <3>0, <3>7
    <3> QED
      BY <1>2, <3>6, <3>7, <3>8
  <2>3. Spares(given, cleaned, 1, m)
    BY <2>2 DEF Spares, N
  <2>4. 1 \in Nat \ {0} /\ m \in Nat /\ 1 <= m + 1 /\ m <= Len(cleaned)
    OBVIOUS
  <2> QED
    BY <1>2, <2>3, <2>4, SparedIsHeld, PieceOf
<1> QED
  BY <1>1, <1>2, TaglineDoes

LEMMA CutOpenHolds ==
  ASSUME NEW g \in Cut, IsName(g), NEW t \in Seq(Tokens), Held(g, t),
         NEW b, b.open \in {"(", "["}
  PROVE  Held(g, CutOpen(t, b)) /\ CutOpen(t, b) \in Seq(Tokens)
<1>1. CASE CutOpen(t, b) = t
  BY <1>1
<1>2. ASSUME NEW m \in 2..Len(t), t[m] = b.open, CutOpen(t, b) = SubSeq(t, 1, m - 1)
      PROVE  Held(g, CutOpen(t, b)) /\ CutOpen(t, b) \in Seq(Tokens)
  <2>1. m \in 1..Len(t) /\ t[m] \in Surroundings \ {"-"}
    BY <1>2 DEF Surroundings, Signs
  <2> QED
    BY <1>2, <2>1, CutHolds
<1> QED
  BY <1>1, <1>2, CutOpenDoes

LEMMA TrimHolds ==
  ASSUME NEW g \in Cut, IsName(g), NEW t \in Seq(Tokens), Held(g, t)
  PROVE  Held(g, Trim(t)) /\ Trim(t) \in Seq(Tokens)
<1>1. CASE Trim(t) = <<>>
  BY <1>1 DEF Held
<1>2. ASSUME NEW k \in 1..Len(t), NEW m \in 1..Len(t), k <= m, Trim(t) = SubSeq(t, k, m),
             \A n \in 1..Len(t) : n < k \/ m < n => t[n] \in Trimmed
      PROVE  Held(g, Trim(t)) /\ Trim(t) \in Seq(Tokens)
  <2> DEFINE N == Len(g.name)
  <2>1. N \in Nat \ {0} /\ g.name[1] \in NameWords /\ g.name[N] \in NameWords
    BY NameIsWords
  <2> HIDE DEF N
  <2>2. ASSUME NEW p \in 0..Len(t), NameAt(g, t, p)
        PROVE  k <= p + 1 /\ p + N <= m
    <3>1. p + 1 \in 1..Len(t) /\ p + N \in 1..Len(t)
      BY <2>1, <2>2 DEF NameAt, N
    <3>2. t[p + 1] \in NameWords /\ t[p + N] \in NameWords
      BY <2>1, <2>2 DEF NameAt, N
    <3>3. t[p + 1] \notin Trimmed /\ t[p + N] \notin Trimmed
      BY <3>2, Vocabulary, Tables DEF Trimmed, Surroundings, Signs, separators
    <3>4. ~(p + 1 < k) /\ ~(m < p + N)
      BY <1>2, <3>1, <3>3
    <3> QED
      BY <3>1, <3>4
  <2>3. Spares(g, t, k, m)
    BY <2>2 DEF Spares, N
  <2>4. k \in Nat \ {0} /\ m \in Nat /\ k <= m + 1 /\ m <= Len(t)
    BY <1>2
  <2> QED
    BY <1>2, <2>3, <2>4, SparedIsHeld, PieceOf
<1> QED
  BY <1>1, <1>2, TrimDoes

LEMMA BracketsHold ==
  ASSUME given \in Cut, IsName(given), cleaned \in Seq(Tokens), Held(given, cleaned), Brackets
  PROVE  Held(given, cleaned') /\ cleaned' \in Seq(Tokens)
<1> DEFINE u == CutOpen(cleaned, brackets[1])
           v == CutOpen(u, brackets[2])
<1>1. brackets[1].open = "(" /\ brackets[2].open = "["
  BY DEF brackets
<1>2. Held(given, u) /\ u \in Seq(Tokens)
  <2> DEFINE b == brackets[1]
  <2>1. b.open \in {"(", "["}
    BY <1>1
  <2> HIDE DEF b
  <2>2. Held(given, CutOpen(cleaned, b)) /\ CutOpen(cleaned, b) \in Seq(Tokens)
    BY <2>1, CutOpenHolds
  <2> QED
    BY <2>2 DEF b
<1> HIDE DEF u
<1>3. Held(given, v) /\ v \in Seq(Tokens)
  <2>1. brackets[2].open \in {"(", "["}
    BY <1>1
  <2> DEFINE b == brackets[2]
  <2> HIDE DEF b
  <2>2. b.open \in {"(", "["}
    BY <2>1 DEF b
  <2>3. Held(given, CutOpen(u, b)) /\ CutOpen(u, b) \in Seq(Tokens)
    BY <1>2, <2>2, CutOpenHolds
  <2> QED
    BY <2>3 DEF b
<1>4. cleaned' = Trim(v)
  BY BracketsTwice DEF Brackets, u
<1> HIDE DEF v
<1> QED
  BY <1>3, <1>4, TrimHolds

-----------------------------------------------------------------------------
(* The types                                                               *)

LEMMA PieceTyped ==
  ASSUME NEW t \in Seq(Tokens), NEW k \in Nat \ {0}, NEW m \in Nat, k <= m + 1, m <= Len(t)
  PROVE  SubSeq(t, k, m) \in Seq(Tokens)
BY PieceOf

LEMMA StripTyped ==
  ASSUME NEW t \in Seq(Tokens)
  PROVE  stripLeadingBoilerplate(t) \in Seq(Tokens)
<1>1. PICK k \in 1..(Len(t) + 1) : stripLeadingBoilerplate(t) = SubSeq(t, k, Len(t))
  BY Stripped
<1>2. k \in Nat \ {0} /\ Len(t) \in Nat /\ k <= Len(t) + 1
  OBVIOUS
<1> QED
  BY <1>1, <1>2, PieceTyped

LEMMA WithoutTyped ==
  ASSUME NEW t \in Seq(Tokens), NEW c
  PROVE  Without(t, c) \in Seq(Tokens)
<1>1. CASE Len(t) > 1
  <2>1. SubSeq(t, 2, Len(t)) \in Seq(Tokens)
    BY <1>1, PieceTyped
  <2> QED
    BY <2>1, WithoutOne
<1>2. CASE ~(Len(t) > 1)
  BY <1>2, WithoutOne
<1> QED
  BY <1>1, <1>2

LEMMA CutOpenTyped ==
  ASSUME NEW t \in Seq(Tokens), NEW b
  PROVE  CutOpen(t, b) \in Seq(Tokens)
<1>1. ASSUME NEW m \in 2..Len(t) PROVE SubSeq(t, 1, m - 1) \in Seq(Tokens)
  <2>1. 1 \in Nat \ {0} /\ m - 1 \in Nat /\ 1 <= (m - 1) + 1 /\ m - 1 <= Len(t)
    OBVIOUS
  <2> QED
    BY <2>1, PieceTyped
<1> QED
  BY <1>1, CutOpenDoes

LEMMA TrimTyped ==
  ASSUME NEW t \in Seq(Tokens)
  PROVE  Trim(t) \in Seq(Tokens)
<1>1. ASSUME NEW k \in 1..Len(t), NEW m \in 1..Len(t), k <= m PROVE SubSeq(t, k, m) \in Seq(Tokens)
  BY <1>1, PieceTyped
<1>2. CASE Trim(t) = <<>>
  BY <1>2
<1> QED
  BY <1>1, <1>2, TrimDoes

LEMMA CleanedTyped ==
  ASSUME cleaned \in Seq(Tokens), [NameNext]_nameVars
  PROVE  cleaned' \in Seq(Tokens)
<1> DEFINE L == Len(cleaned)
<1>1. L \in Nat
  OBVIOUS
<1>2. ASSUME NEW k \in 1..(L + 1) PROVE SubSeq(cleaned, k, L) \in Seq(Tokens)
  BY <1>1, PieceTyped
<1>3. ASSUME NEW m \in 0..L PROVE SubSeq(cleaned, 1, m) \in Seq(Tokens)
  <2>1. 1 \in Nat \ {0} /\ m \in Nat /\ 1 <= m + 1 /\ m <= Len(cleaned)
    BY <1>1
  <2> QED
    BY <2>1, PieceTyped
<1>4. CASE CutFront \/ CutFrontAgain
  BY <1>4, StripTyped DEF CutFront, CutFrontAgain
<1>5. CASE Connectives
  BY <1>5, ConnectivesTwice, WithoutTyped DEF Connectives
<1>6. CASE CopyrightSign
  <2>1. ASSUME NEW m \in 1..L PROVE SubSeq(cleaned, m, L) \in Seq(Tokens)
    <3>1. m \in 1..(L + 1)
      BY <1>1
    <3> QED
      BY <1>2, <3>1
  <2> QED
    BY <1>6, <2>1, SignDoes, StripTyped
<1>7. CASE PeelWord
  <2>1. PICK k \in 2..(L + 1) : cleaned' = SubSeq(cleaned, k, L)
    BY <1>7, PeelDoes
  <2>2. k \in 1..(L + 1)
    BY <1>1
  <2> QED
    BY <1>2, <2>1, <2>2
<1>8. CASE Phrase
  <2>1. ASSUME NEW m \in 2..(L - 1) PROVE SubSeq(cleaned, m + 1, L) \in Seq(Tokens)
    <3>1. m + 1 \in 1..(L + 1)
      BY <1>1
    <3> QED
      BY <1>2, <3>1
  <2> QED
    BY <1>8, <2>1, PhraseDoes
<1>9. CASE Prose
  <2>1. ASSUME NEW m \in 2..L PROVE SubSeq(cleaned, 1, m - 1) \in Seq(Tokens)
    <3>1. m - 1 \in 0..L
      BY <1>1
    <3> QED
      BY <1>3, <3>1
  <2> QED
    BY <1>9, <2>1, ProseDoes
<1>10. CASE Colon
  <2>1. ASSUME NEW m \in 1..L PROVE SubSeq(cleaned, m + 1, L) \in Seq(Tokens)
    <3>1. m + 1 \in 1..(L + 1)
      BY <1>1
    <3> QED
      BY <1>2, <3>1
  <2> QED
    BY <1>10, <2>1, ColonDoes
<1>11. CASE Tagline
  <2>1. ASSUME NEW m \in 1..L PROVE SubSeq(cleaned, 1, m) \in Seq(Tokens)
    <3>1. m \in 0..L
      BY <1>1
    <3> QED
      BY <1>3, <3>1
  <2> QED
    BY <1>11, <2>1, TaglineDoes
<1>12. CASE Brackets
  BY <1>12, BracketsTwice, CutOpenTyped, TrimTyped DEF Brackets
<1>13. CASE NoWordToPeel \/ Judge \/ NameReturned \/ UNCHANGED nameVars
  BY <1>13 DEF NoWordToPeel, Judge, NameReturned, nameVars
<1> QED
  BY <1>4, <1>5, <1>6, <1>7, <1>8, <1>9, <1>10, <1>11, <1>12, <1>13 DEF NameNext

LEMMA FoundFirst ==
  ASSUME NEW S \in SUBSET DOMAIN suffixOrder, S # {}
  PROVE  Min(S) \in S
<1>1. DOMAIN suffixOrder = 1..3
  BY DEF suffixOrder
<1>2. S \in SUBSET Nat
  BY <1>1
<1> QED
  BY <1>2, MinIn

LEMMA FormNowIs ==
  ASSUME cleaned \in Seq(Tokens), form \in Range(suffixOrder) \cup {"none"}
  PROVE  /\ formNow \in Range(suffixOrder) \cup {"none"}
         /\ formNow # "none" => \E w \in Range(cleaned) : Bears(w, formNow)
         /\ form # "none" /\ formNow = "none" =>
              Range(cleaned) \cap (Range(suffixOrder) \ {"none"}) = {}
<1> DEFINE found == {k \in DOMAIN suffixOrder : suffixOrder[k] \in Range(cleaned)}
<1> DEFINE kept == form = "none" \/ \E w \in Range(cleaned) : Bears(w, form)
<1>1. CASE kept
  BY <1>1 DEF formNow
<1>2. CASE ~kept
  <2>1. formNow = IF found = {} THEN "none" ELSE suffixOrder[Min(found)]
    BY <1>2 DEF formNow
  <2>2. found # {} => Min(found) \in found
    BY FoundFirst
  <2>3. Range(suffixOrder) = {suffixOrder[k] : k \in DOMAIN suffixOrder}
    BY Zenon DEF Range
  <2>4. CASE found = {}
    <3>1. \A x \in Range(suffixOrder) : x \notin Range(cleaned)
      BY <2>3, <2>4
    <3> QED
      BY <1>2, <2>1, <2>4, <3>1
  <2>5. CASE found # {}
    <3> DEFINE k == Min(found)
    <3>1. k \in DOMAIN suffixOrder /\ suffixOrder[k] \in Range(cleaned)
      BY <2>2, <2>5
    <3>2. formNow = suffixOrder[k]
      BY <2>1, <2>5
    <3> HIDE DEF k, found
    <3>3. formNow \in Range(suffixOrder) /\ formNow \in Range(cleaned) /\ formNow # "none"
      BY <2>3, <3>1, <3>2, Tables
    <3>4. Bears(formNow, formNow)
      BY DEF Bears
    <3> QED
      BY <3>3, <3>4
  <2> QED
    BY <2>4, <2>5
<1> QED
  BY <1>1, <1>2

(* Whatever is cut off, a string of the words of the page remains, and the *)
(* passes come in their order (normalizeLegalName).                        *)
THEOREM NameTypeCorrect == NameSpec => []NameTypeOK
<1>1. NameInit => NameTypeOK
  <2> SUFFICES ASSUME NameInit PROVE NameTypeOK
    OBVIOUS
  <2>1. given \in Given /\ given \in Cut
    BY NamesAssumption DEF NameInit
  <2>2. given.before \in Seq(Tokens) /\ given.name \in Seq(Tokens) /\ given.after \in Seq(Tokens)
          /\ given.form \in Range(suffixOrder) \cup {"none"}
    BY <2>1 DEF Cut
  <2>3. given.before \o given.name \in Seq(Tokens)
    BY <2>2, ConcatProperties
  <2>4. (given.before \o given.name) \o given.after \in Seq(Tokens)
    BY <2>2, <2>3, ConcatProperties
  <2> QED
    BY <2>1, <2>2, <2>4 DEF NameInit, NameTypeOK, Passes
<1>2. NameTypeOK /\ [NameNext]_nameVars => NameTypeOK'
  <2> SUFFICES ASSUME NameTypeOK, [NameNext]_nameVars PROVE NameTypeOK'
    OBVIOUS
  <2>1. cleaned' \in Seq(Tokens)
    BY CleanedTyped DEF NameTypeOK
  <2>2. given' = given
    BY DEF NameNext, nameVars, CutFront, Connectives, CopyrightSign, PeelWord, NoWordToPeel, Phrase,
      Prose, Colon, CutFrontAgain, Tagline, Brackets, Judge, NameReturned
  <2>3. pass' \in Passes
    BY DEF NameNext, nameVars, CutFront, Connectives, CopyrightSign, PeelWord, NoWordToPeel, Phrase,
      Prose, Colon, CutFrontAgain, Tagline, Brackets, Judge, NameReturned, NameTypeOK, Passes
  <2>4. CASE Judge
    <3>1. formNow \in Range(suffixOrder) \cup {"none"}
      BY FormNowIs DEF NameTypeOK
    <3> QED
      BY <2>1, <2>2, <2>3, <2>4, <3>1 DEF Judge, NameTypeOK
  <2>5. CASE ~Judge
    <3>1. form' = form /\ (pass' # "accepted" => pass # "accepted")
      BY <2>5 DEF NameNext, nameVars, CutFront, Connectives, CopyrightSign, PeelWord, NoWordToPeel,
        Phrase, Prose, Colon, CutFrontAgain, Tagline, Brackets, NameReturned
    <3> QED
      BY <2>1, <2>2, <2>3, <3>1 DEF NameTypeOK
  <2> QED
    BY <2>4, <2>5
<1> QED
  BY <1>1, <1>2, PTL DEF NameSpec

-----------------------------------------------------------------------------
(* The string as it was cut: surroundings, name, surroundings              *)

LEMMA WholeIs ==
  ASSUME NEW g \in Cut
  PROVE  LET B == Len(g.before)
             N == Len(g.name)
             A == Len(g.after)
             w == WholeOf(g)
         IN  /\ B \in Nat /\ N \in Nat /\ A \in Nat /\ w \in Seq(Tokens) /\ Len(w) = B + N + A
             /\ \A n \in 1..B : w[n] = g.before[n]
             /\ \A n \in 1..N : w[B + n] = g.name[n]
             /\ \A n \in 1..A : w[B + N + n] = g.after[n]
<1> DEFINE b == g.before
           s == g.name
           a == g.after
           v == b \o s
           w == v \o a
<1>1. b \in Seq(Tokens) /\ s \in Seq(Tokens) /\ a \in Seq(Tokens)
  BY DEF Cut
<1>2. w = WholeOf(g)
  BY DEF WholeOf
<1> HIDE DEF b, s, a
<1>3. Len(b) \in Nat /\ Len(s) \in Nat /\ Len(a) \in Nat
  BY <1>1
<1>4. /\ v \in Seq(Tokens) /\ Len(v) = Len(b) + Len(s)
      /\ \A i \in 1..(Len(b) + Len(s)) : v[i] = IF i <= Len(b) THEN b[i] ELSE s[i - Len(b)]
  BY <1>1, ConcatProperties
<1> HIDE DEF v
<1>5. /\ w \in Seq(Tokens) /\ Len(w) = Len(v) + Len(a)
      /\ \A i \in 1..(Len(v) + Len(a)) : w[i] = IF i <= Len(v) THEN v[i] ELSE a[i - Len(v)]
  <2>1. v \in Seq(Tokens) /\ a \in Seq(Tokens)
    BY <1>1, <1>4
  <2> QED
    BY <2>1, ConcatProperties
<1> HIDE DEF w
<1>6. ASSUME NEW n \in 1..Len(b) PROVE w[n] = b[n]
  BY <1>3, <1>4, <1>5
<1>7. ASSUME NEW n \in 1..Len(s) PROVE w[Len(b) + n] = s[n]
  <2>1. Len(b) + n \in 1..(Len(b) + Len(s)) /\ ~(Len(b) + n <= Len(b)) /\ (Len(b) + n) - Len(b) = n
    BY <1>3
  <2>2. v[Len(b) + n] = s[n]
    BY <1>4, <2>1
  <2>3. Len(b) + n \in 1..(Len(v) + Len(a)) /\ Len(b) + n <= Len(v)
    BY <1>3, <1>4, <2>1
  <2> QED
    BY <1>5, <2>2, <2>3
<1>8. ASSUME NEW n \in 1..Len(a) PROVE w[Len(b) + Len(s) + n] = a[n]
  <2> DEFINE i == Len(b) + Len(s) + n
  <2>1. i \in 1..(Len(v) + Len(a)) /\ ~(i <= Len(v)) /\ i - Len(v) = n
    BY <1>3, <1>4
  <2> HIDE DEF i
  <2>2. w[i] = a[n]
    BY <1>5, <2>1
  <2> QED
    BY <2>2 DEF i
<1>9. Len(w) = Len(b) + Len(s) + Len(a)
  BY <1>4, <1>5
<1> QED
  BY <1>2, <1>3, <1>5, <1>6, <1>7, <1>8, <1>9 DEF b, s, a

LEMMA WholeHolds ==
  ASSUME NEW g \in Cut, Harmless(g)
  PROVE  Held(g, WholeOf(g))
<1> DEFINE B == Len(g.before)
           N == Len(g.name)
           A == Len(g.after)
           w == WholeOf(g)
<1>1. /\ B \in Nat /\ N \in Nat /\ A \in Nat /\ w \in Seq(Tokens) /\ Len(w) = B + N + A
      /\ \A n \in 1..B : w[n] = g.before[n]
      /\ \A n \in 1..N : w[B + n] = g.name[n]
      /\ \A n \in 1..A : w[B + N + n] = g.after[n]
  BY WholeIs
<1>2. g.before \in Seq(Tokens) /\ g.after \in Seq(Tokens)
  BY DEF Cut
<1>3. Range(g.before \o g.after) = Range(g.before) \cup Range(g.after)
  BY <1>2, RangeConcatenation
<1>4. /\ \A n \in 1..B : ~Marked(g.before[n])
      /\ \A n \in 1..A : ~Marked(g.after[n])
  <2>1. /\ \A x \in Range(g.before) : ~Marked(x)
        /\ \A x \in Range(g.after) : ~Marked(x)
    BY <1>3 DEF Harmless
  <2>2. (\A n \in 1..B : g.before[n] \in Range(g.before)) /\ (\A n \in 1..A : g.after[n] \in Range(g.after))
    BY <1>2 DEF Range
  <2> QED
    BY <2>1, <2>2
<1> HIDE DEF B, N, A, w
<1>5. B \in 0..Len(w) /\ B + N <= Len(w)
  BY <1>1
<1>6. NameAt(g, w, B)
  BY <1>1, <1>5 DEF NameAt, N
<1>7. ASSUME NEW n \in 1..Len(w), Marked(w[n]) PROVE B < n /\ n <= B + N
  <2>1. ~(n <= B)
    BY <1>1, <1>4, <1>7
  <2>2. ~(B + N < n)
    <3>1. SUFFICES ASSUME B + N < n PROVE FALSE
      OBVIOUS
    <3>2. n - (B + N) \in 1..A /\ B + N + (n - (B + N)) = n
      BY <1>1, <3>1
    <3> QED
      BY <1>1, <1>4, <1>7, <3>2
  <2> QED
    BY <1>1, <2>1, <2>2
<1>8. FormsInName(g, w, B)
  BY <1>7 DEF FormsInName, N
<1> QED
  BY <1>5, <1>6, <1>8 DEF Held, w

LEMMA UnharmedStep ==
  ASSUME NameTypeOK, UnharmedInv, [NameNext]_nameVars
  PROVE  UnharmedInv'
<1>1. given' = given /\ given \in Cut
  BY NamesAssumption DEF NameTypeOK, NameNext, nameVars, CutFront, Connectives, CopyrightSign, PeelWord,
    NoWordToPeel, Phrase, Prose, Colon, CutFrontAgain, Tagline, Brackets, Judge, NameReturned
<1> SUFFICES ASSUME Harmless(given)
             PROVE  /\ Held(given, cleaned')
                    /\ pass' = "accepted" => \E n \in 1..Len(cleaned') : Marked(cleaned'[n])
  BY <1>1 DEF UnharmedInv, Harmless, IsName, Marked, Bears
<1>2. /\ IsName(given) /\ given.form \in Range(given.name)
      /\ Held(given, cleaned) /\ cleaned \in Seq(Tokens)
      /\ pass = "accepted" => \E n \in 1..Len(cleaned) : Marked(cleaned[n])
  BY DEF Harmless, UnharmedInv, NameTypeOK
<1>3. given.form \in Range(suffixOrder)
  <2>1. given.name \in Seq(Tokens)
    BY <1>1 DEF Cut
  <2>2. PICK n \in 1..Len(given.name) : given.form = given.name[n]
    BY <1>2, <2>1 DEF Range
  <2>3. given.form \in NameWords \cup {"-"}
    BY <1>1, <1>2, <2>2, NameIsWords
  <2>4. given.form # "none"
    BY <2>3, Vocabulary DEF Surroundings
  <2> QED
    BY <1>1, <2>4 DEF Cut
<1>4. CASE CutFront \/ CutFrontAgain
  <2>1. cleaned' = stripLeadingBoilerplate(cleaned) /\ pass' # "accepted"
    BY <1>4 DEF CutFront, CutFrontAgain
  <2> QED
    BY <1>1, <1>2, <2>1, StripHolds
<1>5. CASE Connectives
  <2>1. cleaned' = Without(Without(cleaned, "propiedad-de"), "la-sociedad") /\ pass' # "accepted"
    BY <1>5, ConnectivesTwice DEF Connectives
  <2>2. "propiedad-de" \in Range(leadingConnectives) /\ "la-sociedad" \in Range(leadingConnectives)
    BY Tables
  <2>3. Held(given, Without(cleaned, "propiedad-de")) /\ Without(cleaned, "propiedad-de") \in Seq(Tokens)
    BY <1>1, <1>2, <2>2, WithoutHolds
  <2> QED
    BY <1>1, <1>2, <2>1, <2>2, <2>3, WithoutHolds
<1>6. CASE CopyrightSign
  <2>1. pass' # "accepted"
    BY <1>6 DEF CopyrightSign
  <2> QED
    BY <1>1, <1>2, <1>6, <2>1, SignHolds
<1>7. CASE PeelWord
  <2>1. pass' # "accepted"
    BY <1>7 DEF PeelWord
  <2> QED
    BY <1>1, <1>2, <1>7, <2>1, PeelHolds
<1>8. CASE Phrase
  <2>1. pass' # "accepted"
    BY <1>8 DEF Phrase
  <2> QED
    BY <1>1, <1>2, <1>8, <2>1, PhraseHolds
<1>9. CASE Prose
  <2>1. pass' # "accepted"
    BY <1>9 DEF Prose
  <2> QED
    BY <1>1, <1>2, <1>9, <2>1, ProseHolds
<1>10. CASE Colon
  <2>1. pass' # "accepted"
    BY <1>1, <1>2, <1>10, ColonHolds
  <2> QED
    BY <1>1, <1>2, <1>10, <2>1, ColonHolds
<1>11. CASE Tagline
  <2>1. pass' # "accepted" /\ pass = "tagline"
    BY <1>11 DEF Tagline
  <2>2. form = given.form
    BY <2>1 DEF NameTypeOK
  <2> QED
    BY <1>1, <1>2, <1>11, <2>1, <2>2, TaglineHolds
<1>12. CASE Brackets
  <2>1. pass' # "accepted"
    BY <1>12 DEF Brackets
  <2> QED
    BY <1>1, <1>2, <1>12, <2>1, BracketsHold
<1>13. CASE Judge
  <2>1. cleaned' = cleaned /\ pass = "judge"
    BY <1>13 DEF Judge
  <2>2. form # "none" /\ form \in Range(suffixOrder)
    BY <1>3, <2>1, Tables DEF NameTypeOK
  <2>3. ASSUME pass' = "accepted" PROVE \E n \in 1..Len(cleaned) : Marked(cleaned[n])
    <3>1. formNow # "none"
      BY <1>13, <2>2, <2>3 DEF Judge, IsNoName
    <3>2. formNow \in Range(suffixOrder) /\ \E x \in Range(cleaned) : Bears(x, formNow)
      BY <1>2, <2>2, <3>1, FormNowIs
    <3>3. Range(cleaned) = {cleaned[n] : n \in 1..Len(cleaned)}
      BY <1>2, RangeEquality
    <3> QED
      BY <3>2, <3>3 DEF Marked
  <2> QED
    BY <1>2, <2>1, <2>3
<1>14. CASE NoWordToPeel
  BY <1>2, <1>14 DEF NoWordToPeel
<1>15. CASE NameReturned \/ UNCHANGED nameVars
  BY <1>2, <1>15 DEF NameReturned, nameVars
<1> QED
  BY <1>4, <1>5, <1>6, <1>7, <1>8, <1>9, <1>10, <1>11, <1>12, <1>13, <1>14, <1>15 DEF NameNext

LEMMA UnharmedWhenHeld ==
  ASSUME NameTypeOK, UnharmedInv
  PROVE  NameUnharmed
<1> SUFFICES ASSUME pass = "accepted", Harmless(given)
             PROVE  \E n \in 0..Len(cleaned) : IsPrefix(given.name, From(cleaned, n + 1))
  BY DEF NameUnharmed, Harmless, Marked
<1>1. given \in Cut /\ cleaned \in Seq(Tokens)
  BY NamesAssumption DEF NameTypeOK
<1>2. given.name \in Seq(Tokens)
  BY <1>1 DEF Cut
<1>3. PICK p \in 0..Len(cleaned) : NameAt(given, cleaned, p)
  BY DEF UnharmedInv, Held
<1> DEFINE N == Len(given.name)
           L == Len(cleaned)
           u == SubSeq(cleaned, p + 1, L)
<1>4. N \in Nat /\ L \in Nat /\ p + N <= L /\ \A n \in 1..N : cleaned[p + n] = given.name[n]
  BY <1>1, <1>2, <1>3 DEF NameAt
<1> HIDE DEF N, L
<1>5. /\ u \in Seq(Tokens) /\ Len(u) = L - (p + 1) + 1
      /\ \A n \in 1..(L - (p + 1) + 1) : u[n] = cleaned[p + 1 + n - 1]
  <2>1. p + 1 \in Nat \ {0} /\ L \in Nat /\ p + 1 <= L + 1 /\ L <= Len(cleaned)
    BY <1>3, <1>4 DEF L
  <2> QED
    BY <1>1, <2>1, PieceOf
<1> HIDE DEF u
<1>6. Len(u) = L - p /\ \A n \in 1..N : u[n] = given.name[n]
  <2>1. Len(u) = L - p
    BY <1>3, <1>4, <1>5
  <2>2. ASSUME NEW n \in 1..N PROVE u[n] = given.name[n]
    <3>1. n \in 1..(L - (p + 1) + 1) /\ p + 1 + n - 1 = p + n
      BY <1>3, <1>4
    <3> QED
      BY <1>4, <1>5, <3>1
  <2> QED
    BY <2>1, <2>2
<1>7. N <= Len(u)
  BY <1>3, <1>4, <1>6
<1>8. SubSeq(u, 1, N) = SubSeq(given.name, 1, N)
  <2>1. /\ SubSeq(u, 1, N) \in Seq(Tokens) /\ Len(SubSeq(u, 1, N)) = N - 1 + 1
        /\ \A n \in 1..(N - 1 + 1) : SubSeq(u, 1, N)[n] = u[1 + n - 1]
    BY <1>4, <1>5, <1>7, PieceOf
  <2>2. /\ SubSeq(given.name, 1, N) = given.name
    BY <1>2, SubSeqFull DEF N
  <2>3. ASSUME NEW n \in 1..N PROVE SubSeq(u, 1, N)[n] = given.name[n]
    <3>1. n \in 1..(N - 1 + 1) /\ 1 + n - 1 = n
      BY <1>4
    <3> QED
      BY <1>6, <2>1, <3>1
  <2>4. Len(SubSeq(u, 1, N)) = Len(given.name)
    BY <1>4, <2>1 DEF N
  <2> DEFINE v == SubSeq(u, 1, N)
  <2> HIDE DEF v
  <2>5. v \in Seq(Tokens) /\ Len(v) = Len(given.name) /\ \A n \in 1..Len(v) : v[n] = given.name[n]
    BY <2>1, <2>3, <2>4 DEF v, N
  <2>6. v = given.name
    BY <1>2, <2>5, SeqEqual
  <2> QED
    BY <2>2, <2>6 DEF v
<1>9. IsPrefix(given.name, u)
  BY <1>7, <1>8 DEF IsPrefix, N
<1> QED
  BY <1>3, <1>9 DEF From, u, L

-----------------------------------------------------------------------------
(* A wrapped name: in the string w, the name stands behind place B and     *)
(* ends at place M; what is before it falls into six parts, of which these *)
(* are the ends.                                                           *)

FrontPart(w, a) == \A n \in 1..a : w[n] \in FrontTokens

ConnectivesPart(w, a, b) ==
  \/ b = a
  \/ b = a + 1 /\ w[a + 1] \in Range(leadingConnectives)
  \/ b = a + 2 /\ w[a + 1] = "propiedad-de" /\ w[a + 2] = "la-sociedad"

NoticePart(w, b, c) ==
  \/ c = b
  \/ \E n \in (b + 2)..c :
       /\ \A k \in (b + 1)..(n - 1) : w[k] \in Words
       /\ w[n] = "copyright"
       /\ \A k \in n..c : w[k] \in FrontTokens

TitlePart(w, c, d) ==
  \A n \in (c + 1)..d :
    \/ w[n] \in Labels
    \/ w[n] \in {":", "-"} /\ n > c + 1 /\ w[n - 1] \in pageLabels \cup {":", "-"}

PhrasePart(w, f, M, d, e) ==
  \/ e = d
  \/ /\ e > d + 1 /\ w[e] \in Range(connectivePhrases)
     /\ \A k \in (d + 1)..(e - 1) : w[k] \in Words
     /\ Len(w) = M /\ (f = "none" \/ w[M] = f)

LabelEnds(w, B, e, n) ==
  /\ n \in 1..MaxLabelWords /\ e + n + 1 <= B
  /\ \A k \in (e + 1)..(e + n) : w[k] \in Words
  /\ w[e + n + 1] = ":"
  /\ \A k \in (e + n + 2)..B : w[k] \in FrontTokens /\ w[k] # ":"

LabelPart(w, B, e) == e = B \/ \E n \in 1..MaxLabelWords : LabelEnds(w, B, e, n)

NamePart(w, f, B, M) ==
  /\ w[B + 1] \in NameWords /\ w[M] \in NameWords
  /\ \A n \in (B + 1)..M : w[n] \in NameWords \cup {"-"}
  /\ \A n \in (B + 1)..M : w[n] = "-" =>
       /\ w[n - 1] \in Plain
       /\ EndsIn(w[n - 1], f) => \E m \in n..M : Bears(w[m], f)

ProseTail(w, M) ==
  /\ Len(w) > M /\ w[M + 1] \in Range(proseMarkers)
  /\ \A k \in (M + 2)..Len(w) :
       w[k] \notin Range(proseMarkers) \cup Range(connectivePhrases) \cup {"copyright"}

OpenTail(w, M) ==
  /\ Len(w) > M + 1 /\ w[M + 1] \in {"(", "["}
  /\ \A k \in (M + 2)..Len(w) : w[k] \in Words

LineTail(w, f, M) ==
  /\ Len(w) > M + 1 /\ w[M + 1] \in separators /\ f # "none" /\ w[M] = f
  /\ \A k \in (M + 2)..Len(w) : w[k] \in Words /\ ~Bears(w[k], f)

TailPart(w, f, M) == Len(w) = M \/ ProseTail(w, M) \/ OpenTail(w, M) \/ LineTail(w, f, M)

Lowered == pageLabels \cup Range(connectivePhrases) \cup Range(proseMarkers)

Legible(w) == Even(w) \/ \A n \in 1..Len(w) : w[n] \notin Lowered

Shape(w, f, B, M, a, b, c, d, e) ==
  /\ w \in Seq(Tokens) /\ f \in Range(suffixOrder) \cup {"none"}
  /\ B \in Nat /\ M \in Nat /\ B < M /\ M <= Len(w)
  /\ a \in Nat /\ b \in Nat /\ c \in Nat /\ d \in Nat /\ e \in Nat
  /\ a <= b /\ b <= c /\ c <= d /\ d <= e /\ e <= B
  /\ FrontPart(w, a) /\ ConnectivesPart(w, a, b) /\ NoticePart(w, b, c)
  /\ TitlePart(w, c, d) /\ PhrasePart(w, f, M, d, e) /\ LabelPart(w, B, e)
  /\ NamePart(w, f, B, M) /\ TailPart(w, f, M) /\ Legible(w)

(* What is left of it before each pass                                     *)
EndsAt(w, M, hi) == hi = M \/ (hi = Len(w) /\ ~ProseTail(w, M))

Stage(p, t, w, M, B, b, c, d, e, a) ==
  /\ p = "front" => t = w
  /\ p = "connectives" => t = SubSeq(w, a + 1, Len(w))
  /\ p = "sign" => t = SubSeq(w, b + 1, Len(w))
  /\ p = "words" => \E lo \in (c + 1)..(B + 1) :
       /\ lo = B + 1 \/ (lo <= d + 1 /\ (lo <= d => w[lo] \in Labels))
       /\ t = SubSeq(w, lo, Len(w))
  /\ p = "phrase" => \E lo \in {d + 1, B + 1} : t = SubSeq(w, lo, Len(w))
  /\ p = "prose" => \E lo \in {e + 1, B + 1} : t = SubSeq(w, lo, Len(w))
  /\ p = "colon" => \E lo \in {e + 1, B + 1}, hi \in M..Len(w) :
       EndsAt(w, M, hi) /\ t = SubSeq(w, lo, hi)
  /\ p = "again" => \E lo \in 1..(B + 1), hi \in M..Len(w) :
       EndsAt(w, M, hi) /\ t = SubSeq(w, lo, hi) /\ \A k \in lo..B : w[k] \in FrontTokens
  /\ p = "tagline" => \E hi \in M..Len(w) : EndsAt(w, M, hi) /\ t = SubSeq(w, B + 1, hi)
  /\ p = "brackets" => \E hi \in M..Len(w) :
       (hi = M \/ (hi = Len(w) /\ OpenTail(w, M))) /\ t = SubSeq(w, B + 1, hi)
  /\ p \in {"judge", "accepted", "refused"} => t = SubSeq(w, B + 1, M)

(* The first token of each part's rest                                     *)
LEMMA PartsStart ==
  ASSUME NEW w, NEW f, NEW B, NEW M, NEW a, NEW b, NEW c, NEW d, NEW e,
         Shape(w, f, B, M, a, b, c, d, e)
  PROVE  /\ w[e + 1] \in NameWords /\ w[d + 1] \in NameWords
         /\ w[c + 1] \in NameWords \cup Labels /\ w[b + 1] \in NameWords \cup Labels
         /\ w[a + 1] \in NameWords \cup Labels \cup Range(leadingConnectives)
<1>1. /\ B \in Nat /\ a \in Nat /\ b \in Nat /\ c \in Nat /\ d \in Nat /\ e \in Nat
      /\ a <= b /\ b <= c /\ c <= d /\ d <= e /\ e <= B
  BY DEF Shape
<1>2. Words \subseteq NameWords
  BY DEF Words, NameWords
<1>3. w[e + 1] \in NameWords
  <2>1. CASE e = B
    BY <2>1 DEF Shape, NamePart
  <2>2. CASE e # B
    <3>1. PICK n \in 1..MaxLabelWords : LabelEnds(w, B, e, n)
      BY <2>2 DEF Shape, LabelPart
    <3>2. e + 1 \in (e + 1)..(e + n)
      BY <1>1, NamesAssumption
    <3> QED
      BY <1>2, <3>1, <3>2 DEF LabelEnds
  <2> QED
    BY <2>1, <2>2
<1>4. w[d + 1] \in NameWords
  <2>1. CASE e = d
    BY <1>3, <2>1
  <2>2. CASE e # d
    <3>1. e > d + 1 /\ \A k \in (d + 1)..(e - 1) : w[k] \in Words
      BY <2>2 DEF Shape, PhrasePart
    <3>2. d + 1 \in (d + 1)..(e - 1)
      BY <1>1, <3>1
    <3> QED
      BY <1>2, <3>1, <3>2
  <2> QED
    BY <2>1, <2>2
<1>5. w[c + 1] \in NameWords \cup Labels
  <2>1. CASE d = c
    BY <1>4, <2>1
  <2>2. CASE d # c
    <3>1. c + 1 \in (c + 1)..d /\ ~(c + 1 > c + 1)
      BY <1>1, <2>2
    <3> QED
      BY <3>1 DEF Shape, TitlePart
  <2> QED
    BY <2>1, <2>2
<1>6. w[b + 1] \in NameWords \cup Labels
  <2>1. CASE c = b
    BY <1>5, <2>1
  <2>2. CASE c # b
    <3>1. PICK n \in (b + 2)..c : \A k \in (b + 1)..(n - 1) : w[k] \in Words
      BY <2>2 DEF Shape, NoticePart
    <3>2. b + 1 \in (b + 1)..(n - 1)
      BY <1>1
    <3> QED
      BY <1>2, <3>1, <3>2
  <2> QED
    BY <2>1, <2>2
<1>7. w[a + 1] \in NameWords \cup Labels \cup Range(leadingConnectives)
  <2>1. CASE b = a
    BY <1>6, <2>1
  <2>2. CASE b # a
    BY <2>2, Tables DEF Shape, ConnectivesPart
  <2> QED
    BY <2>1, <2>2
<1> QED
  BY <1>3, <1>4, <1>5, <1>6, <1>7

(* A place in a piece of a string                                          *)
LEMMA PlaceIn ==
  ASSUME NEW w \in Seq(Tokens), NEW lo \in Nat \ {0}, NEW hi \in Nat, lo <= hi + 1, hi <= Len(w),
         NEW t, t = SubSeq(w, lo, hi)
  PROVE  /\ t \in Seq(Tokens) /\ Len(t) = hi - lo + 1
         /\ \A n \in 1..Len(t) : lo + n - 1 \in lo..hi /\ t[n] = w[lo + n - 1]
         /\ \A k \in lo..hi : k - lo + 1 \in 1..Len(t) /\ t[k - lo + 1] = w[k]
<1>1. t \in Seq(Tokens) /\ Len(t) = hi - lo + 1 /\ \A n \in 1..(hi - lo + 1) : t[n] = w[lo + n - 1]
  BY PieceOf
<1>2. ASSUME NEW n \in 1..Len(t) PROVE lo + n - 1 \in lo..hi /\ t[n] = w[lo + n - 1]
  <2>1. n \in 1..(hi - lo + 1)
    BY <1>1
  <2> QED
    BY <1>1, <2>1
<1>3. ASSUME NEW k \in lo..hi PROVE k - lo + 1 \in 1..Len(t) /\ t[k - lo + 1] = w[k]
  <2>1. k - lo + 1 \in 1..(hi - lo + 1) /\ lo + (k - lo + 1) - 1 = k
    OBVIOUS
  <2> QED
    BY <1>1, <2>1
<1> QED
  BY <1>1, <1>2, <1>3

LEMMA PlaceInRest ==
  ASSUME NEW w \in Seq(Tokens), NEW lo \in Nat \ {0}, lo <= Len(w) + 1, NEW t, t = SubSeq(w, lo, Len(w))
  PROVE  /\ t \in Seq(Tokens) /\ Len(t) = Len(w) - lo + 1
         /\ \A n \in 1..Len(t) : lo + n - 1 \in lo..Len(w) /\ t[n] = w[lo + n - 1]
         /\ \A k \in lo..Len(w) : k - lo + 1 \in 1..Len(t) /\ t[k - lo + 1] = w[k]
         /\ lo <= Len(w) => t[1] = w[lo]
<1>1. Len(w) \in Nat /\ Len(w) <= Len(w)
  OBVIOUS
<1>2. /\ t \in Seq(Tokens) /\ Len(t) = Len(w) - lo + 1
      /\ \A n \in 1..Len(t) : lo + n - 1 \in lo..Len(w) /\ t[n] = w[lo + n - 1]
      /\ \A k \in lo..Len(w) : k - lo + 1 \in 1..Len(t) /\ t[k - lo + 1] = w[k]
  BY <1>1, PlaceIn
<1>3. ASSUME lo <= Len(w) PROVE t[1] = w[lo]
  <2>1. lo \in lo..Len(w) /\ lo - lo + 1 = 1
    BY <1>1, <1>3
  <2> QED
    BY <1>2, <2>1
<1> QED
  BY <1>2, <1>3

LEMMA StripPiece ==
  ASSUME NEW w \in Seq(Tokens), NEW lo \in Nat \ {0}, NEW hi \in Nat, lo <= hi + 1, hi <= Len(w),
         NEW k \in lo..hi, w[k] \notin FrontTokens, \A j \in lo..(k - 1) : w[j] \in FrontTokens
  PROVE  stripLeadingBoilerplate(SubSeq(w, lo, hi)) = SubSeq(w, k, hi)
<1> DEFINE t == SubSeq(w, lo, hi)
           m == k - lo + 1
<1>1. /\ t \in Seq(Tokens) /\ Len(t) = hi - lo + 1
      /\ \A n \in 1..Len(t) : lo + n - 1 \in lo..hi /\ t[n] = w[lo + n - 1]
      /\ \A j \in lo..hi : j - lo + 1 \in 1..Len(t) /\ t[j - lo + 1] = w[j]
  BY PlaceIn
<1> HIDE DEF t
<1>2. m \in 1..Len(t) /\ t[m] \notin FrontTokens
  BY <1>1
<1>3. ASSUME NEW n \in 1..(m - 1) PROVE t[n] \in FrontTokens
  <2>1. n \in 1..Len(t) /\ lo + n - 1 \in lo..(k - 1)
    BY <1>1, <1>2
  <2> QED
    BY <1>1, <2>1
<1>4. stripLeadingBoilerplate(t) = SubSeq(t, m, Len(t))
  BY <1>1, <1>2, <1>3, StripsTo
<1>5. SubSeq(t, m, hi - lo + 1) = SubSeq(w, lo + m - 1, lo + (hi - lo + 1) - 1)
  <2>1. m \in Nat \ {0} /\ hi - lo + 1 \in Nat /\ m <= (hi - lo + 1) + 1
    OBVIOUS
  <2> QED
    BY <2>1, PieceOfPiece DEF t
<1>6. lo + m - 1 = k /\ lo + (hi - lo + 1) - 1 = hi
  OBVIOUS
<1> QED
  BY <1>1, <1>4, <1>5, <1>6 DEF t

LEMMA PlaceIsNumber ==
  ASSUME NEW n \in Nat, NEW i \in 1..n
  PROVE  i \in Nat /\ i > 0
OBVIOUS

(* The rest of a piece is a piece.                                         *)
LEMMA RestOfPiece ==
  ASSUME NEW w \in Seq(Tokens), NEW lo \in Nat \ {0}, NEW hi \in Nat, lo <= hi + 1, hi <= Len(w),
         NEW m \in 1..(hi - lo + 2)
  PROVE  SubSeq(SubSeq(w, lo, hi), m, hi - lo + 1) = SubSeq(w, lo + m - 1, hi)
<1> DEFINE n == hi - lo + 1
<1>1. /\ m \in Nat \ {0} /\ n \in Nat /\ m <= n + 1 /\ n <= hi - lo + 1 /\ lo + n - 1 = hi
  OBVIOUS
<1> HIDE DEF n
<1>2. SubSeq(SubSeq(w, lo, hi), m, n) = SubSeq(w, lo + m - 1, lo + n - 1)
  BY <1>1, PieceOfPiece
<1> QED
  BY <1>1, <1>2 DEF n

(* A piece is cut behind a place of it, or before it.                      *)
LEMMA CutPiece ==
  ASSUME NEW w \in Seq(Tokens), NEW lo \in Nat \ {0}, NEW hi \in Nat, lo <= hi + 1, hi <= Len(w),
         NEW t, t = SubSeq(w, lo, hi), NEW m \in 1..Len(t)
  PROVE  /\ SubSeq(t, m, Len(t)) = SubSeq(w, lo + m - 1, hi)
         /\ SubSeq(t, m + 1, Len(t)) = SubSeq(w, lo + m, hi)
         /\ SubSeq(t, 1, m - 1) = SubSeq(w, lo, lo + m - 2)
         /\ SubSeq(t, 1, m) = SubSeq(w, lo, lo + m - 1)
<1> DEFINE n == hi - lo + 1
<1>1. Len(t) = n
  BY PlaceIn
<1>2. /\ m \in Nat \ {0} /\ n \in Nat /\ m <= n + 1 /\ n <= hi - lo + 1
      /\ m + 1 \in Nat \ {0} /\ m + 1 <= n + 1 /\ m - 1 \in Nat /\ 1 \in Nat \ {0} /\ 1 <= (m - 1) + 1
      /\ m - 1 <= hi - lo + 1 /\ m <= hi - lo + 1 /\ 1 <= m + 1 /\ m \in Nat
  BY <1>1
<1>3. lo + n - 1 = hi /\ lo + (m + 1) - 1 = lo + m /\ lo + 1 - 1 = lo /\ lo + (m - 1) - 1 = lo + m - 2
  OBVIOUS
<1> HIDE DEF n
<1>4. SubSeq(t, m, n) = SubSeq(w, lo + m - 1, lo + n - 1)
  BY <1>2, PieceOfPiece
<1>5. SubSeq(t, m + 1, n) = SubSeq(w, lo + (m + 1) - 1, lo + n - 1)
  BY <1>2, PieceOfPiece
<1>6. SubSeq(t, 1, m - 1) = SubSeq(w, lo + 1 - 1, lo + (m - 1) - 1)
  BY <1>2, PieceOfPiece
<1>7. SubSeq(t, 1, m) = SubSeq(w, lo + 1 - 1, lo + m - 1)
  BY <1>2, PieceOfPiece
<1> QED
  BY <1>1, <1>3, <1>4, <1>5, <1>6, <1>7

-----------------------------------------------------------------------------
(* Pass by pass, a wrapped name is unwrapped.                              *)

LEMMA Ends ==
  ASSUME NEW w, NEW f, NEW B, NEW M, NEW a, NEW b, NEW c, NEW d, NEW e,
         Shape(w, f, B, M, a, b, c, d, e)
  PROVE  /\ w \in Seq(Tokens) /\ Len(w) \in Nat /\ B \in Nat /\ M \in Nat /\ B < M /\ M <= Len(w)
         /\ a \in Nat /\ b \in Nat /\ c \in Nat /\ d \in Nat /\ e \in Nat
         /\ a <= b /\ b <= c /\ c <= d /\ d <= e /\ e <= B
BY DEF Shape

LEMMA WordsAreNone ==
  /\ Words \subseteq NameWords
  /\ \A x \in NameWords : x \notin FrontTokens /\ x \notin Labels /\ x \notin Range(leadingConnectives)
       /\ x \notin Range(connectivePhrases) /\ x \notin Range(proseMarkers)
       /\ x \notin {":", "-", "|", "(", ")", "[", "]", "copyright", "none"}
  /\ \A x \in Labels : x \notin FrontTokens /\ x \notin Range(leadingConnectives)
       /\ x \notin Range(connectivePhrases) /\ x \notin Range(proseMarkers)
       /\ x \notin {":", "-", "|", "(", ")", "[", "]", "copyright", "none"}
  /\ \A x \in FrontTokens : x \notin Range(leadingConnectives)
       /\ x \notin Range(connectivePhrases) /\ x \notin Range(proseMarkers)
<1>1. Words \subseteq NameWords
  BY DEF Words, NameWords
<1>2. \A x \in NameWords : x \notin FrontTokens /\ x \notin Labels /\ x \notin Range(leadingConnectives)
        /\ x \notin Range(connectivePhrases) /\ x \notin Range(proseMarkers)
        /\ x \notin {":", "-", "|", "(", ")", "[", "]", "copyright", "none"}
  BY Vocabulary DEF Surroundings, Labels, Signs, leadingSigns, separators
<1>3. Labels = {"der", "impressum"}
  BY DEF Labels, functionWords, pageLabels
<1> QED
  BY <1>1, <1>2, <1>3, Tables

LEMMA FrontUnwraps ==
  ASSUME NEW w, NEW f, NEW B, NEW M, NEW a, NEW b, NEW c, NEW d, NEW e,
         Shape(w, f, B, M, a, b, c, d, e)
  PROVE  stripLeadingBoilerplate(w) = SubSeq(w, a + 1, Len(w))
<1>1. w \in Seq(Tokens) /\ Len(w) \in Nat /\ a \in Nat /\ a + 1 <= Len(w)
  BY Ends
<1>2. w[a + 1] \notin FrontTokens
  BY PartsStart, WordsAreNone
<1>3. a + 1 \in 1..Len(w) /\ \A j \in 1..((a + 1) - 1) : w[j] \in FrontTokens
  BY <1>1 DEF Shape, FrontPart
<1> QED
  BY <1>1, <1>2, <1>3, StripsTo

LEMMA WithoutPiece ==
  ASSUME NEW w \in Seq(Tokens), NEW lo \in 1..Len(w), NEW x
  PROVE  Without(SubSeq(w, lo, Len(w)), x) =
           IF lo < Len(w) /\ w[lo] = x THEN SubSeq(w, lo + 1, Len(w)) ELSE SubSeq(w, lo, Len(w))
<1> DEFINE t == SubSeq(w, lo, Len(w))
<1>1. lo \in Nat \ {0} /\ Len(w) \in Nat /\ lo <= Len(w) + 1
  OBVIOUS
<1>2. /\ t \in Seq(Tokens) /\ Len(t) = Len(w) - lo + 1
      /\ \A n \in 1..Len(t) : lo + n - 1 \in lo..Len(w) /\ t[n] = w[lo + n - 1]
      /\ \A k \in lo..Len(w) : k - lo + 1 \in 1..Len(t) /\ t[k - lo + 1] = w[k]
      /\ lo <= Len(w) => t[1] = w[lo]
  BY <1>1, PlaceInRest
<1>3. t[1] = w[lo] /\ (Len(t) > 1 <=> lo < Len(w)) /\ 1 \in 1..Len(t)
  <2>2. t[1] = w[lo]
    BY <1>1, <1>2
  <2> HIDE DEF t
  <2>3. (Len(t) > 1 <=> lo < Len(w)) /\ 1 \in 1..Len(t)
    BY <1>1, <1>2
  <2> QED
    BY <2>2, <2>3
<1>4. SubSeq(t, 2, Len(w) - lo + 1) = SubSeq(w, lo + 2 - 1, Len(w))
  BY <1>1, RestOfPiece
<1> HIDE DEF t
<1>5. SubSeq(t, 2, Len(t)) = SubSeq(w, lo + 1, Len(w))
  BY <1>1, <1>2, <1>4
<1>6. Without(t, x) = IF lo < Len(w) /\ w[lo] = x THEN SubSeq(w, lo + 1, Len(w)) ELSE t
  BY <1>2, <1>3, <1>5, WithoutOne
<1> QED
  BY <1>6 DEF t

LEMMA ConnectivesUnwrap ==
  ASSUME NEW w, NEW f, NEW B, NEW M, NEW a, NEW b, NEW c, NEW d, NEW e,
         Shape(w, f, B, M, a, b, c, d, e)
  PROVE  withoutConnectives(SubSeq(w, a + 1, Len(w))) = SubSeq(w, b + 1, Len(w))
<1> DEFINE t == SubSeq(w, a + 1, Len(w))
           u == Without(t, "propiedad-de")
<1>1. /\ w \in Seq(Tokens) /\ Len(w) \in Nat /\ a \in Nat /\ b \in Nat
      /\ a <= b /\ b + 1 <= Len(w) /\ a + 1 \in 1..Len(w) /\ b + 1 \in 1..Len(w)
  BY Ends
<1>2. w[b + 1] \notin Range(leadingConnectives)
  BY PartsStart, WordsAreNone
<1>3. w[b + 1] # "propiedad-de" /\ w[b + 1] # "la-sociedad"
  BY <1>2, Tables
<1>4. u = IF a + 1 < Len(w) /\ w[a + 1] = "propiedad-de" THEN SubSeq(w, (a + 1) + 1, Len(w)) ELSE t
  BY <1>1, WithoutPiece
<1>5. withoutConnectives(t) = Without(u, "la-sociedad")
  BY ConnectivesTwice
<1> HIDE DEF u
<1>6. CASE b = a
  <2>1. u = SubSeq(w, a + 1, Len(w))
    BY <1>3, <1>4, <1>6
  <2>2. Without(u, "la-sociedad") = SubSeq(w, a + 1, Len(w))
    BY <1>1, <1>3, <1>6, <2>1, WithoutPiece
  <2> QED
    BY <1>5, <1>6, <2>2
<1>7. CASE b = a + 1 /\ w[a + 1] = "propiedad-de"
  <2>1. a + 1 < Len(w) /\ (a + 1) + 1 = b + 1
    BY <1>1, <1>7
  <2>2. u = SubSeq(w, b + 1, Len(w))
    BY <1>4, <1>7, <2>1
  <2>3. Without(u, "la-sociedad") = SubSeq(w, b + 1, Len(w))
    BY <1>1, <1>3, <2>2, WithoutPiece
  <2> QED
    BY <1>5, <2>3
<1>8. CASE b = a + 1 /\ w[a + 1] = "la-sociedad"
  <2>1. a + 1 < Len(w) /\ (a + 1) + 1 = b + 1
    BY <1>1, <1>8
  <2>2. u = SubSeq(w, a + 1, Len(w))
    BY <1>4, <1>8
  <2>3. Without(u, "la-sociedad") = SubSeq(w, (a + 1) + 1, Len(w))
    BY <1>1, <1>8, <2>1, <2>2, WithoutPiece
  <2> QED
    BY <1>5, <2>1, <2>3
<1>9. CASE b = a + 2 /\ w[a + 1] = "propiedad-de" /\ w[a + 2] = "la-sociedad"
  <2>1. a + 1 < Len(w) /\ (a + 1) + 1 = a + 2 /\ a + 2 < Len(w) /\ (a + 2) + 1 = b + 1
          /\ a + 2 \in 1..Len(w)
    BY <1>1, <1>9
  <2>2. u = SubSeq(w, a + 2, Len(w))
    BY <1>4, <1>9, <2>1
  <2>3. Without(u, "la-sociedad") = SubSeq(w, (a + 2) + 1, Len(w))
    BY <1>1, <1>9, <2>1, <2>2, WithoutPiece
  <2> QED
    BY <1>5, <2>1, <2>3
<1> QED
  BY <1>6, <1>7, <1>8, <1>9, Tables DEF Shape, ConnectivesPart

(* Behind the notice a sign stands only where nothing but such follows up  *)
(* to the name.                                                            *)
LEMMA SignsBehind ==
  ASSUME NEW w, NEW f, NEW B, NEW M, NEW a, NEW b, NEW c, NEW d, NEW e,
         Shape(w, f, B, M, a, b, c, d, e),
         NEW k \in (c + 1)..Len(w), w[k] = "copyright"
  PROVE  k <= B /\ \A j \in k..B : w[j] \in FrontTokens
<1>1. /\ B \in Nat /\ M \in Nat /\ Len(w) \in Nat /\ c \in Nat /\ d \in Nat /\ e \in Nat /\ k \in Nat
      /\ c <= d /\ d <= e /\ e <= B /\ B < M /\ M <= Len(w) /\ k >= c + 1
  BY Ends
<1>2. w[k] \notin NameWords \cup Labels \cup {":", "-", "|", "(", "["}
        \cup Range(connectivePhrases) \cup Range(proseMarkers)
  BY WordsAreNone, Tables
<1>3. ~(k <= d)
  <2>1. SUFFICES ASSUME k \in (c + 1)..d PROVE FALSE
    BY <1>1
  <2> QED
    BY <1>2, <2>1 DEF Shape, TitlePart
<1>4. ~(d < k /\ k <= e)
  <2>1. SUFFICES ASSUME d < k, k <= e PROVE FALSE
    OBVIOUS
  <2>2. w[e] \in Range(connectivePhrases) /\ \A j \in (d + 1)..(e - 1) : w[j] \in Words
    BY <1>1, <2>1 DEF Shape, PhrasePart
  <2>3. k = e \/ k \in (d + 1)..(e - 1)
    BY <1>1, <2>1
  <2> QED
    BY <1>2, <2>2, <2>3, WordsAreNone
<1>5. ~(B < k /\ k <= M)
  <2>1. SUFFICES ASSUME k \in (B + 1)..M PROVE FALSE
    BY <1>1
  <2> QED
    BY <1>2, <2>1 DEF Shape, NamePart
<1>6. ~(M < k)
  <2>1. SUFFICES ASSUME M < k PROVE FALSE
    OBVIOUS
  <2>2. k = M + 1 \/ k \in (M + 2)..Len(w)
    BY <1>1, <2>1
  <2>3. Len(w) # M
    BY <1>1, <2>1
  <2>4. CASE ProseTail(w, M)
    BY <1>2, <2>2, <2>4 DEF ProseTail
  <2>5. CASE OpenTail(w, M)
    BY <1>2, <2>2, <2>5, WordsAreNone DEF OpenTail
  <2>6. CASE LineTail(w, f, M)
    BY <1>2, <2>2, <2>6, WordsAreNone DEF LineTail, separators
  <2> QED
    BY <2>3, <2>4, <2>5, <2>6 DEF Shape, TailPart
<1>7. e < k /\ k <= B
  BY <1>1, <1>3, <1>4, <1>5, <1>6
<1>8. PICK n \in 1..MaxLabelWords : LabelEnds(w, B, e, n)
  BY <1>1, <1>7 DEF Shape, LabelPart
<1>9. n \in Nat
  BY NamesAssumption
<1>10. ~(k \in (e + 1)..(e + n)) /\ k # e + n + 1
  BY <1>2, <1>8, WordsAreNone DEF LabelEnds
<1>11. k >= e + n + 2
  BY <1>1, <1>7, <1>9, <1>10
<1>12. \A j \in k..B : j \in (e + n + 2)..B
  BY <1>1, <1>9, <1>11
<1> QED
  BY <1>7, <1>8, <1>12 DEF LabelEnds

LEMMA SignUnwraps ==
  ASSUME NEW w, NEW f, NEW B, NEW M, NEW a, NEW b, NEW c, NEW d, NEW e,
         Shape(w, f, B, M, a, b, c, d, e),
         cleaned = SubSeq(w, b + 1, Len(w)), CopyrightSign
  PROVE  \E lo \in (c + 1)..(B + 1) :
           /\ lo = B + 1 \/ (lo <= d + 1 /\ (lo <= d => w[lo] \in Labels))
           /\ cleaned' = SubSeq(w, lo, Len(w))
<1> DEFINE L == Len(w)
           lo == b + 1
<1>1. /\ w \in Seq(Tokens) /\ L \in Nat /\ B \in Nat /\ M \in Nat /\ B < M /\ M <= L
      /\ b \in Nat /\ c \in Nat /\ d \in Nat /\ e \in Nat
      /\ b <= c /\ c <= d /\ d <= e /\ e <= B
  BY Ends
<1>2. lo \in Nat \ {0} /\ lo <= L + 1 /\ L <= Len(w)
  BY <1>1
<1>3. /\ cleaned \in Seq(Tokens) /\ Len(cleaned) = L - lo + 1
      /\ \A n \in 1..Len(cleaned) : lo + n - 1 \in lo..L /\ cleaned[n] = w[lo + n - 1]
      /\ \A k \in lo..L : k - lo + 1 \in 1..Len(cleaned) /\ cleaned[k - lo + 1] = w[k]
  BY <1>1, <1>2, PlaceIn
<1>4. c + 1 <= d => w[c + 1] \in Labels
  <2>1. SUFFICES ASSUME c + 1 <= d PROVE w[c + 1] \in Labels
    OBVIOUS
  <2>2. c + 1 \in (c + 1)..d /\ ~(c + 1 > c + 1)
    BY <1>1, <2>1
  <2> QED
    BY <2>2 DEF Shape, TitlePart
<1>5. c + 1 \in (c + 1)..(B + 1) /\ c + 1 <= d + 1
  BY <1>1
<1>6. w[b + 1] # "copyright"
  BY PartsStart, WordsAreNone
<1>7. w[c + 1] \notin FrontTokens
  BY PartsStart, WordsAreNone
<1>8. w[B + 1] \notin FrontTokens
  BY WordsAreNone DEF Shape, NamePart
<1> HIDE DEF L
(* Where the sign is, the string is cut.                                   *)
<1>9. ASSUME NEW m \in 1..Len(cleaned), NEW k \in lo..L, NEW to \in k..L, k = lo + m - 1,
             w[to] \notin FrontTokens, \A j \in k..(to - 1) : w[j] \in FrontTokens
      PROVE  stripLeadingBoilerplate(SubSeq(cleaned, m, Len(cleaned))) = SubSeq(w, to, L)
  <2>1. SubSeq(cleaned, m, Len(cleaned)) = SubSeq(w, k, L)
    <3>1. cleaned = SubSeq(w, lo, L)
      BY DEF L
    <3>2. w \in Seq(Tokens) /\ L \in Nat
      BY <1>1
    <3> HIDE DEF lo
    <3>3. Len(cleaned) = L - lo + 1 /\ m \in 1..(L - lo + 2)
      BY <1>2, <1>3, <3>2
    <3>4. SubSeq(SubSeq(w, lo, L), m, L - lo + 1) = SubSeq(w, lo + m - 1, L)
      BY <1>2, <3>2, <3>3, RestOfPiece
    <3>5. SubSeq(cleaned, m, Len(cleaned)) = SubSeq(w, lo + m - 1, L)
      BY <3>1, <3>3, <3>4, Zenon
    <3>6. lo + m - 1 = k
      BY <1>9
    <3> QED
      BY <3>5, <3>6, Zenon
  <2>2. k \in Nat \ {0} /\ k <= L + 1
    BY <1>1
  <2>3. stripLeadingBoilerplate(SubSeq(w, k, L)) = SubSeq(w, to, L)
    BY <1>1, <1>2, <1>9, <2>2, StripPiece
  <2> QED
    BY <2>1, <2>3
<1>10. CASE c = b
  <2>1. CASE cleaned' = cleaned
    BY <1>4, <1>5, <1>10, <2>1 DEF L
  <2>2. ASSUME NEW m \in 1..Len(cleaned), cleaned[m] = "copyright",
               cleaned' = stripLeadingBoilerplate(SubSeq(cleaned, m, Len(cleaned)))
        PROVE  cleaned' = SubSeq(w, B + 1, L)
    <3> DEFINE k == lo + m - 1
    <3>1. k \in lo..L /\ w[k] = "copyright"
      BY <1>3, <2>2
    <3> HIDE DEF k
    <3>2. k \in (c + 1)..Len(w)
      BY <1>10, <3>1 DEF L
    <3>3. k <= B /\ \A j \in k..B : w[j] \in FrontTokens
      BY <3>1, <3>2, SignsBehind
    <3>4. B + 1 \in k..L /\ (B + 1) - 1 = B
      BY <1>1, <3>1, <3>3
    <3>5. k = lo + m - 1
      BY DEF k
    <3> HIDE DEF lo
    <3> QED
      BY <1>8, <1>9, <2>2, <3>1, <3>3, <3>4, <3>5
  <2>3. B + 1 \in (c + 1)..(B + 1)
    BY <1>1
  <2> QED
    BY <1>3, <2>1, <2>2, <2>3, SignDoes DEF L
<1>11. CASE c # b
  <2>1. PICK n \in (b + 2)..c : /\ \A k \in (b + 1)..(n - 1) : w[k] \in Words
                                /\ w[n] = "copyright" /\ \A k \in n..c : w[k] \in FrontTokens
    BY <1>11 DEF Shape, NoticePart
  <2>2. n \in lo..L /\ n \in Nat /\ c + 1 \in n..L /\ (c + 1) - 1 = c
    BY <1>1
  <2>3. n - lo + 1 \in 1..Len(cleaned) /\ cleaned[n - lo + 1] = "copyright"
    BY <1>3, <2>1, <2>2
  <2>4. Len(cleaned) > 0 => cleaned[1] # "copyright"
    <3>1. lo \in lo..L /\ lo - lo + 1 = 1
      BY <1>1
    <3>2. cleaned[1] = w[lo]
      BY <1>3, <3>1
    <3> QED
      BY <1>6, <3>2
  <2>5. PICK m \in 1..Len(cleaned) :
          /\ cleaned[m] = "copyright" /\ \A j \in 1..(m - 1) : cleaned[j] # "copyright"
          /\ cleaned' = stripLeadingBoilerplate(SubSeq(cleaned, m, Len(cleaned)))
    BY <1>3, <2>3, <2>4, SignDoes
  <2>6. lo + m - 1 = n
    <3>1. ~(n - lo + 1 <= m - 1)
      <4>1. SUFFICES ASSUME n - lo + 1 <= m - 1 PROVE FALSE
        OBVIOUS
      <4>2. n - lo + 1 \in 1..(m - 1)
        BY <1>1, <2>2, <4>1
      <4> QED
        BY <2>3, <2>5, <4>2
    <3>2. lo + m - 1 \in lo..L /\ w[lo + m - 1] = "copyright"
      BY <1>3, <2>5
    <3>3. ~(lo + m - 1 \in (b + 1)..(n - 1))
      BY <2>1, <3>2, WordsAreNone
    <3>4. ~(lo + m - 1 <= n - 1)
      BY <1>1, <2>2, <3>2, <3>3
    <3> QED
      BY <1>1, <2>2, <3>1, <3>2, <3>4
  <2>7. cleaned' = SubSeq(w, c + 1, L)
    <3>1. n = lo + m - 1
      BY <2>6
    <3> HIDE DEF lo
    <3> QED
      BY <1>7, <1>9, <2>1, <2>2, <2>5, <3>1
  <2> QED
    BY <1>4, <1>5, <2>7 DEF L
<1> QED
  BY <1>10, <1>11

LEMMA PeelUnwraps ==
  ASSUME NEW w, NEW f, NEW B, NEW M, NEW a, NEW b, NEW c, NEW d, NEW e,
         Shape(w, f, B, M, a, b, c, d, e),
         NEW lo \in (c + 1)..(B + 1), lo = B + 1 \/ (lo <= d + 1 /\ (lo <= d => w[lo] \in Labels)),
         cleaned = SubSeq(w, lo, Len(w)), PeelWord
  PROVE  \E l \in (c + 1)..(B + 1) :
           /\ l = B + 1 \/ (l <= d + 1 /\ (l <= d => w[l] \in Labels))
           /\ cleaned' = SubSeq(w, l, Len(w))
<1> DEFINE L == Len(w)
<1>1. /\ w \in Seq(Tokens) /\ L \in Nat /\ B \in Nat /\ M \in Nat /\ B < M /\ M <= L
      /\ c \in Nat /\ d \in Nat /\ c <= d /\ d <= B
  BY Ends
<1>2. lo \in Nat \ {0} /\ lo <= L + 1 /\ L <= Len(w) /\ lo \in lo..L
  BY <1>1
<1>3. /\ cleaned \in Seq(Tokens) /\ Len(cleaned) = L - lo + 1
      /\ \A n \in 1..Len(cleaned) : lo + n - 1 \in lo..L /\ cleaned[n] = w[lo + n - 1]
      /\ \A k \in lo..L : k - lo + 1 \in 1..Len(cleaned) /\ cleaned[k - lo + 1] = w[k]
      /\ lo <= L => cleaned[1] = w[lo]
  BY <1>1, <1>2, PlaceInRest
<1>4. PICK k \in 2..(Len(cleaned) + 1) :
        /\ cleaned[1] \in Labels
        /\ cleaned' = SubSeq(cleaned, k, Len(cleaned))
        /\ \A n \in 2..(k - 1) : cleaned[n] \in {":", "-"}
        /\ cleaned[1] \in functionWords => k = 2
        /\ cleaned[1] \notin functionWords =>
             \/ k <= Len(cleaned) /\ cleaned[k] \notin {":", "-"}
             \/ \A n \in 2..Len(cleaned) : cleaned[n] \in {":", "-"}
  BY <1>3, PeelDoes
<1>5. cleaned[1] = w[lo]
  <2>1. lo <= L
    BY <1>1
  <2> QED
    BY <1>3, <2>1
<1>6. w[d + 1] \in NameWords /\ w[B + 1] \in NameWords
  BY PartsStart DEF Shape, NamePart
<1>7. lo <= d
  <2>1. w[lo] \notin NameWords
    BY <1>4, <1>5, WordsAreNone
  <2>2. lo # B + 1 /\ lo # d + 1
    BY <1>6, <2>1
  <2> QED
    BY <1>1, <2>2
<1> HIDE DEF L
<1>8. (d + 1) - lo + 1 \in 2..Len(cleaned) /\ cleaned[(d + 1) - lo + 1] \notin {":", "-"}
  <2>1. d + 1 \in lo..L
    BY <1>1, <1>7
  <2>2. (d + 1) - lo + 1 \in 1..Len(cleaned) /\ cleaned[(d + 1) - lo + 1] = w[d + 1]
    BY <1>3, <2>1
  <2>3. w[d + 1] \notin {":", "-"}
    BY <1>6, WordsAreNone
  <2> QED
    BY <1>1, <1>7, <2>2, <2>3
<1> DEFINE l == lo + k - 1
<1>9. l \in Nat /\ l <= d + 1 /\ l > lo /\ l - 1 \in lo..L
  <2>1. ~((d + 1) - lo + 1 <= k - 1)
    <3>1. SUFFICES ASSUME (d + 1) - lo + 1 <= k - 1 PROVE FALSE
      OBVIOUS
    <3>2. (d + 1) - lo + 1 \in 2..(k - 1)
      BY <1>1, <1>7, <1>8, <3>1
    <3> QED
      BY <1>4, <1>8, <3>2
  <2> QED
    BY <1>1, <1>2, <1>7, <1>8, <2>1
<1>10. k \in 1..Len(cleaned)
  BY <1>1, <1>2, <1>3, <1>9
<1>11. cleaned' = SubSeq(w, l, L)
  BY <1>1, <1>2, <1>4, <1>10, CutPiece DEF L
<1>12. ASSUME l <= d PROVE w[l] \in Labels
  <2>1. l \in (c + 1)..d /\ l > c + 1
    BY <1>1, <1>9, <1>12
  <2>2. SUFFICES ASSUME w[l] \in {":", "-"}, w[l - 1] \in pageLabels \cup {":", "-"} PROVE FALSE
    BY <2>1 DEF Shape, TitlePart
  <2>3. cleaned[k] = w[l]
    BY <1>3, <1>10
  <2>4. ~(k <= Len(cleaned) /\ cleaned[k] \notin {":", "-"})
    BY <2>2, <2>3
  <2>5. ~(\A n \in 2..Len(cleaned) : cleaned[n] \in {":", "-"})
    BY <1>8
  <2>6. cleaned[1] \in functionWords /\ k = 2
    BY <1>4, <2>4, <2>5
  <2>7. l - 1 = lo
    BY <1>1, <2>6
  <2>8. w[lo] \in functionWords /\ w[lo] \in pageLabels \cup {":", "-"}
    BY <1>5, <2>2, <2>6, <2>7
  <2> QED
    BY <2>8 DEF functionWords, pageLabels
<1>13. l \in (c + 1)..(B + 1)
  BY <1>1, <1>9
<1> HIDE DEF l
<1> QED
  BY <1>9, <1>11, <1>12, <1>13 DEF L

LEMMA NameRange ==
  ASSUME NEW t \in Seq(Tokens)
  PROVE  /\ \A n \in 1..Len(t) : t[n] \in Range(t)
         /\ \A x \in Range(t) : \E n \in 1..Len(t) : t[n] = x
BY DEF Range

LEMMA PieceIsEven ==
  ASSUME NEW w, NEW f, NEW B, NEW M, NEW a, NEW b, NEW c, NEW d, NEW e,
         Shape(w, f, B, M, a, b, c, d, e),
         NEW lo \in Nat \ {0}, lo <= Len(w) + 1, NEW k \in 1..Len(w), w[k] \in Lowered
  PROVE  Even(SubSeq(w, lo, Len(w)))
<1>1. w \in Seq(Tokens) /\ Len(w) \in Nat
  BY DEF Shape
<1>2. Even(w)
  <2>1. Legible(w)
    BY DEF Shape
  <2> QED
    BY <2>1 DEF Legible
<1> SUFFICES ASSUME NEW t, t = SubSeq(w, lo, Len(w)) PROVE Even(t)
  OBVIOUS
<1>3. /\ t \in Seq(Tokens) /\ Len(t) = Len(w) - lo + 1
      /\ \A n \in 1..Len(t) : lo + n - 1 \in lo..Len(w) /\ t[n] = w[lo + n - 1]
  BY <1>1, PlaceInRest
<1>4. \A n \in 1..Len(w) : w[n] \notin Uneven
  BY <1>1, <1>2 DEF Even, Range
<1>5. ASSUME NEW n \in 1..Len(t) PROVE t[n] \notin Uneven
  <2>1. lo + n - 1 \in 1..Len(w) /\ t[n] = w[lo + n - 1]
    BY <1>1, <1>3
  <2> QED
    BY <1>4, <2>1
<1>6. \A x \in Range(t) : \E n \in 1..Len(t) : t[n] = x
  BY <1>3, NameRange
<1> QED
  BY <1>5, <1>6 DEF Even

LEMMA WordsUnwrapped ==
  ASSUME NEW w, NEW f, NEW B, NEW M, NEW a, NEW b, NEW c, NEW d, NEW e,
         Shape(w, f, B, M, a, b, c, d, e),
         NEW lo \in (c + 1)..(B + 1), lo = B + 1 \/ (lo <= d + 1 /\ (lo <= d => w[lo] \in Labels)),
         cleaned = SubSeq(w, lo, Len(w)), ~Peels
  PROVE  lo \in {d + 1, B + 1}
<1>1. w \in Seq(Tokens) /\ Len(w) \in Nat /\ B \in Nat /\ c \in Nat /\ d \in Nat /\ d <= B /\ B < Len(w)
  BY Ends
<1>2. lo \in Nat \ {0} /\ lo <= Len(w) + 1 /\ lo <= Len(w)
  BY <1>1
<1> SUFFICES ASSUME lo <= d PROVE FALSE
  BY <1>1
<1>3. cleaned \in Seq(Tokens) /\ Len(cleaned) = Len(w) - lo + 1 /\ cleaned[1] = w[lo]
  BY <1>1, <1>2, PlaceInRest, SMTT(30)
<1>4. Len(w) - lo + 1 > 1 /\ w[lo] \in Labels
  BY <1>1, <1>2
<1>5. Len(cleaned) > 1 /\ cleaned[1] \in Labels
  BY <1>3, <1>4
<1>6. Head(cleaned) = cleaned[1]
  BY <1>3, <1>5, HasEnds
<1>7. ASSUME cleaned[1] \in pageLabels PROVE Even(cleaned)
  <2>1. lo \in 1..Len(w) /\ w[lo] \in Lowered
    BY <1>1, <1>2, <1>3, <1>7 DEF Lowered
  <2> QED
    BY <1>2, <2>1, PieceIsEven
<1> QED
  BY <1>5, <1>6, <1>7 DEF Peels, Labels

(* What is behind the phrase                                               *)
LEMMA LabelTokens ==
  ASSUME NEW w, NEW f, NEW B, NEW M, NEW a, NEW b, NEW c, NEW d, NEW e,
         Shape(w, f, B, M, a, b, c, d, e), NEW k \in (e + 1)..B
  PROVE  w[k] \in Words \cup FrontTokens
<1>1. B \in Nat /\ e \in Nat /\ e < B
  BY Ends
<1>2. PICK n \in 1..MaxLabelWords : LabelEnds(w, B, e, n)
  BY <1>1 DEF Shape, LabelPart
<1>3. n \in Nat
  BY NamesAssumption
<1>4. k \in (e + 1)..(e + n) \/ k = e + n + 1 \/ k \in (e + n + 2)..B
  BY <1>1, <1>3
<1> QED
  BY <1>2, <1>4, Tables DEF LabelEnds

LEMMA NameTokens ==
  ASSUME NEW w, NEW f, NEW B, NEW M, NEW a, NEW b, NEW c, NEW d, NEW e,
         Shape(w, f, B, M, a, b, c, d, e), NEW k \in (B + 1)..M
  PROVE  w[k] \in NameWords \cup {"-"}
BY DEF Shape, NamePart

LEMMA TailTokens ==
  ASSUME NEW w, NEW f, NEW B, NEW M, NEW a, NEW b, NEW c, NEW d, NEW e,
         Shape(w, f, B, M, a, b, c, d, e), NEW k \in (M + 1)..Len(w)
  PROVE  /\ w[k] \notin Range(connectivePhrases)
         /\ w[k] \in Range(proseMarkers) => k = M + 1 /\ ProseTail(w, M)
         /\ \/ ProseTail(w, M) \/ w[k] \in Words
            \/ k = M + 1 /\ w[k] \in {"(", "[", "-", "|"}
<1>1. M \in Nat /\ Len(w) \in Nat /\ Len(w) # M
  BY Ends
<1>2. k = M + 1 \/ k \in (M + 2)..Len(w)
  BY <1>1
<1>3. CASE ProseTail(w, M)
  BY <1>2, <1>3, Tables DEF ProseTail
<1>4. CASE OpenTail(w, M)
  <2>1. (w[k] \in {"(", "["} /\ k = M + 1) \/ w[k] \in Words
    BY <1>2, <1>4 DEF OpenTail
  <2> QED
    BY <2>1, WordsAreNone, Tables
<1>5. CASE LineTail(w, f, M)
  <2>1. (w[k] \in {"-", "|"} /\ k = M + 1) \/ w[k] \in Words
    BY <1>2, <1>5 DEF LineTail, separators
  <2> QED
    BY <2>1, WordsAreNone, Tables
<1> QED
  BY <1>1, <1>3, <1>4, <1>5 DEF Shape, TailPart

LEMMA PhraseWhere ==
  ASSUME NEW w, NEW f, NEW B, NEW M, NEW a, NEW b, NEW c, NEW d, NEW e,
         Shape(w, f, B, M, a, b, c, d, e),
         NEW k \in (d + 1)..Len(w), w[k] \in Range(connectivePhrases)
  PROVE  k = e /\ d < e
<1>1. /\ B \in Nat /\ M \in Nat /\ Len(w) \in Nat /\ d \in Nat /\ e \in Nat
      /\ d <= e /\ e <= B /\ B < M /\ M <= Len(w)
  BY Ends
<1>2. w[k] \notin NameWords /\ w[k] \notin Words /\ w[k] \notin FrontTokens
  BY WordsAreNone
<1>3. ~(e < k /\ k <= B)
  <2>1. SUFFICES ASSUME k \in (e + 1)..B PROVE FALSE
    BY <1>1
  <2> QED
    BY <1>2, <2>1, LabelTokens
<1>4. ~(B < k /\ k <= M)
  <2>1. SUFFICES ASSUME k \in (B + 1)..M PROVE FALSE
    BY <1>1
  <2>2. w[k] \in NameWords \cup {"-"}
    BY <2>1, NameTokens
  <2> QED
    BY <1>2, <2>2, Tables
<1>5. ~(M < k)
  <2>1. SUFFICES ASSUME k \in (M + 1)..Len(w) PROVE FALSE
    BY <1>1
  <2> QED
    BY <2>1, TailTokens
<1>6. ~(k < e)
  <2>1. SUFFICES ASSUME k \in (d + 1)..(e - 1) PROVE FALSE
    BY <1>1
  <2>2. e # d
    BY <1>1, <2>1
  <2> QED
    BY <1>2, <2>1, <2>2 DEF Shape, PhrasePart
<1> QED
  BY <1>1, <1>3, <1>4, <1>5, <1>6

PhraseLeft(w, B, e, t) == \E l \in {e + 1, B + 1} : t = SubSeq(w, l, Len(w))

LEMMA PhraseUnwraps ==
  ASSUME NEW w, NEW f, NEW B, NEW M, NEW a, NEW b, NEW c, NEW d, NEW e,
         Shape(w, f, B, M, a, b, c, d, e),
         NEW lo \in {d + 1, B + 1}, cleaned = SubSeq(w, lo, Len(w)), form = f, Phrase
  PROVE  PhraseLeft(w, B, e, cleaned')
<1> SUFFICES \E l \in {e + 1, B + 1} : cleaned' = SubSeq(w, l, Len(w))
  BY DEF PhraseLeft
<1> DEFINE L == Len(w)
<1>1. /\ w \in Seq(Tokens) /\ L \in Nat /\ B \in Nat /\ M \in Nat /\ B < M /\ M <= L
      /\ d \in Nat /\ e \in Nat /\ d <= e /\ e <= B
  BY Ends
<1>2. lo \in Nat \ {0} /\ lo <= L + 1 /\ L <= Len(w) /\ lo <= L /\ d + 1 <= lo
  BY <1>1
<1>3. /\ cleaned \in Seq(Tokens) /\ Len(cleaned) = L - lo + 1
      /\ \A n \in 1..Len(cleaned) : lo + n - 1 \in lo..L /\ cleaned[n] = w[lo + n - 1]
      /\ \A k \in lo..L : k - lo + 1 \in 1..Len(cleaned) /\ cleaned[k - lo + 1] = w[k]
  BY <1>1, <1>2, PlaceInRest
<1> HIDE DEF L
<1>4. ASSUME NEW m \in 1..Len(cleaned), cleaned[m] \in Range(connectivePhrases)
      PROVE  lo + m - 1 = e /\ d < e
  <2> DEFINE k == lo + m - 1
  <2>1. k \in lo..L /\ w[k] \in Range(connectivePhrases)
    BY <1>3, <1>4
  <2> HIDE DEF k
  <2>2. k \in (d + 1)..Len(w)
    BY <1>1, <1>2, <2>1 DEF L
  <2>3. k = e /\ d < e
    BY <2>1, <2>2, PhraseWhere
  <2> QED
    BY <2>3 DEF k
<1>5. CASE /\ cleaned' = cleaned
           /\ \A m \in 2..(Len(cleaned) - 1) :
                 cleaned[m] \in Range(connectivePhrases) /\ hasLegalSuffix(cleaned) /\ Even(cleaned) =>
                   \E n \in 1..Len(cleaned) : n # m /\ cleaned[n] = cleaned[m]
  <2>1. CASE lo = B + 1 \/ d = e
    BY <1>1, <1>5, <2>1 DEF L
  <2>2. CASE lo = d + 1 /\ d # e
    <3>1. e > d + 1 /\ w[e] \in Range(connectivePhrases) /\ Len(w) = M /\ (f = "none" \/ w[M] = f)
      BY <2>2 DEF Shape, PhrasePart
    <3> DEFINE m == e - lo + 1
    <3>2. e \in lo..L /\ m \in 2..(Len(cleaned) - 1) /\ m \in 1..Len(cleaned)
      BY <1>1, <1>3, <2>2, <3>1
    <3>3. cleaned[m] = w[e]
      BY <1>3, <3>2
    <3>4. hasLegalSuffix(cleaned)
      <4>1. L \in lo..L /\ L - lo + 1 = Len(cleaned) /\ Len(cleaned) > 0
        BY <1>1, <1>2, <1>3
      <4>2. cleaned[L - lo + 1] = w[L]
        BY <1>3, <4>1
      <4>3. Last(cleaned) = w[L] /\ cleaned # <<>>
        BY <1>3, <4>1, <4>2, HasEnds
      <4>4. w[L] = w[M]
        BY <3>1 DEF L
      <4> QED
        BY <3>1, <4>3, <4>4 DEF hasLegalSuffix, EndsIn
    <3>7. Even(cleaned)
      <4>1. e \in 1..Len(w) /\ w[e] \in Lowered
        BY <1>1, <3>1 DEF Lowered, L
      <4> QED
        BY <1>2, <4>1, PieceIsEven DEF L
    <3>5. PICK n \in 1..Len(cleaned) : n # m /\ cleaned[n] = cleaned[m]
      BY <1>5, <3>1, <3>2, <3>3, <3>4, <3>7
    <3>6. lo + n - 1 = e
      BY <1>4, <3>1, <3>3, <3>5
    <3> QED
      BY <1>1, <1>2, <3>5, <3>6
  <2> QED
    BY <2>1, <2>2
<1>6. ASSUME NEW m \in 2..(Len(cleaned) - 1), cleaned[m] \in Range(connectivePhrases),
             cleaned' = SubSeq(cleaned, m + 1, Len(cleaned))
      PROVE  cleaned' = SubSeq(w, e + 1, L)
  <2>1. m \in 1..Len(cleaned)
    BY <1>1, <1>2, <1>3
  <2>2. lo + m - 1 = e
    BY <1>4, <1>6, <2>1
  <2>3. SubSeq(cleaned, m + 1, Len(cleaned)) = SubSeq(w, lo + m, L)
    BY <1>1, <1>2, <2>1, CutPiece DEF L
  <2>4. lo + m = e + 1
    BY <1>1, <1>2, <2>1, <2>2
  <2> QED
    BY <1>6, <2>3, <2>4
<1> QED
  BY <1>3, <1>5, <1>6, PhraseDoes DEF L

(* Behind the phrase, a marker of prose begins the tail.                   *)
LEMMA MarkerWhere ==
  ASSUME NEW w, NEW f, NEW B, NEW M, NEW a, NEW b, NEW c, NEW d, NEW e,
         Shape(w, f, B, M, a, b, c, d, e),
         NEW k \in (e + 1)..Len(w), w[k] \in Range(proseMarkers)
  PROVE  k = M + 1 /\ ProseTail(w, M)
<1>1. /\ B \in Nat /\ M \in Nat /\ Len(w) \in Nat /\ e \in Nat /\ e <= B /\ B < M /\ M <= Len(w)
  BY Ends
<1>2. w[k] \notin NameWords /\ w[k] \notin Words /\ w[k] \notin FrontTokens
  BY WordsAreNone
<1>3. ~(k <= B)
  <2>1. SUFFICES ASSUME k \in (e + 1)..B PROVE FALSE
    BY <1>1
  <2> QED
    BY <1>2, <2>1, LabelTokens
<1>4. ~(B < k /\ k <= M)
  <2>1. SUFFICES ASSUME k \in (B + 1)..M PROVE FALSE
    BY <1>1
  <2>2. w[k] \in NameWords \cup {"-"}
    BY <2>1, NameTokens
  <2> QED
    BY <1>2, <2>2, Tables
<1>5. k \in (M + 1)..Len(w)
  BY <1>1, <1>3, <1>4
<1> QED
  BY <1>5, TailTokens

ProseLeft(w, M, lo, t) == \E hi \in M..Len(w) : EndsAt(w, M, hi) /\ t = SubSeq(w, lo, hi)

LEMMA ProseUnwraps ==
  ASSUME NEW w, NEW f, NEW B, NEW M, NEW a, NEW b, NEW c, NEW d, NEW e,
         Shape(w, f, B, M, a, b, c, d, e),
         NEW lo \in {e + 1, B + 1}, cleaned = SubSeq(w, lo, Len(w)), Prose
  PROVE  ProseLeft(w, M, lo, cleaned')
<1> SUFFICES \E hi \in M..Len(w) : EndsAt(w, M, hi) /\ cleaned' = SubSeq(w, lo, hi)
  BY DEF ProseLeft
<1> DEFINE L == Len(w)
<1>1. /\ w \in Seq(Tokens) /\ L \in Nat /\ B \in Nat /\ M \in Nat /\ B < M /\ M <= L
      /\ e \in Nat /\ e <= B
  BY Ends
<1>2. lo \in Nat \ {0} /\ lo <= L + 1 /\ L <= Len(w) /\ lo <= M /\ e + 1 <= lo
  BY <1>1
<1>3. /\ cleaned \in Seq(Tokens) /\ Len(cleaned) = L - lo + 1
      /\ \A n \in 1..Len(cleaned) : lo + n - 1 \in lo..L /\ cleaned[n] = w[lo + n - 1]
      /\ \A k \in lo..L : k - lo + 1 \in 1..Len(cleaned) /\ cleaned[k - lo + 1] = w[k]
  BY <1>1, <1>2, PlaceInRest
<1> HIDE DEF L
<1>4. ASSUME NEW m \in 1..Len(cleaned), cleaned[m] \in Range(proseMarkers)
      PROVE  lo + m - 1 = M + 1 /\ ProseTail(w, M)
  <2> DEFINE k == lo + m - 1
  <2>1. k \in lo..L /\ w[k] \in Range(proseMarkers)
    BY <1>3, <1>4
  <2> HIDE DEF k
  <2>2. k \in (e + 1)..Len(w)
    BY <1>1, <1>2, <2>1 DEF L
  <2>3. k = M + 1 /\ ProseTail(w, M)
    BY <2>1, <2>2, MarkerWhere
  <2> QED
    BY <2>3 DEF k
<1>5. CASE /\ cleaned' = cleaned
           /\ \A m \in 2..Len(cleaned) :
                 cleaned[m] \in Range(proseMarkers) /\ Even(cleaned) =>
                   \E n \in 1..Len(cleaned) : n # m /\ cleaned[n] = cleaned[m]
  <2>1. ~ProseTail(w, M)
    <3>1. SUFFICES ASSUME ProseTail(w, M) PROVE FALSE
      OBVIOUS
    <3>2. M + 1 <= L /\ w[M + 1] \in Range(proseMarkers)
      BY <1>1, <3>1 DEF ProseTail, L
    <3> DEFINE m == (M + 1) - lo + 1
    <3>3. M + 1 \in lo..L /\ m \in 2..Len(cleaned)
      BY <1>1, <1>2, <1>3, <3>2
    <3>4. cleaned[m] = w[M + 1] /\ lo + m - 1 = M + 1
      BY <1>1, <1>2, <1>3, <3>3
    <3> HIDE DEF m
    <3>7. Even(cleaned)
      <4>1. M + 1 \in 1..Len(w) /\ w[M + 1] \in Lowered
        BY <1>1, <3>2 DEF Lowered, L
      <4> QED
        BY <1>2, <4>1, PieceIsEven DEF L
    <3>5. PICK n \in 1..Len(cleaned) : n # m /\ cleaned[n] = cleaned[m]
      BY <1>5, <3>2, <3>3, <3>4, <3>7
    <3>6. lo + n - 1 = M + 1
      BY <1>4, <3>2, <3>4, <3>5
    <3> QED
      BY <1>1, <1>2, <3>3, <3>4, <3>5, <3>6
  <2>2. L \in M..Len(w)
    BY <1>1, <1>2
  <2> QED
    BY <1>5, <2>1, <2>2 DEF EndsAt, L
<1>6. ASSUME NEW m \in 2..Len(cleaned), cleaned[m] \in Range(proseMarkers),
             cleaned' = SubSeq(cleaned, 1, m - 1)
      PROVE  cleaned' = SubSeq(w, lo, M)
  <2>1. m \in 1..Len(cleaned)
    BY <1>1, <1>2, <1>3
  <2>2. lo + m - 1 = M + 1
    BY <1>4, <1>6, <2>1
  <2>3. SubSeq(cleaned, 1, m - 1) = SubSeq(w, lo, lo + m - 2)
    BY <1>1, <1>2, <2>1, CutPiece DEF L
  <2>4. lo + m - 2 = M
    BY <1>1, <1>2, <2>1, <2>2
  <2> QED
    BY <1>6, <2>3, <2>4
<1>7. M \in M..Len(w) /\ EndsAt(w, M, M)
  BY <1>1 DEF EndsAt, L
<1> QED
  BY <1>3, <1>5, <1>6, <1>7, ProseDoes

LEMMA CountOthers ==
  ASSUME NEW t \in Seq(Tokens), NEW S
  PROVE  Cardinality(Others(t, S)) <= Len(t) /\ Cardinality(Others(t, S)) \in Nat
<1>1. Others(t, S) = PlacesOf(t, Tokens \ S)
  BY DEF Others, PlacesOf
<1> QED
  BY <1>1, CountPlaces

LEMMA HasLetter ==
  ASSUME NEW t \in Seq(Tokens), NEW n \in 1..Len(t), t[n] \in NameWords
  PROVE  hasLetter(t)
<1>1. t[n] \notin Signs \cup numbers
  BY Vocabulary DEF Surroundings
<1> QED
  BY <1>1 DEF hasLetter, Others

(* Behind the phrase and before the tail, a colon ends the label.          *)
LEMMA ColonWhere ==
  ASSUME NEW w, NEW f, NEW B, NEW M, NEW a, NEW b, NEW c, NEW d, NEW e,
         Shape(w, f, B, M, a, b, c, d, e),
         NEW hi \in M..Len(w), EndsAt(w, M, hi), NEW k \in (e + 1)..hi, w[k] = ":"
  PROVE  \E n \in 1..MaxLabelWords : LabelEnds(w, B, e, n) /\ k = e + n + 1
<1>1. /\ B \in Nat /\ M \in Nat /\ Len(w) \in Nat /\ e \in Nat /\ e <= B /\ B < M /\ M <= Len(w)
  BY Ends
<1>2. w[k] \notin NameWords /\ w[k] \notin Words
  BY WordsAreNone
<1>3. ~(B < k /\ k <= M)
  <2>1. SUFFICES ASSUME k \in (B + 1)..M PROVE FALSE
    BY <1>1
  <2>2. w[k] \in NameWords \cup {"-"}
    BY <2>1, NameTokens
  <2> QED
    BY <1>2, <2>2
<1>4. ~(M < k)
  <2>1. SUFFICES ASSUME M < k PROVE FALSE
    OBVIOUS
  <2>2. k \in (M + 1)..Len(w) /\ ~ProseTail(w, M)
    BY <1>1, <2>1 DEF EndsAt
  <2>3. w[k] \in Words \/ w[k] \in {"(", "[", "-", "|"}
    BY <2>2, TailTokens
  <2> QED
    BY <1>2, <2>3
<1>5. e < k /\ k <= B
  BY <1>1, <1>3, <1>4
<1>6. PICK n \in 1..MaxLabelWords : LabelEnds(w, B, e, n)
  BY <1>1, <1>5 DEF Shape, LabelPart
<1>7. n \in Nat
  BY NamesAssumption
<1>8. k \notin (e + 1)..(e + n) /\ k \notin (e + n + 2)..B
  BY <1>2, <1>6 DEF LabelEnds
<1>9. k = e + n + 1
  BY <1>1, <1>5, <1>7, <1>8
<1> QED
  BY <1>6, <1>9

ColonLeft(w, B, hi, t) ==
  \E l \in 1..(B + 1) : t = SubSeq(w, l, hi) /\ \A k \in l..B : w[k] \in FrontTokens

LEMMA ColonUnwraps ==
  ASSUME NEW w, NEW f, NEW B, NEW M, NEW a, NEW b, NEW c, NEW d, NEW e,
         Shape(w, f, B, M, a, b, c, d, e),
         NEW lo \in {e + 1, B + 1}, NEW hi \in M..Len(w), EndsAt(w, M, hi),
         cleaned = SubSeq(w, lo, hi), Colon
  PROVE  pass' = "again" /\ ColonLeft(w, B, hi, cleaned')
<1> SUFFICES /\ pass' = "again"
             /\ \E l \in 1..(B + 1) : cleaned' = SubSeq(w, l, hi) /\ \A k \in l..B : w[k] \in FrontTokens
  BY DEF ColonLeft
<1>1. /\ w \in Seq(Tokens) /\ Len(w) \in Nat /\ B \in Nat /\ M \in Nat /\ B < M /\ M <= Len(w)
      /\ e \in Nat /\ e <= B
  BY Ends
<1>2. lo \in Nat \ {0} /\ hi \in Nat /\ lo <= hi + 1 /\ hi <= Len(w) /\ lo <= hi /\ e + 1 <= lo /\ M <= hi
        /\ lo <= B + 1
  BY <1>1
<1>3. /\ cleaned \in Seq(Tokens) /\ Len(cleaned) = hi - lo + 1
      /\ \A n \in 1..Len(cleaned) : lo + n - 1 \in lo..hi /\ cleaned[n] = w[lo + n - 1]
      /\ \A k \in lo..hi : k - lo + 1 \in 1..Len(cleaned) /\ cleaned[k - lo + 1] = w[k]
  BY <1>1, <1>2, PlaceIn
<1>4. ASSUME NEW m \in 1..Len(cleaned), cleaned[m] = ":"
      PROVE  \E n \in 1..MaxLabelWords : LabelEnds(w, B, e, n) /\ lo + m - 1 = e + n + 1
  <2> DEFINE k == lo + m - 1
  <2>1. k \in lo..hi /\ w[k] = ":"
    BY <1>3, <1>4
  <2> HIDE DEF k
  <2>2. k \in (e + 1)..hi
    BY <1>1, <1>2, <2>1
  <2>3. \E n \in 1..MaxLabelWords : LabelEnds(w, B, e, n) /\ k = e + n + 1
    BY <2>1, <2>2, ColonWhere
  <2> QED
    BY <2>3 DEF k
(* Without a label the string is left as it is.                            *)
<1>5. CASE /\ pass' = "again" /\ cleaned' = cleaned
           /\ \A m \in 2..Len(cleaned) :
                 cleaned[m] = ":" /\ (\A n \in (m + 1)..Len(cleaned) : cleaned[n] # ":") =>
                   ~(Cardinality(Others(SubSeq(cleaned, 1, m - 1), {":"})) <= MaxLabelWords)
  <2>1. CASE lo = B + 1
    <3>1. B + 1 \in 1..(B + 1) /\ (B + 1)..B = {}
      BY <1>1
    <3> QED
      BY <1>5, <2>1, <3>1
  <2>2. CASE lo = e + 1 /\ e # B
    <3>1. PICK n \in 1..MaxLabelWords : LabelEnds(w, B, e, n)
      BY <2>2 DEF Shape, LabelPart
    <3>2. n \in Nat /\ n > 0 /\ n <= MaxLabelWords /\ MaxLabelWords \in Nat
      BY NamesAssumption
    <3>3. w[e + n + 1] = ":" /\ e + n + 1 <= B
      BY <3>1 DEF LabelEnds
    <3> DEFINE m == n + 1
               k == e + n + 1
    <3>4. k \in lo..hi /\ k - lo + 1 = m
      BY <1>1, <1>2, <2>2, <3>2, <3>3
    <3>5. m \in 1..Len(cleaned) /\ cleaned[m] = ":"
      BY <1>3, <3>3, <3>4
    <3>6. m \in 2..Len(cleaned) /\ m - 1 = n
      BY <3>2, <3>5
    <3>7. ASSUME NEW j \in (m + 1)..Len(cleaned) PROVE cleaned[j] # ":"
      <4>1. SUFFICES ASSUME cleaned[j] = ":" PROVE FALSE
        OBVIOUS
      <4>2. j \in 1..Len(cleaned)
        BY <3>2
      <4>3. lo + j - 1 \in lo..hi /\ w[lo + j - 1] = ":"
        BY <1>3, <4>1, <4>2
      <4>4. PICK i \in 1..MaxLabelWords : LabelEnds(w, B, e, i) /\ lo + j - 1 = e + i + 1
        BY <1>4, <4>1, <4>2
      <4>5. i \in Nat /\ i > n /\ lo + j - 1 <= B
        BY <1>1, <2>2, <3>2, <4>4 DEF LabelEnds
      <4>6. lo + j - 1 \in (e + n + 2)..B
        BY <1>1, <3>2, <4>4, <4>5
      <4> QED
        BY <3>1, <4>3, <4>6 DEF LabelEnds
    <3>8. Cardinality(Others(SubSeq(cleaned, 1, m - 1), {":"})) <= MaxLabelWords
      <4> DEFINE t == SubSeq(cleaned, 1, n)
      <4>1. t \in Seq(Tokens) /\ Len(t) = n - 1 + 1
        <5>1. 1 \in Nat \ {0} /\ 1 <= n + 1 /\ n <= Len(cleaned)
          BY <3>2, <3>6
        <5> QED
          BY <1>3, <3>2, <5>1, PieceOf
      <4> HIDE DEF t
      <4>2. Cardinality(Others(t, {":"})) <= Len(t) /\ Cardinality(Others(t, {":"})) \in Nat
        BY <4>1, CountOthers
      <4>3. Cardinality(Others(t, {":"})) <= MaxLabelWords
        BY <3>2, <4>1, <4>2
      <4> QED
        BY <3>6, <4>3 DEF t
    <3> HIDE DEF m, k
    <3> QED
      BY <1>5, <3>5, <3>6, <3>7, <3>8
  <2> QED
    BY <2>1, <2>2
(* A label is cut off.                                                     *)
<1>6. ASSUME NEW m \in 1..Len(cleaned), cleaned[m] = ":"
      PROVE  \E l \in 1..(B + 1) : /\ SubSeq(cleaned, m + 1, Len(cleaned)) = SubSeq(w, l, hi)
                                   /\ \A k \in l..B : w[k] \in FrontTokens
  <2>1. PICK n \in 1..MaxLabelWords : LabelEnds(w, B, e, n) /\ lo + m - 1 = e + n + 1
    BY <1>4, <1>6
  <2>2. n \in Nat /\ e + n + 1 <= B
    BY <2>1, NamesAssumption DEF LabelEnds
  <2>3. SubSeq(cleaned, m + 1, Len(cleaned)) = SubSeq(w, lo + m, hi)
    BY <1>1, <1>2, CutPiece
  <2>4. lo + m = e + n + 2 /\ e + n + 2 \in 1..(B + 1)
    BY <1>1, <1>2, <2>1, <2>2
  <2>5. \A k \in (e + n + 2)..B : w[k] \in FrontTokens
    BY <2>1 DEF LabelEnds
  <2> QED
    BY <2>3, <2>4, <2>5
(* The name is behind it, and it has letters.                              *)
<1>7. ASSUME NEW m \in 1..Len(cleaned), cleaned[m] = ":",
             ~hasLetter(SubSeq(cleaned, m + 1, Len(cleaned)))
      PROVE  FALSE
  <2>1. PICK l \in 1..(B + 1) : SubSeq(cleaned, m + 1, Len(cleaned)) = SubSeq(w, l, hi)
    BY <1>6, <1>7
  <2> DEFINE t == SubSeq(w, l, hi)
             n == (B + 1) - l + 1
  <2>2. l \in Nat \ {0} /\ l <= hi + 1 /\ B + 1 \in l..hi
    BY <1>1, <1>2
  <2>3. t \in Seq(Tokens) /\ n \in 1..Len(t) /\ t[n] = w[B + 1]
    BY <1>1, <1>2, <2>2, PlaceIn
  <2>4. w[B + 1] \in NameWords
    BY DEF Shape, NamePart
  <2> HIDE DEF t, n
  <2>5. hasLetter(t)
    BY <2>3, <2>4, HasLetter
  <2> QED
    BY <1>7, <2>1, <2>5 DEF t
<1> QED
  BY <1>3, <1>5, <1>6, <1>7, ColonDoes

LEMMA AgainUnwraps ==
  ASSUME NEW w, NEW f, NEW B, NEW M, NEW a, NEW b, NEW c, NEW d, NEW e,
         Shape(w, f, B, M, a, b, c, d, e),
         NEW lo \in 1..(B + 1), NEW hi \in M..Len(w), \A k \in lo..B : w[k] \in FrontTokens
  PROVE  stripLeadingBoilerplate(SubSeq(w, lo, hi)) = SubSeq(w, B + 1, hi)
<1>1. w \in Seq(Tokens) /\ Len(w) \in Nat /\ B \in Nat /\ M \in Nat /\ B < M /\ M <= Len(w)
  BY Ends
<1>2. lo \in Nat \ {0} /\ hi \in Nat /\ lo <= hi + 1 /\ hi <= Len(w) /\ B + 1 \in lo..hi /\ (B + 1) - 1 = B
  BY <1>1
<1>3. w[B + 1] \notin FrontTokens
  BY WordsAreNone DEF Shape, NamePart
<1> QED
  BY <1>1, <1>2, <1>3, StripPiece

LEMMA LaterPlace ==
  ASSUME NEW L \in Nat, NEW m \in Nat, NEW j \in 1..L, m + 1 <= j
  PROVE  j \in (m + 1)..L
OBVIOUS

LEMMA TaglineUnwraps ==
  ASSUME NEW w, NEW f, NEW B, NEW M, NEW a, NEW b, NEW c, NEW d, NEW e,
         Shape(w, f, B, M, a, b, c, d, e),
         NEW hi \in M..Len(w), EndsAt(w, M, hi),
         cleaned = SubSeq(w, B + 1, hi), form = f, Tagline
  PROVE  \E h \in M..Len(w) :
           (h = M \/ (h = Len(w) /\ OpenTail(w, M))) /\ cleaned' = SubSeq(w, B + 1, h)
<1> DEFINE lo == B + 1
<1>1. /\ w \in Seq(Tokens) /\ Len(w) \in Nat /\ B \in Nat /\ M \in Nat /\ B < M /\ M <= Len(w)
      /\ f \in Range(suffixOrder) \cup {"none"}
  BY DEF Shape
<1>2. lo \in Nat \ {0} /\ hi \in Nat /\ lo <= hi + 1 /\ hi <= Len(w) /\ lo <= M /\ M <= hi /\ lo = B + 1
  BY <1>1
<1> HIDE DEF lo
<1>3. /\ cleaned \in Seq(Tokens) /\ Len(cleaned) = hi - lo + 1
      /\ \A n \in 1..Len(cleaned) : lo + n - 1 \in lo..hi /\ cleaned[n] = w[lo + n - 1]
      /\ \A k \in lo..hi : k - lo + 1 \in 1..Len(cleaned) /\ cleaned[k - lo + 1] = w[k]
  BY <1>1, <1>2, PlaceIn
<1>4. ~Bears("-", f) /\ ~Bears("|", f) /\ Bears(f, f)
  <2>1. f \in {"Company", "GmbH", "AG", "none"}
    BY <1>1, Tables
  <2>2. {"-", "|"} \subseteq Signs
    BY DEF Signs, separators
  <2> QED
    BY <2>1, <2>2, NamesAssumption DEF Bears
<1>5. M \in M..Len(w)
  BY <1>1
<1>6. CASE /\ cleaned' = cleaned
           /\ \A m \in 1..Len(cleaned) :
                 cleaned[m] = form /\ (\A n \in (m + 1)..Len(cleaned) : ~Bears(cleaned[n], form))
                   /\ m + 1 < Len(cleaned) => cleaned[m + 1] \notin separators
  <2>1. CASE hi = M
    BY <1>2, <1>5, <1>6, <2>1
  <2>2. CASE hi # M /\ OpenTail(w, M)
    BY <1>2, <1>6, <2>2 DEF EndsAt
  <2>3. CASE hi # M /\ LineTail(w, f, M)
    <3> DEFINE m == M - lo + 1
    <3>1. /\ hi = Len(w) /\ Len(w) > M + 1 /\ w[M + 1] \in separators /\ w[M] = f
          /\ \A k \in (M + 2)..Len(w) : ~Bears(w[k], f)
      BY <2>3 DEF EndsAt, LineTail
    <3>2. M \in lo..hi /\ M + 1 \in lo..hi /\ (M + 1) - lo + 1 = m + 1 /\ m + 1 < Len(cleaned)
      BY <1>1, <1>2, <1>3, <3>1
    <3>3. m \in 1..Len(cleaned) /\ cleaned[m] = f
      BY <1>3, <3>1, <3>2
    <3>4. cleaned[m + 1] = w[M + 1]
      BY <1>3, <3>2
    <3>5. ASSUME NEW n \in (m + 1)..Len(cleaned) PROVE ~Bears(cleaned[n], f)
      <4>1. n \in 1..Len(cleaned) /\ lo + n - 1 >= M + 1
        BY <1>1, <1>2, <3>3
      <4>2. cleaned[n] = w[lo + n - 1] /\ lo + n - 1 \in lo..hi
        BY <1>3, <4>1
      <4>3. CASE lo + n - 1 = M + 1
        BY <1>4, <3>1, <4>2, <4>3 DEF separators
      <4>4. CASE lo + n - 1 # M + 1
        <5>1. lo + n - 1 \in (M + 2)..Len(w)
          BY <1>1, <1>2, <4>1, <4>2, <4>4
        <5> QED
          BY <3>1, <4>2, <5>1
      <4> QED
        BY <4>3, <4>4
    <3> HIDE DEF m
    <3> QED
      BY <1>6, <3>1, <3>2, <3>3, <3>4, <3>5
  <2>4. hi # M => ~ProseTail(w, M) /\ Len(w) # M
    BY DEF EndsAt
  <2> QED
    BY <2>1, <2>2, <2>3, <2>4 DEF Shape, TailPart
<1>7. ASSUME NEW m \in 1..Len(cleaned), EndsIn(cleaned[m], form), m + 1 < Len(cleaned),
             \A n \in (m + 1)..Len(cleaned) : ~Bears(cleaned[n], form),
             cleaned[m + 1] \in separators, cleaned' = SubSeq(cleaned, 1, m)
      PROVE  cleaned' = SubSeq(w, lo, M)
  <2> DEFINE k == lo + m - 1
  <2>1. m + 1 \in 1..Len(cleaned) /\ lo + (m + 1) - 1 = k + 1
    <3>1. Len(cleaned) \in Nat /\ m \in Nat
      <4>1. cleaned \in Seq(Tokens)
        BY <1>3
      <4>2. Len(cleaned) \in Nat
        BY <4>1, LenProperties
      <4> QED
        BY <4>2, PlaceIsNumber, Zenon
    <3>2. m + 1 < Len(cleaned)
      BY <1>7
    <3> QED
      BY <1>2, <3>1, <3>2
  <2>2. k \in lo..hi /\ EndsIn(w[k], f) /\ k + 1 \in lo..hi /\ w[k + 1] \in {"-", "|"} /\ k + 1 < hi
    <3>1. k \in lo..hi /\ cleaned[m] = w[k]
      BY <1>3
    <3>2. lo + (m + 1) - 1 \in lo..hi /\ cleaned[m + 1] = w[lo + (m + 1) - 1]
      BY <1>3, <2>1
    <3>3. k + 1 < hi
      BY <1>2, <1>3, <1>7
    <3>4. cleaned[m + 1] \in {"-", "|"}
      BY <1>7 DEF separators
    <3> HIDE DEF k
    <3>5. k + 1 \in lo..hi /\ cleaned[m + 1] = w[k + 1]
      BY <2>1, <3>2
    <3> QED
      BY <1>7, <3>1, <3>3, <3>4, <3>5
  <2>3. SubSeq(cleaned, 1, m) = SubSeq(w, lo, k)
    BY <1>1, <1>2, CutPiece
  <2> HIDE DEF k
  <2>4. ~(k < M)
    <3>1. SUFFICES ASSUME k < M PROVE FALSE
      OBVIOUS
    <3>2. k + 1 \in (B + 1)..M /\ (k + 1) - 1 = k
      BY <1>1, <1>2, <2>2, <3>1
    <3>3. w[k + 1] = "-"
      <4>1. w[k + 1] \in NameWords \cup {"-"}
        BY <3>2, NameTokens
      <4> QED
        BY <2>2, <4>1, WordsAreNone
    <3>4. PICK q \in (k + 1)..M : Bears(w[q], f)
      BY <2>2, <3>2, <3>3 DEF Shape, NamePart
    <3>5. q \in lo..hi /\ q - lo + 1 \in (m + 1)..Len(cleaned)
      <4>1. Len(cleaned) \in Nat /\ m \in Nat /\ k = lo + m - 1
        <5>1. cleaned \in Seq(Tokens)
          BY <1>3
        <5>2. Len(cleaned) \in Nat
          BY <5>1, LenProperties
        <5> QED
          BY <5>2, PlaceIsNumber, Zenon DEF k
      <4>2. k \in lo..hi
        BY <2>2
      <4>3. q \in lo..hi
        BY <1>1, <1>2, <4>2
      <4>4. q - lo + 1 \in 1..Len(cleaned)
        BY <1>3, <4>3
      <4>5. m + 1 <= q - lo + 1
        <5>1. q \in Int /\ k \in Int /\ lo \in Int /\ k + 1 <= q
          BY <1>1, <1>2, <4>2, <4>3
        <5> HIDE DEF k
        <5> QED
          BY <4>1, <5>1
      <4> DEFINE j == q - lo + 1
      <4> HIDE DEF j, k
      <4>6. j \in 1..Len(cleaned) /\ m + 1 <= j
        BY <4>4, <4>5 DEF j
      <4>7. j \in (m + 1)..Len(cleaned)
        BY <4>1, <4>6, LaterPlace, Zenon
      <4> QED
        BY <4>3, <4>7 DEF j
    <3>6. cleaned[q - lo + 1] = w[q]
      BY <1>3, <3>5
    <3> QED
      BY <1>7, <3>4, <3>5, <3>6
  <2>5. ~(M < k)
    <3>1. SUFFICES ASSUME M < k PROVE FALSE
      OBVIOUS
    <3>2. k \in (M + 1)..Len(w) /\ k + 1 \in (M + 1)..Len(w) /\ k + 1 # M + 1 /\ ~ProseTail(w, M)
      BY <1>1, <1>2, <2>2, <3>1 DEF EndsAt
    <3>3. w[k + 1] \in Words
      BY <3>2, TailTokens
    <3> QED
      BY <2>2, <3>3, WordsAreNone
  <2>6. k = M
    BY <1>1, <1>2, <2>2, <2>4, <2>5
  <2> QED
    BY <1>7, <2>3, <2>6
<1> QED
  BY <1>2, <1>3, <1>5, <1>6, <1>7, TaglineDoes

(* A bracket is cut off where it was left open.                            *)
LEMMA CutOpenPiece ==
  ASSUME NEW w, NEW f, NEW B, NEW M, NEW a, NEW b, NEW c, NEW d, NEW e,
         Shape(w, f, B, M, a, b, c, d, e),
         NEW hi \in M..Len(w), hi = M \/ (hi = Len(w) /\ OpenTail(w, M)), NEW i \in {1, 2}
  PROVE  CutOpen(SubSeq(w, B + 1, hi), brackets[i]) =
           IF hi # M /\ w[M + 1] = brackets[i].open THEN SubSeq(w, B + 1, M) ELSE SubSeq(w, B + 1, hi)
<1> DEFINE lo == B + 1
           t == SubSeq(w, lo, hi)
           x == brackets[i].open
           y == brackets[i].close
<1>1. /\ w \in Seq(Tokens) /\ Len(w) \in Nat /\ B \in Nat /\ M \in Nat /\ B < M /\ M <= Len(w)
  BY Ends
<1>2. lo \in Nat \ {0} /\ hi \in Nat /\ lo <= hi + 1 /\ hi <= Len(w) /\ lo <= M /\ M <= hi /\ lo = B + 1
  BY <1>1
<1>3. x \in {"(", "["} /\ y \in {")", "]"}
  BY DEF brackets
<1> HIDE DEF lo, x, y
<1>4. /\ t \in Seq(Tokens) /\ Len(t) = hi - lo + 1
      /\ \A n \in 1..Len(t) : lo + n - 1 \in lo..hi /\ t[n] = w[lo + n - 1]
      /\ \A k \in lo..hi : k - lo + 1 \in 1..Len(t) /\ t[k - lo + 1] = w[k]
  BY <1>1, <1>2, PlaceIn
<1>5. ASSUME NEW m \in 1..Len(t) PROVE SubSeq(t, 1, m - 1) = SubSeq(w, lo, lo + m - 2)
  BY <1>1, <1>2, CutPiece
<1> HIDE DEF t
<1>6. ASSUME NEW k \in lo..hi, w[k] \in {"(", "[", ")", "]"}
      PROVE  k = M + 1 /\ hi # M /\ w[k] \in {"(", "["}
  <2>1. ~(k <= M)
    <3>1. SUFFICES ASSUME k \in (B + 1)..M PROVE FALSE
      BY <1>1, <1>2
    <3>2. w[k] \in NameWords \cup {"-"}
      BY <3>1, NameTokens
    <3> QED
      BY <1>6, <3>2, WordsAreNone
  <2>2. hi # M
    BY <1>1, <1>2, <2>1
  <2>3. OpenTail(w, M) /\ hi = Len(w)
    BY <2>2
  <2>4. k = M + 1 \/ k \in (M + 2)..Len(w)
    BY <1>1, <1>2, <2>1
  <2>5. w[k] \notin Words
    BY <1>6, WordsAreNone
  <2> QED
    BY <2>2, <2>3, <2>4, <2>5 DEF OpenTail
<1>7. ASSUME NEW n \in 1..Len(t) PROVE t[n] # y /\ (t[n] = x => lo + n - 1 = M + 1 /\ hi # M)
  <2>1. lo + n - 1 \in lo..hi /\ t[n] = w[lo + n - 1]
    BY <1>4
  <2> DEFINE k == lo + n - 1
  <2> HIDE DEF k
  <2>2. k \in lo..hi /\ t[n] = w[k]
    BY <2>1 DEF k
  <2>3. w[k] # y /\ (w[k] = x => k = M + 1 /\ hi # M)
    BY <1>3, <1>6, <2>2
  <2> QED
    BY <2>2, <2>3 DEF k
<1>8. CASE \E m \in 2..Len(t) : t[m] = x /\ CutOpen(t, brackets[i]) = SubSeq(t, 1, m - 1)
  <2>1. PICK m \in 2..Len(t) : t[m] = x /\ CutOpen(t, brackets[i]) = SubSeq(t, 1, m - 1)
    BY <1>8
  <2>2. m \in 1..Len(t)
    BY <1>2, <1>4
  <2>3. lo + m - 1 = M + 1 /\ hi # M /\ lo + m - 2 = M
    BY <1>1, <1>2, <1>7, <2>1, <2>2
  <2>4. w[M + 1] = x
    BY <1>4, <2>1, <2>2, <2>3
  <2>5. SubSeq(t, 1, m - 1) = SubSeq(w, lo, M)
    BY <1>5, <2>2, <2>3
  <2> QED
    BY <2>1, <2>3, <2>4, <2>5 DEF lo, x, t
<1>9. CASE /\ CutOpen(t, brackets[i]) = t
           /\ \A m \in 2..Len(t) :
                 t[m] = x /\ (\A n \in 1..Len(t) : t[n] # y) =>
                   \E n \in 1..Len(t) : n # m /\ t[n] = x
  <2>1. ~(hi # M /\ w[M + 1] = x)
    <3>1. SUFFICES ASSUME hi # M, w[M + 1] = x PROVE FALSE
      OBVIOUS
    <3> DEFINE m == (M + 1) - lo + 1
    <3>2. M + 1 \in lo..hi
      BY <1>1, <1>2, <3>1
    <3>3. m \in 1..Len(t) /\ t[m] = x /\ lo + m - 1 = M + 1
      BY <1>1, <1>2, <1>4, <3>1, <3>2
    <3>4. m \in 2..Len(t)
      BY <1>1, <1>2, <3>3
    <3> HIDE DEF m
    <3>5. PICK n \in 1..Len(t) : n # m /\ t[n] = x
      BY <1>7, <1>9, <3>3, <3>4
    <3>6. lo + n - 1 = M + 1
      BY <1>7, <3>5
    <3> QED
      BY <1>1, <1>2, <3>3, <3>5, <3>6
  <2> QED
    BY <1>9, <2>1 DEF lo, x, t
<1>10. \/ \E m \in 2..Len(t) : t[m] = x /\ CutOpen(t, brackets[i]) = SubSeq(t, 1, m - 1)
       \/ /\ CutOpen(t, brackets[i]) = t
          /\ \A m \in 2..Len(t) :
                t[m] = x /\ (\A n \in 1..Len(t) : t[n] # y) =>
                  \E n \in 1..Len(t) : n # m /\ t[n] = x
  BY <1>4, CutOpenDoes DEF x, y
<1> QED
  BY <1>8, <1>9, <1>10, Zenon

LEMMA BracketsUnwrap ==
  ASSUME NEW w, NEW f, NEW B, NEW M, NEW a, NEW b, NEW c, NEW d, NEW e,
         Shape(w, f, B, M, a, b, c, d, e),
         NEW hi \in M..Len(w), hi = M \/ (hi = Len(w) /\ OpenTail(w, M))
  PROVE  Trim(closeOrCutBrackets(SubSeq(w, B + 1, hi))) = SubSeq(w, B + 1, M)
<1> DEFINE t == SubSeq(w, B + 1, hi)
           u == CutOpen(t, brackets[1])
           v == CutOpen(u, brackets[2])
           s == SubSeq(w, B + 1, M)
<1>1. /\ w \in Seq(Tokens) /\ Len(w) \in Nat /\ B \in Nat /\ M \in Nat /\ B < M /\ M <= Len(w)
      /\ B + 1 \in Nat \ {0} /\ B + 1 <= M + 1 /\ M \in M..Len(w)
  BY Ends
<1>2. closeOrCutBrackets(t) = v
  BY BracketsTwice
<1>3. u = IF hi # M /\ w[M + 1] = brackets[1].open THEN s ELSE t
  BY CutOpenPiece
<1>4. CutOpen(t, brackets[2]) = IF hi # M /\ w[M + 1] = brackets[2].open THEN s ELSE t
  BY CutOpenPiece
<1>5. CutOpen(s, brackets[2]) = s
  BY <1>1, CutOpenPiece
<1>6. hi # M => w[M + 1] \in {brackets[1].open, brackets[2].open}
  BY DEF OpenTail, brackets
<1>7. v = s
  <2>1. CASE hi = M
    <3>1. u = t /\ t = s
      BY <1>3, <2>1
    <3> HIDE DEF t, s, u
    <3> QED
      BY <1>5, <3>1
  <2>2. CASE hi # M /\ w[M + 1] = brackets[1].open
    <3>1. u = s
      BY <1>3, <2>2
    <3> HIDE DEF s, u
    <3> QED
      BY <1>5, <3>1
  <2>3. CASE hi # M /\ w[M + 1] # brackets[1].open
    <3>1. u = t
      BY <1>3, <2>3
    <3>2. CutOpen(t, brackets[2]) = s
      BY <1>4, <1>6, <2>3
    <3> HIDE DEF t, s, u
    <3> QED
      BY <3>1, <3>2
  <2> QED
    BY <2>1, <2>2, <2>3
<1>8. Trim(s) = s
  <2>1. /\ s \in Seq(Tokens) /\ Len(s) = M - (B + 1) + 1
        /\ \A k \in (B + 1)..M : k - (B + 1) + 1 \in 1..Len(s) /\ s[k - (B + 1) + 1] = w[k]
    BY <1>1, PlaceIn
  <2> HIDE DEF s
  <2>2. Len(s) \in Nat \ {0} /\ s[1] = w[B + 1] /\ s[Len(s)] = w[M]
    <3>1. /\ B + 1 \in (B + 1)..M /\ (B + 1) - (B + 1) + 1 = 1
          /\ M \in (B + 1)..M /\ M - (B + 1) + 1 \in Nat \ {0}
      BY <1>1
    <3>2. s[(B + 1) - (B + 1) + 1] = w[B + 1] /\ s[M - (B + 1) + 1] = w[M]
      BY <2>1, <3>1
    <3>3. s[1] = w[B + 1]
      BY <3>1, <3>2
    <3>4. s[Len(s)] = w[M]
      BY <2>1, <3>2
    <3>5. Len(s) \in Nat \ {0}
      BY <2>1, <3>1
    <3> QED
      BY <3>3, <3>4, <3>5
  <2>3. s[1] \notin Trimmed /\ s[Len(s)] \notin Trimmed
    <3>1. w[B + 1] \in NameWords /\ w[M] \in NameWords
      BY DEF Shape, NamePart
    <3> QED
      BY <2>2, <3>1, WordsAreNone DEF Trimmed
  <2>4. 1 \in 1..Len(s) /\ Len(s) \in 1..Len(s)
    BY <2>2
  <2>5. PICK k \in 1..Len(s), m \in 1..Len(s) :
          /\ Trim(s) = SubSeq(s, k, m)
          /\ \A n \in 1..Len(s) : n < k \/ m < n => s[n] \in Trimmed
    BY <2>1, <2>3, <2>4, TrimDoes
  <2>6. ~(1 < k) /\ ~(m < Len(s))
    BY <2>3, <2>4, <2>5
  <2>7. k = 1 /\ m = Len(s)
    BY <2>2, <2>6
  <2> QED
    BY <2>1, <2>5, <2>7, WholePiece
<1> QED
  BY <1>2, <1>7, <1>8

-----------------------------------------------------------------------------
(* What is left is judged.                                                 *)

LEMMA StemIs ==
  ASSUME cleaned \in Seq(Tokens), Len(cleaned) > 0
  PROVE  /\ Stem \in Seq(Tokens)
         /\ cleaned[Len(cleaned)] = formNow => Len(Stem) = Len(cleaned) - 1
         /\ cleaned[Len(cleaned)] # formNow => Len(Stem) = Len(cleaned)
         /\ \A n \in 1..Len(Stem) : Stem[n] = cleaned[n]
<1>1. cleaned # <<>> /\ Last(cleaned) = cleaned[Len(cleaned)] /\ Len(cleaned) \in Nat
  BY HasEnds
<1>2. CASE cleaned[Len(cleaned)] # formNow
  <2>1. Stem = cleaned
    BY <1>1, <1>2 DEF Stem
  <2> QED
    BY <1>2, <2>1
<1>3. CASE cleaned[Len(cleaned)] = formNow
  <2>1. Stem = SubSeq(cleaned, 1, Len(cleaned) - 1)
    BY <1>1, <1>3 DEF Stem, Front
  <2> DEFINE n == Len(cleaned) - 1
  <2>2. 1 \in Nat \ {0} /\ n \in Nat /\ 1 <= n + 1 /\ n <= Len(cleaned) /\ n - 1 + 1 = n
    BY <1>1
  <2>3. Stem = SubSeq(cleaned, 1, n)
    BY <2>1
  <2> HIDE DEF n
  <2>4. Stem \in Seq(Tokens) /\ Len(Stem) = n - 1 + 1 /\ \A k \in 1..(n - 1 + 1) : Stem[k] = cleaned[1 + k - 1]
    BY <2>2, <2>3, PieceOf
  <2>5. Len(Stem) = n
    BY <2>2, <2>4
  <2>6. ASSUME NEW k \in 1..Len(Stem) PROVE Stem[k] = cleaned[k]
    <3>1. k \in 1..(n - 1 + 1) /\ 1 + k - 1 = k
      BY <2>2, <2>5
    <3> QED
      BY <2>4, <3>1
  <2> QED
    BY <1>3, <2>4, <2>5, <2>6 DEF n
<1> QED
  BY <1>2, <1>3

(* A name is accepted.                                                     *)
LEMMA NameIsJudged ==
  ASSUME NEW g \in Cut, IsName(g), cleaned = g.name, form = g.form
  PROVE  ~IsNoName
<1>1. cleaned \in Seq(Tokens) /\ form \in Range(suffixOrder) \cup {"none"}
  BY DEF Cut
<1>2. /\ cleaned # <<>> /\ Last(cleaned) \in Plain \cup Range(suffixOrder)
      /\ Range(cleaned) \cap Plain # {}
      /\ Range(cleaned) \subseteq Plain \cup Range(suffixOrder) \cup {"-"}
      /\ form # "none" => Range(cleaned) \cap Range(suffixOrder) # {}
  BY DEF IsName
<1>3. Len(cleaned) > 0
  BY <1>1, <1>2, EmptySeq
<1>4. formNow \in Range(suffixOrder) \cup {"none"} /\ (form # "none" => formNow # "none")
  <2>1. /\ formNow \in Range(suffixOrder) \cup {"none"}
        /\ form # "none" /\ formNow = "none" =>
              Range(cleaned) \cap (Range(suffixOrder) \ {"none"}) = {}
    BY <1>1, FormNowIs
  <2>2. Range(suffixOrder) \ {"none"} = Range(suffixOrder)
    BY Tables
  <2> QED
    BY <1>2, <2>1, <2>2
<1>5. /\ Stem \in Seq(Tokens)
      /\ cleaned[Len(cleaned)] = formNow => Len(Stem) = Len(cleaned) - 1
      /\ cleaned[Len(cleaned)] # formNow => Len(Stem) = Len(cleaned)
      /\ \A n \in 1..Len(Stem) : Stem[n] = cleaned[n]
  BY <1>1, <1>3, StemIs
<1>6. formNow \notin Plain
  <2>1. formNow \in Signs \cup Sorts \cup {"none"}
    BY <1>4 DEF Sorts
  <2> QED
    BY <2>1, NamesAssumption
<1>7. PICK p \in 1..Len(cleaned) : cleaned[p] \in Plain
  BY <1>1, <1>2, NameRange
<1>8. p \in 1..Len(Stem) /\ Stem[p] \in Plain
  <2>1. CASE cleaned[Len(cleaned)] = formNow
    <3>1. p # Len(cleaned)
      BY <1>6, <1>7, <2>1
    <3>2. p \in 1..Len(Stem)
      BY <1>1, <1>5, <2>1, <3>1, LenProperties
    <3> QED
      BY <1>5, <1>7, <3>2
  <2>2. CASE cleaned[Len(cleaned)] # formNow
    BY <1>5, <1>7, <2>2
  <2> QED
    BY <2>1, <2>2
<1>9. Stem # <<>>
  <2>1. Len(<<>>) = 0
    OBVIOUS
  <2> QED
    BY <1>8, <2>1
<1>10. ~isGenericStem(Stem)
  <2>1. Stem[p] \notin genericWords \cup numbers \cup Signs
    <3>1. genericWords \subseteq Sorts /\ numbers \subseteq Sorts
      BY DEF Sorts
    <3> QED
      BY <1>8, <3>1, NamesAssumption
  <2>2. p \in DOMAIN Stem
    BY <1>5, <1>8
  <2> QED
    BY <2>1, <2>2 DEF isGenericStem
<1>11. ~digitsOutnumberLetters(Stem)
  <2>1. ASSUME NEW n \in 1..Len(Stem) PROVE Stem[n] \notin {"2024", "12345"}
    <3>1. n \in 1..Len(cleaned)
      BY <1>1, <1>5, LenProperties
    <3>2. cleaned[n] \in Plain \cup Range(suffixOrder) \cup {"-"}
      BY <1>1, <1>2, <3>1, NameRange
    <3>3. cleaned[n] \in NameWords \cup {"-"}
      BY <3>2 DEF NameWords
    <3>4. "2024" \in Surroundings /\ "12345" \in Surroundings
      BY DEF Surroundings, numbers
    <3>5. cleaned[n] \notin {"2024", "12345"}
      BY <3>3, <3>4, Vocabulary
    <3> QED
      BY <1>5, <3>5
  <2>2. PlacesOf(Stem, {"2024"}) = {} /\ PlacesOf(Stem, {"12345"}) = {}
    BY <1>5, <2>1, NoPlace
  <2>3. Cardinality(PlacesOf(Stem, {"2024"})) = 0 /\ Cardinality(PlacesOf(Stem, {"12345"})) = 0
    BY <1>5, <2>2, CountPlaces
  <2> QED
    BY <2>3 DEF digitsOutnumberLetters
<1> QED
  BY <1>2, <1>4, <1>9, <1>10, <1>11 DEF IsNoName

(* A heading is refused.                                                   *)
LEMMA HeadingIsJudged ==
  ASSUME NEW g \in Cut, IsHeading(g), cleaned = g.name, form = g.form
  PROVE  IsNoName
<1>1. cleaned \in Seq(Tokens) /\ form \in Range(suffixOrder) \cup {"none"}
  BY DEF Cut
<1>2. cleaned # <<>> /\ Range(cleaned) \subseteq genericWords
  BY DEF IsHeading
<1>3. Len(cleaned) > 0
  BY <1>1, <1>2, EmptySeq
<1>4. /\ Stem \in Seq(Tokens)
      /\ cleaned[Len(cleaned)] = formNow => Len(Stem) = Len(cleaned) - 1
      /\ cleaned[Len(cleaned)] # formNow => Len(Stem) = Len(cleaned)
      /\ \A n \in 1..Len(Stem) : Stem[n] = cleaned[n]
  BY <1>1, <1>3, StemIs
<1>5. SUFFICES ASSUME Stem = <<>> => form = "none" PROVE isGenericStem(Stem)
  BY DEF IsNoName
<1>6. Len(cleaned) \in 1..Len(cleaned) /\ Len(cleaned) \in Nat
  BY <1>1, <1>3, LenProperties
<1>7. Stem # <<>>
  <2>1. SUFFICES ASSUME Stem = <<>> PROVE FALSE
    OBVIOUS
  <2>2. formNow = "none"
    BY <1>5, <2>1 DEF formNow
  <2>3. Len(Stem) = 0
    BY <2>1
  <2>4. cleaned[Len(cleaned)] = "none"
    BY <1>3, <1>4, <1>6, <2>2, <2>3
  <2>5. cleaned[Len(cleaned)] \in genericWords
    BY <1>1, <1>2, <1>6, NameRange
  <2> QED
    BY <2>4, <2>5 DEF genericWords
<1>8. ASSUME NEW n \in DOMAIN Stem PROVE Stem[n] \in genericWords
  <2>1. n \in 1..Len(Stem) /\ n \in 1..Len(cleaned)
    BY <1>4, <1>6
  <2> QED
    BY <1>1, <1>2, <1>4, <2>1, NameRange
<1> QED
  BY <1>7, <1>8 DEF isGenericStem

-----------------------------------------------------------------------------
(* What stands around a name in order has this shape.                      *)

LEMMA PieceRange ==
  ASSUME NEW w \in Seq(Tokens), NEW lo \in Nat \ {0}, NEW hi \in Nat, lo <= hi + 1, hi <= Len(w), NEW S,
         Range(SubSeq(w, lo, hi)) \subseteq S
  PROVE  \A k \in lo..hi : w[k] \in S
<1> DEFINE t == SubSeq(w, lo, hi)
<1>1. t \in Seq(Tokens) /\ \A k \in lo..hi : k - lo + 1 \in 1..Len(t) /\ t[k - lo + 1] = w[k]
  BY PlaceIn
<1>2. Range(t) \subseteq S
  OBVIOUS
<1> HIDE DEF t
<1>3. \A n \in 1..Len(t) : t[n] \in S
  BY <1>1, <1>2, NameRange
<1> QED
  BY <1>1, <1>3

LEMMA FrontIs ==
  ASSUME NEW w \in Seq(Tokens), NEW lo \in Nat \ {0}, NEW hi \in Nat, lo <= hi + 1, hi <= Len(w),
         IsFront(SubSeq(w, lo, hi))
  PROVE  \A k \in lo..hi : w[k] \in FrontTokens
BY PieceRange DEF IsFront, FrontTokens

LEMMA ConnectivesAre ==
  ASSUME NEW w \in Seq(Tokens), NEW a \in Nat, NEW b \in Nat, a <= b, b <= Len(w),
         IsConnectives(SubSeq(w, a + 1, b))
  PROVE  ConnectivesPart(w, a, b)
<1> DEFINE t == SubSeq(w, a + 1, b)
           C == leadingConnectives
<1>1. /\ t \in Seq(Tokens) /\ Len(t) = b - (a + 1) + 1
      /\ \A n \in 1..Len(t) : t[n] = w[(a + 1) + n - 1]
  BY PlaceIn
<1>2. PICK at \in [DOMAIN t -> DOMAIN C] :
        \A k \in DOMAIN t : t[k] = C[at[k]] /\ (k > 1 => at[k - 1] < at[k])
  BY DEF IsConnectives
<1> HIDE DEF t
<1>3. DOMAIN t = 1..(b - a) /\ Len(t) = b - a
  BY <1>1
<1>4. DOMAIN C = {1, 2} /\ C[1] = "propiedad-de" /\ C[2] = "la-sociedad"
  BY DEF leadingConnectives
<1> HIDE DEF C
<1>5. \A k \in 1..(b - a) : at[k] \in {1, 2} /\ t[k] = C[at[k]] /\ (k > 1 => at[k - 1] < at[k])
  BY <1>2, <1>3, <1>4
<1>6. b - a <= 2
  <2>1. SUFFICES ASSUME b - a > 2 PROVE FALSE
    OBVIOUS
  <2>2. 1 \in 1..(b - a) /\ 2 \in 1..(b - a) /\ 3 \in 1..(b - a) /\ 2 - 1 = 1 /\ 3 - 1 = 2
    BY <2>1
  <2>3. at[1] \in {1, 2} /\ at[2] \in {1, 2} /\ at[3] \in {1, 2} /\ at[1] < at[2] /\ at[2] < at[3]
    BY <1>5, <2>2
  <2> QED
    BY <2>3
<1>7. CASE b - a = 0
  BY <1>7 DEF ConnectivesPart
<1>8. CASE b - a = 1
  <2>1. 1 \in 1..(b - a) /\ b = a + 1 /\ (a + 1) + 1 - 1 = a + 1
    BY <1>8
  <2>2. t[1] \in {"propiedad-de", "la-sociedad"} /\ t[1] = w[a + 1]
    BY <1>1, <1>3, <1>4, <1>5, <2>1
  <2> QED
    BY <2>1, <2>2, Tables DEF ConnectivesPart
<1>9. CASE b - a = 2
  <2>1. 1 \in 1..(b - a) /\ 2 \in 1..(b - a) /\ b = a + 2 /\ (a + 1) + 1 - 1 = a + 1
          /\ (a + 1) + 2 - 1 = a + 2 /\ 2 - 1 = 1
    BY <1>9
  <2>2. at[1] \in {1, 2} /\ at[2] \in {1, 2} /\ at[1] < at[2]
    BY <1>5, <2>1
  <2>3. at[1] = 1 /\ at[2] = 2
    BY <2>2
  <2>4. t[1] = w[a + 1] /\ t[2] = w[a + 2]
    BY <1>1, <1>3, <2>1
  <2>5. t[1] = "propiedad-de" /\ t[2] = "la-sociedad"
    BY <1>4, <1>5, <2>1, <2>3
  <2> QED
    BY <2>1, <2>4, <2>5 DEF ConnectivesPart
<1> QED
  BY <1>6, <1>7, <1>8, <1>9

LEMMA EmptyPiece ==
  ASSUME NEW w \in Seq(Tokens), NEW lo \in Nat \ {0}, NEW hi \in Nat, lo <= hi + 1, hi <= Len(w),
         SubSeq(w, lo, hi) = <<>>
  PROVE  lo = hi + 1
<1>1. Len(SubSeq(w, lo, hi)) = hi - lo + 1
  BY PieceOf
<1>2. Len(<<>>) = 0
  OBVIOUS
<1> QED
  BY <1>1, <1>2

LEMMA NoticeIs ==
  ASSUME NEW w \in Seq(Tokens), NEW b \in Nat, NEW c \in Nat, b <= c, c <= Len(w),
         IsNotice(SubSeq(w, b + 1, c))
  PROVE  NoticePart(w, b, c)
<1> DEFINE lo == b + 1
           t == SubSeq(w, lo, c)
<1>1. lo \in Nat \ {0} /\ lo <= c + 1 /\ lo = b + 1 /\ Len(w) \in Nat
  OBVIOUS
<1>2. t \in Seq(Tokens) /\ Len(t) = c - lo + 1 /\ \A n \in 1..Len(t) : t[n] = w[lo + n - 1]
  BY PlaceIn
<1>3. CASE t = <<>>
  <2>1. lo = c + 1
    BY <1>3, EmptyPiece
  <2> QED
    BY <2>1 DEF NoticePart
<1>4. CASE t # <<>>
  <2>1. PICK n \in 2..Len(t) : /\ Range(SubSeq(t, 1, n - 1)) \subseteq Words
                               /\ t[n] = "copyright" /\ IsFront(SubSeq(t, n, Len(t)))
    BY <1>4 DEF IsNotice, From
  <2> HIDE DEF lo
  <2>2. n \in 1..Len(t)
    BY <1>1, <1>2
  <2>3. SubSeq(t, 1, n - 1) = SubSeq(w, lo, lo + n - 2) /\ SubSeq(t, n, Len(t)) = SubSeq(w, lo + n - 1, c)
    BY <1>1, <2>2, CutPiece
  <2> HIDE DEF t
  <2> DEFINE k == lo + n - 1
             m == lo + n - 2
  <2>4. /\ k \in Nat \ {0} /\ k <= c + 1 /\ k \in (b + 2)..c /\ m = k - 1
        /\ m \in Nat /\ lo <= m + 1 /\ m <= Len(w)
    BY <1>1, <1>2, <2>2
  <2>5. w[k] = "copyright"
    BY <1>2, <2>1, <2>2
  <2> HIDE DEF k, m
  <2>6. \A j \in lo..m : w[j] \in Words
    BY <1>1, <2>1, <2>3, <2>4, PieceRange DEF m
  <2>7. \A j \in k..c : w[j] \in FrontTokens
    BY <1>1, <2>1, <2>3, <2>4, FrontIs DEF k
  <2> QED
    BY <1>1, <2>4, <2>5, <2>6, <2>7 DEF NoticePart
<1> QED
  BY <1>3, <1>4

LEMMA TitleIs ==
  ASSUME NEW w \in Seq(Tokens), NEW c \in Nat, NEW d \in Nat, c <= d, d <= Len(w),
         IsTitle(SubSeq(w, c + 1, d))
  PROVE  TitlePart(w, c, d)
<1> DEFINE lo == c + 1
           t == SubSeq(w, lo, d)
<1>1. lo \in Nat \ {0} /\ lo <= d + 1 /\ lo = c + 1 /\ Len(w) \in Nat
  OBVIOUS
<1>2. /\ t \in Seq(Tokens) /\ Len(t) = d - lo + 1 /\ \A n \in 1..Len(t) : t[n] = w[lo + n - 1]
      /\ \A k \in lo..d : k - lo + 1 \in 1..Len(t) /\ t[k - lo + 1] = w[k]
  BY PlaceIn
<1>3. IsTitle(t)
  OBVIOUS
<1> HIDE DEF lo, t
<1>4. ASSUME NEW k \in lo..d
      PROVE  \/ w[k] \in Labels
             \/ w[k] \in {":", "-"} /\ k > c + 1 /\ w[k - 1] \in pageLabels \cup {":", "-"}
  <2> DEFINE n == k - lo + 1
  <2>1. n \in 1..Len(t) /\ t[n] = w[k] /\ n \in DOMAIN t
    BY <1>2
  <2>2. n > 1 => k > c + 1 /\ k - 1 \in lo..d /\ (k - 1) - lo + 1 = n - 1
    BY <1>1
  <2>3. n > 1 => t[n - 1] = w[k - 1]
    BY <1>2, <2>2
  <2> HIDE DEF n
  <2>4. \/ t[n] \in functionWords \cup pageLabels
        \/ t[n] \in {":", "-"} /\ n > 1 /\ t[n - 1] \in pageLabels \cup {":", "-"}
    BY <1>3, <2>1 DEF IsTitle
  <2> QED
    BY <2>1, <2>2, <2>3, <2>4 DEF Labels
<1> QED
  BY <1>1, <1>4 DEF TitlePart

LEMMA PhraseIs ==
  ASSUME NEW w \in Seq(Tokens), NEW d \in Nat, NEW e \in Nat, d <= e, e <= Len(w),
         IsPhrase(SubSeq(w, d + 1, e))
  PROVE  \/ e = d
         \/ /\ e > d + 1 /\ w[e] \in Range(connectivePhrases)
            /\ \A k \in (d + 1)..(e - 1) : w[k] \in Words
<1> DEFINE lo == d + 1
           t == SubSeq(w, lo, e)
<1>1. lo \in Nat \ {0} /\ lo <= e + 1 /\ lo = d + 1 /\ Len(w) \in Nat
  OBVIOUS
<1>2. /\ t \in Seq(Tokens) /\ Len(t) = e - lo + 1
      /\ \A k \in lo..e : k - lo + 1 \in 1..Len(t) /\ t[k - lo + 1] = w[k]
  BY PlaceIn
<1>3. CASE t = <<>>
  <2>1. lo = e + 1
    BY <1>3, EmptyPiece
  <2> QED
    BY <2>1
<1>4. CASE t # <<>>
  <2>1. Len(t) > 1 /\ Last(t) \in Range(connectivePhrases) /\ Range(Front(t)) \subseteq Words
    BY <1>4 DEF IsPhrase
  <2> HIDE DEF lo
  <2>2. Len(t) \in 1..Len(t) /\ e \in lo..e
    <3>1. e - lo + 1 > 1
      BY <1>2, <2>1
    <3> QED
      BY <1>1, <1>2, <3>1
  <2>3. Front(t) = SubSeq(w, lo, lo + Len(t) - 2)
    <3>1. SubSeq(t, 1, Len(t) - 1) = SubSeq(w, lo, lo + Len(t) - 2)
      BY <1>1, <2>2, CutPiece
    <3> QED
      BY <3>1 DEF Front
  <2> HIDE DEF t
  <2>4. lo + Len(t) - 2 = e - 1 /\ e > lo
    BY <1>1, <1>2, <2>1
  <2>5. Last(t) = w[e]
    <3>1. t[e - lo + 1] = w[e] /\ e - lo + 1 = Len(t)
      BY <1>2, <2>2
    <3>2. Last(t) = t[Len(t)]
      BY <1>2, <2>1, HasEnds
    <3> QED
      BY <3>1, <3>2
  <2>6. e - 1 \in Nat /\ lo <= (e - 1) + 1 /\ e - 1 <= Len(w)
    BY <1>1, <2>4
  <2>7. Range(SubSeq(w, lo, e - 1)) \subseteq Words
    BY <2>1, <2>3, <2>4
  <2>8. \A k \in lo..(e - 1) : w[k] \in Words
    BY <1>1, <2>6, <2>7, PieceRange
  <2> QED
    BY <1>1, <2>1, <2>4, <2>5, <2>8
<1> QED
  BY <1>3, <1>4

LEMMA LabelIs ==
  ASSUME NEW w \in Seq(Tokens), NEW e \in Nat, NEW B \in Nat, e <= B, B <= Len(w),
         IsLabel(SubSeq(w, e + 1, B))
  PROVE  LabelPart(w, B, e)
<1> DEFINE lo == e + 1
           t == SubSeq(w, lo, B)
<1>1. lo \in Nat \ {0} /\ lo <= B + 1 /\ lo = e + 1 /\ Len(w) \in Nat
  OBVIOUS
<1>2. /\ t \in Seq(Tokens) /\ Len(t) = B - lo + 1 /\ \A n \in 1..Len(t) : t[n] = w[lo + n - 1]
  BY PlaceIn
<1>3. CASE t = <<>>
  <2>1. lo = B + 1
    BY <1>3, EmptyPiece
  <2> QED
    BY <2>1 DEF LabelPart
<1>4. CASE t # <<>>
  <2>1. PICK n \in 1..MaxLabelWords :
          /\ n < Len(t) /\ Range(SubSeq(t, 1, n)) \subseteq Words
          /\ t[n + 1] = ":" /\ IsFront(SubSeq(t, n + 2, Len(t)))
          /\ ":" \notin Range(SubSeq(t, n + 2, Len(t)))
    BY <1>4 DEF IsLabel, From
  <2> HIDE DEF lo
  <2>2. n \in Nat /\ n > 0
    BY NamesAssumption
  <2>3. Len(t) \in Nat /\ n \in 1..Len(t) /\ n + 1 \in 1..Len(t) /\ (n + 1) + 1 = n + 2
    <3> HIDE DEF t
    <3>1. t \in Seq(Tokens)
      BY <1>2
    <3>2. Len(t) \in Nat
      BY <3>1, LenProperties
    <3>3. n < Len(t)
      BY <2>1
    <3> QED
      BY <2>2, <3>2, <3>3
  <2>4. SubSeq(t, 1, n) = SubSeq(w, lo, lo + n - 1)
    BY <1>1, <2>3, CutPiece
  <2>5. SubSeq(t, (n + 1) + 1, Len(t)) = SubSeq(w, lo + (n + 1), B)
    BY <1>1, <2>3, CutPiece
  <2> HIDE DEF t
  <2> DEFINE m == lo + n - 1
             k == lo + (n + 1)
  <2>6. /\ m = e + n /\ k = e + n + 2 /\ m \in Nat /\ lo <= m + 1 /\ m <= Len(w)
        /\ k \in Nat \ {0} /\ k <= B + 1 /\ e + n + 1 <= B /\ lo + (n + 1) - 1 = e + n + 1
    BY <1>1, <1>2, <2>1, <2>2
  <2>7. w[e + n + 1] = ":"
    <3>1. t[n + 1] = w[lo + (n + 1) - 1]
      BY <1>2, <2>3
    <3> QED
      BY <2>1, <2>6, <3>1
  <2>8. Range(SubSeq(w, lo, m)) \subseteq Words
    BY <2>1, <2>4
  <2>9. IsFront(SubSeq(w, k, B)) /\ ":" \notin Range(SubSeq(w, k, B))
    BY <2>1, <2>3, <2>5
  <2> HIDE DEF m, k
  <2>10. \A j \in lo..m : w[j] \in Words
    BY <1>1, <2>6, <2>8, PieceRange
  <2>11. \A j \in k..B : w[j] \in FrontTokens
    BY <1>1, <2>6, <2>9, FrontIs
  <2>12. \A j \in k..B : w[j] # ":"
    <3> DEFINE S == Range(SubSeq(w, k, B))
    <3>1. \A j \in k..B : w[j] \in S
      BY <1>1, <2>6, PieceRange
    <3> QED
      BY <2>9, <3>1
  <2> QED
    BY <1>1, <2>1, <2>6, <2>7, <2>10, <2>11, <2>12 DEF LabelPart, LabelEnds
<1> QED
  BY <1>3, <1>4

LEMMA NamePartIs ==
  ASSUME NEW g \in Cut, IsName(g) \/ IsHeading(g)
  PROVE  /\ Len(g.name) \in Nat \ {0}
         /\ NamePart(WholeOf(g), g.form, Len(g.before), Len(g.before) + Len(g.name))
<1> DEFINE B == Len(g.before)
           N == Len(g.name)
           w == WholeOf(g)
           t == g.name
           f == g.form
           Dashed(n) == /\ t[n - 1] \in Plain
                        /\ EndsIn(t[n - 1], f) => \E m \in n..N : Bears(t[m], f)
<1>1. B \in Nat /\ N \in Nat /\ \A n \in 1..N : w[B + n] = t[n]
  BY WholeIs
<1>2. t \in Seq(Tokens) /\ t # <<>>
  BY DEF Cut, IsName, IsHeading
<1>3. N > 0
  BY <1>2, EmptySeq
<1>4. Head(t) = t[1] /\ Last(t) = t[N]
  BY <1>2, <1>3, HasEnds
<1>5. /\ t[1] \in NameWords /\ t[N] \in NameWords
      /\ \A n \in 1..N : t[n] \in NameWords \cup {"-"}
      /\ \A n \in 2..N : t[n] = "-" => Dashed(n)
  <2>1. 1 \in 1..N /\ N \in 1..N
    BY <1>1, <1>3
  <2>2. CASE IsName(g)
    <3>1. /\ t[1] \in Plain \cup Range(suffixOrder) /\ t[N] \in Plain \cup Range(suffixOrder)
          /\ Range(t) \subseteq Plain \cup Range(suffixOrder) \cup {"-"}
          /\ \A n \in 2..N : t[n] = "-" => Dashed(n)
      BY <1>4, <2>2 DEF IsName
    <3>2. \A n \in 1..N : t[n] \in Range(t)
      BY <1>2, NameRange
    <3> QED
      BY <3>1, <3>2 DEF NameWords
  <2>3. CASE IsHeading(g)
    <3>1. Range(t) \subseteq genericWords
      BY <2>3 DEF IsHeading
    <3>2. \A n \in 1..N : t[n] \in Range(t)
      BY <1>2, NameRange
    <3>3. \A n \in 1..N : t[n] \in NameWords
      BY <3>1, <3>2 DEF NameWords
    <3>4. \A n \in 1..N : t[n] # "-"
      BY <3>3, WordsAreNone
    <3>5. \A n \in 2..N : n \in 1..N
      OBVIOUS
    <3> QED
      BY <2>1, <3>3, <3>4, <3>5
  <2> QED
    BY <2>2, <2>3
<1> HIDE DEF B, N, w, t, f
<1>6. ASSUME NEW k \in (B + 1)..(B + N)
      PROVE  /\ w[k] \in NameWords \cup {"-"}
             /\ w[k] = "-" => /\ w[k - 1] \in Plain
                              /\ EndsIn(w[k - 1], f) => \E m \in k..(B + N) : Bears(w[m], f)
  <2> DEFINE n == k - B
  <2>1. n \in 1..N /\ B + n = k
    BY <1>1
  <2>2. w[k] = t[n] /\ t[n] \in NameWords \cup {"-"}
    BY <1>1, <1>5, <2>1
  <2>3. ASSUME w[k] = "-"
        PROVE  w[k - 1] \in Plain /\ (EndsIn(w[k - 1], f) => \E m \in k..(B + N) : Bears(w[m], f))
    <3>1. n # 1
      BY <1>5, <2>2, <2>3, WordsAreNone
    <3>2. n \in 2..N /\ n - 1 \in 1..N /\ B + (n - 1) = k - 1
      BY <1>1, <2>1, <3>1
    <3>3. w[B + (n - 1)] = t[n - 1]
      BY <1>1, <3>2
    <3>4. w[k - 1] = t[n - 1] /\ Dashed(n)
      BY <1>5, <2>2, <2>3, <3>2, <3>3
    <3>5. ASSUME NEW m \in n..N PROVE B + m \in k..(B + N) /\ w[B + m] = t[m]
      <4>1. m \in 1..N /\ B + m \in k..(B + N)
        BY <1>1, <2>1, <3>2
      <4> QED
        BY <1>1, <4>1
    <3> QED
      BY <3>4, <3>5
  <2> QED
    BY <2>2, <2>3
<1>7. w[B + 1] \in NameWords /\ w[B + N] \in NameWords
  <2>1. 1 \in 1..N /\ N \in 1..N
    BY <1>1, <1>3
  <2> QED
    BY <1>1, <1>5, <2>1
<1>8. NamePart(w, f, B, B + N)
  BY <1>6, <1>7 DEF NamePart
<1>9. N \in Nat \ {0}
  BY <1>1, <1>3
<1> QED
  BY <1>8, <1>9 DEF B, N, w, f

LEMMA TailPartIs ==
  ASSUME NEW g \in Cut, g.name # <<>>, OneTail(g)
  PROVE  TailPart(WholeOf(g), g.form, Len(g.before) + Len(g.name))
<1> DEFINE B == Len(g.before)
           N == Len(g.name)
           A == Len(g.after)
           M == B + N
           w == WholeOf(g)
           t == g.after
           f == g.form
<1>1. B \in Nat /\ N \in Nat /\ A \in Nat /\ Len(w) = B + N + A
  BY WholeIs
<1>2. t \in Seq(Tokens) /\ g.name \in Seq(Tokens)
  BY DEF Cut
<1>3. M \in Nat /\ Len(w) = M + A /\ \A n \in 1..A : w[M + n] = t[n]
  <2>1. \A n \in 1..A : w[B + N + n] = t[n]
    BY WholeIs
  <2>2. \A n \in 1..A : w[M + n] = t[n]
    BY <2>1
  <2>3. M \in Nat /\ Len(w) = M + A
    <3> HIDE DEF B, N, A, w
    <3> QED
      BY <1>1
  <2> QED
    BY <2>2, <2>3
<1>4. Last(g.name) = w[M]
  <2>1. N > 0
    BY <1>2, EmptySeq
  <2>2. Last(g.name) = g.name[N]
    BY <1>2, <2>1, HasEnds
  <2>3. N \in 1..N
    BY <1>1, <2>1
  <2>4. \A n \in 1..N : w[B + n] = g.name[n]
    BY WholeIs
  <2> QED
    BY <2>2, <2>3, <2>4
<1> HIDE DEF B, N, M, w
<1>5. CASE t = <<>>
  <2>1. A = 0
    BY <1>5
  <2> QED
    BY <1>1, <1>3, <2>1 DEF TailPart, w, M, B, N
<1>6. CASE t # <<>>
  <2>1. A > 0 /\ A \in Nat
    BY <1>2, <1>6, EmptySeq
  <2>2. Head(t) = t[1] /\ Tail(t) = SubSeq(t, 2, A)
    BY <1>2, <1>6, TailIsSubSeq
  <2>3. w[M + 1] = Head(t)
    <3>1. 1 \in 1..A
      BY <2>1
    <3> QED
      BY <1>3, <2>2, <3>1
  <2>4. ASSUME NEW k \in (M + 2)..Len(w) PROVE w[k] \in Range(Tail(t))
    <3> DEFINE n == k - M
    <3>1. n \in 2..A /\ n \in 1..A /\ M + n = k
      BY <1>3, <2>1
    <3>2. w[k] = t[n]
      BY <1>3, <3>1
    <3> HIDE DEF n
    <3>3. 2 \in Nat \ {0} /\ 2 <= A + 1 /\ A <= Len(t)
      BY <2>1
    <3>4. Range(SubSeq(t, 2, A)) \subseteq Range(SubSeq(t, 2, A))
      OBVIOUS
    <3>5. \A j \in 2..A : t[j] \in Range(SubSeq(t, 2, A))
      BY <1>2, <2>1, <3>3, <3>4, PieceRange
    <3> QED
      BY <2>2, <3>1, <3>2, <3>5
  <2>5. CASE /\ Head(t) \in Range(proseMarkers)
             /\ Range(Tail(t)) \cap (Range(proseMarkers) \cup Range(connectivePhrases)
                                        \cup {"copyright"}) = {}
    <3>1. Len(w) > M
      BY <1>3, <2>1
    <3>2. ProseTail(w, M)
      BY <2>3, <2>4, <2>5, <3>1 DEF ProseTail
    <3> QED
      BY <3>2 DEF TailPart, w, M, B, N
  <2>6. CASE Len(t) > 1 /\ Range(Tail(t)) \subseteq Words /\ Head(t) \in {"(", "["}
    <3>1. Len(w) > M + 1
      BY <1>3, <2>1, <2>6
    <3>2. OpenTail(w, M)
      BY <2>3, <2>4, <2>6, <3>1 DEF OpenTail
    <3> QED
      BY <3>2 DEF TailPart, w, M, B, N
  <2>7. CASE /\ Len(t) > 1 /\ Range(Tail(t)) \subseteq Words /\ Head(t) \in separators
             /\ (\A x \in Range(Tail(t)) : ~Bears(x, f)) /\ f # "none" /\ Last(g.name) = f
    <3>1. Len(w) > M + 1
      BY <1>3, <2>1, <2>7
    <3>2. LineTail(w, f, M)
      BY <1>4, <2>3, <2>4, <2>7, <3>1 DEF LineTail
    <3> QED
      BY <3>2 DEF TailPart, w, M, B, N
  <2> QED
    BY <1>6, <2>5, <2>6, <2>7 DEF OneTail
<1> QED
  BY <1>5, <1>6

LEMMA BeforeIs ==
  ASSUME NEW g \in Cut, NEW lo \in Nat \ {0}, NEW hi \in Nat, lo <= hi + 1, hi <= Len(g.before)
  PROVE  SubSeq(g.before, lo, hi) = SubSeq(WholeOf(g), lo, hi)
<1> DEFINE t == g.before
           w == WholeOf(g)
           u == SubSeq(t, lo, hi)
           v == SubSeq(w, lo, hi)
<1>1. /\ w \in Seq(Tokens) /\ Len(w) \in Nat /\ Len(t) \in Nat /\ Len(t) <= Len(w)
      /\ \A n \in 1..Len(t) : w[n] = t[n]
  <2> DEFINE B == Len(t)
             N == Len(g.name)
             A == Len(g.after)
  <2>1. w \in Seq(Tokens) /\ B \in Nat /\ N \in Nat /\ A \in Nat /\ Len(w) = B + N + A
    BY WholeIs
  <2>2. \A n \in 1..Len(t) : w[n] = t[n]
    BY WholeIs
  <2> HIDE DEF B, N, A, t, w
  <2>3. Len(w) \in Nat /\ B <= Len(w)
    BY <2>1
  <2> QED
    BY <2>1, <2>2, <2>3 DEF B
<1>2. t \in Seq(Tokens)
  BY DEF Cut
<1> HIDE DEF t, w
<1>3. hi <= Len(t) /\ hi <= Len(w)
  BY <1>1 DEF t
<1>4. u \in Seq(Tokens) /\ Len(u) = hi - lo + 1 /\ \A n \in 1..Len(u) : lo + n - 1 \in lo..hi /\ u[n] = t[lo + n - 1]
  BY <1>2, <1>3, PlaceIn
<1>5. v \in Seq(Tokens) /\ Len(v) = hi - lo + 1 /\ \A n \in 1..Len(v) : v[n] = w[lo + n - 1]
  BY <1>1, <1>3, PlaceIn
<1> HIDE DEF u, v
<1>6. ASSUME NEW n \in 1..Len(u) PROVE u[n] = v[n]
  <2> DEFINE k == lo + n - 1
  <2>1. k \in lo..hi /\ u[n] = t[k] /\ v[n] = w[k]
    BY <1>4, <1>5
  <2> HIDE DEF k
  <2>2. k \in 1..Len(t)
    BY <1>1, <1>3, <2>1
  <2> QED
    BY <1>1, <2>1, <2>2
<1>7. u = v
  BY <1>4, <1>5, <1>6, SeqEqual
<1> QED
  BY <1>7 DEF u, v, t, w

LEMMA ShapeOf ==
  ASSUME NEW g \in Cut, IsName(g) \/ IsHeading(g), OneTail(g), Comparable(g),
         NEW ended, ended => EndsInForm(g), InOrder(g.before, ended)
  PROVE  \E a, b, c, d, e \in Nat :
           Shape(WholeOf(g), g.form, Len(g.before), Len(g.before) + Len(g.name), a, b, c, d, e)
<1> DEFINE B == Len(g.before)
           N == Len(g.name)
           A == Len(g.after)
           M == B + N
           w == WholeOf(g)
           f == g.form
<1>1. B \in Nat /\ N \in Nat /\ A \in Nat /\ w \in Seq(Tokens) /\ Len(w) = B + N + A
  BY WholeIs
<1>2. N \in Nat \ {0} /\ NamePart(w, f, B, M)
  BY NamePartIs
<1>3. TailPart(w, f, M)
  <2>1. g.name # <<>>
    BY DEF IsName, IsHeading
  <2> QED
    BY <2>1, TailPartIs
<1>4. ended => Len(w) = M /\ (f = "none" \/ w[M] = f)
  <2> SUFFICES ASSUME ended PROVE Len(w) = M /\ (f = "none" \/ w[M] = f)
    OBVIOUS
  <2>1. g.after = <<>> /\ (f = "none" \/ Last(g.name) = f)
    BY DEF EndsInForm
  <2>2. Len(w) = M
    BY <1>1, <2>1
  <2>3. Last(g.name) = g.name[N]
    BY <1>2, HasEnds DEF Cut
  <2>4. w[B + N] = g.name[N]
    <3>1. N \in 1..N
      BY <1>2
    <3>2. \A n \in 1..N : w[B + n] = g.name[n]
      BY WholeIs
    <3> QED
      BY <3>1, <3>2
  <2> QED
    BY <2>1, <2>2, <2>3, <2>4
<1>23. Legible(w)
  <2>1. Even(w) \/ Range(w) \cap Lowered = {}
    BY DEF Comparable, Lowered
  <2> HIDE DEF w
  <2>2. \A n \in 1..Len(w) : w[n] \in Range(w)
    BY <1>1, NameRange
  <2> QED
    BY <2>1, <2>2 DEF Legible
<1> DEFINE t == g.before
<1>5. PICK a \in 0..B : /\ IsFront(SubSeq(t, 1, a))
                       /\ \E b \in a..B :
         /\ IsConnectives(SubSeq(t, a + 1, b))
         /\ \E c \in b..B :
              /\ IsNotice(SubSeq(t, b + 1, c))
              /\ \E d \in c..B :
                   /\ IsTitle(SubSeq(t, c + 1, d))
                   /\ \E e \in d..B :
                        /\ IsPhrase(SubSeq(t, d + 1, e)) /\ (d < e => ended)
                        /\ IsLabel(SubSeq(t, e + 1, B))
  BY Zenon DEF InOrder, From
<1>6. PICK b \in a..B :
         /\ IsConnectives(SubSeq(t, a + 1, b))
         /\ \E c \in b..B :
              /\ IsNotice(SubSeq(t, b + 1, c))
              /\ \E d \in c..B :
                   /\ IsTitle(SubSeq(t, c + 1, d))
                   /\ \E e \in d..B :
                        /\ IsPhrase(SubSeq(t, d + 1, e)) /\ (d < e => ended)
                        /\ IsLabel(SubSeq(t, e + 1, B))
  BY <1>5, Zenon
<1>7. PICK c \in b..B :
              /\ IsNotice(SubSeq(t, b + 1, c))
              /\ \E d \in c..B :
                   /\ IsTitle(SubSeq(t, c + 1, d))
                   /\ \E e \in d..B :
                        /\ IsPhrase(SubSeq(t, d + 1, e)) /\ (d < e => ended)
                        /\ IsLabel(SubSeq(t, e + 1, B))
  BY <1>6, Zenon
<1>8. PICK d \in c..B :
                   /\ IsTitle(SubSeq(t, c + 1, d))
                   /\ \E e \in d..B :
                        /\ IsPhrase(SubSeq(t, d + 1, e)) /\ (d < e => ended)
                        /\ IsLabel(SubSeq(t, e + 1, B))
  BY <1>7, Zenon
<1>9. PICK e \in d..B : /\ IsPhrase(SubSeq(t, d + 1, e)) /\ (d < e => ended)
                       /\ IsLabel(SubSeq(t, e + 1, B))
  BY <1>8, Zenon
<1>10. /\ a \in Nat /\ b \in Nat /\ c \in Nat /\ d \in Nat /\ e \in Nat
       /\ a <= b /\ b <= c /\ c <= d /\ d <= e /\ e <= B
  BY <1>1
<1>11. ASSUME NEW lo \in Nat \ {0}, NEW hi \in Nat, lo <= hi + 1, hi <= B
       PROVE  SubSeq(t, lo, hi) = SubSeq(w, lo, hi)
  BY <1>11, BeforeIs
<1>12. /\ SubSeq(t, 1, a) = SubSeq(w, 1, a) /\ SubSeq(t, a + 1, b) = SubSeq(w, a + 1, b)
       /\ SubSeq(t, b + 1, c) = SubSeq(w, b + 1, c) /\ SubSeq(t, c + 1, d) = SubSeq(w, c + 1, d)
       /\ SubSeq(t, d + 1, e) = SubSeq(w, d + 1, e) /\ SubSeq(t, e + 1, B) = SubSeq(w, e + 1, B)
  <2> HIDE DEF t, w, B
  <2>1. /\ 1 <= a + 1 /\ a + 1 <= b + 1 /\ b + 1 <= c + 1 /\ c + 1 <= d + 1 /\ d + 1 <= e + 1
        /\ e + 1 <= B + 1 /\ a <= B /\ b <= B /\ c <= B /\ d <= B /\ e <= B /\ B <= B
        /\ 1 \in Nat \ {0} /\ a + 1 \in Nat \ {0} /\ b + 1 \in Nat \ {0} /\ c + 1 \in Nat \ {0}
        /\ d + 1 \in Nat \ {0} /\ e + 1 \in Nat \ {0}
    BY <1>1, <1>10
  <2>2. SubSeq(t, 1, a) = SubSeq(w, 1, a)
    BY <1>10, <1>11, <2>1
  <2>3. SubSeq(t, a + 1, b) = SubSeq(w, a + 1, b)
    BY <1>10, <1>11, <2>1
  <2>4. SubSeq(t, b + 1, c) = SubSeq(w, b + 1, c)
    BY <1>10, <1>11, <2>1
  <2>5. SubSeq(t, c + 1, d) = SubSeq(w, c + 1, d)
    BY <1>10, <1>11, <2>1
  <2>6. SubSeq(t, d + 1, e) = SubSeq(w, d + 1, e)
    BY <1>10, <1>11, <2>1
  <2>7. SubSeq(t, e + 1, B) = SubSeq(w, e + 1, B)
    BY <1>1, <1>10, <1>11, <2>1
  <2> QED
    BY <2>2, <2>3, <2>4, <2>5, <2>6, <2>7
<1> HIDE DEF t, w, M, A, f, N
<1>13. B <= Len(w) /\ B < M /\ M \in Nat /\ M <= Len(w)
  BY <1>1, <1>2 DEF M
<1> HIDE DEF B
<1>14. FrontPart(w, a)
  <2>1. 1 \in Nat \ {0} /\ 1 <= a + 1 /\ a <= Len(w)
    BY <1>1, <1>10, <1>13
  <2> QED
    BY <1>1, <1>5, <1>10, <1>12, <2>1, FrontIs DEF FrontPart
<1>15. b <= Len(w) /\ c <= Len(w) /\ d <= Len(w) /\ e <= Len(w)
  BY <1>1, <1>10, <1>13
<1>16. ConnectivesPart(w, a, b)
  BY <1>1, <1>6, <1>10, <1>12, <1>15, ConnectivesAre
<1>17. NoticePart(w, b, c)
  BY <1>1, <1>7, <1>10, <1>12, <1>15, NoticeIs
<1>18. TitlePart(w, c, d)
  BY <1>1, <1>8, <1>10, <1>12, <1>15, TitleIs
<1>19. PhrasePart(w, f, M, d, e)
  <2>1. \/ e = d
        \/ /\ e > d + 1 /\ w[e] \in Range(connectivePhrases)
           /\ \A k \in (d + 1)..(e - 1) : w[k] \in Words
    BY <1>1, <1>9, <1>10, <1>12, <1>15, PhraseIs
  <2>2. e # d => Len(w) = M /\ (f = "none" \/ w[M] = f)
    BY <1>4, <1>9, <1>10
  <2> QED
    BY <2>1, <2>2 DEF PhrasePart
<1>20. LabelPart(w, B, e)
  BY <1>1, <1>9, <1>10, <1>12, <1>13, LabelIs
<1>21. f \in Range(suffixOrder) \cup {"none"}
  BY DEF Cut, f
<1>22. Shape(w, f, B, M, a, b, c, d, e)
  BY <1>1, <1>2, <1>3, <1>10, <1>13, <1>14, <1>16, <1>17, <1>18, <1>19, <1>20, <1>21, <1>23 DEF Shape
<1> QED
  BY <1>10, <1>22 DEF w, f, B, M, N

-----------------------------------------------------------------------------
(* Every pass finds the string as the passes before it left it.            *)

LEMMA StageStep ==
  ASSUME NEW w, NEW f, NEW B, NEW M, NEW a, NEW b, NEW c, NEW d, NEW e,
         Shape(w, f, B, M, a, b, c, d, e),
         Stage(pass, cleaned, w, M, B, b, c, d, e, a),
         pass # "accepted" => form = f, [NameNext]_nameVars
  PROVE  Stage(pass', cleaned', w, M, B, b, c, d, e, a)
<1>1. CASE CutFront
  <2>1. cleaned = w /\ pass' = "connectives" /\ cleaned' = stripLeadingBoilerplate(cleaned)
    BY <1>1 DEF CutFront, Stage
  <2>2. cleaned' = SubSeq(w, a + 1, Len(w))
    BY <2>1, FrontUnwraps
  <2> QED
    BY <2>1, <2>2 DEF Stage
<1>2. CASE Connectives
  <2>1. /\ cleaned = SubSeq(w, a + 1, Len(w)) /\ pass' = "sign"
        /\ cleaned' = withoutConnectives(cleaned)
    BY <1>2 DEF Connectives, Stage
  <2>2. cleaned' = SubSeq(w, b + 1, Len(w))
    BY <2>1, ConnectivesUnwrap
  <2> QED
    BY <2>1, <2>2 DEF Stage
<1>3. CASE CopyrightSign
  <2>1. cleaned = SubSeq(w, b + 1, Len(w)) /\ pass' = "words"
    BY <1>3 DEF CopyrightSign, Stage
  <2>2. \E lo \in (c + 1)..(B + 1) :
          /\ lo = B + 1 \/ (lo <= d + 1 /\ (lo <= d => w[lo] \in Labels))
          /\ cleaned' = SubSeq(w, lo, Len(w))
    BY <1>3, <2>1, SignUnwraps
  <2> QED
    BY <2>1, <2>2 DEF Stage
<1>4. CASE PeelWord
  <2>1. pass = "words" /\ pass' = "words"
    BY <1>4 DEF PeelWord
  <2>2. PICK lo \in (c + 1)..(B + 1) :
          /\ lo = B + 1 \/ (lo <= d + 1 /\ (lo <= d => w[lo] \in Labels))
          /\ cleaned = SubSeq(w, lo, Len(w))
    BY <2>1 DEF Stage
  <2>3. \E l \in (c + 1)..(B + 1) :
          /\ l = B + 1 \/ (l <= d + 1 /\ (l <= d => w[l] \in Labels))
          /\ cleaned' = SubSeq(w, l, Len(w))
    BY <1>4, <2>2, PeelUnwraps
  <2> QED
    BY <2>1, <2>3 DEF Stage
<1>5. CASE NoWordToPeel
  <2>1. pass = "words" /\ pass' = "phrase" /\ cleaned' = cleaned /\ ~Peels
    BY <1>5 DEF NoWordToPeel
  <2>2. PICK lo \in (c + 1)..(B + 1) :
          /\ lo = B + 1 \/ (lo <= d + 1 /\ (lo <= d => w[lo] \in Labels))
          /\ cleaned = SubSeq(w, lo, Len(w))
    BY <2>1 DEF Stage
  <2>3. lo \in {d + 1, B + 1}
    BY <2>1, <2>2, WordsUnwrapped
  <2>4. \E l \in {d + 1, B + 1} : cleaned' = SubSeq(w, l, Len(w))
    BY <2>1, <2>2, <2>3
  <2> QED
    BY <2>1, <2>4 DEF Stage
<1>6. CASE Phrase
  <2>1. pass = "phrase" /\ pass' = "prose"
    BY <1>6 DEF Phrase
  <2>2. PICK lo \in {d + 1, B + 1} : cleaned = SubSeq(w, lo, Len(w))
    BY <2>1 DEF Stage
  <2>3. form = f
    BY <2>1
  <2>4. PhraseLeft(w, B, e, cleaned')
    BY <1>6, <2>2, <2>3, PhraseUnwraps
  <2> QED
    BY <2>1, <2>4 DEF Stage, PhraseLeft
<1>7. CASE Prose
  <2>1. pass = "prose" /\ pass' = "colon"
    BY <1>7 DEF Prose
  <2>2. PICK lo \in {e + 1, B + 1} : cleaned = SubSeq(w, lo, Len(w))
    BY <2>1 DEF Stage
  <2>3. ProseLeft(w, M, lo, cleaned')
    BY <1>7, <2>2, ProseUnwraps
  <2> QED
    BY <2>1, <2>3 DEF Stage, ProseLeft
<1>8. CASE Colon
  <2>1. pass = "colon"
    BY <1>8 DEF Colon
  <2>2. PICK lo \in {e + 1, B + 1}, hi \in M..Len(w) : EndsAt(w, M, hi) /\ cleaned = SubSeq(w, lo, hi)
    BY <2>1 DEF Stage
  <2>3. pass' = "again" /\ ColonLeft(w, B, hi, cleaned')
    BY <1>8, <2>2, ColonUnwraps
  <2> QED
    BY <2>2, <2>3 DEF Stage, ColonLeft
<1>9. CASE CutFrontAgain
  <2>1. /\ pass = "again" /\ pass' = "tagline"
        /\ cleaned' = stripLeadingBoilerplate(cleaned)
    BY <1>9 DEF CutFrontAgain
  <2>2. PICK lo \in 1..(B + 1), hi \in M..Len(w) :
          EndsAt(w, M, hi) /\ cleaned = SubSeq(w, lo, hi) /\ \A k \in lo..B : w[k] \in FrontTokens
    BY <2>1 DEF Stage
  <2>3. cleaned' = SubSeq(w, B + 1, hi)
    BY <2>1, <2>2, AgainUnwraps
  <2> QED
    BY <2>1, <2>2, <2>3 DEF Stage
<1>10. CASE Tagline
  <2>1. pass = "tagline" /\ pass' = "brackets"
    BY <1>10 DEF Tagline
  <2>2. PICK hi \in M..Len(w) : EndsAt(w, M, hi) /\ cleaned = SubSeq(w, B + 1, hi)
    BY <2>1 DEF Stage
  <2>3. form = f
    BY <2>1
  <2>4. \E h \in M..Len(w) :
          (h = M \/ (h = Len(w) /\ OpenTail(w, M))) /\ cleaned' = SubSeq(w, B + 1, h)
    BY <1>10, <2>2, <2>3, TaglineUnwraps
  <2> QED
    BY <2>1, <2>4 DEF Stage
<1>11. CASE Brackets
  <2>1. pass = "brackets" /\ pass' = "judge" /\ cleaned' = Trim(closeOrCutBrackets(cleaned))
    BY <1>11 DEF Brackets
  <2>2. PICK hi \in M..Len(w) :
          (hi = M \/ (hi = Len(w) /\ OpenTail(w, M))) /\ cleaned = SubSeq(w, B + 1, hi)
    BY <2>1 DEF Stage
  <2>3. cleaned' = SubSeq(w, B + 1, M)
    BY <2>1, <2>2, BracketsUnwrap
  <2> QED
    BY <2>1, <2>3 DEF Stage
<1>12. CASE Judge
  <2>1. pass = "judge" /\ pass' \in {"accepted", "refused"} /\ cleaned' = cleaned
    BY <1>12 DEF Judge
  <2>2. cleaned' = SubSeq(w, B + 1, M)
    BY <2>1 DEF Stage
  <2> QED
    BY <2>1, <2>2 DEF Stage
<1>13. CASE NameReturned \/ UNCHANGED nameVars
  <2>1. pass' = pass /\ cleaned' = cleaned
    BY <1>13 DEF NameReturned, nameVars
  <2> QED
    BY <2>1
<1> QED
  BY <1>1, <1>2, <1>3, <1>4, <1>5, <1>6, <1>7, <1>8, <1>9, <1>10, <1>11, <1>12, <1>13 DEF NameNext

(* A name or a heading, wrapped in order                                   *)
Orderly(g) ==
  /\ Comparable(g)
  /\ \/ IsName(g) /\ OneTail(g) /\ InOrder(g.before, EndsInForm(g))
     \/ IsHeading(g) /\ g.after = <<>> /\ InOrder(g.before, FALSE)

(* Whatever its parts are, they are taken off one by one; a name is then   *)
(* accepted and a heading refused.                                         *)
RecoverInv ==
  /\ \A a, b, c, d, e \in Nat :
       Shape(WholeOf(given), given.form, Len(given.before), Len(given.before) + Len(given.name),
             a, b, c, d, e) =>
         Stage(pass, cleaned, WholeOf(given), Len(given.before) + Len(given.name),
               Len(given.before), b, c, d, e, a)
  /\ Orderly(given) /\ pass = "accepted" => IsName(given)
  /\ Orderly(given) /\ pass = "refused" => IsHeading(given)

LEMMA OrderlyHasShape ==
  ASSUME NEW g \in Cut, Orderly(g)
  PROVE  \E a, b, c, d, e \in Nat :
           Shape(WholeOf(g), g.form, Len(g.before), Len(g.before) + Len(g.name), a, b, c, d, e)
<1>0. Comparable(g)
  BY DEF Orderly
<1>1. CASE IsName(g) /\ OneTail(g) /\ InOrder(g.before, EndsInForm(g))
  <2> DEFINE ended == EndsInForm(g)
  <2>2. ended => EndsInForm(g)
    OBVIOUS
  <2>3. InOrder(g.before, ended)
    BY <1>1
  <2> HIDE DEF ended
  <2> QED
    BY <1>0, <1>1, <2>2, <2>3, ShapeOf
<1>2. CASE IsHeading(g) /\ g.after = <<>> /\ InOrder(g.before, FALSE)
  <2>1. OneTail(g)
    BY <1>2 DEF OneTail
  <2> QED
    BY <1>0, <1>2, <2>1, ShapeOf
<1> QED
  BY <1>1, <1>2 DEF Orderly

LEMMA NameCutOut ==
  ASSUME NEW g \in Cut
  PROVE  SubSeq(WholeOf(g), Len(g.before) + 1, Len(g.before) + Len(g.name)) = g.name
<1> DEFINE B == Len(g.before)
           N == Len(g.name)
           A == Len(g.after)
           w == WholeOf(g)
           u == SubSeq(w, B + 1, B + N)
           v == g.name
<1>1. B \in Nat /\ N \in Nat /\ A \in Nat /\ w \in Seq(Tokens) /\ Len(w) = B + N + A
  BY WholeIs
<1>2. \A n \in 1..N : w[B + n] = v[n]
  BY WholeIs
<1>3. v \in Seq(Tokens) /\ Len(v) = N
  BY DEF Cut
<1> HIDE DEF B, N, A, w, v
<1>4. u \in Seq(Tokens) /\ Len(u) = (B + N) - (B + 1) + 1 /\ \A n \in 1..Len(u) : u[n] = w[(B + 1) + n - 1]
  <2> DEFINE lo == B + 1
             hi == B + N
  <2>1. lo \in Nat \ {0} /\ hi \in Nat /\ lo <= hi + 1 /\ hi <= Len(w)
    BY <1>1
  <2>2. u = SubSeq(w, lo, hi)
    OBVIOUS
  <2> HIDE DEF lo, hi, u
  <2>3. u \in Seq(Tokens) /\ Len(u) = hi - lo + 1 /\ \A n \in 1..Len(u) : u[n] = w[lo + n - 1]
    BY <1>1, <2>1, <2>2, PlaceIn
  <2> QED
    BY <2>3 DEF lo, hi
<1> HIDE DEF u
<1>5. Len(u) = N
  BY <1>1, <1>4
<1>6. ASSUME NEW n \in 1..Len(u) PROVE u[n] = v[n]
  <2>1. n \in 1..N /\ (B + 1) + n - 1 = B + n
    BY <1>1, <1>5
  <2> QED
    BY <1>2, <1>4, <2>1
<1>7. u = v
  BY <1>3, <1>4, <1>5, <1>6, SeqEqual
<1> QED
  BY <1>7 DEF u, v, w, B, N

(* At the end the name stands alone.                                       *)
LEMMA OrderlyIsBare ==
  ASSUME NameTypeOK, RecoverInv, Orderly(given), pass \in {"judge", "accepted", "refused"}
  PROVE  cleaned = given.name
<1>1. given \in Cut
  BY NamesAssumption DEF NameTypeOK
<1>2. PICK a \in Nat, b \in Nat, c \in Nat, d \in Nat, e \in Nat :
        Shape(WholeOf(given), given.form, Len(given.before), Len(given.before) + Len(given.name),
              a, b, c, d, e)
  BY <1>1, OrderlyHasShape
<1>3. Stage(pass, cleaned, WholeOf(given), Len(given.before) + Len(given.name),
            Len(given.before), b, c, d, e, a)
  BY <1>2 DEF RecoverInv
<1>4. cleaned = SubSeq(WholeOf(given), Len(given.before) + 1, Len(given.before) + Len(given.name))
  BY <1>3 DEF Stage
<1> QED
  BY <1>1, <1>4, NameCutOut

LEMMA RecoverInit ==
  ASSUME NameInit
  PROVE  RecoverInv
<1>1. cleaned = WholeOf(given) /\ pass = "front"
  BY DEF NameInit, WholeOf
<1> QED
  BY <1>1 DEF RecoverInv, Stage

LEMMA RecoverStep ==
  ASSUME NameTypeOK, NameTypeOK', RecoverInv, [NameNext]_nameVars
  PROVE  RecoverInv'
<1>1. given' = given /\ given \in Cut
  BY NamesAssumption DEF NameTypeOK, NameNext, nameVars, CutFront, Connectives, CopyrightSign, PeelWord,
    NoWordToPeel, Phrase, Prose, Colon, CutFrontAgain, Tagline, Brackets, Judge, NameReturned
<1> DEFINE w == WholeOf(given)
           f == given.form
           B == Len(given.before)
           M == Len(given.before) + Len(given.name)
<1>2. pass # "accepted" => form = f
  BY DEF NameTypeOK
<1>3. ASSUME NEW a \in Nat, NEW b \in Nat, NEW c \in Nat, NEW d \in Nat, NEW e \in Nat,
             Shape(w, f, B, M, a, b, c, d, e)
      PROVE  Stage(pass', cleaned', w, M, B, b, c, d, e, a)
  <2>1. Stage(pass, cleaned, w, M, B, b, c, d, e, a)
    BY <1>3 DEF RecoverInv
  <2> HIDE DEF w, f, B, M
  <2> QED
    BY <1>2, <1>3, <2>1, StageStep
<1>4. ASSUME Orderly(given)
      PROVE  (pass' = "accepted" => IsName(given)) /\ (pass' = "refused" => IsHeading(given))
  <2>1. CASE pass' = pass
    BY <1>4, <2>1 DEF RecoverInv
  <2>2. CASE pass' # pass
    <3>1. CASE Judge
      <4>1. pass = "judge" /\ (IsNoName <=> pass' = "refused") /\ pass' \in {"accepted", "refused"}
        BY <3>1 DEF Judge
      <4>2. cleaned = given.name /\ form = given.form
        BY <1>2, <1>4, <4>1, OrderlyIsBare
      <4>3. IsName(given) => ~IsNoName
        BY <1>1, <4>2, NameIsJudged
      <4>4. IsHeading(given) => IsNoName
        BY <1>1, <4>2, HeadingIsJudged
      <4>5. IsName(given) \/ IsHeading(given)
        BY <1>4 DEF Orderly
      <4> QED
        BY <4>1, <4>3, <4>4, <4>5
    <3>2. CASE Colon
      <4>1. PICK a \in Nat, b \in Nat, c \in Nat, d \in Nat, e \in Nat :
              Shape(w, f, B, M, a, b, c, d, e)
        BY <1>1, <1>4, OrderlyHasShape
      <4>2. Stage(pass, cleaned, w, M, B, b, c, d, e, a)
        BY <4>1 DEF RecoverInv
      <4>3. pass = "colon"
        BY <3>2 DEF Colon
      <4> HIDE DEF w, f, B, M
      <4>4. PICK lo \in {e + 1, B + 1}, hi \in M..Len(w) : EndsAt(w, M, hi) /\ cleaned = SubSeq(w, lo, hi)
        BY <4>2, <4>3 DEF Stage
      <4>5. pass' = "again"
        BY <3>2, <4>1, <4>4, ColonUnwraps
      <4> QED
        BY <4>5
    <3>3. CASE ~Judge /\ ~Colon
      BY <2>2, <3>3 DEF NameNext, nameVars, CutFront, Connectives, CopyrightSign, PeelWord,
        NoWordToPeel, Phrase, Prose, CutFrontAgain, Tagline, Brackets, NameReturned
    <3> QED
      BY <3>1, <3>2, <3>3
  <2> QED
    BY <2>1, <2>2
<1>5. /\ WholeOf(given)' = w /\ (given.form)' = f /\ Len(given.before)' = B
      /\ (Len(given.before) + Len(given.name))' = M
  BY <1>1
<1> QED
  BY <1>1, <1>3, <1>4 DEF RecoverInv

LEMMA RecoveredWhenBare ==
  ASSUME NameTypeOK, RecoverInv
  PROVE  NameRecovered
<1> SUFFICES ASSUME pass \in {"accepted", "refused"}, Comparable(given)
             PROVE  /\ IsName(given) /\ OneTail(given) /\ InOrder(given.before, EndsInForm(given))
                        => pass = "accepted" /\ cleaned = given.name
                    /\ IsHeading(given) /\ given.after = <<>> /\ InOrder(given.before, FALSE)
                        => pass = "refused"
  BY DEF NameRecovered
<1>1. ~(IsName(given) /\ IsHeading(given))
  <2>1. SUFFICES ASSUME IsName(given), IsHeading(given) PROVE FALSE
    OBVIOUS
  <2>2. PICK x \in Range(given.name) : x \in Plain
    BY <2>1 DEF IsName
  <2>3. x \in genericWords
    BY <2>1 DEF IsHeading
  <2> QED
    BY <2>2, <2>3, NamesAssumption DEF Sorts
<1>2. Orderly(given) => cleaned = given.name
  BY OrderlyIsBare
<1>3. Orderly(given) => (pass = "accepted" => IsName(given)) /\ (pass = "refused" => IsHeading(given))
  BY DEF RecoverInv
<1> QED
  BY <1>1, <1>2, <1>3 DEF Orderly

(* However a name was wrapped, in the order of the passes, it comes out as *)
(* it is and a heading is refused; and in no surroundings without the      *)
(* letters of a legal form is an accepted name cut short, whatever the     *)
(* words, the names and the surroundings.                                  *)
THEOREM WrappedNameSurvives == NameSpec => []NameSurvives
<1>1. NameInit => UnharmedInv /\ RecoverInv
  <2> SUFFICES ASSUME NameInit PROVE UnharmedInv /\ RecoverInv
    OBVIOUS
  <2>1. given \in Cut /\ cleaned = WholeOf(given)
    BY NamesAssumption DEF NameInit, WholeOf
  <2>2. UnharmedInv
    BY <2>1, WholeHolds DEF UnharmedInv, NameInit
  <2> QED
    BY <2>2, RecoverInit
<1>2. NameTypeOK /\ NameTypeOK' /\ UnharmedInv /\ RecoverInv /\ [NameNext]_nameVars => UnharmedInv' /\ RecoverInv'
  BY UnharmedStep, RecoverStep
<1>3. NameTypeOK /\ UnharmedInv /\ RecoverInv => NameSurvives
  BY UnharmedWhenHeld, RecoveredWhenBare DEF NameSurvives
<1> QED
  BY <1>1, <1>2, <1>3, NameTypeCorrect, PTL DEF NameSpec

-----------------------------------------------------------------------------
(* extractAddressNearEntity                                                *)

Parts == Nat \X {"of", "office", "line"}

(* No line from a to b repeats the name or starts another field.           *)
Uncut(a, b) ==
  \A k \in a..b :
    lines[k].blank \/ (lines[k].names = "not" /\ ("field" \in lines[k].marks => Aside(k)))

AddressTypeOK ==
  /\ lines \in Seq(TextLines)
  /\ mention \in 0..Len(lines)
  /\ below \in Nat
  /\ parts \in Seq(Parts)
  /\ state \in {"reading", "done"}

(* No mention before this line states anything.                            *)
NothingBefore(n) == \A m \in DOMAIN lines : NamesCompany(m) /\ m < n => Stated(m) = {}

(* These are all the parts the mention m states above line b.              *)
Collected(m, b, ps) ==
  /\ m \in DOMAIN lines /\ NamesCompany(m)
  /\ b \in (m + 1)..(Len(lines) + 1) /\ b <= m + Reach + 1
  /\ Uncut(m + 1, b - 1)
  /\ Len(ps) <= MaxParts
  /\ \A j \in DOMAIN ps :
       /\ ps[j] \in Stated(m) /\ ps[j][1] < b
       /\ \A k \in DOMAIN ps : j < k => ps[j][1] < ps[k][1]
  /\ \A a \in Stated(m) : a[1] < b => \E k \in DOMAIN ps : ps[k] = a

CollectedInv ==
  /\ state = "reading" =>
       /\ below = 0 => parts = <<>> /\ NothingBefore(mention + 1)
       /\ below # 0 => NothingBefore(mention) /\ Collected(mention, below, parts)
  /\ OneMentionsAddress

-----------------------------------------------------------------------------
(* What a mention states                                                   *)

LEMMA LineIs ==
  ASSUME AddressTypeOK, NEW m \in DOMAIN lines
  PROVE  m \in Nat /\ lines[m].inline \in SUBSET {"of", "office"}
<1>1. m \in Nat /\ lines[m] \in TextLines
  BY DEF AddressTypeOK
<1> QED
  BY <1>1, Zenon DEF TextLines

(* A mention has a clause of its own, or none.                             *)
LEMMA InlinePartsAre ==
  ASSUME AddressTypeOK, NEW m \in DOMAIN lines
  PROVE  \/ InlineParts(m) = <<>>
         \/ InlineParts(m) = <<<<m, "of">>>>
         \/ InlineParts(m) = <<<<m, "office">>>>
<1>1. lines[m].inline \in SUBSET {"of", "office"}
  BY LineIs
<1>2. "of" \in lines[m].inline \/ lines[m].inline = {"office"} \/ lines[m].inline = {}
  BY <1>1
<1> QED
  BY <1>2 DEF InlineParts

(* A part is the mention's own clause, or a line under it.                 *)
LEMMA StatedAre ==
  ASSUME AddressTypeOK, NEW m \in DOMAIN lines, NEW a
  PROVE  a \in Stated(m) <=>
           \/ InlineParts(m) = <<a>>
           \/ \E n \in Under(m) :
                a = <<n, "line">> /\ ~lines[n].blank /\ ~Aside(n) /\ looksAddressLine(n)
<1>1. a \in {InlineParts(m)[k] : k \in DOMAIN InlineParts(m)} <=> InlineParts(m) = <<a>>
  BY InlinePartsAre
<1> QED
  BY <1>1 DEF Stated

(* A line stands under a mention if none cuts it off.                      *)
LEMMA UnderIs ==
  ASSUME AddressTypeOK, NEW m \in DOMAIN lines, NEW n
  PROVE  n \in Under(m) <=> n \in (m + 1)..Len(lines) /\ n <= m + Reach /\ Uncut(m + 1, n)
<1>1. DOMAIN lines = 1..Len(lines) /\ Len(lines) \in Nat /\ m \in Nat
  BY DEF AddressTypeOK
<1>2. n \in Under(m) <=> n \in DOMAIN lines /\ m < n /\ n <= m + Reach /\ Uncut(m + 1, n)
  BY DEF Under, Uncut
<1>3. n \in DOMAIN lines /\ m < n <=> n \in (m + 1)..Len(lines)
  BY <1>1
<1> QED
  BY <1>2, <1>3

LEMMA StatedShape ==
  ASSUME AddressTypeOK, NEW m \in DOMAIN lines, NEW a \in Stated(m)
  PROVE  /\ a \in Parts /\ a[1] \in Nat
         /\ \/ a[1] = m /\ InlineParts(m) = <<a>>
            \/ a[1] > m /\ a = <<a[1], "line">> /\ a[1] \in Under(m)
<1>1. m \in Nat /\ Len(lines) \in Nat
  BY DEF AddressTypeOK
<1>2. CASE InlineParts(m) = <<a>>
  <2>1. a = <<m, "of">> \/ a = <<m, "office">>
    BY <1>2, InlinePartsAre
  <2> QED
    BY <1>1, <1>2, <2>1 DEF Parts
<1>3. CASE \E n \in Under(m) : a = <<n, "line">>
  <2>1. PICK n \in Under(m) : a = <<n, "line">>
    BY <1>3
  <2>2. n \in (m + 1)..Len(lines)
    BY UnderIs
  <2> QED
    BY <1>1, <2>1, <2>2 DEF Parts
<1> QED
  BY <1>2, <1>3, StatedAre, Zenon

LEMMA SameLines ==
  ASSUME lines' = lines, NEW m, NEW n
  PROVE  /\ Stated(m)' = Stated(m)
         /\ NamesCompany(m)' = NamesCompany(m)
         /\ Uncut(m, n)' = Uncut(m, n)
         /\ NothingBefore(n)' = NothingBefore(n)
BY DEF Stated, InlineParts, Under, Aside, looksAddressLine, NamesCompany, Uncut, NothingBefore

(* What has been collected depends on nothing but the text.                *)
LEMMA CollectedNext ==
  ASSUME lines' = lines, NEW m, NEW b, NEW ps, m = mention', b = below', ps = parts',
         Collected(m, b, ps)
  PROVE  Collected(mention, below, parts)'
<1>1. Stated(mention)' = Stated(m)
  BY DEF Stated, InlineParts, Under, Aside, looksAddressLine
<1>2. NamesCompany(mention)' = NamesCompany(m)
  BY DEF NamesCompany
<1>3. Uncut(mention + 1, below - 1)' = Uncut(m + 1, b - 1)
  BY DEF Uncut, Aside
<1> QED
  BY <1>1, <1>2, <1>3 DEF Collected

LEMMA NothingBeforeNext ==
  ASSUME lines' = lines, NEW n, NothingBefore(n)
  PROVE  /\ n = mention' => NothingBefore(mention)'
         /\ n = mention' + 1 => NothingBefore(mention + 1)'
<1>1. \A m \in DOMAIN lines : (NamesCompany(m) /\ m < n => Stated(m) = {})'
  <2>1. ASSUME NEW m \in DOMAIN lines PROVE (NamesCompany(m) /\ m < n => Stated(m) = {})'
    <3>1. Stated(m)' = Stated(m) /\ NamesCompany(m)' = NamesCompany(m)
      BY SameLines
    <3> QED
      BY <3>1 DEF NothingBefore
  <2> QED
    BY <2>1
<1> QED
  BY <1>1 DEF NothingBefore

-----------------------------------------------------------------------------
(* The steps                                                               *)

(* At a mention its own clause is all it states so far.                    *)
LEMMA MentionCollected ==
  ASSUME AddressTypeOK, NEW m \in DOMAIN lines, NamesCompany(m)
  PROVE  Collected(m, m + 1, InlineParts(m)) /\ InlineParts(m) \in Seq(Parts)
<1>1. m \in 1..Len(lines) /\ m \in Nat /\ Len(lines) \in Nat
  BY DEF AddressTypeOK
<1>2. MaxParts \in Nat \ {0} /\ Reach \in Nat
  BY AddressAssumption
<1>3. InlineParts(m) = <<>> \/ \E a \in Parts : InlineParts(m) = <<a>> /\ a[1] = m
  <2>1. <<m, "of">> \in Parts /\ <<m, "office">> \in Parts
    BY <1>1 DEF Parts
  <2> QED
    BY <2>1, InlinePartsAre
<1>4. InlineParts(m) \in Seq(Parts) /\ Len(InlineParts(m)) <= MaxParts
  <2>1. CASE InlineParts(m) = <<>>
    BY <1>2, <2>1
  <2>2. CASE \E a \in Parts : InlineParts(m) = <<a>>
    <3>1. PICK a \in Parts : InlineParts(m) = <<a>>
      BY <2>2
    <3>2. <<a>> \in Seq(Parts) /\ Len(<<a>>) = 1
      OBVIOUS
    <3> QED
      BY <1>2, <3>1, <3>2
  <2> QED
    BY <1>3, <2>1, <2>2
<1>5. ASSUME NEW j \in DOMAIN InlineParts(m)
      PROVE  /\ InlineParts(m)[j] \in Stated(m) /\ InlineParts(m)[j][1] < m + 1
             /\ \A k \in DOMAIN InlineParts(m) : ~(j < k)
  <2>1. PICK a \in Parts : InlineParts(m) = <<a>> /\ a[1] = m
    BY <1>3, <1>5
  <2>2. a \in Stated(m)
    BY <2>1, StatedAre
  <2>3. j = 1 /\ DOMAIN InlineParts(m) = {1} /\ InlineParts(m)[1] = a
    BY <1>5, <2>1
  <2> QED
    BY <1>1, <2>1, <2>2, <2>3
<1>6. ASSUME NEW a \in Stated(m), a[1] < m + 1 PROVE \E k \in DOMAIN InlineParts(m) : InlineParts(m)[k] = a
  <2>1. InlineParts(m) = <<a>>
    BY <1>1, <1>6, StatedShape
  <2> QED
    BY <2>1
<1>7. Uncut(m + 1, (m + 1) - 1)
  BY <1>1 DEF Uncut
<1>8. m + 1 \in (m + 1)..(Len(lines) + 1) /\ m + 1 <= m + Reach + 1
  BY <1>1, <1>2
<1> QED
  BY <1>4, <1>5, <1>6, <1>7, <1>8 DEF Collected

(* A line that does not cut the mention off, with its part if it has one.  *)
LEMMA LineCollected ==
  ASSUME AddressTypeOK, Collected(mention, below, parts), InReach,
         lines[below].blank \/ ~(RepeatsName(below) \/ StopsHere(below)),
         NEW ps, ps = IF lines[below].blank \/ Aside(below) \/ ~looksAddressLine(below) THEN parts
                      ELSE Append(parts, <<below, "line">>)
  PROVE  Collected(mention, below + 1, ps) /\ ps \in Seq(Parts)
<1>1. /\ mention \in DOMAIN lines /\ mention \in Nat /\ below \in Nat /\ Len(lines) \in Nat
      /\ below \in (mention + 1)..Len(lines) /\ below <= mention + Reach
      /\ parts \in Seq(Parts) /\ Len(parts) \in Nat /\ Len(parts) < MaxParts
      /\ NamesCompany(mention)
  BY DEF AddressTypeOK, Collected, InReach
<1>2. MaxParts \in Nat \ {0} /\ Reach \in Nat
  BY AddressAssumption
<1>3. Uncut(mention + 1, below)
  <2>1. Uncut(mention + 1, below - 1)
    BY DEF Collected
  <2>2. lines[below].blank \/ (lines[below].names = "not" /\ ("field" \in lines[below].marks => Aside(below)))
    BY Zenon DEF RepeatsName, StopsHere
  <2>3. ASSUME NEW k \in (mention + 1)..below
        PROVE  lines[k].blank \/ (lines[k].names = "not" /\ ("field" \in lines[k].marks => Aside(k)))
    <3>1. CASE k = below
      BY <2>2, <3>1
    <3>2. CASE k # below
      <4>1. k \in (mention + 1)..(below - 1)
        BY <1>1, <3>2
      <4> QED
        BY <2>1, <4>1, Zenon DEF Uncut
    <3> QED
      BY <3>1, <3>2
  <2> QED
    BY <2>3, Zenon DEF Uncut
<1>4. below \in Under(mention)
  BY <1>1, <1>3, UnderIs
<1>5. /\ below + 1 \in (mention + 1)..(Len(lines) + 1) /\ below + 1 <= mention + Reach + 1
      /\ (below + 1) - 1 = below
  BY <1>1, <1>2
<1>6. ASSUME NEW j \in DOMAIN parts
      PROVE  /\ parts[j] \in Stated(mention) /\ parts[j] \in Parts
             /\ parts[j][1] < below /\ parts[j][1] \in Nat
             /\ \A k \in DOMAIN parts : j < k => parts[j][1] < parts[k][1]
  <2>1. /\ parts[j] \in Stated(mention) /\ parts[j][1] < below
        /\ \A k \in DOMAIN parts : j < k => parts[j][1] < parts[k][1]
    BY Zenon DEF Collected
  <2> QED
    BY <1>1, <2>1, StatedShape
<1>7. \A a \in Stated(mention) : a[1] < below => \E k \in DOMAIN parts : parts[k] = a
  BY Zenon DEF Collected
<1>8. ASSUME NEW a \in Stated(mention), a[1] < below + 1, ~(a[1] < below)
      PROVE  /\ a = <<below, "line">>
             /\ ~(lines[below].blank \/ Aside(below) \/ ~looksAddressLine(below))
  <2>1. a[1] \in Nat /\ (a[1] = mention \/ a = <<a[1], "line">>)
    BY <1>1, StatedShape
  <2>2. a[1] = below
    BY <1>1, <1>8, <2>1
  <2>3. a = <<below, "line">>
    BY <1>1, <2>1, <2>2
  <2>4. InlineParts(mention) # <<a>>
    <3>1. ASSUME InlineParts(mention) = <<a>> PROVE a[1] = mention
      <4>1. \/ InlineParts(mention) = <<>>
            \/ InlineParts(mention) = <<<<mention, "of">>>>
            \/ InlineParts(mention) = <<<<mention, "office">>>>
        BY <1>1, InlinePartsAre
      <4>2. a = <<mention, "of">> \/ a = <<mention, "office">>
        BY <3>1, <4>1
      <4> QED
        BY <4>2
    <3> QED
      BY <1>1, <2>2, <3>1
  <2>5. PICK n \in Under(mention) :
           a = <<n, "line">> /\ ~lines[n].blank /\ ~Aside(n) /\ looksAddressLine(n)
    BY <1>1, <2>4, StatedAre, Zenon
  <2>6. n = below
    BY <2>3, <2>5
  <2> QED
    BY <2>3, <2>5, <2>6
<1>9. CASE lines[below].blank \/ Aside(below) \/ ~looksAddressLine(below)
  <2>1. ps = parts
    BY <1>9
  <2>2. \A a \in Stated(mention) : a[1] < below + 1 => \E k \in DOMAIN ps : ps[k] = a
    BY <1>7, <1>8, <1>9, <2>1
  <2>3. \A j \in DOMAIN ps : ps[j][1] < below + 1
    BY <1>1, <1>6, <2>1
  <2>4. \A j \in DOMAIN ps :
          /\ ps[j] \in Stated(mention)
          /\ \A k \in DOMAIN ps : j < k => ps[j][1] < ps[k][1]
    BY <1>6, <2>1
  <2>5. Len(ps) <= MaxParts /\ ps \in Seq(Parts)
    BY <1>1, <1>2, <2>1
  <2> QED
    BY <1>1, <1>3, <1>5, <2>2, <2>3, <2>4, <2>5, Zenon DEF Collected
<1>10. CASE ~(lines[below].blank \/ Aside(below) \/ ~looksAddressLine(below))
  <2> DEFINE p == <<below, "line">>
  <2>1. ps = Append(parts, p)
    BY <1>10
  <2>2. p \in Parts /\ p \in Stated(mention) /\ p[1] = below
    BY <1>1, <1>4, <1>10, StatedAre DEF Parts
  <2> HIDE DEF p
  <2>3. /\ ps \in Seq(Parts) /\ Len(ps) = Len(parts) + 1 /\ DOMAIN ps = 1..(Len(parts) + 1)
        /\ DOMAIN parts = 1..Len(parts) /\ ps[Len(parts) + 1] = p
        /\ \A j \in DOMAIN parts : ps[j] = parts[j]
    <3>1. parts \in Seq(Parts) /\ p \in Parts
      BY <1>1, <2>2
    <3>2. /\ Append(parts, p) \in Seq(Parts) /\ Len(Append(parts, p)) = Len(parts) + 1
          /\ \A j \in 1..Len(parts) : Append(parts, p)[j] = parts[j]
          /\ Append(parts, p)[Len(parts) + 1] = p
      BY <3>1, AppendProperties
    <3>3. DOMAIN parts = 1..Len(parts) /\ DOMAIN ps = 1..Len(ps)
      BY <2>1, <3>1, <3>2, LenProperties
    <3> QED
      BY <2>1, <3>2, <3>3
  <2>4. ASSUME NEW j \in DOMAIN ps
        PROVE  j \in DOMAIN parts \/ (j = Len(parts) + 1 /\ ps[j] = p)
    BY <1>1, <2>3
  <2>5. ASSUME NEW j \in DOMAIN ps
        PROVE  /\ ps[j] \in Stated(mention) /\ ps[j][1] < below + 1
               /\ \A k \in DOMAIN ps : j < k => ps[j][1] < ps[k][1]
    <3>1. CASE j \in DOMAIN parts
      <4>1. ps[j] = parts[j]
        BY <2>3, <3>1
      <4>2. ps[j] \in Stated(mention) /\ ps[j][1] < below /\ ps[j][1] \in Nat
        BY <1>6, <3>1, <4>1
      <4>3. ASSUME NEW k \in DOMAIN ps, j < k PROVE ps[j][1] < ps[k][1]
        <5>1. CASE k \in DOMAIN parts
          BY <1>6, <2>3, <3>1, <4>1, <4>3, <5>1
        <5>2. CASE ps[k] = p
          BY <2>2, <4>2, <5>2
        <5> QED
          BY <2>4, <5>1, <5>2
      <4>4. ps[j][1] < below + 1
        BY <1>1, <4>2
      <4> QED
        BY <4>2, <4>3, <4>4, Zenon
    <3>2. CASE j = Len(parts) + 1 /\ ps[j] = p
      <4>1. \A k \in DOMAIN ps : ~(j < k)
        BY <1>1, <2>3, <3>2
      <4>2. ps[j] \in Stated(mention) /\ ps[j][1] = below
        BY <2>2, <3>2, Zenon
      <4>3. ps[j][1] < below + 1
        BY <1>1, <4>2
      <4> QED
        BY <4>1, <4>2, <4>3, Zenon
    <3> QED
      BY <2>4, <3>1, <3>2
  <2>6. ASSUME NEW a \in Stated(mention), a[1] < below + 1
        PROVE  \E k \in DOMAIN ps : ps[k] = a
    <3>1. CASE a[1] < below
      <4>1. PICK k \in DOMAIN parts : parts[k] = a
        BY <1>7, <3>1
      <4>2. k \in DOMAIN ps /\ ps[k] = a
        BY <1>1, <2>3, <4>1
      <4> QED
        BY <4>2
    <3>2. CASE ~(a[1] < below)
      <4>1. a = p
        BY <1>8, <2>6, <3>2 DEF p
      <4>2. Len(parts) + 1 \in DOMAIN ps
        BY <1>1, <2>3
      <4> QED
        BY <2>3, <4>1, <4>2
    <3> QED
      BY <3>1, <3>2
  <2>7. Len(ps) <= MaxParts
    BY <1>1, <1>2, <2>3
  <2> QED
    BY <1>1, <1>3, <1>5, <2>3, <2>5, <2>6, <2>7, Zenon DEF Collected
<1> QED
  BY <1>9, <1>10

(* Where reading ends below a mention, nothing that it still states would  *)
(* have been collected.                                                    *)
LEMMA EndIsReached ==
  ASSUME AddressTypeOK, Collected(mention, below, parts),
         InReach => ~lines[below].blank /\ (RepeatsName(below) \/ StopsHere(below)),
         NEW a \in Stated(mention), ~(a[1] < below)
  PROVE  Len(parts) = MaxParts
<1>1. /\ mention \in DOMAIN lines /\ mention \in Nat /\ below \in Nat /\ Len(lines) \in Nat
      /\ below \in (mention + 1)..(Len(lines) + 1)
      /\ Len(parts) \in Nat /\ Len(parts) <= MaxParts
  BY DEF AddressTypeOK, Collected
<1>2. MaxParts \in Nat /\ Reach \in Nat
  BY AddressAssumption
<1>3. a[1] \in Nat /\ a[1] \in Under(mention)
  BY <1>1, StatedShape
<1>4. a[1] \in (mention + 1)..Len(lines) /\ a[1] <= mention + Reach /\ Uncut(mention + 1, a[1])
  BY <1>1, <1>3, UnderIs
<1>5. below \in (mention + 1)..a[1]
  BY <1>1, <1>4
<1>6. lines[below].blank \/ (lines[below].names = "not" /\ ("field" \in lines[below].marks => Aside(below)))
  BY <1>4, <1>5, Zenon DEF Uncut
<1>7. ~InReach
  BY <1>6, Zenon DEF RepeatsName, StopsHere
<1> QED
  BY <1>1, <1>2, <1>3, <1>4, <1>7 DEF InReach

(* The search ends with the text and the parts it has.                     *)
LEMMA AnswerNext ==
  ASSUME lines' = lines, parts' = parts,
         LET stating == {m \in DOMAIN lines : NamesCompany(m) /\ Stated(m) # {}}
         IN  IF stating = {} THEN parts = <<>>
             ELSE \E m \in stating : (\A o \in stating : m <= o) /\ AddressOf(parts, m)
  PROVE  OneMentionsAddress'
<1> DEFINE S == {m \in DOMAIN lines : NamesCompany(m) /\ Stated(m) # {}}
<1>1. S' = S
  <2>1. ASSUME NEW m PROVE Stated(m)' = Stated(m) /\ NamesCompany(m)' = NamesCompany(m)
    BY SameLines
  <2> QED
    BY <2>1
<1>2. ASSUME NEW m PROVE AddressOf(parts, m)' <=> AddressOf(parts, m)
  <2>1. Stated(m)' = Stated(m)
    BY SameLines
  <2> QED
    BY <2>1 DEF AddressOf
<1>3. IF S = {} THEN parts = <<>> ELSE \E m \in S : (\A o \in S : m <= o) /\ AddressOf(parts, m)
  OBVIOUS
<1> HIDE DEF S
<1>4. (IF S = {} THEN parts = <<>> ELSE \E m \in S : (\A o \in S : m <= o) /\ AddressOf(parts, m))'
  BY <1>1, <1>2, <1>3
<1> QED
  BY <1>4 DEF OneMentionsAddress, S

LEMMA NextMentionKeeps ==
  ASSUME AddressTypeOK, CollectedInv, NextMention
  PROVE  AddressTypeOK' /\ CollectedInv'
<1> DEFINE later == {n \in DOMAIN lines : n > mention /\ NamesCompany(n)}
<1>1. /\ state = "reading" /\ below = 0 /\ lines' = lines
      /\ parts = <<>> /\ NothingBefore(mention + 1)
  BY DEF NextMention, CollectedInv
<1>2. mention \in Nat /\ Len(lines) \in Nat /\ DOMAIN lines = 1..Len(lines)
  BY DEF AddressTypeOK
<1>3. CASE later # {}
  <2> later \in SUBSET Nat
    BY <1>2
  <2>1. PICK m \in later : \A n \in later : m <= n
    <3> HIDE DEF later
    <3> QED
      BY <1>3, LeastExists
  <2>2. /\ mention' = Min(later) /\ below' = Min(later) + 1
        /\ parts' = InlineParts(Min(later)) /\ state' = "reading"
    BY <1>1, <1>3 DEF NextMention
  <2>3. Min(later) = m
    BY <1>2, <2>1, MinIsLeast
  <2>4. m \in DOMAIN lines /\ m > mention /\ NamesCompany(m) /\ m \in Nat
    BY <1>2, <2>1
  <2>5. Collected(m, m + 1, InlineParts(m)) /\ InlineParts(m) \in Seq(Parts)
    BY <2>4, MentionCollected
  <2>6. Collected(mention, below, parts)'
    <3>1. m = mention' /\ m + 1 = below' /\ InlineParts(m) = parts'
      BY <2>2, <2>3
    <3> HIDE DEF later
    <3> DEFINE b == m + 1
    <3> DEFINE ps == InlineParts(m)
    <3>2. m = mention' /\ b = below' /\ ps = parts' /\ Collected(m, b, ps)
      BY <2>5, <3>1
    <3> HIDE DEF b, ps
    <3> QED
      BY <1>1, <3>2, CollectedNext
  <2>7. NothingBefore(m)
    <3>1. ASSUME NEW k \in DOMAIN lines, NamesCompany(k), k < m PROVE Stated(k) = {}
      <4>1. ~(k > mention)
        BY <1>2, <2>1, <2>4, <3>1
      <4>2. k < mention + 1
        BY <1>2, <4>1
      <4> QED
        BY <1>1, <3>1, <4>2 DEF NothingBefore
    <3> QED
      BY <3>1 DEF NothingBefore
  <2>8. NothingBefore(mention)'
    <3>1. NothingBefore(m)' = NothingBefore(m) /\ mention' = m
      BY <1>1, <2>2, <2>3, SameLines
    <3> QED
      BY <2>7, <3>1 DEF NothingBefore
  <2>9. AddressTypeOK'
    BY <1>1, <1>2, <2>2, <2>3, <2>4, <2>5 DEF AddressTypeOK
  <2> QED
    BY <2>2, <2>3, <2>4, <2>6, <2>8, <2>9 DEF CollectedInv, OneMentionsAddress
<1>4. CASE later = {}
  <2>1. state' = "done" /\ UNCHANGED <<mention, below, parts>>
    BY <1>1, <1>4 DEF NextMention
  <2>2. ASSUME NEW m \in DOMAIN lines, NamesCompany(m) PROVE Stated(m) = {}
    <3>1. m < mention + 1
      BY <1>2, <1>4, <2>2
    <3> QED
      BY <1>1, <2>2, <3>1 DEF NothingBefore
  <2>3. {m \in DOMAIN lines : NamesCompany(m) /\ Stated(m) # {}} = {}
    BY <2>2
  <2>4. OneMentionsAddress'
    BY <1>1, <2>1, <2>3, AnswerNext
  <2>5. AddressTypeOK'
    BY <1>1, <2>1 DEF AddressTypeOK
  <2> QED
    BY <2>1, <2>4, <2>5 DEF CollectedInv
<1> QED
  BY <1>3, <1>4

LEMMA ReadLineKeeps ==
  ASSUME AddressTypeOK, CollectedInv, ReadLine
  PROVE  AddressTypeOK' /\ CollectedInv'
<1>1. /\ state = "reading" /\ below # 0 /\ InReach
      /\ lines[below].blank \/ ~(RepeatsName(below) \/ StopsHere(below))
      /\ lines' = lines /\ mention' = mention /\ state' = state /\ below' = below + 1
      /\ NothingBefore(mention) /\ Collected(mention, below, parts)
  BY DEF ReadLine, CollectedInv
<1>2. PICK ps : ps = IF lines[below].blank \/ Aside(below) \/ ~looksAddressLine(below) THEN parts
                     ELSE Append(parts, <<below, "line">>)
  OBVIOUS
<1>3. parts' = ps
  BY <1>2 DEF ReadLine
<1>4. Collected(mention, below + 1, ps) /\ ps \in Seq(Parts)
  BY <1>1, <1>2, LineCollected
<1>5. Collected(mention, below, parts)'
  <2>1. PICK m, b : m = mention' /\ b = below'
    OBVIOUS
  <2>2. Collected(m, b, ps)
    BY <1>1, <1>4, <2>1
  <2> QED
    BY <1>1, <1>3, <2>1, <2>2, CollectedNext
<1>6. NothingBefore(mention)'
  <2>1. PICK m : m = mention'
    OBVIOUS
  <2> QED
    BY <1>1, <2>1, NothingBeforeNext
<1>7. below + 1 # 0 /\ below + 1 \in Nat
  BY DEF AddressTypeOK
<1>8. AddressTypeOK'
  BY <1>1, <1>3, <1>4, <1>7 DEF AddressTypeOK
<1> QED
  BY <1>1, <1>5, <1>6, <1>7, <1>8 DEF CollectedInv, OneMentionsAddress

LEMMA EndOfMentionKeeps ==
  ASSUME AddressTypeOK, CollectedInv, EndOfMention
  PROVE  AddressTypeOK' /\ CollectedInv'
<1>1. /\ state = "reading" /\ below # 0
      /\ InReach => ~lines[below].blank /\ (RepeatsName(below) \/ StopsHere(below))
      /\ below' = 0 /\ lines' = lines /\ mention' = mention /\ parts' = parts
      /\ state' = IF parts = <<>> THEN "reading" ELSE "done"
      /\ NothingBefore(mention) /\ Collected(mention, below, parts)
  BY DEF EndOfMention, CollectedInv
<1>2. /\ mention \in DOMAIN lines /\ mention \in Nat /\ below \in Nat /\ Len(lines) \in Nat
      /\ parts \in Seq(Parts) /\ Len(parts) \in Nat /\ Len(parts) <= MaxParts
      /\ DOMAIN parts = 1..Len(parts) /\ DOMAIN lines = 1..Len(lines)
      /\ NamesCompany(mention) /\ below > mention
  BY <1>1 DEF AddressTypeOK, Collected
<1>3. MaxParts \in Nat \ {0}
  BY AddressAssumption
<1>4. AddressTypeOK'
  BY <1>1 DEF AddressTypeOK
<1>5. \A a \in Stated(mention) : ~(a[1] < below) => Len(parts) = MaxParts
  BY <1>1, EndIsReached
<1>6. \A a \in Stated(mention) : a[1] < below => \E k \in DOMAIN parts : parts[k] = a
  BY <1>1, Zenon DEF Collected
<1>7. CASE parts = <<>>
  <2>1. Stated(mention) = {}
    BY <1>3, <1>5, <1>6, <1>7
  <2>2. NothingBefore(mention + 1)
    <3>1. ASSUME NEW m \in DOMAIN lines, NamesCompany(m), m < mention + 1 PROVE Stated(m) = {}
      <4>1. m < mention \/ m = mention
        BY <1>2, <3>1
      <4> QED
        BY <1>1, <2>1, <3>1, <4>1 DEF NothingBefore
    <3> QED
      BY <3>1 DEF NothingBefore
  <2>3. NothingBefore(mention + 1)'
    <3>1. PICK n : n = mention' + 1
      OBVIOUS
    <3>2. NothingBefore(n)
      BY <1>1, <2>2, <3>1
    <3> QED
      BY <1>1, <3>1, <3>2, NothingBeforeNext
  <2> QED
    BY <1>1, <1>4, <1>7, <2>3 DEF CollectedInv, OneMentionsAddress
<1>8. CASE parts # <<>>
  <2> DEFINE stating == {m \in DOMAIN lines : NamesCompany(m) /\ Stated(m) # {}}
  <2>1. \A j \in DOMAIN parts :
          /\ parts[j] \in Stated(mention) /\ parts[j][1] < below
          /\ \A k \in DOMAIN parts : j < k => parts[j][1] < parts[k][1]
    BY <1>1, Zenon DEF Collected
  <2>2. Len(parts) \in DOMAIN parts
    BY <1>2, <1>8
  <2>3. mention \in stating
    BY <1>2, <2>1, <2>2
  <2>4. \A o \in stating : mention <= o
    BY <1>1, <1>2 DEF NothingBefore
  <2>5. ASSUME NEW a \in Stated(mention)
        PROVE  (\E k \in DOMAIN parts : parts[k] = a)
               \/ (Len(parts) = MaxParts /\ parts[MaxParts][1] < a[1])
    <3>1. CASE a[1] < below
      BY <1>6, <3>1
    <3>2. CASE ~(a[1] < below)
      <4>1. Len(parts) = MaxParts
        BY <1>5, <3>2
      <4>2. parts[MaxParts][1] < below /\ parts[MaxParts] \in Stated(mention)
        BY <2>1, <2>2, <4>1
      <4>3. parts[MaxParts][1] \in Nat /\ a[1] \in Nat
        BY <1>2, <4>2, StatedShape
      <4> QED
        BY <1>2, <3>2, <4>1, <4>2, <4>3
    <3> QED
      BY <3>1, <3>2
  <2>6. AddressOf(parts, mention)
    BY <1>2, <2>1, <2>5, Zenon DEF AddressOf
  <2>7. IF stating = {} THEN parts = <<>>
        ELSE \E m \in stating : (\A o \in stating : m <= o) /\ AddressOf(parts, m)
    <3> HIDE DEF stating
    <3> QED
      BY <2>3, <2>4, <2>6
  <2>8. OneMentionsAddress'
    BY <1>1, <2>7, AnswerNext
  <2> QED
    BY <1>1, <1>4, <1>8, <2>8 DEF CollectedInv
<1> QED
  BY <1>7, <1>8

-----------------------------------------------------------------------------
(* What has been collected is, in every state, what the mention states as  *)
(* far as it was read.                                                     *)
THEOREM AddressIsCollected == AddressSpec => [](AddressTypeOK /\ CollectedInv)
<1>1. AddressInit => AddressTypeOK /\ CollectedInv
  <2> SUFFICES ASSUME AddressInit PROVE AddressTypeOK /\ CollectedInv
    OBVIOUS
  <2>1. AddressTypeOK
    BY AddressAssumption DEF AddressInit, AddressTypeOK
  <2>2. NothingBefore(mention + 1)
    BY <2>1 DEF AddressInit, AddressTypeOK, NothingBefore
  <2> QED
    BY <2>1, <2>2 DEF AddressInit, CollectedInv, OneMentionsAddress
<1>2. ASSUME AddressTypeOK, CollectedInv, [AddressNext]_addressVars
      PROVE  AddressTypeOK' /\ CollectedInv'
  <2>1. CASE NextMention
    BY <1>2, <2>1, NextMentionKeeps
  <2>2. CASE ReadLine
    BY <1>2, <2>2, ReadLineKeeps
  <2>3. CASE EndOfMention
    BY <1>2, <2>3, EndOfMentionKeeps
  <2>4. CASE UNCHANGED addressVars
    <3>1. /\ lines' = lines /\ mention' = mention /\ below' = below
          /\ parts' = parts /\ state' = state
      BY <2>4 DEF addressVars
    <3>2. AddressTypeOK'
      BY <1>2, <3>1 DEF AddressTypeOK
    <3>3. state = "done" => OneMentionsAddress'
      <4>1. ASSUME state = "done" PROVE OneMentionsAddress'
        BY <1>2, <3>1, <4>1, AnswerNext DEF CollectedInv, OneMentionsAddress
      <4> QED
        BY <4>1
    <3>4. state = "reading" => CollectedInv'
      <4>1. ASSUME state = "reading", below = 0 PROVE NothingBefore(mention + 1)'
        <5>1. PICK n : n = mention' + 1
          OBVIOUS
        <5>2. NothingBefore(n)
          BY <1>2, <3>1, <4>1, <5>1 DEF CollectedInv
        <5> QED
          BY <3>1, <5>1, <5>2, NothingBeforeNext
      <4>2. ASSUME state = "reading", below # 0
            PROVE  NothingBefore(mention)' /\ Collected(mention, below, parts)'
        <5>1. NothingBefore(mention) /\ Collected(mention, below, parts)
          BY <1>2, <4>2 DEF CollectedInv
        <5>2. NothingBefore(mention)'
          <6>1. PICK n : n = mention'
            OBVIOUS
          <6> QED
            BY <3>1, <5>1, <6>1, NothingBeforeNext
        <5>3. PICK m, b, ps : m = mention' /\ b = below' /\ ps = parts'
          OBVIOUS
        <5>4. Collected(m, b, ps)
          BY <3>1, <5>1, <5>3
        <5> QED
          BY <3>1, <5>2, <5>3, <5>4, CollectedNext
      <4> QED
        BY <1>2, <3>1, <4>1, <4>2 DEF CollectedInv, OneMentionsAddress
    <3> QED
      BY <1>2, <3>1, <3>2, <3>3, <3>4 DEF CollectedInv, AddressTypeOK
  <2> QED
    BY <1>2, <2>1, <2>2, <2>3, <2>4 DEF AddressNext, Returned
<1> QED
  BY <1>1, <1>2, PTL DEF AddressSpec

(* An address is all of what one mention of the company states, in the     *)
(* order of the page, the first mention that states any gives it, and      *)
(* there is none only if no mention states any, whatever the text, however *)
(* far below a mention lines are read and however many an address has.     *)
THEOREM AddressIsOneMentions == AddressSpec => []OneMentionsAddress
<1>1. CollectedInv => OneMentionsAddress
  BY DEF CollectedInv
<1> QED
  BY <1>1, AddressIsCollected, PTL

=============================================================================
