-------------------------- MODULE NameOnLineProofs --------------------------
(***************************************************************************)
(* A company named on a line of an imprint is found under its whole name,  *)
(* for any words, any line and any window.                                 *)
(*                                                                         *)
(* A pass only takes words off the left of the candidate, so a candidate   *)
(* is told by the place at which it begins in what is written up to the    *)
(* form (upTo).  First each pass is described by the place it leads to;    *)
(* then one invariant says of that place what the passes so far have done: *)
(* the name is not cut (Whole), no conjunction is left that joins (Apart), *)
(* and of the parts that introduce the name those whose pass is over are   *)
(* gone (Passed).                                                          *)
(***************************************************************************)
EXTENDS NameOnLine, SequenceTheorems, FiniteSetTheorems, WellFoundedInduction, TLAPS

LineWords == Capitals \cup Smalls \cup lineSigns

-----------------------------------------------------------------------------
(* The least and the greatest of a set of numbers                          *)

LEMMA LeastExists ==
  ASSUME NEW S \in SUBSET Nat, S # {}
  PROVE  \E m \in S : \A n \in S : m <= n
<1> DEFINE R == {ss \in Nat \X Nat : ss[1] < ss[2]}
<1>1. R = OpToRel(<, Nat)
  BY DEF OpToRel
<1>2. IsWellFoundedOn(R, Nat)
  BY <1>1, NatLessThanWellFounded
<1> HIDE DEF R
<1>3. PICK m \in S : \A n \in S : ~(<<n, m>> \in R)
  BY <1>2, WFMin
<1>4. ASSUME NEW n \in S PROVE m <= n
  <2>1. m \in Nat /\ n \in Nat
    OBVIOUS
  <2>2. n < m => <<n, m>> \in R
    BY <2>1 DEF R
  <2> QED
    BY <1>3, <2>1, <2>2
<1> QED
  BY <1>4

LEMMA MinIn ==
  ASSUME NEW P \in SUBSET Nat, P # {}
  PROVE  Min(P) \in P /\ \A n \in P : Min(P) <= n
<1>1. \E m \in P : \A n \in P : m <= n
  BY LeastExists
<1> QED
  BY <1>1, Zenon DEF Min

LEMMA MaxIn ==
  ASSUME NEW P \in SUBSET Nat, P # {}, NEW top \in Nat, \A n \in P : n <= top
  PROVE  Max(P) \in P /\ \A n \in P : n <= Max(P)
<1> DEFINE Q == {n \in Nat : \A k \in P : k <= n}
<1>1. top \in Q /\ Q \in SUBSET Nat
  OBVIOUS
<1> HIDE DEF Q
<1>2. PICK m \in Q : \A n \in Q : m <= n
  BY <1>1, LeastExists
<1>3. m \in Nat /\ \A k \in P : k <= m
  BY DEF Q
<1>4. m \in P
  <2>1. SUFFICES ASSUME m \notin P PROVE FALSE
    OBVIOUS
  <2>2. PICK k \in P : TRUE
    OBVIOUS
  <2>3. k \in Nat /\ k <= m /\ k # m
    BY <1>3, <2>1
  <2>4. m - 1 \in Nat /\ \A j \in P : j <= m - 1
    BY <1>3, <2>1, <2>3
  <2>5. m - 1 \in Q
    BY <2>4 DEF Q
  <2> QED
    BY <1>2, <1>3, <2>5
<1>5. \A n \in P : m >= n
  BY <1>3
<1>6. Max(P) \in P /\ \A n \in P : Max(P) >= n
  BY <1>4, <1>5, Zenon DEF Max
<1> QED
  BY <1>6

-----------------------------------------------------------------------------
(* The rest of a string                                                    *)

LEMMA PieceOf ==
  ASSUME NEW S, NEW w \in Seq(S), NEW lo \in Nat \ {0}, NEW hi \in Nat, lo <= hi + 1, hi <= Len(w)
  PROVE  /\ SubSeq(w, lo, hi) \in Seq(S)
         /\ Len(SubSeq(w, lo, hi)) = hi - lo + 1
         /\ \A n \in 1..(hi - lo + 1) : SubSeq(w, lo, hi)[n] = w[lo + n - 1]
<1>1. \A n \in lo..hi : w[n] \in S
  OBVIOUS
<1>2. lo \in Int /\ hi \in Int
  OBVIOUS
<1> QED
  BY <1>1, <1>2, SubSeqProperties

LEMMA RestOf ==
  ASSUME NEW S, NEW t \in Seq(S), NEW k \in 1..(Len(t) + 1)
  PROVE  /\ Rest(t, k) \in Seq(S)
         /\ Len(Rest(t, k)) = Len(t) - k + 1
         /\ \A n \in 1..(Len(t) - k + 1) : Rest(t, k)[n] = t[k + n - 1]
<1>1. Len(t) \in Nat /\ k \in Nat \ {0} /\ k <= Len(t) + 1
  OBVIOUS
<1> QED
  BY <1>1, PieceOf DEF Rest

LEMMA RestOfRest ==
  ASSUME NEW S, NEW t \in Seq(S), NEW k \in 1..(Len(t) + 1), NEW n \in 1..(Len(t) - k + 2)
  PROVE  Rest(Rest(t, k), n) = Rest(t, k + n - 1)
<1> DEFINE r == Rest(t, k)
           u == Rest(r, n)
           v == Rest(t, k + n - 1)
<1>1. /\ r \in Seq(S) /\ Len(r) = Len(t) - k + 1
      /\ \A j \in 1..(Len(t) - k + 1) : r[j] = t[k + j - 1]
  BY RestOf
<1> HIDE DEF r
<1>2. n \in 1..(Len(r) + 1)
  BY <1>1
<1>3. u \in Seq(S) /\ Len(u) = Len(r) - n + 1 /\ \A j \in 1..(Len(r) - n + 1) : u[j] = r[n + j - 1]
  BY <1>1, <1>2, RestOf
<1> DEFINE l == k + n - 1
<1>4. l \in 1..(Len(t) + 1)
  OBVIOUS
<1> HIDE DEF l
<1>5. /\ Rest(t, l) \in Seq(S) /\ Len(Rest(t, l)) = Len(t) - l + 1
      /\ \A j \in 1..(Len(t) - l + 1) : Rest(t, l)[j] = t[l + j - 1]
  BY <1>4, RestOf
<1>6. v \in Seq(S) /\ Len(v) = Len(u) /\ \A j \in 1..Len(u) : v[j] = t[k + n - 1 + j - 1]
  BY <1>1, <1>3, <1>5 DEF l
<1> HIDE DEF u, v
<1>7. ASSUME NEW j \in 1..Len(u) PROVE u[j] = v[j]
  <2>1. n + j - 1 \in 1..(Len(t) - k + 1) /\ k + (n + j - 1) - 1 = k + n - 1 + j - 1
    BY <1>1, <1>3
  <2> QED
    BY <1>1, <1>3, <1>6, <2>1
<1>8. u = v
  BY <1>3, <1>6, <1>7, SeqEqual
<1> QED
  BY <1>8 DEF u, v, r

LEMMA TailIsRest ==
  ASSUME NEW S, NEW t \in Seq(S), Len(t) > 0
  PROVE  Tail(t) = Rest(t, 2) /\ Head(t) = t[1] /\ t # <<>> /\ Last(t) = t[Len(t)] /\ Rest(t, 1) = t
<1>1. t # <<>>
  <2>1. Len(<<>>) = 0
    OBVIOUS
  <2> QED
    BY <2>1
<1>2. Tail(t) \in Seq(S) /\ Len(Tail(t)) = Len(t) - 1 /\ \A n \in 1..(Len(t) - 1) : Tail(t)[n] = t[n + 1]
  BY <1>1
<1>3. Rest(t, 2) \in Seq(S) /\ Len(Rest(t, 2)) = Len(t) - 1
        /\ \A n \in 1..(Len(t) - 1) : Rest(t, 2)[n] = t[2 + n - 1]
  <2>1. 2 \in 1..(Len(t) + 1) /\ Len(t) - 2 + 1 = Len(t) - 1
    OBVIOUS
  <2> QED
    BY <2>1, RestOf
<1>4. \A n \in 1..(Len(t) - 1) : Tail(t)[n] = Rest(t, 2)[n]
  BY <1>2, <1>3
<1>5. Tail(t) = Rest(t, 2)
  <2> DEFINE u == Tail(t)
             v == Rest(t, 2)
  <2>1. u \in Seq(S) /\ v \in Seq(S) /\ Len(u) = Len(v) /\ \A n \in 1..Len(u) : u[n] = v[n]
    BY <1>2, <1>3, <1>4
  <2> HIDE DEF u, v
  <2>2. u = v
    BY <2>1, SeqEqual
  <2> QED
    BY <2>2 DEF u, v
<1>6. Rest(t, 1) = t
  BY SubSeqFull DEF Rest
<1> QED
  BY <1>1, <1>5, <1>6 DEF Last

-----------------------------------------------------------------------------
(* The tables                                                              *)

(* Every word that stands for a table.                                     *)
LEMMA KnownWords ==
  /\ capitalWords = {"GmbH", "AG", "NV", "Company", "Soc", "Musik-", "CEO", "Section 3:", "Impressum",
                     "Operator", "Best", "About", "Kontakt", "Handelsregister", "Copyright",
                     "All rights reserved", "VERL.", ".B"}
  /\ smallWords = {"and", "und", "of", "the", "is a trading name of", "hosted by", "is operated by"}
  /\ lineSigns = {"|", "bullet", "2024", "open quote", "close quote", "(", ")", ":", ",", ".", "copyright sign", "-"}
<1>1. capitalWords = {"GmbH", "AG", "NV", "Company", "Soc", "Musik-", "CEO", "Section 3:", "Impressum",
                     "Operator", "Best", "About", "Kontakt", "Handelsregister", "Copyright",
                     "All rights reserved", "VERL.", ".B"}
  BY DEF capitalWords, forms, abbreviations, hyphenated, titles, numberedParts, titledLabels,
    colonLabels, plainLabels, contactLabels, registerWords
<1>2. smallWords = {"and", "und", "of", "the", "is a trading name of", "hosted by", "is operated by"}
  BY DEF smallWords, stopWords, tradingNames, hostingProse, sentencePhrases
<1>3. lineSigns = {"|", "bullet", "2024", "open quote", "close quote", "(", ")", ":", ",", ".",
                   "copyright sign", "-"}
  BY DEF lineSigns, bounds, years, quotes, openers, closers
<1> QED
  BY <1>1, <1>2, <1>3

LEMMA ConjunctionTable ==
  /\ DOMAIN conjunctions = {1, 2} /\ conjunctions[1] = "and" /\ conjunctions[2] = "und"
  /\ Range(conjunctions) = {"and", "und"}
<1>1. DOMAIN conjunctions = {1, 2} /\ conjunctions[1] = "and" /\ conjunctions[2] = "und"
  BY DEF conjunctions
<1> QED
  BY <1>1 DEF Range

LEMMA SignTable ==
  Len(copyrightSigns) = 2 /\ copyrightSigns[1] = "copyright sign" /\ copyrightSigns[2] = "Copyright"
BY DEF copyrightSigns

-----------------------------------------------------------------------------
(* A string that ends with a form, from a place on                         *)

Ends(u) == u \in Seq(LineWords) /\ Len(u) > 0 /\ u[Len(u)] \in forms

LEMMA RestAt ==
  ASSUME NEW u, Ends(u), NEW lo \in 1..Len(u)
  PROVE  LET t == Rest(u, lo)
         IN  /\ Ends(t) /\ Len(t) = Len(u) - lo + 1 /\ Len(t) \in Nat
             /\ \A k \in 1..Len(t) : t[k] = u[lo + k - 1]
             /\ \A k \in 1..(Len(t) + 1) : Rest(t, k) = Rest(u, lo + k - 1)
             /\ t # <<>> /\ Head(t) = u[lo] /\ Tail(t) = Rest(u, lo + 1) /\ Last(t) = u[Len(u)]
<1> DEFINE t == Rest(u, lo)
<1>1. u \in Seq(LineWords) /\ Len(u) \in Nat /\ Len(u) > 0 /\ u[Len(u)] \in forms
  BY DEF Ends
<1>2. /\ t \in Seq(LineWords) /\ Len(t) = Len(u) - lo + 1
      /\ \A n \in 1..(Len(u) - lo + 1) : t[n] = u[lo + n - 1]
  <2>1. lo \in 1..(Len(u) + 1)
    BY <1>1
  <2> QED
    BY <1>1, <2>1, RestOf
<1>3. \A k \in 1..(Len(t) + 1) : Rest(t, k) = Rest(u, lo + k - 1)
  BY <1>1, <1>2, RestOfRest
<1> HIDE DEF t
<1>4. Len(t) > 0 /\ Len(t) \in Nat
  BY <1>1, <1>2
<1>5. Tail(t) = Rest(t, 2) /\ Head(t) = t[1] /\ t # <<>> /\ Last(t) = t[Len(t)]
  BY <1>2, <1>4, TailIsRest
<1>6. 1 \in 1..(Len(u) - lo + 1) /\ Len(t) \in 1..(Len(u) - lo + 1) /\ 2 \in 1..(Len(t) + 1)
        /\ lo + 1 - 1 = lo /\ lo + Len(t) - 1 = Len(u) /\ lo + 2 - 1 = lo + 1
  BY <1>1, <1>2, <1>4
<1>7. t[1] = u[lo] /\ t[Len(t)] = u[Len(u)] /\ Rest(t, 2) = Rest(u, lo + 1)
  BY <1>2, <1>3, <1>6
<1>8. \A k \in 1..Len(t) : t[k] = u[lo + k - 1]
  BY <1>2
<1>9. Ends(t)
  BY <1>1, <1>2, <1>4, <1>7 DEF Ends
<1> QED
  BY <1>2, <1>3, <1>4, <1>5, <1>7, <1>8, <1>9 DEF t

LEMMA FirstWord ==
  ASSUME NEW S, NEW t \in Seq(S), NEW X, WordsAt(t, X) # {}
  PROVE  LET k == Min(WordsAt(t, X))
         IN  k \in 1..Len(t) /\ t[k] \in X /\ \A n \in 1..(k - 1) : t[n] \notin X
<1> DEFINE P == WordsAt(t, X)
<1>1. P \in SUBSET Nat /\ P \subseteq 1..Len(t) /\ \A n \in 1..Len(t) : n \in P <=> t[n] \in X
  BY DEF WordsAt
<1> HIDE DEF P
<1>2. Min(P) \in P /\ \A n \in P : Min(P) <= n
  BY <1>1, MinIn DEF P
<1> DEFINE m == Min(P)
<1> HIDE DEF m
<1>3. m \in 1..Len(t) /\ t[m] \in X /\ \A n \in P : m <= n
  BY <1>1, <1>2 DEF m
<1>4. ASSUME NEW n \in 1..(m - 1) PROVE t[n] \notin X
  <2>1. n \in 1..Len(t) /\ ~(m <= n)
    BY <1>3
  <2> QED
    BY <1>1, <1>3, <2>1
<1> QED
  BY <1>3, <1>4 DEF P, m

LEMMA FirstOther ==
  ASSUME NEW S, NEW t \in Seq(S), NEW X, OtherThan(t, X) # {}
  PROVE  LET k == Min(OtherThan(t, X))
         IN  k \in 1..Len(t) /\ t[k] \notin X /\ \A n \in 1..(k - 1) : t[n] \in X
<1> DEFINE P == OtherThan(t, X)
<1>1. P \in SUBSET Nat /\ P \subseteq 1..Len(t) /\ \A n \in 1..Len(t) : n \in P <=> t[n] \notin X
  BY DEF OtherThan
<1> HIDE DEF P
<1>2. Min(P) \in P /\ \A n \in P : Min(P) <= n
  BY <1>1, MinIn DEF P
<1> DEFINE m == Min(P)
<1> HIDE DEF m
<1>3. m \in 1..Len(t) /\ t[m] \notin X /\ \A n \in P : m <= n
  BY <1>1, <1>2 DEF m
<1>4. ASSUME NEW n \in 1..(m - 1) PROVE t[n] \in X
  <2>1. n \in 1..Len(t) /\ ~(m <= n)
    BY <1>3
  <2> QED
    BY <1>1, <1>3, <2>1
<1> QED
  BY <1>3, <1>4 DEF P, m

LEMMA NoWord ==
  ASSUME NEW S, NEW t \in Seq(S), NEW X
  PROVE  /\ WordsAt(t, X) = {} <=> \A n \in 1..Len(t) : t[n] \notin X
         /\ OtherThan(t, X) = {} <=> \A n \in 1..Len(t) : t[n] \in X
BY DEF WordsAt, OtherThan

(* In the string, and from a place of it on.                               *)
SpacedAt(u, lo, p) ==
  /\ p > lo => u[p - 1] \notin openers
  /\ p < Len(u) => u[p + 1] \notin closers

LEMMA SpacedRest ==
  ASSUME NEW u, Ends(u), NEW lo \in 1..Len(u), NEW k \in 1..(Len(u) - lo + 1)
  PROVE  Spaced(Rest(u, lo), k) <=> SpacedAt(u, lo, lo + k - 1)
<1> DEFINE t == Rest(u, lo)
<1>1. /\ Len(t) = Len(u) - lo + 1 /\ Len(t) \in Nat
      /\ \A n \in 1..Len(t) : t[n] = u[lo + n - 1]
  BY RestAt
<1> HIDE DEF t
<1>2. Len(u) \in Nat /\ lo \in Nat /\ k \in Nat
  BY DEF Ends
<1>3. ASSUME k > 1 PROVE t[k - 1] = u[(lo + k - 1) - 1]
  <2>1. k - 1 \in 1..Len(t) /\ lo + (k - 1) - 1 = (lo + k - 1) - 1
    BY <1>1, <1>2, <1>3
  <2> QED
    BY <1>1, <2>1
<1>4. ASSUME k < Len(t) PROVE t[k + 1] = u[(lo + k - 1) + 1]
  <2>1. k + 1 \in 1..Len(t) /\ lo + (k + 1) - 1 = (lo + k - 1) + 1
    BY <1>1, <1>2, <1>4
  <2> QED
    BY <1>1, <2>1
<1>5. (k > 1 <=> lo + k - 1 > lo) /\ (k < Len(t) <=> lo + k - 1 < Len(u))
  BY <1>1, <1>2
<1>6. Spaced(t, k) <=> SpacedAt(u, lo, lo + k - 1)
  BY <1>3, <1>4, <1>5 DEF Spaced, SpacedAt
<1> QED
  BY <1>6 DEF t

-----------------------------------------------------------------------------
(* Where each pass leads to                                                *)

dates == years \cup {",", "-"}

(* Behind the signs at a place: each at most once, in the order of the     *)
(* table.                                                                  *)
AfterFirstSign(u, lo) == IF u[lo] = "copyright sign" THEN lo + 1 ELSE lo

AfterSigns(u, lo) ==
  IF u[AfterFirstSign(u, lo)] = "Copyright" THEN AfterFirstSign(u, lo) + 1 ELSE AfterFirstSign(u, lo)

LEMMA SignsTwice ==
  ASSUME NEW t
  PROVE  WithoutSigns(t) = WithoutSign(WithoutSign(t, "copyright sign"), "Copyright")
<1> DEFINE Is(f) == f = [k \in 0..2 |-> IF k = 0 THEN t ELSE WithoutSign(f[k - 1], copyrightSigns[k])]
           g == [k \in 0..2 |-> IF k = 0 THEN t
                                ELSE IF k = 1 THEN WithoutSign(t, copyrightSigns[1])
                                ELSE WithoutSign(WithoutSign(t, copyrightSigns[1]), copyrightSigns[2])]
<1>1. WithoutSigns(t) = (CHOOSE f : Is(f))[2]
  BY SignTable, Zenon DEF WithoutSigns
<1>2. \E f : Is(f)
  <2>1. ASSUME NEW k \in 0..2
        PROVE  g[k] = IF k = 0 THEN t ELSE WithoutSign(g[k - 1], copyrightSigns[k])
    <3>1. g[0] = t /\ g[1] = WithoutSign(t, copyrightSigns[1])
            /\ g[2] = WithoutSign(WithoutSign(t, copyrightSigns[1]), copyrightSigns[2])
      OBVIOUS
    <3> HIDE DEF g
    <3>2. k = 0 \/ k = 1 \/ k = 2
      OBVIOUS
    <3> QED
      BY <3>1, <3>2
  <2>2. g = [k \in 0..2 |-> g[k]]
    OBVIOUS
  <2> HIDE DEF g
  <2>3. Is(g)
    BY <2>1, <2>2
  <2> QED
    BY <2>3
<1> DEFINE h == CHOOSE f : Is(f)
<1>3. Is(h)
  BY <1>2, Zenon
<1> HIDE DEF h
<1>4. h[0] = t /\ h[1] = WithoutSign(h[0], copyrightSigns[1])
        /\ h[2] = WithoutSign(h[1], copyrightSigns[2])
  BY <1>3
<1> QED
  BY <1>1, <1>4, SignTable DEF h

LEMMA OneOn ==
  ASSUME NEW u, Ends(u), NEW lo \in 1..Len(u), NEW x, x \notin forms
  PROVE  (IF u[lo] = x THEN lo + 1 ELSE lo) \in lo..Len(u)
<1>1. Len(u) \in Nat /\ lo \in Nat /\ lo <= Len(u) /\ u[Len(u)] # x
  BY DEF Ends
<1>2. CASE u[lo] = x
  <2>1. lo # Len(u)
    BY <1>1, <1>2
  <2>2. lo + 1 \in lo..Len(u)
    BY <1>1, <2>1
  <2> QED
    BY <1>2, <2>2
<1>3. CASE u[lo] # x
  <2>1. lo \in lo..Len(u)
    BY <1>1
  <2> QED
    BY <1>3, <2>1
<1> QED
  BY <1>2, <1>3

LEMMA SignsOff ==
  ASSUME NEW u, Ends(u), NEW lo \in 1..Len(u)
  PROVE  /\ AfterFirstSign(u, lo) \in lo..Len(u) /\ AfterSigns(u, lo) \in lo..Len(u)
         /\ WithoutSigns(Rest(u, lo)) = Rest(u, AfterSigns(u, lo))
<1> DEFINE a == AfterFirstSign(u, lo)
           b == AfterSigns(u, lo)
<1>1. "copyright sign" \notin forms /\ "Copyright" \notin forms
  BY DEF forms
<1>2. a \in lo..Len(u)
  BY <1>1, OneOn DEF AfterFirstSign
<1>3. WithoutSign(Rest(u, lo), "copyright sign") = Rest(u, a)
  BY RestAt DEF WithoutSign, AfterFirstSign
<1>4. b \in a..Len(u) /\ b = IF u[a] = "Copyright" THEN a + 1 ELSE a
  <2>1. b = IF u[a] = "Copyright" THEN a + 1 ELSE a
    BY DEF AfterSigns
  <2> HIDE DEF a, b
  <2>2. a \in 1..Len(u)
    BY <1>2
  <2>3. (IF u[a] = "Copyright" THEN a + 1 ELSE a) \in a..Len(u)
    BY <1>1, <2>2, OneOn
  <2> QED
    BY <2>1, <2>3
<1> HIDE DEF a, b
<1>5. a \in 1..Len(u)
  BY <1>2
<1>6. WithoutSign(Rest(u, a), "Copyright") = Rest(u, b)
  BY <1>4, <1>5, RestAt DEF WithoutSign
<1>7. WithoutSigns(Rest(u, lo)) = Rest(u, b)
  BY <1>3, <1>6, SignsTwice
<1>8. b \in lo..Len(u)
  BY <1>2, <1>4
<1> QED
  BY <1>2, <1>7, <1>8 DEF a, b

LEMMA FirstWordAt ==
  ASSUME NEW u, Ends(u), NEW lo \in 1..Len(u), NEW X, WordsAt(Rest(u, lo), X) # {}
  PROVE  \E p \in lo..Len(u) :
           /\ Min(WordsAt(Rest(u, lo), X)) = p - lo + 1
           /\ u[p] \in X /\ \A n \in lo..(p - 1) : u[n] \notin X
<1> DEFINE t == Rest(u, lo)
           k == Min(WordsAt(t, X))
           p == lo + k - 1
<1>1. Len(u) \in Nat /\ lo \in Nat /\ t \in Seq(LineWords) /\ Len(t) = Len(u) - lo + 1
        /\ \A n \in 1..Len(t) : t[n] = u[lo + n - 1]
  BY RestAt DEF Ends
<1>2. k \in 1..Len(t) /\ t[k] \in X /\ \A n \in 1..(k - 1) : t[n] \notin X
  BY <1>1, FirstWord
<1> HIDE DEF k, t
<1>3. p \in lo..Len(u) /\ k = p - lo + 1 /\ u[p] \in X
  BY <1>1, <1>2
<1>4. ASSUME NEW n \in lo..(p - 1) PROVE u[n] \notin X
  <2>1. n - lo + 1 \in 1..(k - 1) /\ n - lo + 1 \in 1..Len(t) /\ lo + (n - lo + 1) - 1 = n
    BY <1>1, <1>2
  <2> QED
    BY <1>1, <1>2, <2>1
<1>5. Min(WordsAt(Rest(u, lo), X)) = p - lo + 1
  BY <1>3 DEF k, t
<1> HIDE DEF p
<1> QED
  BY <1>3, <1>4, <1>5

LEMMA FirstOtherAt ==
  ASSUME NEW u, Ends(u), NEW lo \in 1..Len(u), NEW X, X \cap forms = {}
  PROVE  /\ OtherThan(Rest(u, lo), X) # {}
         /\ \E r \in lo..Len(u) :
              /\ Rest(Rest(u, lo), Min(OtherThan(Rest(u, lo), X))) = Rest(u, r)
              /\ u[r] \notin X /\ \A n \in lo..(r - 1) : u[n] \in X
<1> DEFINE t == Rest(u, lo)
           k == Min(OtherThan(t, X))
           r == lo + k - 1
<1>1. /\ Len(u) \in Nat /\ lo \in Nat /\ t \in Seq(LineWords) /\ Len(t) = Len(u) - lo + 1
      /\ \A n \in 1..Len(t) : t[n] = u[lo + n - 1]
      /\ \A n \in 1..(Len(t) + 1) : Rest(t, n) = Rest(u, lo + n - 1)
      /\ Len(t) > 0 /\ t[Len(t)] \in forms
  BY RestAt DEF Ends
<1> HIDE DEF t
<1>2. OtherThan(t, X) # {}
  <2>1. Len(t) \in DOMAIN t /\ t[Len(t)] \notin X
    BY <1>1
  <2> QED
    BY <2>1 DEF OtherThan
<1>3. k \in 1..Len(t) /\ t[k] \notin X /\ \A n \in 1..(k - 1) : t[n] \in X
  BY <1>1, <1>2, FirstOther
<1> HIDE DEF k
<1>4. r \in lo..Len(u) /\ u[r] \notin X /\ Rest(t, k) = Rest(u, r)
  BY <1>1, <1>3
<1>5. ASSUME NEW n \in lo..(r - 1) PROVE u[n] \in X
  <2>1. n - lo + 1 \in 1..(k - 1) /\ n - lo + 1 \in 1..Len(t) /\ lo + (n - lo + 1) - 1 = n
    BY <1>1, <1>3
  <2> QED
    BY <1>1, <1>3, <2>1
<1> HIDE DEF r
<1>6. OtherThan(Rest(u, lo), X) # {} /\ Rest(Rest(u, lo), Min(OtherThan(Rest(u, lo), X))) = Rest(u, r)
  BY <1>2, <1>4 DEF k, t
<1> QED
  BY <1>4, <1>5, <1>6

(* The sentence that rights are reserved is cut off behind its full stop.  *)
LEMMA ReservedTo ==
  ASSUME NEW u, Ends(u), NEW r \in 1..Len(u)
  PROVE  LET undated  == Rest(u, r)
             reserved == {n \in 1..(Len(undated) - 1) :
                            undated[n] = "All rights reserved" /\ undated[n + 1] = "."}
         IN  \E m \in r..Len(u) :
               /\ (IF reserved = {} THEN undated ELSE Rest(undated, Max(reserved) + 2)) = Rest(u, m)
               /\ m = r \/ (m > r + 1 /\ u[m - 1] = "." /\ u[m - 2] = "All rights reserved")
<1> DEFINE t == Rest(u, r)
           P == {n \in 1..(Len(t) - 1) : t[n] = "All rights reserved" /\ t[n + 1] = "."}
<1>1. /\ Len(u) \in Nat /\ r \in Nat /\ t \in Seq(LineWords) /\ Len(t) = Len(u) - r + 1
      /\ \A n \in 1..Len(t) : t[n] = u[r + n - 1]
      /\ \A n \in 1..(Len(t) + 1) : Rest(t, n) = Rest(u, r + n - 1)
      /\ Len(t) > 0 /\ t[Len(t)] \in forms
  BY RestAt DEF Ends
<1> HIDE DEF t
<1>2. CASE P = {}
  <2>1. r \in r..Len(u)
    BY <1>1
  <2> QED
    BY <1>2, <2>1 DEF t
<1>3. CASE P # {}
  <2> DEFINE k == Max(P)
  <2> DEFINE top == Len(t)
  <2>0. top \in Nat /\ top = Len(u) - r + 1
    BY <1>1
  <2> HIDE DEF top
  <2>1. P \in SUBSET Nat /\ \A n \in P : n <= top
    <3>1. P \subseteq 1..(top - 1)
      BY DEF top
    <3> HIDE DEF P
    <3> QED
      BY <2>0, <3>1
  <2> HIDE DEF P
  <2>2. k \in P
    BY <1>3, <2>0, <2>1, MaxIn
  <2> HIDE DEF k
  <2>3. k \in 1..(top - 1) /\ t[k] = "All rights reserved" /\ t[k + 1] = "."
    BY <2>2 DEF P, top
  <2>4. "." \notin forms
    BY DEF forms
  <2>5. k + 1 # top
    BY <1>1, <2>3, <2>4 DEF top
  <2> DEFINE m == r + k + 1
  <2>6. /\ m \in r..Len(u) /\ m > r + 1 /\ m - 1 = r + (k + 1) - 1 /\ m - 2 = r + k - 1
        /\ k + 2 \in 1..(top + 1) /\ r + (k + 2) - 1 = m /\ k \in 1..top /\ k + 1 \in 1..top
    <3>1. Len(u) \in Nat /\ r \in Nat
      BY <1>1
    <3>2. k \in 1..(top - 1) /\ k + 1 # top
      BY <2>3, <2>5
    <3>3. k \in Nat /\ k >= 1 /\ k + 1 < top
      BY <2>0, <3>2
    <3> QED
      BY <2>0, <3>1, <3>3
  <2> HIDE DEF m
  <2>7. u[m - 1] = "." /\ u[m - 2] = "All rights reserved" /\ Rest(t, k + 2) = Rest(u, m)
    BY <1>1, <2>3, <2>6 DEF top
  <2>8. (IF P = {} THEN t ELSE Rest(t, Max(P) + 2)) = Rest(u, m)
    BY <1>3, <2>7 DEF k
  <2> QED
    BY <2>6, <2>7, <2>8 DEF P, t
<1> QED
  BY <1>2, <1>3

LEMMA CopyrightTo ==
  ASSUME NEW u, Ends(u), NEW lo \in 1..Len(u)
  PROVE  \E r \in AfterSigns(u, lo)..Len(u) : \E m \in r..Len(u) :
           /\ stripCopyrightPrefix(Rest(u, lo)) = Rest(u, m)
           /\ u[r] \notin dates /\ \A n \in AfterSigns(u, lo)..(r - 1) : u[n] \in dates
           /\ m = r \/ (m > r + 1 /\ u[m - 1] = "." /\ u[m - 2] = "All rights reserved")
<1> DEFINE b == AfterSigns(u, lo)
<1>1. b \in lo..Len(u) /\ WithoutSigns(Rest(u, lo)) = Rest(u, b)
  BY SignsOff
<1> HIDE DEF b
<1>2. b \in 1..Len(u) /\ dates \cap forms = {}
  <2>1. dates \cap forms = {}
    BY DEF dates, years, forms
  <2> QED
    BY <1>1, <2>1
<1>3. /\ OtherThan(Rest(u, b), dates) # {}
      /\ \E r \in b..Len(u) :
           /\ Rest(Rest(u, b), Min(OtherThan(Rest(u, b), dates))) = Rest(u, r)
           /\ u[r] \notin dates /\ \A n \in b..(r - 1) : u[n] \in dates
  BY <1>2, FirstOtherAt
<1>4. PICK r \in b..Len(u) :
           /\ Rest(Rest(u, b), Min(OtherThan(Rest(u, b), dates))) = Rest(u, r)
           /\ u[r] \notin dates /\ \A n \in b..(r - 1) : u[n] \in dates
  BY <1>3
<1>5. r \in 1..Len(u)
  BY <1>2
<1> DEFINE t == Rest(u, r)
           P == {n \in 1..(Len(t) - 1) : t[n] = "All rights reserved" /\ t[n + 1] = "."}
           s == IF P = {} THEN t ELSE Rest(t, Max(P) + 2)
<1>6. PICK m \in r..Len(u) :
        /\ s = Rest(u, m)
        /\ m = r \/ (m > r + 1 /\ u[m - 1] = "." /\ u[m - 2] = "All rights reserved")
  BY <1>5, ReservedTo
<1>7. stripCopyrightPrefix(Rest(u, lo)) = s
  BY <1>1, <1>3, <1>4 DEF stripCopyrightPrefix, dates
<1> HIDE DEF s
<1> QED
  BY <1>4, <1>6, <1>7 DEF b

LEMMA LeftoverTo ==
  ASSUME NEW u, Ends(u), NEW lo \in 1..Len(u)
  PROVE  LET X == years \cup quotes \cup {"(", "copyright sign"}
         IN  \E m \in lo..Len(u) :
               /\ Rest(Rest(u, lo), Min(OtherThan(Rest(u, lo), X))) = Rest(u, m)
               /\ u[m] \notin X /\ \A n \in lo..(m - 1) : u[n] \in X
<1> DEFINE X == years \cup quotes \cup {"(", "copyright sign"}
<1>1. X \cap forms = {}
  BY DEF years, quotes, forms
<1> HIDE DEF X
<1> QED
  BY <1>1, FirstOtherAt DEF X

(* Where a word joins what is read so far, with a space on either side.    *)
Joins(u, lo, x) == {p \in (lo + 1)..(Len(u) - 1) : u[p] = x /\ Spaced(u, p)}

IsLastOf(p, P) == p \in P /\ \A q \in P : q <= p

LEMMA JoinsAt ==
  ASSUME NEW u, Ends(u), NEW lo \in 1..Len(u), NEW x
  PROVE  LET t  == Rest(u, lo)
             at == {n \in 2..(Len(t) - 1) : t[n] = x /\ Spaced(t, n)}
         IN  /\ at = {} <=> Joins(u, lo, x) = {}
             /\ at # {} =>
                  \E p \in (lo + 1)..(Len(u) - 1) :
                    /\ IsLastOf(p, Joins(u, lo, x))
                    /\ t[Max(at) - 1] = u[p - 1] /\ Rest(t, Max(at) + 1) = Rest(u, p + 1)
<1> DEFINE t  == Rest(u, lo)
           at == {n \in 2..(Len(t) - 1) : t[n] = x /\ Spaced(t, n)}
           J == Joins(u, lo, x)
           top == Len(t)
<1>1. /\ Len(u) \in Nat /\ lo \in Nat /\ lo >= 1 /\ lo <= Len(u) /\ top \in Nat /\ top = Len(u) - lo + 1
      /\ \A n \in 1..top : t[n] = u[lo + n - 1]
      /\ \A n \in 1..(top + 1) : Rest(t, n) = Rest(u, lo + n - 1)
  BY RestAt DEF Ends
<1>2. \A n \in 1..(Len(u) - lo + 1) : Spaced(t, n) <=> SpacedAt(u, lo, lo + n - 1)
  BY SpacedRest
<1>3. \A n : n \in at <=> n \in 2..(top - 1) /\ t[n] = x /\ Spaced(t, n)
  OBVIOUS
<1> HIDE DEF at, top, t
<1>4. ASSUME NEW n \in 2..(top - 1) PROVE n \in at <=> lo + n - 1 \in J
  <2> DEFINE p == lo + n - 1
  <2>1. p \in (lo + 1)..(Len(u) - 1) /\ n \in 1..top /\ n \in 1..(Len(u) - lo + 1)
          /\ p > lo /\ p < Len(u) /\ p > 1
    BY <1>1
  <2>2. t[n] = u[p] /\ (Spaced(t, n) <=> SpacedAt(u, lo, p))
    BY <1>1, <1>2, <2>1
  <2> HIDE DEF p
  <2>3. SpacedAt(u, lo, p) <=> Spaced(u, p)
    BY <2>1 DEF SpacedAt, Spaced
  <2>4. p \in J <=> u[p] = x /\ Spaced(u, p)
    BY <2>1 DEF Joins
  <2>5. n \in at <=> p \in J
    BY <1>3, <2>2, <2>3, <2>4
  <2> QED
    BY <2>5 DEF p
<1>5. ASSUME NEW p \in J PROVE p - lo + 1 \in at /\ p - lo + 1 \in 2..(top - 1)
  <2>1. p \in (lo + 1)..(Len(u) - 1)
    BY DEF Joins
  <2> DEFINE n == p - lo + 1
  <2>2. n \in 2..(top - 1) /\ lo + n - 1 = p
    BY <1>1, <2>1
  <2> HIDE DEF n
  <2>3. n \in at
    BY <1>4, <2>2
  <2> QED
    BY <2>2, <2>3 DEF n
<1>6. at = {} <=> J = {}
  <2>1. ASSUME at # {} PROVE J # {}
    BY <1>3, <1>4, <2>1
  <2>2. ASSUME J # {} PROVE at # {}
    BY <1>5, <2>2
  <2> QED
    BY <2>1, <2>2
<1>7. ASSUME at # {}
      PROVE  \E p \in (lo + 1)..(Len(u) - 1) :
               /\ IsLastOf(p, J)
               /\ t[Max(at) - 1] = u[p - 1] /\ Rest(t, Max(at) + 1) = Rest(u, p + 1)
  <2> DEFINE k == Max(at)
             p == lo + k - 1
  <2>1. at \in SUBSET Nat /\ \A n \in at : n <= top
    <3>1. \A n \in at : n \in 2..(top - 1)
      BY <1>3
    <3> QED
      BY <1>1, <3>1
  <2>2. k \in at /\ \A n \in at : n <= k
    BY <1>1, <1>7, <2>1, MaxIn
  <2> HIDE DEF k
  <2>3. k \in 2..(top - 1)
    BY <1>3, <2>2
  <2>4. /\ p \in (lo + 1)..(Len(u) - 1) /\ k - 1 \in 1..top /\ lo + (k - 1) - 1 = p - 1
        /\ k + 1 \in 1..(top + 1) /\ lo + (k + 1) - 1 = p + 1
    BY <1>1, <2>3
  <2>5. p \in J
    BY <1>4, <2>2, <2>3
  <2>6. ASSUME NEW q \in J PROVE q <= p
    <3>1. q - lo + 1 <= k
      BY <1>5, <2>2
    <3>2. q \in (lo + 1)..(Len(u) - 1)
      BY DEF Joins
    <3> QED
      BY <1>1, <2>3, <3>1, <3>2
  <2>7. t[k - 1] = u[p - 1] /\ Rest(t, k + 1) = Rest(u, p + 1)
    BY <1>1, <2>4
  <2> HIDE DEF p
  <2>8. t[Max(at) - 1] = u[p - 1] /\ Rest(t, Max(at) + 1) = Rest(u, p + 1)
    BY <2>7 DEF k
  <2>9. IsLastOf(p, J)
    BY <2>5, <2>6 DEF IsLastOf
  <2> QED
    BY <2>4, <2>8, <2>9
<1> QED
  BY <1>6, <1>7 DEF at, t

LEMMA ConjunctionTo ==
  ASSUME NEW u, Ends(u), NEW lo \in 1..Len(u)
  PROVE  \E m \in lo..Len(u) :
           /\ trimAtConjunction(Rest(u, lo)) = Rest(u, m)
           /\ \/ /\ m = lo /\ Joins(u, lo, "and") = {}
                 /\ \/ Joins(u, lo, "und") = {}
                    \/ \E p : IsLastOf(p, Joins(u, lo, "und")) /\ u[p - 1] \in hyphens
              \/ IsLastOf(m - 1, Joins(u, lo, "and"))
              \/ /\ Joins(u, lo, "and") = {} /\ IsLastOf(m - 1, Joins(u, lo, "und"))
                 /\ u[m - 2] \notin hyphens
<1> DEFINE t  == Rest(u, lo)
           at(k) == {n \in 2..(Len(t) - 1) : t[n] = conjunctions[k] /\ Spaced(t, n)}
           Cuts  == {k \in DOMAIN conjunctions :
                       at(k) # {} /\ ~(conjunctions[k] = "und" /\ t[Max(at(k)) - 1] \in hyphens)}
           A == Joins(u, lo, "and")
           U == Joins(u, lo, "und")
<1>1. trimAtConjunction(t) = IF Cuts = {} THEN t ELSE Rest(t, Max(at(Min(Cuts))) + 1)
  BY DEF trimAtConjunction
<1>2. /\ at(1) = {} <=> A = {}
      /\ at(1) # {} => \E p \in (lo + 1)..(Len(u) - 1) :
           IsLastOf(p, A) /\ t[Max(at(1)) - 1] = u[p - 1] /\ Rest(t, Max(at(1)) + 1) = Rest(u, p + 1)
  BY ConjunctionTable, JoinsAt
<1>3. /\ at(2) = {} <=> U = {}
      /\ at(2) # {} => \E p \in (lo + 1)..(Len(u) - 1) :
           IsLastOf(p, U) /\ t[Max(at(2)) - 1] = u[p - 1] /\ Rest(t, Max(at(2)) + 1) = Rest(u, p + 1)
  BY ConjunctionTable, JoinsAt
<1>4. /\ Cuts \subseteq {1, 2}
      /\ 1 \in Cuts <=> at(1) # {}
      /\ 2 \in Cuts <=> at(2) # {} /\ t[Max(at(2)) - 1] \notin hyphens
  BY ConjunctionTable
<1>5. lo \in lo..Len(u) /\ Len(u) \in Nat
  BY DEF Ends
<1> HIDE DEF at, Cuts, t, A, U
<1>6. CASE 1 \in Cuts
  <2>1. Min(Cuts) = 1
    <3>1. Cuts \in SUBSET Nat /\ Cuts # {}
      BY <1>4, <1>6
    <3>2. Min(Cuts) \in Cuts /\ Min(Cuts) <= 1
      BY <1>6, <3>1, MinIn
    <3>3. Min(Cuts) \in {1, 2}
      BY <1>4, <3>2
    <3> QED
      BY <3>2, <3>3
  <2>2. PICK p \in (lo + 1)..(Len(u) - 1) : IsLastOf(p, A) /\ Rest(t, Max(at(1)) + 1) = Rest(u, p + 1)
    BY <1>2, <1>4, <1>6
  <2>3. trimAtConjunction(t) = Rest(u, p + 1)
    BY <1>1, <1>6, <2>1, <2>2
  <2>4. p + 1 \in lo..Len(u) /\ (p + 1) - 1 = p
    BY <1>5, <2>2
  <2> DEFINE m == p + 1
  <2>5. m \in lo..Len(u) /\ trimAtConjunction(t) = Rest(u, m) /\ IsLastOf(m - 1, A)
    BY <2>2, <2>3, <2>4
  <2> HIDE DEF m
  <2> QED
    BY <2>5 DEF A, t
<1>7. CASE 1 \notin Cuts /\ 2 \in Cuts
  <2>1. Cuts = {2} /\ Min(Cuts) = 2
    <3>1. Cuts = {2}
      BY <1>4, <1>7
    <3>2. Cuts \in SUBSET Nat /\ Cuts # {}
      BY <3>1
    <3> QED
      BY <3>1, <3>2, MinIn
  <2>2. PICK p \in (lo + 1)..(Len(u) - 1) :
          IsLastOf(p, U) /\ t[Max(at(2)) - 1] = u[p - 1] /\ Rest(t, Max(at(2)) + 1) = Rest(u, p + 1)
    BY <1>3, <1>4, <1>7
  <2>3. trimAtConjunction(t) = Rest(u, p + 1) /\ A = {} /\ u[p - 1] \notin hyphens
    BY <1>1, <1>2, <1>4, <1>7, <2>1, <2>2
  <2>4. p + 1 \in lo..Len(u) /\ (p + 1) - 1 = p /\ (p + 1) - 2 = p - 1
    BY <1>5, <2>2
  <2> DEFINE m == p + 1
  <2>5. m \in lo..Len(u) /\ trimAtConjunction(t) = Rest(u, m) /\ IsLastOf(m - 1, U)
          /\ u[m - 2] \notin hyphens
    BY <2>2, <2>3, <2>4
  <2> HIDE DEF m
  <2> QED
    BY <2>3, <2>5 DEF A, U, t
<1>8. CASE 1 \notin Cuts /\ 2 \notin Cuts
  <2>1. trimAtConjunction(t) = t /\ A = {}
    BY <1>1, <1>2, <1>4, <1>8
  <2>2. U = {} \/ \E p : IsLastOf(p, U) /\ u[p - 1] \in hyphens
    BY <1>3, <1>4, <1>8
  <2> QED
    BY <1>5, <2>1, <2>2 DEF A, U, t
<1> QED
  BY <1>6, <1>7, <1>8

(* A person and his title, the person's name ending at the comma at p.     *)
PersonThere(u, lo, p) ==
  LET words == {n \in 1..(p - lo) : u[lo + n - 1] \notin closers}
  IN  /\ u[lo] \notin closers
      /\ \A n \in words : u[lo + n - 1] \in Capitals /\ Width(u[lo + n - 1]) = 1
      /\ Cardinality(words) <= MaxPersonWords

RoleThere(u, lo, p) ==
  /\ PersonThere(u, lo, p)
  /\ u[p + 1] \in titles /\ u[p + 2] \notin closers \ {","}

BehindTitle(u, p) == IF u[p + 2] = "," THEN p + 3 ELSE p + 2

BehindRole(u, p) ==
  LET q == BehindTitle(u, p) IN IF u[q] = "of" /\ SpacedAt(u, q, q) THEN q + 1 ELSE q

FirstCommaAt(u, lo, p) == u[p] = "," /\ \A n \in lo..(p - 1) : u[n] # ","

LEMMA RoleAt ==
  ASSUME NEW u, Ends(u), NEW lo \in 1..Len(u), NEW p \in lo..Len(u), FirstCommaAt(u, lo, p)
  PROVE  /\ stripPersonRolePrefix(Rest(u, lo)) =
              IF RoleThere(u, lo, p) THEN Rest(u, BehindRole(u, p)) ELSE Rest(u, lo)
         /\ RoleThere(u, lo, p) => BehindTitle(u, p) \in (p + 2)..Len(u)
                                     /\ BehindRole(u, p) \in (p + 2)..Len(u)
<1> DEFINE t == Rest(u, lo)
           commas == WordsAt(t, {","})
           comma  == Min(commas)
           rest   == Rest(t, comma + 1)
           words  == {n \in 1..(comma - 1) : t[n] \notin closers}
           person == /\ commas # {} /\ Head(t) \notin closers
                     /\ \A n \in words : t[n] \in Capitals /\ Width(t[n]) = 1
                     /\ Cardinality(words) <= MaxPersonWords
           titled == rest # <<>> /\ Head(rest) \in titles /\ rest[2] \notin closers \ {","}
           named  == Rest(rest, IF rest[2] = "," THEN 3 ELSE 2)
<1>1. stripPersonRolePrefix(t) =
        IF ~(person /\ titled) THEN t
        ELSE IF Head(named) = "of" /\ Spaced(named, 1) THEN Tail(named) ELSE named
  BY DEF stripPersonRolePrefix
<1>2. Len(u) \in Nat /\ lo \in Nat /\ lo >= 1 /\ p \in Nat /\ lo <= p /\ p <= Len(u)
  BY DEF Ends
<1>0. u[Len(u)] # "," /\ u[Len(u)] \notin titles /\ u[Len(u)] # "of"
  <2>1. u[Len(u)] \in forms /\ Len(u) \in Nat
    BY DEF Ends
  <2>2. u[Len(u)] # "," /\ u[Len(u)] \notin titles /\ u[Len(u)] # "of"
    BY <2>1 DEF forms, titles
  <2> QED
    BY <2>1, <2>2
<1>3. p < Len(u)
  <2>1. p # Len(u)
    BY <1>0 DEF FirstCommaAt
  <2> QED
    BY <1>2, <2>1
<1>4. commas # {} /\ comma = p - lo + 1
  <2>1. /\ Len(t) = Len(u) - lo + 1 /\ t \in Seq(LineWords)
        /\ \A k \in 1..Len(t) : t[k] = u[lo + k - 1]
    BY RestAt DEF Ends
  <2>2. p - lo + 1 \in 1..Len(t) /\ lo + (p - lo + 1) - 1 = p
    BY <1>2, <2>1
  <2>3. commas # {}
    <3>1. t[p - lo + 1] = u[p] /\ p - lo + 1 \in DOMAIN t
      <4> HIDE DEF t
      <4> QED
        BY <2>1, <2>2
    <3>2. t[p - lo + 1] \in {","}
      BY <3>1 DEF FirstCommaAt
    <3> QED
      BY <3>1, <3>2 DEF WordsAt
  <2>4. PICK q \in lo..Len(u) :
          comma = q - lo + 1 /\ u[q] \in {","} /\ \A n \in lo..(q - 1) : u[n] \notin {","}
    BY <2>3, FirstWordAt
  <2> HIDE DEF comma
  <2>5. q = p
    <3>1. ~(q < p)
      <4>1. q < p => q \in lo..(p - 1)
        BY <1>2
      <4> QED
        BY <2>4, <4>1 DEF FirstCommaAt
    <3>2. ~(p < q)
      <4>1. p < q => p \in lo..(q - 1)
        BY <1>2
      <4> QED
        BY <2>4, <4>1 DEF FirstCommaAt
    <3> QED
      BY <1>2, <3>1, <3>2
  <2> QED
    BY <2>3, <2>4, <2>5
<1> DEFINE c == comma
           top == Len(t)
<1>n. c = p - lo + 1 /\ top \in Nat /\ top = Len(u) - lo + 1 /\ MaxPersonWords \in Nat
  BY <1>4, RestAt, LinesAssumption
<1>5. /\ \A k \in 1..top : t[k] = u[lo + k - 1]
      /\ \A k \in 1..(top + 1) : Rest(t, k) = Rest(u, lo + k - 1)
  BY RestAt
<1> HIDE DEF c, top
<1>6. rest = Rest(u, p + 1)
  <2>1. c + 1 \in 1..(top + 1) /\ lo + (c + 1) - 1 = p + 1
    BY <1>2, <1>3, <1>n
  <2>2. Rest(t, c + 1) = Rest(u, p + 1)
    BY <1>5, <2>1
  <2> QED
    BY <2>2 DEF c
<1> HIDE DEF rest
<1>7. p + 1 \in 1..Len(u)
  BY <1>2, <1>3
<1> DEFINE len == Len(rest)
<1>m. len \in Nat /\ len = Len(u) - (p + 1) + 1
  BY <1>6, <1>7, RestAt
<1>8. /\ rest # <<>> /\ Head(rest) = u[p + 1]
      /\ \A k \in 1..len : rest[k] = u[p + 1 + k - 1]
      /\ \A k \in 1..(len + 1) : Rest(rest, k) = Rest(u, p + 1 + k - 1)
  BY <1>6, <1>7, RestAt
<1> HIDE DEF len
<1>9. ASSUME u[p + 1] \in titles
      PROVE  /\ p + 2 \in 1..Len(u) /\ rest[2] = u[p + 2]
             /\ u[p + 2] = "," => p + 3 \in 1..Len(u)
  <2>1. p + 1 # Len(u)
    BY <1>0, <1>9
  <2>2. 2 \in 1..len /\ p + 1 + 2 - 1 = p + 2 /\ p + 2 \in 1..Len(u)
    BY <1>2, <1>3, <1>m, <2>1
  <2>3. rest[2] = u[p + 2]
    BY <1>8, <2>2
  <2>4. ASSUME u[p + 2] = "," PROVE p + 3 \in 1..Len(u)
    <3>1. p + 2 # Len(u)
      BY <1>0, <2>4
    <3> QED
      BY <1>2, <2>2, <3>1
  <2> QED
    BY <2>2, <2>3, <2>4
<1>10. person <=> PersonThere(u, lo, p)
  <2> DEFINE seen == {n \in 1..(p - lo) : u[lo + n - 1] \notin closers}
  <2>1. c - 1 = p - lo
    BY <1>2, <1>n
  <2>2. ASSUME NEW n \in 1..(p - lo) PROVE t[n] = u[lo + n - 1]
    <3>1. n \in 1..top
      BY <1>2, <1>n
    <3> QED
      BY <1>5, <3>1
  <2>3. words = seen
    <3>1. words = {n \in 1..(c - 1) : t[n] \notin closers}
      BY DEF c
    <3> HIDE DEF t, words
    <3> QED
      BY <2>1, <2>2, <3>1
  <2>4. Head(t) = u[lo]
    BY RestAt
  <2>5. person <=> /\ commas # {} /\ Head(t) \notin closers
                   /\ \A n \in words : t[n] \in Capitals /\ Width(t[n]) = 1
                   /\ Cardinality(words) <= MaxPersonWords
    OBVIOUS
  <2>6. PersonThere(u, lo, p) <=>
          /\ u[lo] \notin closers
          /\ \A n \in seen : u[lo + n - 1] \in Capitals /\ Width(u[lo + n - 1]) = 1
          /\ Cardinality(seen) <= MaxPersonWords
    BY DEF PersonThere
  <2>7. \A n \in seen : t[n] = u[lo + n - 1]
    BY <2>2
  <2> HIDE DEF comma, t, commas, words, person, seen
  <2> QED
    BY <1>4, <2>3, <2>4, <2>5, <2>6, <2>7
<1> HIDE DEF person, words, comma, commas, t
<1>11. titled <=> u[p + 1] \in titles /\ u[p + 2] \notin closers \ {","}
  BY <1>8, <1>9
<1>12. person /\ titled <=> RoleThere(u, lo, p)
  BY <1>10, <1>11 DEF RoleThere
<1>13. ASSUME RoleThere(u, lo, p)
       PROVE  /\ BehindTitle(u, p) \in (p + 2)..Len(u) /\ BehindRole(u, p) \in (p + 2)..Len(u)
              /\ (IF Head(named) = "of" /\ Spaced(named, 1) THEN Tail(named) ELSE named)
                   = Rest(u, BehindRole(u, p))
  <2> DEFINE q == BehindTitle(u, p)
  <2>1. u[p + 1] \in titles
    BY <1>13 DEF RoleThere
  <2>2. p + 2 \in 1..Len(u) /\ rest[2] = u[p + 2] /\ (u[p + 2] = "," => p + 3 \in 1..Len(u))
    BY <1>9, <2>1
  <2>3. q \in (p + 2)..Len(u) /\ q \in 1..Len(u)
    <3>1. p + 2 \in (p + 2)..Len(u)
      <4>1. p + 2 \in 1..Len(u)
        BY <2>2
      <4> QED
        BY <1>2, <4>1
    <3>2. ASSUME u[p + 2] = "," PROVE p + 3 \in (p + 2)..Len(u)
      <4>1. p + 3 \in 1..Len(u)
        BY <2>2, <3>2
      <4> QED
        BY <1>2, <4>1
    <3>3. q \in (p + 2)..Len(u)
      BY <3>1, <3>2 DEF BehindTitle
    <3> HIDE DEF q
    <3> QED
      BY <1>2, <3>3
  <2>4. named = Rest(u, q)
    <3>1. CASE u[p + 2] = ","
      <4>1. 3 \in 1..(len + 1) /\ p + 1 + 3 - 1 = p + 3
        <5>1. p + 3 \in 1..Len(u)
          BY <2>2, <3>1
        <5> QED
          BY <1>2, <1>m, <5>1
      <4>2. Rest(rest, 3) = Rest(u, p + 3)
        BY <1>8, <4>1
      <4> QED
        BY <2>2, <3>1, <4>2 DEF BehindTitle
    <3>2. CASE u[p + 2] # ","
      <4>1. 2 \in 1..(len + 1) /\ p + 1 + 2 - 1 = p + 2
        <5>1. p + 2 \in 1..Len(u)
          BY <2>2
        <5> QED
          BY <1>2, <1>m, <5>1
      <4>2. Rest(rest, 2) = Rest(u, p + 2)
        BY <1>8, <4>1
      <4> QED
        BY <2>2, <3>2, <4>2 DEF BehindTitle
    <3> QED
      BY <3>1, <3>2
  <2> HIDE DEF named, q
  <2>5. Head(named) = u[q] /\ Tail(named) = Rest(u, q + 1)
    BY <2>3, <2>4, RestAt
  <2>6. Spaced(named, 1) <=> SpacedAt(u, q, q)
    <3>1. 1 \in 1..(Len(u) - q + 1) /\ q + 1 - 1 = q
      BY <1>2, <2>3
    <3>2. Spaced(Rest(u, q), 1) <=> SpacedAt(u, q, q + 1 - 1)
      BY <2>3, <3>1, SpacedRest
    <3> QED
      BY <2>4, <3>1, <3>2
  <2>7. BehindRole(u, p) = IF u[q] = "of" /\ SpacedAt(u, q, q) THEN q + 1 ELSE q
    BY DEF BehindRole, q
  <2>8. u[q] = "of" => q + 1 \in (p + 2)..Len(u)
    <3>1. u[q] = "of" => q # Len(u)
      BY <1>0
    <3> QED
      BY <1>2, <2>3, <3>1
  <2>9. BehindRole(u, p) \in (p + 2)..Len(u)
    BY <2>3, <2>7, <2>8
  <2>10. (IF Head(named) = "of" /\ Spaced(named, 1) THEN Tail(named) ELSE named)
            = Rest(u, BehindRole(u, p))
    BY <2>4, <2>5, <2>6, <2>7
  <2> QED
    BY <2>3, <2>9, <2>10 DEF q
<1> HIDE DEF named, titled
<1>14. stripPersonRolePrefix(t) = IF RoleThere(u, lo, p) THEN Rest(u, BehindRole(u, p)) ELSE t
  BY <1>1, <1>12, <1>13
<1> QED
  BY <1>13, <1>14 DEF t

LEMMA NoRole ==
  ASSUME NEW u, Ends(u), NEW lo \in 1..Len(u), \A n \in lo..Len(u) : u[n] # ","
  PROVE  stripPersonRolePrefix(Rest(u, lo)) = Rest(u, lo)
<1> DEFINE t == Rest(u, lo)
<1>1. WordsAt(t, {","}) = {}
  <2>1. SUFFICES ASSUME WordsAt(t, {","}) # {} PROVE FALSE
    OBVIOUS
  <2>2. PICK q \in lo..Len(u) : u[q] \in {","}
    BY <2>1, FirstWordAt
  <2> QED
    BY <2>2
<1> HIDE DEF t
<1>2. stripPersonRolePrefix(t) = t
  BY <1>1 DEF stripPersonRolePrefix
<1> QED
  BY <1>2 DEF t

(* The role pass, by the place it leads to.                                *)
RoleOff(u, lo, m) ==
  \/ m = lo /\ \A n \in lo..Len(u) : u[n] # ","
  \/ \E p \in lo..Len(u) :
       FirstCommaAt(u, lo, p) /\ m = IF RoleThere(u, lo, p) THEN BehindRole(u, p) ELSE lo

LEMMA RoleTo ==
  ASSUME NEW u, Ends(u), NEW lo \in 1..Len(u)
  PROVE  \E m \in lo..Len(u) :
           /\ stripPersonRolePrefix(Rest(u, lo)) = Rest(u, m)
           /\ m = lo \/ (m > lo /\ u[m - 1] \in titles \cup {",", "of"})
           /\ RoleOff(u, lo, m)
<1>1. Len(u) \in Nat /\ lo \in Nat /\ lo <= Len(u)
  BY DEF Ends
<1>2. CASE \A n \in lo..Len(u) : u[n] # ","
  <2>1. stripPersonRolePrefix(Rest(u, lo)) = Rest(u, lo)
    BY <1>2, NoRole
  <2>2. lo \in lo..Len(u)
    BY <1>1
  <2> QED
    BY <1>2, <2>1, <2>2 DEF RoleOff
<1>3. CASE \E n \in lo..Len(u) : u[n] = ","
  <2> DEFINE P == {n \in lo..Len(u) : u[n] = ","}
             p == Min(P)
  <2>1. P \in SUBSET Nat /\ P # {}
    <3>1. P # {} /\ P \subseteq lo..Len(u)
      BY <1>3
    <3> HIDE DEF P
    <3> QED
      BY <1>1, <3>1
  <2>2. p \in P /\ \A n \in P : p <= n
    BY <2>1, MinIn
  <2> HIDE DEF p
  <2>0. u[p] = ","
    BY <2>2
  <2>3. p \in lo..Len(u)
    BY <2>2
  <2>4. ASSUME NEW n \in lo..(p - 1) PROVE u[n] # ","
    <3>1. n \in lo..Len(u) /\ ~(p <= n)
      BY <1>1, <2>3
    <3> QED
      BY <2>2, <3>1
  <2> HIDE DEF P
  <2>5. FirstCommaAt(u, lo, p)
    BY <2>0, <2>4 DEF FirstCommaAt
  <2>6. /\ stripPersonRolePrefix(Rest(u, lo)) =
             IF RoleThere(u, lo, p) THEN Rest(u, BehindRole(u, p)) ELSE Rest(u, lo)
        /\ RoleThere(u, lo, p) => BehindTitle(u, p) \in (p + 2)..Len(u)
                                    /\ BehindRole(u, p) \in (p + 2)..Len(u)
    BY <2>3, <2>5, RoleAt
  <2>7. CASE RoleThere(u, lo, p)
    <3> DEFINE q == BehindTitle(u, p)
               m == BehindRole(u, p)
    <3>0. stripPersonRolePrefix(Rest(u, lo)) = Rest(u, m)
      BY <2>6, <2>7
    <3>1. q \in (p + 2)..Len(u) /\ m \in (p + 2)..Len(u)
      BY <2>6, <2>7
    <3>2. /\ (m = q + 1 /\ u[q] = "of") \/ m = q
          /\ (q = p + 3 /\ u[p + 2] = ",") \/ q = p + 2
      BY DEF BehindRole, BehindTitle
    <3>3. u[p + 1] \in titles
      BY <2>7 DEF RoleThere
    <3>a. RoleOff(u, lo, m)
      BY <2>3, <2>5, <2>7 DEF RoleOff
    <3> HIDE DEF q, m
    <3>4. m \in lo..Len(u) /\ m > lo
      BY <1>1, <2>3, <3>1
    <3>5. (q + 1) - 1 = q /\ (p + 3) - 1 = p + 2 /\ (p + 2) - 1 = p + 1
      BY <1>1, <2>3, <3>1
    <3>6. u[m - 1] \in titles \cup {",", "of"}
      BY <3>2, <3>3, <3>5
    <3> QED
      BY <3>0, <3>a, <3>4, <3>6
  <2>8. CASE ~RoleThere(u, lo, p)
    <3>1. lo \in lo..Len(u)
      BY <1>1
    <3> QED
      BY <2>3, <2>5, <2>6, <2>8, <3>1 DEF RoleOff
  <2> QED
    BY <2>7, <2>8
<1> QED
  BY <1>2, <1>3

(* Behind the first word of some kind that a space follows.                *)
LEMMA BehindFirst ==
  ASSUME NEW u, Ends(u), NEW lo \in 1..Len(u), NEW X, X \cap forms = {}
  PROVE  LET t  == Rest(u, lo)
             at == {n \in WordsAt(t, X) : t[n + 1] \notin closers}
         IN  \/ /\ at = {} /\ \A p \in lo..(Len(u) - 1) : u[p] \in X => u[p + 1] \in closers
             \/ /\ at # {}
                /\ \E p \in lo..(Len(u) - 1) :
                     /\ Rest(t, Min(at) + 1) = Rest(u, p + 1)
                     /\ u[p] \in X /\ u[p + 1] \notin closers
                     /\ \A q \in lo..(p - 1) : u[q] \in X => u[q + 1] \in closers
<1> DEFINE t  == Rest(u, lo)
           at == {n \in WordsAt(t, X) : t[n + 1] \notin closers}
           top == Len(t)
<1>n. Len(u) \in Nat /\ lo \in Nat /\ lo >= 1 /\ lo <= Len(u) /\ top \in Nat /\ top = Len(u) - lo + 1
  BY RestAt DEF Ends
<1>1. /\ t \in Seq(LineWords) /\ t[top] \in forms
      /\ \A n \in 1..top : t[n] = u[lo + n - 1]
      /\ \A n \in 1..(top + 1) : Rest(t, n) = Rest(u, lo + n - 1)
  BY RestAt DEF Ends
<1>2. DOMAIN t = 1..top
  <2> HIDE DEF t
  <2> QED
    BY <1>1 DEF top
<1> HIDE DEF top, t
<1>3. \A n : n \in at <=> n \in 1..top /\ t[n] \in X /\ t[n + 1] \notin closers
  BY <1>2 DEF WordsAt
<1> HIDE DEF at
<1>4. ASSUME NEW n \in 1..top, t[n] \in X
      PROVE  n \in 1..(top - 1) /\ t[n] = u[lo + n - 1] /\ t[n + 1] = u[(lo + n - 1) + 1]
  <2>1. n # top
    BY <1>1, <1>4
  <2>2. n \in 1..(top - 1) /\ n + 1 \in 1..top /\ lo + (n + 1) - 1 = (lo + n - 1) + 1
    BY <1>n, <2>1
  <2> QED
    BY <1>1, <2>2
<1>5. ASSUME NEW p \in lo..(Len(u) - 1), u[p] \in X, u[p + 1] \notin closers
      PROVE  p - lo + 1 \in at
  <2> DEFINE n == p - lo + 1
  <2>1. n \in 1..top /\ n + 1 \in 1..top /\ lo + n - 1 = p /\ lo + (n + 1) - 1 = p + 1
    BY <1>n
  <2> HIDE DEF n
  <2>2. t[n] = u[p] /\ t[n + 1] = u[p + 1]
    BY <1>1, <2>1
  <2>3. n \in at
    BY <1>3, <1>5, <2>1, <2>2
  <2> QED
    BY <2>3 DEF n
<1>6. CASE at = {}
  <2>1. \A p \in lo..(Len(u) - 1) : u[p] \in X => u[p + 1] \in closers
    BY <1>5, <1>6
  <2> QED
    BY <1>6, <2>1 DEF at, t
<1>7. CASE at # {}
  <2> DEFINE k == Min(at)
             p == lo + k - 1
  <2>1. at \in SUBSET Nat
    <3>1. \A n \in at : n \in 1..top
      BY <1>3
    <3> QED
      BY <3>1
  <2>2. k \in at /\ \A n \in at : k <= n
    BY <1>7, <2>1, MinIn
  <2> HIDE DEF k
  <2>3. k \in 1..top /\ t[k] \in X /\ t[k + 1] \notin closers
    BY <1>3, <2>2
  <2>4. k \in 1..(top - 1) /\ u[p] \in X /\ u[p + 1] \notin closers
    BY <1>4, <2>3
  <2>5. p \in lo..(Len(u) - 1) /\ k + 1 \in 1..(top + 1) /\ lo + (k + 1) - 1 = p + 1
    BY <1>n, <2>4
  <2>6. Rest(t, k + 1) = Rest(u, p + 1)
    BY <1>1, <2>5
  <2>7. ASSUME NEW q \in lo..(p - 1), u[q] \in X PROVE u[q + 1] \in closers
    <3>1. SUFFICES ASSUME u[q + 1] \notin closers PROVE FALSE
      OBVIOUS
    <3>2. q \in lo..(Len(u) - 1) /\ ~(k <= q - lo + 1)
      BY <1>n, <2>4, <2>5
    <3>3. q - lo + 1 \in at
      BY <1>5, <2>7, <3>1, <3>2
    <3> QED
      BY <2>2, <3>2, <3>3
  <2> HIDE DEF p
  <2>8. Rest(t, Min(at) + 1) = Rest(u, p + 1)
    BY <2>6 DEF k
  <2>9. \E r \in lo..(Len(u) - 1) :
          /\ Rest(t, Min(at) + 1) = Rest(u, r + 1)
          /\ u[r] \in X /\ u[r + 1] \notin closers
          /\ \A q \in lo..(r - 1) : u[q] \in X => u[q + 1] \in closers
    BY <2>4, <2>5, <2>7, <2>8
  <2> QED
    BY <1>7, <2>9 DEF at, t
<1> QED
  BY <1>6, <1>7

LEMMA TradingTo ==
  ASSUME NEW u, Ends(u), NEW lo \in 1..Len(u)
  PROVE  LET t  == Rest(u, lo)
             at == {n \in WordsAt(t, tradingNames) : t[n + 1] \notin closers}
         IN  \E m \in lo..Len(u) :
               /\ (IF at = {} THEN t ELSE Rest(t, Min(at) + 1)) = Rest(u, m)
               /\ \/ m = lo /\ \A p \in lo..(Len(u) - 1) : u[p] \in tradingNames => u[p + 1] \in closers
                  \/ /\ m > lo /\ u[m - 1] \in tradingNames /\ u[m] \notin closers
                     /\ \A q \in lo..(m - 2) : u[q] \in tradingNames => u[q + 1] \in closers
<1> DEFINE t  == Rest(u, lo)
           at == {n \in WordsAt(t, tradingNames) : t[n + 1] \notin closers}
<1>1. tradingNames \cap forms = {}
  BY DEF tradingNames, forms
<1>2. \/ /\ at = {} /\ \A p \in lo..(Len(u) - 1) : u[p] \in tradingNames => u[p + 1] \in closers
      \/ /\ at # {}
         /\ \E p \in lo..(Len(u) - 1) :
              /\ Rest(t, Min(at) + 1) = Rest(u, p + 1)
              /\ u[p] \in tradingNames /\ u[p + 1] \notin closers
              /\ \A q \in lo..(p - 1) : u[q] \in tradingNames => u[q + 1] \in closers
  BY <1>1, BehindFirst
<1>3. lo \in lo..Len(u) /\ Len(u) \in Nat
  BY DEF Ends
<1> HIDE DEF at, t
<1>4. CASE at = {}
  BY <1>2, <1>3, <1>4 DEF at, t
<1>5. CASE at # {}
  <2>1. PICK p \in lo..(Len(u) - 1) :
          /\ Rest(t, Min(at) + 1) = Rest(u, p + 1)
          /\ u[p] \in tradingNames /\ u[p + 1] \notin closers
          /\ \A q \in lo..(p - 1) : u[q] \in tradingNames => u[q + 1] \in closers
    BY <1>2, <1>5
  <2> DEFINE m == p + 1
  <2>2. m \in lo..Len(u) /\ m > lo /\ m - 1 = p /\ m - 2 = p - 1
    BY <1>3
  <2>3. /\ (IF at = {} THEN t ELSE Rest(t, Min(at) + 1)) = Rest(u, m)
        /\ u[m] \notin closers
    BY <1>5, <2>1
  <2> HIDE DEF m
  <2>4. /\ u[m - 1] \in tradingNames
        /\ \A q \in lo..(m - 2) : u[q] \in tradingNames => u[q + 1] \in closers
    BY <2>1, <2>2
  <2> QED
    BY <2>2, <2>3, <2>4 DEF at, t
<1> QED
  BY <1>4, <1>5

LEMMA AwardTo ==
  ASSUME NEW u, Ends(u), NEW lo \in 1..Len(u)
  PROVE  LET t      == Rest(u, lo)
             colons == {n \in WordsAt(t, {":"}) : t[n + 1] \notin closers}
         IN  \E m \in lo..Len(u) :
               /\ (IF Head(t) = "Best" /\ Spaced(t, 1) /\ colons # {} THEN Rest(t, Min(colons) + 1) ELSE t)
                    = Rest(u, m)
               /\ \/ /\ m = lo
                     /\ u[lo] = "Best" /\ SpacedAt(u, lo, lo) =>
                          \A p \in lo..(Len(u) - 1) : u[p] = ":" => u[p + 1] \in closers
                  \/ /\ m > lo /\ u[lo] = "Best" /\ u[m - 1] = ":" /\ u[m] \notin closers
                     /\ \A q \in lo..(m - 2) : u[q] = ":" => u[q + 1] \in closers
<1> DEFINE t  == Rest(u, lo)
           colons == {n \in WordsAt(t, {":"}) : t[n + 1] \notin closers}
<1>1. {":"} \cap forms = {}
  BY DEF forms
<1>2. \/ /\ colons = {} /\ \A p \in lo..(Len(u) - 1) : u[p] \in {":"} => u[p + 1] \in closers
      \/ /\ colons # {}
         /\ \E p \in lo..(Len(u) - 1) :
              /\ Rest(t, Min(colons) + 1) = Rest(u, p + 1)
              /\ u[p] \in {":"} /\ u[p + 1] \notin closers
              /\ \A q \in lo..(p - 1) : u[q] \in {":"} => u[q + 1] \in closers
  BY <1>1, BehindFirst
<1>3. lo \in lo..Len(u) /\ Len(u) \in Nat
  BY DEF Ends
<1>4. Head(t) = u[lo]
  BY RestAt
<1>5. Spaced(t, 1) <=> SpacedAt(u, lo, lo)
  <2>1. 1 \in 1..(Len(u) - lo + 1) /\ lo + 1 - 1 = lo
    BY <1>3
  <2>2. Spaced(t, 1) <=> SpacedAt(u, lo, lo + 1 - 1)
    BY <2>1, SpacedRest
  <2> QED
    BY <2>1, <2>2
<1> HIDE DEF colons, t
<1>6. CASE u[lo] = "Best" /\ SpacedAt(u, lo, lo) /\ colons # {}
  <2>1. PICK p \in lo..(Len(u) - 1) :
          /\ Rest(t, Min(colons) + 1) = Rest(u, p + 1)
          /\ u[p] \in {":"} /\ u[p + 1] \notin closers
          /\ \A q \in lo..(p - 1) : u[q] \in {":"} => u[q + 1] \in closers
    BY <1>2, <1>6
  <2> DEFINE m == p + 1
  <2>2. m \in lo..Len(u) /\ m > lo /\ m - 1 = p /\ m - 2 = p - 1
    BY <1>3
  <2>3. /\ (IF Head(t) = "Best" /\ Spaced(t, 1) /\ colons # {} THEN Rest(t, Min(colons) + 1) ELSE t)
             = Rest(u, m)
        /\ u[m] \notin closers
    BY <1>4, <1>5, <1>6, <2>1
  <2> HIDE DEF m
  <2>4. u[m - 1] = ":" /\ \A q \in lo..(m - 2) : u[q] = ":" => u[q + 1] \in closers
    BY <2>1, <2>2
  <2> QED
    BY <1>6, <2>2, <2>3, <2>4 DEF colons, t
<1>7. CASE ~(u[lo] = "Best" /\ SpacedAt(u, lo, lo) /\ colons # {})
  <2>1. (IF Head(t) = "Best" /\ Spaced(t, 1) /\ colons # {} THEN Rest(t, Min(colons) + 1) ELSE t)
          = Rest(u, lo)
    BY <1>4, <1>5, <1>7 DEF t
  <2>2. u[lo] = "Best" /\ SpacedAt(u, lo, lo) =>
          \A p \in lo..(Len(u) - 1) : u[p] = ":" => u[p + 1] \in closers
    BY <1>2, <1>7
  <2> QED
    BY <1>3, <2>1, <2>2 DEF colons, t
<1> QED
  BY <1>6, <1>7

-----------------------------------------------------------------------------
(* Labels                                                                  *)

SignedAt(u, lo, S) == lo < Len(u) /\ u[lo + 1] \in S

BehindLabel(u, lo) ==
  IF \/ u[lo] \in titledLabels /\ SignedAt(u, lo, {":", "-"})
     \/ u[lo] \in colonLabels /\ SignedAt(u, lo, {":"})
  THEN lo + 2
  ELSE IF u[lo] \in titledLabels \cup plainLabels /\ SpacedAt(u, lo, lo) THEN lo + 1 ELSE lo

LEMMA SignedRest ==
  ASSUME NEW u, Ends(u), NEW lo \in 1..Len(u), NEW S
  PROVE  LET t == Rest(u, lo) IN (Len(t) > 1 /\ t[2] \in S) <=> SignedAt(u, lo, S)
<1> DEFINE t == Rest(u, lo)
           top == Len(t)
<1>1. Len(u) \in Nat /\ lo \in Nat /\ lo >= 1 /\ lo <= Len(u) /\ top \in Nat /\ top = Len(u) - lo + 1
  BY RestAt DEF Ends
<1>2. \A n \in 1..top : t[n] = u[lo + n - 1]
  BY RestAt
<1> HIDE DEF top, t
<1>3. top > 1 <=> lo < Len(u)
  BY <1>1
<1>4. ASSUME top > 1 PROVE t[2] = u[lo + 1]
  <2>1. 2 \in 1..top /\ lo + 2 - 1 = lo + 1
    BY <1>1, <1>4
  <2> QED
    BY <1>2, <2>1
<1>5. (top > 1 /\ t[2] \in S) <=> SignedAt(u, lo, S)
  BY <1>3, <1>4 DEF SignedAt
<1> QED
  BY <1>5 DEF top, t

LEMMA SpacedFirst ==
  ASSUME NEW u, Ends(u), NEW lo \in 1..Len(u)
  PROVE  Spaced(Rest(u, lo), 1) <=> SpacedAt(u, lo, lo)
<1>1. 1 \in 1..(Len(u) - lo + 1) /\ lo + 1 - 1 = lo
  BY DEF Ends
<1>2. Spaced(Rest(u, lo), 1) <=> SpacedAt(u, lo, lo + 1 - 1)
  BY <1>1, SpacedRest
<1> QED
  BY <1>1, <1>2

LEMMA LabelTo ==
  ASSUME NEW u, Ends(u), NEW lo \in 1..Len(u)
  PROVE  /\ WithoutLabel(Rest(u, lo)) = Rest(u, BehindLabel(u, lo))
         /\ BehindLabel(u, lo) \in lo..Len(u)
<1> DEFINE t == Rest(u, lo)
           Signed(S) == Len(t) > 1 /\ t[2] \in S
           top == Len(t)
<1>1. /\ Head(t) = u[lo] /\ Tail(t) = Rest(u, lo + 1)
      /\ \A n \in 1..(top + 1) : Rest(t, n) = Rest(u, lo + n - 1)
  BY RestAt
<1>n. Len(u) \in Nat /\ lo \in Nat /\ lo >= 1 /\ lo <= Len(u) /\ top \in Nat /\ top = Len(u) - lo + 1
  BY RestAt DEF Ends
<1>2. \A S : Signed(S) <=> SignedAt(u, lo, S)
  BY SignedRest
<1>3. Spaced(t, 1) <=> SpacedAt(u, lo, lo)
  BY SpacedFirst
<1>4. WithoutLabel(t) =
        CASE Head(t) \in titledLabels /\ Signed({":", "-"}) -> Rest(t, 3)
          [] Head(t) \in titledLabels /\ ~Signed({":", "-"}) /\ Spaced(t, 1) -> Tail(t)
          [] Head(t) \in colonLabels /\ Signed({":"}) -> Rest(t, 3)
          [] Head(t) \in plainLabels /\ Spaced(t, 1) -> Tail(t)
          [] OTHER -> t
  BY DEF WithoutLabel
<1> HIDE DEF Signed, t, top
<1>5. /\ \A x \in colonLabels \cup plainLabels : x \notin titledLabels
      /\ \A x \in plainLabels : x \notin colonLabels
      /\ \A x \in titledLabels \cup plainLabels : x \notin forms
      /\ ":" \notin forms /\ "-" \notin forms
  BY DEF titledLabels, colonLabels, plainLabels, forms
<1>6. u[Len(u)] \in forms
  BY DEF Ends
<1> DEFINE two == \/ u[lo] \in titledLabels /\ SignedAt(u, lo, {":", "-"})
                  \/ u[lo] \in colonLabels /\ SignedAt(u, lo, {":"})
           one == u[lo] \in titledLabels \cup plainLabels /\ SpacedAt(u, lo, lo)
<1>7. WithoutLabel(t) = IF two THEN Rest(t, 3) ELSE IF one THEN Tail(t) ELSE t
  BY <1>1, <1>2, <1>3, <1>4, <1>5
<1>8. BehindLabel(u, lo) = IF two THEN lo + 2 ELSE IF one THEN lo + 1 ELSE lo
  BY DEF BehindLabel
<1>9. ASSUME two PROVE lo + 2 \in lo..Len(u) /\ Rest(t, 3) = Rest(u, lo + 2)
  <2>1. lo < Len(u) /\ lo + 1 # Len(u)
    BY <1>5, <1>6, <1>9 DEF SignedAt
  <2>2. lo + 2 \in lo..Len(u) /\ 3 \in 1..(top + 1) /\ lo + 3 - 1 = lo + 2
    BY <1>n, <2>1
  <2> QED
    BY <1>1, <2>2
<1>10. ASSUME one PROVE lo + 1 \in lo..Len(u)
  <2>1. lo # Len(u)
    BY <1>5, <1>6, <1>10
  <2> QED
    BY <1>n, <2>1
<1>11. lo \in lo..Len(u)
  BY <1>n
<1> HIDE DEF two, one
<1>12. BehindLabel(u, lo) \in lo..Len(u)
  BY <1>8, <1>9, <1>10, <1>11
<1>13. WithoutLabel(t) = Rest(u, BehindLabel(u, lo))
  BY <1>1, <1>7, <1>8, <1>9 DEF t
<1> QED
  BY <1>12, <1>13 DEF t

BehindHosting(u, lo) == IF u[lo] \in hostingProse /\ SpacedAt(u, lo, lo) THEN lo + 1 ELSE lo

LEMMA HostingTo ==
  ASSUME NEW u, Ends(u), NEW lo \in 1..Len(u)
  PROVE  /\ stripHostingProsePrefix(Rest(u, lo)) = Rest(u, BehindHosting(u, lo))
         /\ BehindHosting(u, lo) \in lo..Len(u)
<1>1. Head(Rest(u, lo)) = u[lo] /\ Tail(Rest(u, lo)) = Rest(u, lo + 1)
        /\ (Spaced(Rest(u, lo), 1) <=> SpacedAt(u, lo, lo))
  BY RestAt, SpacedFirst
<1>2. stripHostingProsePrefix(Rest(u, lo)) = Rest(u, BehindHosting(u, lo))
  BY <1>1 DEF stripHostingProsePrefix, BehindHosting
<1>3. Len(u) \in Nat /\ lo \in Nat /\ lo <= Len(u)
  BY DEF Ends
<1>4. u[lo] \in hostingProse => lo # Len(u)
  BY DEF Ends, hostingProse, forms
<1>5. BehindHosting(u, lo) \in lo..Len(u)
  <2>1. CASE u[lo] \in hostingProse /\ SpacedAt(u, lo, lo)
    <3>1. lo # Len(u)
      BY <1>4, <2>1
    <3>2. lo + 1 \in lo..Len(u)
      BY <1>3, <3>1
    <3> QED
      BY <2>1, <3>2 DEF BehindHosting
  <2>2. CASE ~(u[lo] \in hostingProse /\ SpacedAt(u, lo, lo))
    <3>1. lo \in lo..Len(u)
      BY <1>3
    <3> QED
      BY <2>2, <3>1 DEF BehindHosting
  <2> QED
    BY <2>1, <2>2
<1> QED
  BY <1>2, <1>5

(* So many labels stand there one after another, each with its sign.       *)
ContactsAt(u, lo, k) ==
  \A j \in 1..k : u[lo + 2 * j - 2] \in contactLabels /\ u[lo + 2 * j - 1] \in {":", "-"}

LEMMA Halves ==
  ASSUME NEW n \in Nat
  PROVE  n \div 2 \in Nat /\ 2 * (n \div 2) <= n /\ n < 2 * (n \div 2) + 2
OBVIOUS

LEMMA ContactTo ==
  ASSUME NEW u, Ends(u), NEW lo \in 1..Len(u)
  PROVE  \E k \in Nat :
           /\ lo + 2 * k \in lo..Len(u)
           /\ stripContactLabelPrefix(Rest(u, lo)) = Rest(u, lo + 2 * k)
           /\ ContactsAt(u, lo, k)
           /\ ~(u[lo + 2 * k] \in contactLabels /\ SignedAt(u, lo + 2 * k, {":", "-"}))
<1> DEFINE t == Rest(u, lo)
           top == Len(t)
           half == top \div 2
           Pair(j) == t[2 * j - 1] \in contactLabels /\ t[2 * j] \in {":", "-"}
           labels == {k \in 0..half : \A j \in 1..k : Pair(j)}
           k == Max(labels)
<1>1. /\ \A n \in 1..top : t[n] = u[lo + n - 1]
      /\ \A n \in 1..(top + 1) : Rest(t, n) = Rest(u, lo + n - 1)
      /\ t[top] \in forms
  BY RestAt DEF Ends
<1>n. Len(u) \in Nat /\ lo \in Nat /\ lo >= 1 /\ lo <= Len(u) /\ top \in Nat /\ top = Len(u) - lo + 1
  BY RestAt DEF Ends
<1>2. stripContactLabelPrefix(t) = Rest(t, 2 * k + 1)
  BY DEF stripContactLabelPrefix
<1> HIDE DEF t, top
<1>h. half \in Nat /\ 2 * half <= top /\ top < 2 * half + 2
  BY <1>n, Halves
<1> HIDE DEF half
<1>3. k \in labels /\ \A n \in labels : n <= k
  <2>1. 0 \in labels /\ labels \subseteq 0..half
    BY <1>h
  <2> HIDE DEF labels
  <2>2. labels \in SUBSET Nat /\ labels # {} /\ \A n \in labels : n <= half
    BY <1>h, <2>1
  <2> QED
    BY <1>h, <2>2, MaxIn
<1> HIDE DEF k
<1>4. k \in 0..half /\ \A j \in 1..k : Pair(j)
  BY <1>3
<1>5. ASSUME NEW j \in 1..half
      PROVE  Pair(j) <=> u[lo + 2 * j - 2] \in contactLabels /\ u[lo + 2 * j - 1] \in {":", "-"}
  <2>1. /\ 2 * j - 1 \in 1..top /\ 2 * j \in 1..top
        /\ lo + (2 * j - 1) - 1 = lo + 2 * j - 2 /\ lo + (2 * j) - 1 = lo + 2 * j - 1
    BY <1>n, <1>h
  <2>2. t[2 * j - 1] = u[lo + 2 * j - 2] /\ t[2 * j] = u[lo + 2 * j - 1]
    BY <1>1, <2>1
  <2> QED
    BY <2>2
<1>6. k \in Nat /\ k <= half
  BY <1>h, <1>4
<1>7. ContactsAt(u, lo, k)
  <2>1. ASSUME NEW j \in 1..k
        PROVE  u[lo + 2 * j - 2] \in contactLabels /\ u[lo + 2 * j - 1] \in {":", "-"}
    <3>1. j \in 1..half
      BY <1>h, <1>6
    <3>2. Pair(j)
      BY <1>4
    <3> HIDE DEF Pair
    <3> QED
      BY <1>5, <3>1, <3>2
  <2> QED
    BY <2>1 DEF ContactsAt
<1>8. lo + 2 * k \in lo..Len(u)
  <2>1. CASE k = 0
    BY <1>n, <2>1
  <2>2. CASE k > 0
    <3>1. k \in 1..k
      BY <1>6, <2>2
    <3>2. t[2 * k] \in {":", "-"}
      BY <1>4, <3>1
    <3>3. 2 * k # top
      BY <1>1, <3>2 DEF forms
    <3> QED
      BY <1>n, <1>h, <1>6, <3>3
  <2> QED
    BY <1>6, <2>1, <2>2
<1>9. Rest(t, 2 * k + 1) = Rest(u, lo + 2 * k)
  <2>1. 2 * k + 1 \in 1..(top + 1) /\ lo + (2 * k + 1) - 1 = lo + 2 * k
    BY <1>n, <1>h, <1>6
  <2> QED
    BY <1>1, <2>1
<1>10. ~(u[lo + 2 * k] \in contactLabels /\ SignedAt(u, lo + 2 * k, {":", "-"}))
  <2>1. SUFFICES ASSUME u[lo + 2 * k] \in contactLabels, SignedAt(u, lo + 2 * k, {":", "-"}) PROVE FALSE
    OBVIOUS
  <2>2. lo + 2 * k < Len(u) /\ u[lo + 2 * k + 1] \in {":", "-"}
    BY <2>1 DEF SignedAt
  <2> DEFINE n == k + 1
  <2>3. lo + 2 * k < Len(u)
    BY <2>2
  <2>4. n \in 1..half /\ lo + 2 * n - 2 = lo + 2 * k /\ lo + 2 * n - 1 = lo + 2 * k + 1
    BY <1>n, <1>h, <1>6, <2>3
  <2>5. \A j \in 1..n : j \in 1..k \/ j = n
    BY <1>6
  <2>6. ~(n <= k) /\ n \in 0..half
    BY <1>h, <1>6, <2>4
  <2> HIDE DEF n
  <2>7. Pair(n)
    <3> HIDE DEF Pair
    <3> QED
      BY <1>5, <2>1, <2>2, <2>4
  <2>8. \A j \in 1..n : Pair(j)
    <3> HIDE DEF Pair
    <3> QED
      BY <1>4, <2>5, <2>7
  <2>9. n \in labels
    <3> HIDE DEF Pair
    <3> QED
      BY <2>6, <2>8
  <2> QED
    BY <1>3, <2>6, <2>9
<1>11. stripContactLabelPrefix(Rest(u, lo)) = Rest(u, lo + 2 * k)
  BY <1>2, <1>9 DEF t
<1> QED
  BY <1>6, <1>7, <1>8, <1>10, <1>11

labelWords == titledLabels \cup colonLabels \cup plainLabels \cup {":", "-"}
                \cup hostingProse \cup numberedParts

(* Where the passes over labels lead to, one after another.                *)
LEMMA LabelsTo ==
  ASSUME NEW u, Ends(u), NEW lo \in 1..Len(u)
  PROVE  \E m \in lo..Len(u) :
           /\ stripLabelPrefix(Rest(u, lo)) = Rest(u, m)
           /\ m = lo \/ (m > lo /\ u[m - 1] \in labelWords)
           /\ u[lo] \in numberedParts => m = lo + 1
           /\ u[lo] \notin numberedParts =>
                \E k \in Nat :
                  LET a == BehindLabel(u, lo)
                      b == a + 2 * k
                  IN  /\ a \in lo..Len(u) /\ b \in a..Len(u) /\ m = BehindHosting(u, b)
                      /\ ContactsAt(u, a, k)
                      /\ ~(u[b] \in contactLabels /\ SignedAt(u, b, {":", "-"}))
<1>1. Len(u) \in Nat /\ lo \in Nat /\ lo >= 1 /\ lo <= Len(u)
  BY DEF Ends
<1>2. Head(Rest(u, lo)) = u[lo] /\ Tail(Rest(u, lo)) = Rest(u, lo + 1)
  BY RestAt
<1>3. CASE u[lo] \in numberedParts
  <2>1. stripLabelPrefix(Rest(u, lo)) = Rest(u, lo + 1)
    BY <1>2, <1>3 DEF stripLabelPrefix
  <2>2. lo # Len(u)
    BY <1>3 DEF Ends, numberedParts, forms
  <2> DEFINE m == lo + 1
  <2>3. m \in lo..Len(u) /\ m > lo /\ m - 1 = lo /\ m = lo + 1
    BY <1>1, <2>2
  <2>4. stripLabelPrefix(Rest(u, lo)) = Rest(u, m)
    BY <2>1
  <2> HIDE DEF m
  <2>5. u[m - 1] \in labelWords
    BY <1>3, <2>3 DEF labelWords
  <2> QED
    BY <1>3, <2>3, <2>4, <2>5
<1>4. CASE u[lo] \notin numberedParts
  <2> DEFINE a == BehindLabel(u, lo)
  <2>1. WithoutLabel(Rest(u, lo)) = Rest(u, a) /\ a \in lo..Len(u)
    BY LabelTo
  <2>2. \/ a = lo + 2 /\ SignedAt(u, lo, {":", "-"})
        \/ a = lo + 1 /\ u[lo] \in titledLabels \cup plainLabels
        \/ a = lo
    BY DEF BehindLabel, SignedAt
  <2> HIDE DEF a
  <2>3. a \in 1..Len(u)
    BY <1>1, <2>1
  <2>4. PICK k \in Nat :
           /\ a + 2 * k \in a..Len(u)
           /\ stripContactLabelPrefix(Rest(u, a)) = Rest(u, a + 2 * k)
           /\ ContactsAt(u, a, k)
           /\ ~(u[a + 2 * k] \in contactLabels /\ SignedAt(u, a + 2 * k, {":", "-"}))
    BY <2>3, ContactTo
  <2> DEFINE b == a + 2 * k
             m == BehindHosting(u, b)
  <2>5. b \in 1..Len(u) /\ b \in a..Len(u)
    <3>1. a + 2 * k \in a..Len(u)
      BY <2>4
    <3> QED
      BY <1>1, <2>3, <3>1
  <2>6. b = a \/ (b > a /\ u[b - 1] \in {":", "-"})
    <3>1. CASE k = 0
      BY <2>3, <3>1
    <3>2. CASE k # 0
      <4>1. k \in 1..k /\ a + 2 * k - 1 = b - 1 /\ b > a
        BY <2>3, <3>2
      <4>2. u[a + 2 * k - 1] \in {":", "-"}
        BY <2>4, <4>1 DEF ContactsAt
      <4> QED
        BY <4>1, <4>2
    <3> QED
      BY <3>1, <3>2
  <2>7. stripContactLabelPrefix(Rest(u, a)) = Rest(u, b)
    BY <2>4
  <2>c. ContactsAt(u, a, k) /\ ~(u[b] \in contactLabels /\ SignedAt(u, b, {":", "-"}))
    BY <2>4
  <2> HIDE DEF b
  <2>8. stripHostingProsePrefix(Rest(u, b)) = Rest(u, m) /\ m \in b..Len(u)
    BY <2>5, HostingTo
  <2>9. (m = b + 1 /\ u[b] \in hostingProse) \/ m = b
    BY DEF BehindHosting
  <2> HIDE DEF m
  <2>10. stripLabelPrefix(Rest(u, lo)) = Rest(u, m)
    BY <1>2, <1>4, <2>1, <2>7, <2>8 DEF stripLabelPrefix
  <2>11. m \in lo..Len(u)
    BY <1>1, <2>1, <2>5, <2>8
  <2>12. m = lo \/ (m > lo /\ u[m - 1] \in labelWords)
    <3>1. CASE m = b + 1 /\ u[b] \in hostingProse
      <4>1. m - 1 = b /\ m > lo
        BY <1>1, <2>1, <2>5, <3>1
      <4> QED
        BY <3>1, <4>1 DEF labelWords
    <3>2. CASE m = b /\ b > a /\ u[b - 1] \in {":", "-"}
      <4>1. m > lo
        BY <1>1, <2>1, <2>5, <3>2
      <4> QED
        BY <3>2, <4>1 DEF labelWords
    <3>3. CASE m = a
      <4>1. CASE a = lo + 2 /\ SignedAt(u, lo, {":", "-"})
        <5>1. m - 1 = lo + 1 /\ m > lo
          BY <1>1, <3>3, <4>1
        <5> QED
          BY <4>1, <5>1 DEF SignedAt, labelWords
      <4>2. CASE a = lo + 1 /\ u[lo] \in titledLabels \cup plainLabels
        <5>1. m - 1 = lo /\ m > lo
          BY <1>1, <3>3, <4>2
        <5> QED
          BY <4>2, <5>1 DEF labelWords
      <4> QED
        BY <2>2, <3>3, <4>1, <4>2
    <3> QED
      BY <2>6, <2>9, <3>1, <3>2, <3>3
  <2>13. /\ BehindLabel(u, lo) \in lo..Len(u)
         /\ BehindLabel(u, lo) + 2 * k \in BehindLabel(u, lo)..Len(u)
         /\ m = BehindHosting(u, BehindLabel(u, lo) + 2 * k)
         /\ ContactsAt(u, BehindLabel(u, lo), k)
         /\ ~(/\ u[BehindLabel(u, lo) + 2 * k] \in contactLabels
              /\ SignedAt(u, BehindLabel(u, lo) + 2 * k, {":", "-"}))
    BY <2>1, <2>5, <2>c DEF a, b, m
  <2> QED
    BY <1>4, <2>10, <2>11, <2>12, <2>13
<1> QED
  BY <1>3, <1>4

-----------------------------------------------------------------------------
(* Names                                                                   *)

NameWords == Capital \cup hyphenated \cup {"und"}

LEMMA OwnWord ==
  ASSUME NEW x \in Capital \cup Small
  PROVE  x \notin capitalWords /\ x \notin smallWords /\ x \notin lineSigns
BY LinesAssumption

(* No word of a name is in a table that a pass looks a word up in, but for *)
(* the conjunction of a compound.                                          *)
otherWords ==
  bounds \cup abbreviations \cup {"copyright sign", "Copyright", "All rights reserved"} \cup years
    \cup quotes \cup {"and"} \cup titles \cup tradingNames \cup labelWords \cup contactLabels
    \cup {"Best", "of", "the", ".", ","} \cup openers \cup closers \cup hostingProse
    \cup sentencePhrases \cup registerWords \cup forms

LEMMA NameWordIsNone ==
  ASSUME NEW x \in NameWords
  PROVE  x \notin otherWords /\ (x \in Capitals \/ x = "und")
<1>1. x \in Capital \/ x = "Musik-" \/ x = "und"
  BY DEF NameWords, hyphenated
<1>2. otherWords \subseteq (capitalWords \ {"Musik-"}) \cup (smallWords \ {"und"}) \cup lineSigns
  BY KnownWords DEF otherWords, bounds, abbreviations, years, quotes, titles, tradingNames, labelWords,
    titledLabels, colonLabels, plainLabels, contactLabels, openers, closers, hostingProse,
    sentencePhrases, registerWords, forms, numberedParts
<1>3. "Musik-" \notin smallWords \cup lineSigns /\ "und" \notin capitalWords \cup lineSigns
        /\ "Musik-" \in capitalWords
  BY KnownWords
<1> QED
  BY <1>1, <1>2, <1>3, OwnWord DEF Capitals

LEMMA CapitalIsNotSmall ==
  ASSUME NEW x \in Capitals
  PROVE  x \notin Smalls
<1>1. capitalWords \cap smallWords = {}
  BY KnownWords
<1> QED
  BY <1>1, LinesAssumption DEF Capitals, Smalls

LEMMA NameIs ==
  ASSUME NEW t \in Seq(LineWords), IsOwnName(t)
  PROVE  /\ Len(t) \in Nat /\ Len(t) > 0
         /\ \A n \in 1..Len(t) : t[n] \in NameWords
         /\ t[1] \in Capital \cup hyphenated /\ t[Len(t)] \in Capital
         /\ Head(t) = t[1] /\ Last(t) = t[Len(t)] /\ t # <<>>
         /\ \A n \in 1..Len(t) : t[n] = "und" => n > 1 /\ t[n - 1] \in hyphenated
<1>1. t # <<>> /\ Head(t) \in Capital \cup hyphenated /\ Last(t) \in Capital
        /\ Range(t) \subseteq NameWords
        /\ \A n \in 1..(Len(t) - 1) : t[n] \in hyphenated <=> t[n + 1] = "und"
  BY DEF IsOwnName, NameWords
<1>2. Len(t) \in Nat /\ Len(t) > 0
  BY <1>1, EmptySeq
<1>3. Head(t) = t[1] /\ Last(t) = t[Len(t)]
  BY <1>1, <1>2, TailIsRest
<1>4. \A n \in 1..Len(t) : t[n] \in NameWords
  <2>1. DOMAIN t = 1..Len(t)
    BY LenProperties
  <2> QED
    BY <1>1, <2>1 DEF Range
<1>5. "und" \notin Capital \cup hyphenated
  <2>1. "und" \in smallWords
    BY KnownWords
  <2> QED
    BY <2>1, OwnWord DEF hyphenated
<1>6. ASSUME NEW n \in 1..Len(t), t[n] = "und" PROVE n > 1 /\ t[n - 1] \in hyphenated
  <2>1. n # 1
    BY <1>1, <1>3, <1>5, <1>6
  <2>2. n > 1 /\ n - 1 \in 1..(Len(t) - 1) /\ (n - 1) + 1 = n
    BY <1>2, <2>1
  <2> QED
    BY <1>1, <1>6, <2>2
<1> QED
  BY <1>1, <1>2, <1>3, <1>4, <1>6

(* A name is clean, whatever the form.                                     *)
LEMMA NameIsClean ==
  ASSUME NEW t \in Seq(LineWords), IsOwnName(t)
  PROVE  cleanCandidateName(t)
<1>1. /\ Len(t) \in Nat /\ Len(t) > 0
      /\ \A n \in 1..Len(t) : t[n] \in NameWords
      /\ t[1] \in Capital \cup hyphenated /\ t[Len(t)] \in Capital
      /\ Head(t) = t[1] /\ Last(t) = t[Len(t)] /\ t # <<>>
  BY NameIs
<1>2. \A n \in 1..Len(t) : t[n] \notin otherWords
  BY <1>1, NameWordIsNone
<1>3. 1 \in 1..Len(t) /\ Len(t) \in 1..Len(t)
  BY <1>1
<1>4. \A X \in SUBSET otherWords : WordsAt(t, X) = {}
  <2>1. ASSUME NEW X \in SUBSET otherWords PROVE WordsAt(t, X) = {}
    <3>1. \A n \in 1..Len(t) : t[n] \notin X
      BY <1>2
    <3> QED
      BY <3>1, NoWord
  <2> QED
    BY <2>1
<1>5. WordsAt(t, sentencePhrases) = {} /\ WordsAt(t, bars) = {}
  BY <1>4 DEF otherWords, bounds, bars
<1>6. WordsAt(t, {"("}) = {} /\ WordsAt(t, {")"}) = {}
  <2>1. {"("} \subseteq otherWords /\ {")"} \subseteq otherWords
    BY DEF otherWords, openers, closers
  <2> QED
    BY <1>4, <2>1
<1>7. Head(t) \notin years \cup {"copyright sign"} /\ Last(t) \notin years /\ Last(t) # ","
        /\ Head(t) \notin registerWords /\ Head(t) \notin stopBrands
  BY <1>1, <1>2, <1>3 DEF otherWords, stopBrands
<1>8. ~StartsSmall(t)
  <2> DEFINE X == Capitals \cup Smalls
  <2>1. SUFFICES ASSUME WordsAt(t, X) # {}, t[Min(WordsAt(t, X))] \in Smalls PROVE FALSE
    BY DEF StartsSmall
  <2>2. Min(WordsAt(t, X)) \in 1..Len(t) /\ \A n \in 1..(Min(WordsAt(t, X)) - 1) : t[n] \notin X
    BY <2>1, FirstWord
  <2>3. t[1] \in Capitals
    BY <1>1 DEF Capitals, capitalWords, hyphenated
  <2> DEFINE k == Min(WordsAt(t, X))
  <2>4. k \in 1..Len(t) /\ (1 \in 1..(k - 1) => FALSE)
    BY <2>2, <2>3
  <2>5. t[k] \in Smalls
    BY <2>1
  <2> HIDE DEF k
  <2>6. k = 1
    BY <2>4
  <2> QED
    BY <2>3, <2>5, <2>6, CapitalIsNotSmall
<1>9. Cardinality(StopWordsIn(t)) < 2
  <2>1. \A x \in NameWords : StopWordsOf(x) \subseteq {"und"}
    <3>1. ASSUME NEW x \in NameWords PROVE StopWordsOf(x) \subseteq {"und"}
      <4>1. /\ x = "und" \/ x \notin stopWords
            /\ x \notin hostingProse /\ x \notin sentencePhrases /\ x \notin tradingNames
        BY NameWordIsNone DEF otherWords, stopWords
      <4>2. "und" \in stopWords
        BY DEF stopWords
      <4>3. CASE x = "und"
        BY <4>1, <4>2, <4>3 DEF StopWordsOf
      <4>4. CASE x # "und"
        BY <4>1, <4>4 DEF StopWordsOf
      <4> QED
        BY <4>3, <4>4
    <3> QED
      BY <3>1
  <2>2. DOMAIN t = 1..Len(t)
    BY LenProperties
  <2>3. StopWordsIn(t) \subseteq {"und"}
    <3>1. ASSUME NEW y \in StopWordsIn(t) PROVE y \in {"und"}
      <4>1. PICK n \in DOMAIN t : y \in StopWordsOf(t[n])
        BY DEF StopWordsIn
      <4> QED
        BY <1>1, <2>1, <2>2, <4>1
    <3> QED
      BY <3>1
  <2>4. StopWordsIn(t) = {} \/ StopWordsIn(t) = {"und"}
    BY <2>3
  <2>5. Cardinality({}) = 0 /\ Cardinality({"und"}) = 1
    BY FS_EmptySet, FS_Singleton
  <2> DEFINE c == Cardinality(StopWordsIn(t))
  <2>6. c = 0 \/ c = 1
    BY <2>4, <2>5
  <2> HIDE DEF c
  <2>7. c < 2
    BY <2>6
  <2> QED
    BY <2>7 DEF c
<1> QED
  BY <1>1, <1>5, <1>6, <1>7, <1>8, <1>9 DEF cleanCandidateName

-----------------------------------------------------------------------------
(* The parts before a name, as places in the string                        *)

(* A name stands behind the first l words, up to the form.                 *)
Named(u, l) ==
  /\ Ends(u) /\ l \in Nat /\ l + 1 < Len(u)
  /\ \A n \in (l + 1)..(Len(u) - 1) : u[n] \in NameWords
  /\ u[l + 1] \in Capital \cup hyphenated
  /\ \A n \in (l + 1)..(Len(u) - 1) : u[n] = "und" => n > l + 1 /\ u[n - 1] \in hyphenated

ContactFrom(u, l, x) ==
  \E k \in Nat :
    /\ ContactsAt(u, x, k)
    /\ x + 2 * k = l + 1 \/ (x + 2 * k = l /\ u[l] \in hostingProse)

LabelsFrom(u, l, x) ==
  \/ x = l /\ u[l] \in numberedParts
  \/ ContactFrom(u, l, x)
  \/ x <= l /\ u[x] \in titledLabels \cup plainLabels /\ ContactFrom(u, l, x + 1)
  \/ /\ x + 1 <= l /\ ContactFrom(u, l, x + 2)
     /\ \/ u[x] \in titledLabels /\ u[x + 1] \in {":", "-"}
        \/ u[x] \in colonLabels /\ u[x + 1] = ":"

EarlierTo(u, a) ==
  a > 0 => \/ u[a] \in bounds
           \/ u[a] = "." /\ u[a + 1] \in Capitals /\ (a > 1 => u[a - 1] \notin abbreviations)

SignsTo(u, a, b) ==
  \/ \E k \in 0..(b - a) :
       /\ k = 0 \/ (k \in 1..2 /\ u[a + 1] = "copyright sign")
       /\ k = 2 => u[a + 2] = "Copyright"
       /\ \A n \in (a + k + 1)..b : u[n] \in dates
  \/ /\ a + 2 <= b /\ u[a + 1] = "Copyright" /\ u[a + 2] = "copyright sign"
     /\ \A n \in (a + 3)..b : u[n] \in years

JoinedTo(u, l, b, c) ==
  b < c =>
    /\ b + 2 <= c /\ u[c] \in {"and", "und"} /\ u[c - 1] \in Capital \cup Small
    /\ \A n \in (l + 1)..(Len(u) - 1) : u[n] # u[c]
    /\ c = l \/ \A n \in (b + 1)..(c - 1) : u[n] \notin {"and", "und"}

RoleFrom(u, c, d) ==
  c < d =>
    \E p \in (c + 2)..(d - 1) :
      /\ p - (c + 1) \in 1..MaxPersonWords /\ u[p] = ","
      /\ \A n \in (c + 1)..(p - 1) : u[n] \in Capital
      /\ u[p + 1] \in titles
      /\ d = p + 1 \/ (d = p + 2 /\ u[d] \in {"of", ","})

TradingFrom(u, d, e) ==
  d < e => u[e] \in tradingNames /\ \A n \in (d + 1)..(e - 1) : u[n] \in Capital \cup Small

AwardFrom(u, e, f) ==
  e < f =>
    /\ e + 3 <= f /\ u[e + 1] = "Best" /\ u[f] = ":"
    /\ \A n \in (e + 2)..(f - 1) : u[n] \in Capital \cup Small

Parts(u, l, a, b, c, d, e, f) ==
  /\ a \in 0..b /\ b \in 0..c /\ c \in 0..d /\ d \in 0..e /\ e \in 0..f /\ f \in 0..l
  /\ EarlierTo(u, a) /\ SignsTo(u, a, b) /\ JoinedTo(u, l, b, c)
  /\ RoleFrom(u, c, d) /\ TradingFrom(u, d, e) /\ AwardFrom(u, e, f) /\ LabelsFrom(u, l, f + 1)

labelHeads == titledLabels \cup colonLabels \cup plainLabels \cup contactLabels \cup hostingProse
                \cup numberedParts

headWords == Capital \cup Small \cup hyphenated \cup tradingNames \cup {"Best"} \cup labelHeads

partWords == headWords \cup {",", ":", "-", "of"} \cup titles

LEMMA HeadWordIsNone ==
  ASSUME NEW x \in headWords
  PROVE  /\ x \notin closers \cup openers \cup dates \cup quotes \cup bounds \cup {"and", "und", "of", "."}
         /\ x \notin {"copyright sign", "Copyright", "All rights reserved", "("}
         /\ x \notin titles /\ x \notin forms
<1> DEFINE no == closers \cup openers \cup dates \cup quotes \cup bounds \cup {"and", "und", "of", "."}
                   \cup {"copyright sign", "Copyright", "All rights reserved", "("} \cup titles \cup forms
<1>1. no = {"close quote", ")", ":", ",", ".", "(", "open quote", "2024", "-", "|", "bullet", "and", "und", "of",
            "copyright sign", "Copyright", "All rights reserved", "CEO", "GmbH", "AG", "NV", "Company"}
  BY DEF closers, openers, dates, years, quotes, bounds, titles, forms
<1>2. x \in Capital \cup Small
        \/ x \in {"Musik-", "is a trading name of", "Best", "Impressum", "Operator", "About", "Kontakt",
                  "hosted by", "Section 3:"}
  BY DEF headWords, labelHeads, hyphenated, tradingNames, titledLabels, colonLabels, plainLabels,
    contactLabels, hostingProse, numberedParts
<1>3. no \subseteq capitalWords \cup smallWords \cup lineSigns
  BY <1>1, KnownWords
<1>4. x \notin no
  BY <1>1, <1>2, <1>3, OwnWord
<1> QED
  BY <1>4

LEMMA PartWordIsNone ==
  ASSUME NEW x \in partWords
  PROVE  /\ x \notin openers \cup years \cup quotes \cup bounds \cup {"and", "und", "."}
         /\ x \notin {"copyright sign", "Copyright", "All rights reserved", "("}
<1>1. \/ x \in headWords
      \/ x \in {",", ":", "-", "of", "CEO"}
  BY DEF partWords, titles
<1>2. CASE x \in headWords
  BY <1>2, HeadWordIsNone DEF dates
<1>3. CASE x \in {",", ":", "-", "of", "CEO"}
  BY <1>3 DEF openers, years, quotes, bounds
<1> QED
  BY <1>1, <1>2, <1>3

(* Labels and nothing but labels up to the name.                           *)
LEMMA ContactWords ==
  ASSUME NEW u, NEW l \in Nat, NEW x \in 1..(l + 1), ContactFrom(u, l, x)
  PROVE  /\ \A n \in x..l : u[n] \in labelHeads \cup {":", "-"}
         /\ x <= l => u[x] \in contactLabels \cup hostingProse
<1>1. PICK k \in Nat :
        /\ ContactsAt(u, x, k)
        /\ x + 2 * k = l + 1 \/ (x + 2 * k = l /\ u[l] \in hostingProse)
  BY DEF ContactFrom
<1>k. k \in Nat /\ (x + 2 * k = l + 1 \/ x + 2 * k = l)
  BY <1>1
<1>2. ASSUME NEW n \in x..l, n < x + 2 * k
      PROVE  /\ u[n] \in contactLabels \cup {":", "-"}
             /\ n = x => u[n] \in contactLabels
  <2> DEFINE j == ((n - x) \div 2) + 1
  <2>1. n - x \in Nat
    OBVIOUS
  <2>2. /\ (n - x) \div 2 \in Nat /\ 2 * ((n - x) \div 2) <= n - x
        /\ n - x < 2 * ((n - x) \div 2) + 2
    BY <2>1, Halves
  <2> DEFINE h == (n - x) \div 2
  <2>3. h \in Nat /\ 2 * h <= n - x /\ n - x < 2 * h + 2 /\ j = h + 1
    BY <2>2
  <2> HIDE DEF h, j
  <2>4. n < x + 2 * k
    BY <1>2
  <2>5. j \in 1..k /\ (n = x + 2 * j - 2 \/ n = x + 2 * j - 1) /\ (n = x => n = x + 2 * j - 2)
    BY <1>k, <2>3, <2>4
  <2>6. u[x + 2 * j - 2] \in contactLabels /\ u[x + 2 * j - 1] \in {":", "-"}
    BY <1>1, <2>5 DEF ContactsAt
  <2> QED
    BY <2>5, <2>6
<1>3. ASSUME NEW n \in x..l, ~(n < x + 2 * k) PROVE u[n] \in hostingProse
  <2>1. n = l /\ x + 2 * k = l
    <3>1. ~(n < x + 2 * k)
      BY <1>3
    <3> QED
      BY <1>k, <3>1
  <2>2. x + 2 * k # l + 1
    BY <2>1
  <2> QED
    BY <1>1, <2>1, <2>2
<1>4. ASSUME NEW n \in x..l PROVE u[n] \in labelHeads \cup {":", "-"}
  BY <1>2, <1>3 DEF labelHeads
<1>5. ASSUME x <= l PROVE u[x] \in contactLabels \cup hostingProse
  <2>1. x \in x..l
    BY <1>5
  <2> QED
    BY <1>2, <1>3, <2>1
<1> QED
  BY <1>4, <1>5

LEMMA LabelsWords ==
  ASSUME NEW u, NEW l \in Nat, NEW x \in 1..(l + 1), LabelsFrom(u, l, x)
  PROVE  /\ \A n \in x..l : u[n] \in labelHeads \cup {":", "-"}
         /\ x <= l => u[x] \in labelHeads
<1>1. CASE x = l /\ u[l] \in numberedParts
  <2>1. \A n \in x..l : n = l
    BY <1>1
  <2> QED
    BY <1>1, <2>1 DEF labelHeads
<1>2. CASE ContactFrom(u, l, x)
  BY <1>2, ContactWords DEF labelHeads
<1>3. CASE x <= l /\ u[x] \in titledLabels \cup plainLabels /\ ContactFrom(u, l, x + 1)
  <2>1. x + 1 \in 1..(l + 1)
    BY <1>3
  <2>2. \A n \in (x + 1)..l : u[n] \in labelHeads \cup {":", "-"}
    BY <1>3, <2>1, ContactWords
  <2>3. \A n \in x..l : n = x \/ n \in (x + 1)..l
    OBVIOUS
  <2> QED
    BY <1>3, <2>2, <2>3 DEF labelHeads
<1>4. CASE /\ x + 1 <= l /\ ContactFrom(u, l, x + 2)
           /\ \/ u[x] \in titledLabels /\ u[x + 1] \in {":", "-"}
              \/ u[x] \in colonLabels /\ u[x + 1] = ":"
  <2>1. x + 2 \in 1..(l + 1)
    <3>1. x + 1 <= l
      BY <1>4
    <3> QED
      BY <3>1
  <2>2. \A n \in (x + 2)..l : u[n] \in labelHeads \cup {":", "-"}
    BY <1>4, <2>1, ContactWords
  <2>3. \A n \in x..l : n = x \/ n = x + 1 \/ n \in (x + 2)..l
    OBVIOUS
  <2>4. u[x] \in labelHeads /\ u[x + 1] \in {":", "-"}
    BY <1>4 DEF labelHeads
  <2> QED
    BY <2>2, <2>3, <2>4
<1> QED
  BY <1>1, <1>2, <1>3, <1>4 DEF LabelsFrom

LEMMA PartsOrder ==
  ASSUME NEW u, NEW l, Named(u, l), NEW a, NEW b, NEW c, NEW d, NEW e, NEW f,
         Parts(u, l, a, b, c, d, e, f)
  PROVE  /\ a \in Nat /\ b \in Nat /\ c \in Nat /\ d \in Nat /\ e \in Nat /\ f \in Nat /\ l \in Nat
         /\ a <= b /\ b <= c /\ c <= d /\ d <= e /\ e <= f /\ f <= l
         /\ Len(u) \in Nat /\ l + 1 < Len(u)
BY DEF Parts, Named, Ends

LEMMA HeadsAre ==
  ASSUME NEW u, NEW l, Named(u, l), NEW a, NEW b, NEW c, NEW d, NEW e, NEW f,
         Parts(u, l, a, b, c, d, e, f)
  PROVE  /\ u[c + 1] \in headWords /\ u[d + 1] \in headWords /\ u[e + 1] \in headWords
         /\ u[f + 1] \in headWords
<1>n. /\ a \in Nat /\ b \in Nat /\ c \in Nat /\ d \in Nat /\ e \in Nat /\ f \in Nat /\ l \in Nat
      /\ a <= b /\ b <= c /\ c <= d /\ d <= e /\ e <= f /\ f <= l
      /\ Len(u) \in Nat /\ l + 1 < Len(u)
  BY PartsOrder
<1>1. RoleFrom(u, c, d) /\ TradingFrom(u, d, e) /\ AwardFrom(u, e, f) /\ LabelsFrom(u, l, f + 1)
  BY DEF Parts
<1>2. u[f + 1] \in headWords
  <2>1. f + 1 \in 1..(l + 1) /\ (f = l \/ f + 1 <= l)
    BY <1>n
  <2>2. CASE f = l
    BY <2>2 DEF Named, headWords
  <2>3. CASE f + 1 <= l
    BY <1>1, <1>n, <2>1, <2>3, LabelsWords DEF headWords
  <2> QED
    BY <2>1, <2>2, <2>3
<1>3. u[e + 1] \in headWords
  <2>1. e = f \/ e < f
    BY <1>n
  <2> QED
    BY <1>1, <1>2, <2>1 DEF AwardFrom, headWords
<1>4. u[d + 1] \in headWords
  <2>1. CASE d = e
    BY <1>3, <2>1
  <2>2. CASE d < e
    <3>1. d + 1 = e \/ d + 1 \in (d + 1)..(e - 1)
      BY <1>n, <2>2
    <3> QED
      BY <1>1, <2>2, <3>1 DEF TradingFrom, headWords
  <2> QED
    BY <1>n, <2>1, <2>2
<1>5. u[c + 1] \in headWords
  <2>1. CASE c = d
    BY <1>4, <2>1
  <2>2. CASE c < d
    <3>1. PICK p \in (c + 2)..(d - 1) : \A n \in (c + 1)..(p - 1) : u[n] \in Capital
      BY <1>1, <2>2 DEF RoleFrom
    <3>2. c + 1 \in (c + 1)..(p - 1)
      BY <1>n
    <3> QED
      BY <3>1, <3>2 DEF headWords
  <2> QED
    BY <1>n, <2>1, <2>2
<1> QED
  BY <1>2, <1>3, <1>4, <1>5

LEMMA RoleWords ==
  ASSUME NEW u, NEW c \in Nat, NEW d \in Nat, RoleFrom(u, c, d), NEW n \in (c + 1)..d
  PROVE  u[n] \in partWords
<1>1. c < d
  OBVIOUS
<1>2. PICK p \in (c + 2)..(d - 1) :
      /\ p - (c + 1) \in 1..MaxPersonWords /\ u[p] = ","
      /\ \A j \in (c + 1)..(p - 1) : u[j] \in Capital
      /\ u[p + 1] \in titles
      /\ d = p + 1 \/ (d = p + 2 /\ u[d] \in {"of", ","})
  BY <1>1 DEF RoleFrom
<1>d. d = p + 1 \/ d = p + 2
  BY <1>2
<1>3. n \in (c + 1)..(p - 1) \/ n = p \/ n = p + 1 \/ (n = d /\ d # p + 1)
  BY <1>1, <1>d
<1> QED
  BY <1>2, <1>3 DEF partWords, headWords

LEMMA PartsAre ==
  ASSUME NEW u, NEW l, Named(u, l), NEW a, NEW b, NEW c, NEW d, NEW e, NEW f,
         Parts(u, l, a, b, c, d, e, f), NEW n \in (c + 1)..l
  PROVE  u[n] \in partWords
<1>n. /\ c \in Nat /\ d \in Nat /\ e \in Nat /\ f \in Nat /\ l \in Nat
      /\ c <= d /\ d <= e /\ e <= f /\ f <= l
  BY PartsOrder
<1>1. RoleFrom(u, c, d) /\ TradingFrom(u, d, e) /\ AwardFrom(u, e, f) /\ LabelsFrom(u, l, f + 1)
  BY DEF Parts
<1>2. n \in (c + 1)..d \/ n \in (d + 1)..e \/ n \in (e + 1)..f \/ n \in (f + 1)..l
  BY <1>n
<1>3. CASE n \in (c + 1)..d
  BY <1>1, <1>n, <1>3, RoleWords
<1>4. CASE n \in (d + 1)..e
  <2>1. d < e /\ (n = e \/ n \in (d + 1)..(e - 1))
    BY <1>n, <1>4
  <2> QED
    BY <1>1, <2>1 DEF TradingFrom, partWords, headWords
<1>5. CASE n \in (e + 1)..f
  <2>1. e < f /\ (n = f \/ n = e + 1 \/ n \in (e + 2)..(f - 1))
    BY <1>n, <1>5
  <2> QED
    BY <1>1, <2>1 DEF AwardFrom, partWords, headWords
<1>6. CASE n \in (f + 1)..l
  <2>1. f + 1 \in 1..(l + 1)
    BY <1>n
  <2>2. \A k \in (f + 1)..l : u[k] \in labelHeads \cup {":", "-"}
    BY <1>1, <1>n, <2>1, LabelsWords
  <2> QED
    BY <1>6, <2>2 DEF partWords, headWords
<1> QED
  BY <1>2, <1>3, <1>4, <1>5, <1>6

(* What no word is from the first part on that is not a joined name.       *)
earlyWords ==
  openers \cup years \cup quotes \cup bounds
    \cup {"and", ".", "copyright sign", "Copyright", "All rights reserved", "("}

LEMMA BehindJoined ==
  ASSUME NEW u, NEW l, Named(u, l), NEW a, NEW b, NEW c, NEW d, NEW e, NEW f,
         Parts(u, l, a, b, c, d, e, f), NEW n \in (c + 1)..Len(u)
  PROVE  u[n] \notin earlyWords /\ (n <= l => u[n] # "und")
<1>n. c \in Nat /\ l \in Nat /\ c <= l /\ Len(u) \in Nat /\ l + 1 < Len(u)
  BY PartsOrder
<1>1. n \in (c + 1)..l \/ n \in (l + 1)..(Len(u) - 1) \/ n = Len(u)
  BY <1>n
<1>2. CASE n \in (c + 1)..l
  <2>1. u[n] \in partWords
    BY <1>2, PartsAre
  <2> QED
    BY <2>1, PartWordIsNone DEF earlyWords
<1>3. CASE n \in (l + 1)..(Len(u) - 1)
  <2>1. u[n] \in NameWords /\ ~(n <= l)
    BY <1>n, <1>3 DEF Named
  <2> QED
    BY <2>1, NameWordIsNone DEF earlyWords, otherWords, openers
<1>4. CASE n = Len(u)
  <2>1. u[n] \in forms /\ ~(n <= l)
    BY <1>n, <1>4 DEF Named, Ends
  <2> QED
    BY <2>1 DEF earlyWords, forms, openers, years, quotes, bounds
<1> QED
  BY <1>1, <1>2, <1>3, <1>4

-----------------------------------------------------------------------------
(* What each pass does to the parts                                        *)

(* The last word before which the first passes must stop.                  *)
Stop(b, c) == IF b < c THEN c - 1 ELSE c + 1

LEMMA StopIs ==
  ASSUME NEW u, NEW l, Named(u, l), NEW a, NEW b, NEW c, NEW d, NEW e, NEW f,
         Parts(u, l, a, b, c, d, e, f)
  PROVE  /\ Stop(b, c) \in (b + 1)..(l + 1) /\ u[Stop(b, c)] \in headWords
         /\ \A n \in Stop(b, c)..Len(u) : u[n] \notin earlyWords \ {"and"}
<1>n. /\ b \in Nat /\ c \in Nat /\ l \in Nat /\ b <= c /\ c <= l /\ Len(u) \in Nat /\ l + 1 < Len(u)
  BY PartsOrder
<1>1. \A n \in (c + 1)..Len(u) : u[n] \notin earlyWords
  BY BehindJoined
<1>2. CASE b = c
  <2>1. Stop(b, c) = c + 1 /\ c + 1 \in (b + 1)..(l + 1)
    BY <1>n, <1>2 DEF Stop
  <2> QED
    BY <1>1, <2>1, HeadsAre
<1>3. CASE b < c
  <2>1. Stop(b, c) = c - 1
    BY <1>3 DEF Stop
  <2>2. b + 2 <= c /\ u[c] \in {"and", "und"} /\ u[c - 1] \in Capital \cup Small
    BY <1>3 DEF Parts, JoinedTo
  <2>3. b + 2 <= c
    BY <2>2
  <2>4. c - 1 \in (b + 1)..(l + 1)
    BY <1>n, <2>3
  <2>5. u[c - 1] \in headWords
    BY <2>2 DEF headWords
  <2>6. u[c - 1] \notin earlyWords
    BY <2>5, HeadWordIsNone DEF earlyWords, dates
  <2>7. u[c] \notin earlyWords \ {"and"}
    BY <2>2 DEF earlyWords, openers, years, quotes, bounds
  <2>8. \A n \in (c - 1)..Len(u) : n = c - 1 \/ n = c \/ n \in (c + 1)..Len(u)
    BY <1>n
  <2> QED
    BY <1>1, <2>1, <2>4, <2>5, <2>6, <2>7, <2>8
<1> QED
  BY <1>n, <1>2, <1>3

LEMMA SignsWords ==
  ASSUME NEW u, NEW a \in Nat, NEW b \in Nat, SignsTo(u, a, b), NEW n \in (a + 1)..b
  PROVE  u[n] \in dates \cup {"copyright sign", "Copyright"}
<1>1. CASE \E k \in 0..(b - a) :
             /\ k = 0 \/ (k \in 1..2 /\ u[a + 1] = "copyright sign")
             /\ k = 2 => u[a + 2] = "Copyright"
             /\ \A j \in (a + k + 1)..b : u[j] \in dates
  <2>1. PICK k \in 0..(b - a) :
             /\ k = 0 \/ (k \in 1..2 /\ u[a + 1] = "copyright sign")
             /\ k = 2 => u[a + 2] = "Copyright"
             /\ \A j \in (a + k + 1)..b : u[j] \in dates
    BY <1>1
  <2>2. k = 0 \/ k = 1 \/ k = 2
    <3>1. k = 0 \/ k \in 1..2
      BY <2>1
    <3> QED
      BY <3>1
  <2>3. n \in (a + k + 1)..b \/ (n = a + 1 /\ k # 0) \/ (n = a + 2 /\ k = 2)
    BY <2>2
  <2> QED
    BY <2>1, <2>3
<1>2. CASE /\ a + 2 <= b /\ u[a + 1] = "Copyright" /\ u[a + 2] = "copyright sign"
           /\ \A j \in (a + 3)..b : u[j] \in years
  <2>1. n = a + 1 \/ n = a + 2 \/ n \in (a + 3)..b
    OBVIOUS
  <2> QED
    BY <1>2, <2>1 DEF dates
<1> QED
  BY <1>1, <1>2 DEF SignsTo

(* Reading to the left ends behind what belongs to an earlier sentence, or *)
(* in a joined name.                                                       *)
AtSigns(lo, a, b, c) == lo = a + 1 \/ (b < c /\ lo \in (b + 1)..(c - 1))

LEMMA LeftParts ==
  ASSUME NEW u, NEW l, Named(u, l), NEW a, NEW b, NEW c, NEW d, NEW e, NEW f,
         Parts(u, l, a, b, c, d, e, f)
  PROVE  LET ends == {n \in 1..(Len(u) - 1) :
                        \/ u[n] \in bounds
                        \/ u[n] = "." /\ u[n + 1] \in Capitals /\ (n > 1 => u[n - 1] \notin abbreviations)}
         IN  AtSigns(IF ends = {} THEN 1 ELSE Max(ends) + 1, a, b, c)
<1> DEFINE End(n) == \/ u[n] \in bounds
                     \/ u[n] = "." /\ u[n + 1] \in Capitals /\ (n > 1 => u[n - 1] \notin abbreviations)
           ends == {n \in 1..(Len(u) - 1) : End(n)}
           s == Stop(b, c)
<1>n. /\ a \in Nat /\ b \in Nat /\ c \in Nat /\ l \in Nat /\ a <= b /\ b <= c /\ c <= l
      /\ Len(u) \in Nat /\ l + 1 < Len(u)
  BY PartsOrder
<1>1. s \in (b + 1)..(l + 1) /\ \A n \in s..Len(u) : u[n] \notin earlyWords \ {"and"}
  BY StopIs
<1>2. \A n : End(n) => u[n] \in bounds \cup {"."}
  OBVIOUS
<1>3. ASSUME NEW n \in ends PROVE n \in 1..(Len(u) - 1) /\ (n <= a \/ (b < n /\ n < s))
  <2>1. n \in 1..(Len(u) - 1) /\ u[n] \in bounds \cup {"."}
    BY <1>2
  <2>2. n \notin s..Len(u)
    BY <1>1, <2>1 DEF earlyWords, bounds
  <2>3. n \notin (a + 1)..b
    <3>1. SUFFICES ASSUME n \in (a + 1)..b PROVE FALSE
      OBVIOUS
    <3>2. u[n] \in dates \cup {"copyright sign", "Copyright"}
      BY <1>n, <3>1, SignsWords DEF Parts
    <3> QED
      BY <2>1, <3>2 DEF bounds, dates, years
  <2>4. s \in Nat
    BY <1>n, <1>1
  <2>5. n \in 1..(Len(u) - 1)
    BY <2>1
  <2> HIDE DEF s, ends
  <2> QED
    BY <1>n, <2>2, <2>3, <2>4, <2>5
<1>4. a > 0 => a \in ends
  <2>1. ASSUME a > 0 PROVE a \in ends
    <3>1. End(a)
      BY <2>1 DEF Parts, EarlierTo
    <3>2. a \in 1..(Len(u) - 1)
      BY <1>n, <2>1
    <3> HIDE DEF End
    <3> QED
      BY <3>1, <3>2
  <2> QED
    BY <2>1
<1>5. (s = c + 1 /\ b = c) \/ (s = c - 1 /\ b < c)
  BY <1>n DEF Stop
<1>6. s \in Nat
  BY <1>n, <1>5, <1>1
<1> HIDE DEF ends, s
<1>7. CASE ends = {}
  <2>1. a = 0
    BY <1>n, <1>4, <1>7
  <2> QED
    BY <1>7, <2>1 DEF AtSigns, ends
<1>8. CASE ends # {}
  <2> DEFINE k == Max(ends)
  <2>1. ends \in SUBSET Nat /\ \A n \in ends : n <= Len(u)
    <3>1. \A n \in ends : n \in 1..(Len(u) - 1)
      BY <1>3
    <3> QED
      BY <1>n, <3>1
  <2>2. k \in ends /\ \A n \in ends : n <= k
    BY <1>n, <1>8, <2>1, MaxIn
  <2> HIDE DEF k
  <2>3. k \in 1..(Len(u) - 1) /\ (k <= a \/ (b < k /\ k < s))
    BY <1>3, <2>2
  <2>4. a > 0 => a <= k
    BY <1>4, <2>2
  <2>5. k = a \/ (b < k /\ k < s)
    BY <1>n, <1>6, <2>3, <2>4
  <2>6. b < k /\ k < s => b < c /\ k + 1 \in (b + 1)..(c - 1)
    BY <1>n, <1>5, <1>6, <2>3
  <2>7. AtSigns(k + 1, a, b, c)
    BY <2>5, <2>6 DEF AtSigns
  <2>8. AtSigns(IF ends = {} THEN 1 ELSE Max(ends) + 1, a, b, c)
    BY <1>8, <2>7 DEF k
  <2> QED
    BY <2>8 DEF ends
<1> QED
  BY <1>7, <1>8

-----------------------------------------------------------------------------
(* What each pass leaves of the parts                                      *)

(* Words of some kind are passed over; a sentence that rights are reserved *)
(* is passed over; of the signs only those of the next pass remain.        *)
Skips(u, lo, m, words) ==
  m \in lo..Len(u) /\ u[m] \notin words /\ \A n \in lo..(m - 1) : u[n] \in words

Reserves(u, r, m) ==
  m \in r..Len(u) /\ (m = r \/ (m > r + 1 /\ u[m - 1] = "." /\ u[m - 2] = "All rights reserved"))

AtLeftover(u, lo, a, b, c) ==
  lo \in (a + 1)..Stop(b, c) /\ \A n \in lo..b : u[n] \in years \cup {"copyright sign"}

leftoverWords == years \cup quotes \cup {"(", "copyright sign"}

LEMMA BehindSigns ==
  ASSUME NEW u, NEW a \in Nat, NEW b \in Nat, SignsTo(u, a, b), NEW r \in Nat,
         r >= AfterSigns(u, a + 1), u[r] \notin dates
  PROVE  \A n \in r..b : u[n] \in years \cup {"copyright sign"}
<1> DEFINE q == AfterFirstSign(u, a + 1)
           p == AfterSigns(u, a + 1)
<1>1. q = IF u[a + 1] = "copyright sign" THEN a + 2 ELSE a + 1
  BY DEF AfterFirstSign
<1>2. p = IF u[q] = "Copyright" THEN q + 1 ELSE q
  BY DEF AfterSigns
<1> HIDE DEF p, q
<1>3. (q = a + 1 \/ q = a + 2) /\ (p = q \/ p = q + 1) /\ p <= r
  BY <1>1, <1>2 DEF p
<1>4. CASE \E k \in 0..(b - a) :
             /\ k = 0 \/ (k \in 1..2 /\ u[a + 1] = "copyright sign")
             /\ k = 2 => u[a + 2] = "Copyright"
             /\ \A j \in (a + k + 1)..b : u[j] \in dates
  <2>1. PICK k \in 0..(b - a) :
             /\ k = 0 \/ (k \in 1..2 /\ u[a + 1] = "copyright sign")
             /\ k = 2 => u[a + 2] = "Copyright"
             /\ \A j \in (a + k + 1)..b : u[j] \in dates
    BY <1>4
  <2>2. k = 0 \/ k = 1 \/ k = 2
    <3>1. k = 0 \/ k \in 1..2
      BY <2>1
    <3> QED
      BY <3>1
  <2>3. k # 0 => q = a + 2
    BY <1>1, <2>1
  <2>4. k = 2 => p = q + 1
    <3>1. ASSUME k = 2 PROVE p = q + 1
      <4>1. u[a + 2] = "Copyright"
        BY <2>1, <3>1
      <4>2. q = a + 2
        BY <2>3, <3>1
      <4> QED
        BY <1>2, <4>1, <4>2
    <3> QED
      BY <3>1
  <2>5. p >= a + k + 1
    BY <1>3, <2>2, <2>3, <2>4
  <2>6. r \notin (a + k + 1)..b
    BY <2>1
  <2>7. r > b
    BY <1>3, <2>2, <2>5, <2>6
  <2>8. \A n : n \notin r..b
    BY <2>7
  <2> QED
    BY <2>8
<1>5. CASE /\ a + 2 <= b /\ u[a + 1] = "Copyright" /\ u[a + 2] = "copyright sign"
           /\ \A j \in (a + 3)..b : u[j] \in years
  <2>1. p = a + 2
    <3>1. q = a + 1
      BY <1>1, <1>5
    <3>2. p = q + 1
      BY <1>2, <1>5, <3>1
    <3> QED
      BY <3>1, <3>2
  <2>2. \A n \in r..b : n = a + 2 \/ n \in (a + 3)..b
    BY <1>3, <2>1
  <2> QED
    BY <1>5, <2>2
<1> QED
  BY <1>4, <1>5 DEF SignsTo

LEMMA CopyrightStage ==
  ASSUME NEW u, NEW l, Named(u, l), NEW a, NEW b, NEW c, NEW d, NEW e, NEW f,
         Parts(u, l, a, b, c, d, e, f), NEW lo, AtSigns(lo, a, b, c),
         NEW r, Skips(u, AfterSigns(u, lo), r, dates), NEW m, Reserves(u, r, m)
  PROVE  AtLeftover(u, m, a, b, c)
<1> DEFINE s == Stop(b, c)
           q == AfterFirstSign(u, lo)
           p == AfterSigns(u, lo)
<1>n. /\ a \in Nat /\ b \in Nat /\ c \in Nat /\ l \in Nat /\ a <= b /\ b <= c /\ c <= l
      /\ Len(u) \in Nat /\ l + 1 < Len(u)
  BY PartsOrder
<1>1. \A n \in s..Len(u) : u[n] \notin earlyWords \ {"and"}
  BY StopIs
<1>m. /\ b \in Nat /\ c \in Nat /\ l \in Nat /\ Len(u) \in Nat /\ l + 1 < Len(u)
      /\ s \in (b + 1)..(l + 1) /\ a \in Nat /\ a <= b /\ b <= c
  BY <1>n, StopIs
<1>2. u[s] \in headWords
  BY StopIs
<1>3. u[s] \notin dates /\ u[s] \notin {"copyright sign", "Copyright"}
  BY <1>2, HeadWordIsNone
<1>4. (lo = a + 1) \/ (b < c /\ lo \in (b + 1)..(c - 1))
  BY DEF AtSigns
<1>5. b < c => s = c - 1
  BY DEF Stop
<1>6. q = IF u[lo] = "copyright sign" THEN lo + 1 ELSE lo
  BY DEF AfterFirstSign
<1>7. p = IF u[q] = "Copyright" THEN q + 1 ELSE q
  BY DEF AfterSigns
<1>8. r \in p..Len(u)
  BY DEF Skips
<1>8a. u[r] \notin dates /\ \A n \in p..(r - 1) : u[n] \in dates
  BY DEF Skips
<1>8b. m \in r..Len(u)
  BY DEF Reserves
<1>8c. m = r \/ (m > r + 1 /\ u[m - 1] = ".")
  BY DEF Reserves
<1> HIDE DEF s, q, p
<1>9. lo \in (a + 1)..s
  BY <1>m, <1>4, <1>5
<1>10. q \in lo..s
  <2>1. q = lo \/ (q = lo + 1 /\ lo # s)
    BY <1>3, <1>6
  <2> QED
    BY <1>m, <1>9, <2>1
<1>11. p \in q..s
  <2>1. p = q \/ (p = q + 1 /\ q # s)
    BY <1>3, <1>7
  <2> QED
    BY <1>m, <1>9, <1>10, <2>1
<1>12. r <= s
  <2>1. s \notin p..(r - 1)
    BY <1>3, <1>8a
  <2> QED
    BY <1>m, <1>8, <1>9, <1>10, <1>11, <2>1
<1>13. m <= s
  <2>1. CASE m = r
    BY <1>12, <2>1
  <2>2. CASE m > r + 1 /\ u[m - 1] = "."
    <3>1. m - 1 \notin s..Len(u)
      BY <1>1, <2>2 DEF earlyWords
    <3>2. m > r + 1
      BY <2>2
    <3> QED
      BY <1>m, <1>9, <1>10, <1>11, <1>8, <1>8b, <3>1, <3>2
  <2> QED
    BY <1>8c, <2>1, <2>2
<1>14. m \in (a + 1)..s /\ r \in Nat /\ p \in Nat /\ r >= p /\ m >= r /\ r >= lo
  BY <1>m, <1>8, <1>8b, <1>9, <1>10, <1>11, <1>13
<1>15. ASSUME NEW n \in m..b PROVE u[n] \in years \cup {"copyright sign"}
  <2>1. n \in r..b /\ ~(b < lo)
    BY <1>m, <1>9, <1>14
  <2>2. lo = a + 1
    <3>1. CASE lo = a + 1
      BY <3>1
    <3>2. CASE lo \in (b + 1)..(c - 1)
      BY <1>m, <2>1, <3>2
    <3> QED
      BY <1>4, <3>1, <3>2
  <2>3. r >= AfterSigns(u, a + 1)
    BY <1>14, <2>2 DEF p
  <2>4. SignsTo(u, a, b)
    BY DEF Parts
  <2>5. \A j \in r..b : u[j] \in years \cup {"copyright sign"}
    BY <1>m, <1>8a, <1>14, <2>3, <2>4, BehindSigns
  <2> QED
    BY <2>1, <2>5
<1>16. m \in (a + 1)..Stop(b, c)
  BY <1>14 DEF s
<1> QED
  BY <1>15, <1>16 DEF AtLeftover

LEMMA LeftoverStage ==
  ASSUME NEW u, NEW l, Named(u, l), NEW a, NEW b, NEW c, NEW d, NEW e, NEW f,
         Parts(u, l, a, b, c, d, e, f), NEW lo, AtLeftover(u, lo, a, b, c),
         NEW m, Skips(u, lo, m, leftoverWords)
  PROVE  m \in (b + 1)..Stop(b, c)
<1> DEFINE s == Stop(b, c)
<1>n. /\ a \in Nat /\ b \in Nat /\ c \in Nat /\ l \in Nat /\ a <= b /\ b <= c /\ c <= l
      /\ Len(u) \in Nat /\ l + 1 < Len(u)
  BY PartsOrder
<1>1. s \in (b + 1)..(l + 1) /\ u[s] \in headWords
  BY StopIs
<1>2. u[s] \notin leftoverWords
  BY <1>1, HeadWordIsNone DEF dates, leftoverWords
<1>3. lo \in (a + 1)..s
  BY DEF s, AtLeftover
<1> HIDE DEF s
<1>4. s \notin lo..(m - 1) /\ m \in lo..Len(u)
  BY <1>2 DEF Skips
<1>5. m \notin lo..b
  BY DEF AtLeftover, Skips, leftoverWords
<1>6. s \in (b + 1)..(l + 1)
  BY <1>1
<1>7. m \in (b + 1)..s
  BY <1>n, <1>3, <1>4, <1>5, <1>6
<1> QED
  BY <1>7 DEF s

(* Of the conjunctions from a place on, the one the pass cuts behind.      *)
Cut(u, lo, m) ==
  /\ m \in lo..Len(u)
  /\ \/ /\ m = lo /\ Joins(u, lo, "and") = {}
        /\ \/ Joins(u, lo, "und") = {}
           \/ \E p : IsLastOf(p, Joins(u, lo, "und")) /\ u[p - 1] \in hyphens
     \/ IsLastOf(m - 1, Joins(u, lo, "and"))
     \/ /\ Joins(u, lo, "and") = {} /\ IsLastOf(m - 1, Joins(u, lo, "und"))
        /\ u[m - 2] \notin hyphens

(* A compound in the name is not cut.                                      *)
LEMMA NoneToCut ==
  ASSUME NEW u, NEW l, Named(u, l), NEW lo, lo \in 1..(l + 1),
         \A n \in lo..l : u[n] \notin {"and", "und"}, NEW m, Cut(u, lo, m)
  PROVE  m = lo
<1>n. l \in Nat /\ Len(u) \in Nat /\ l + 1 < Len(u) /\ lo \in 1..(l + 1)
  BY DEF Named, Ends
<1>1. \A n \in (l + 1)..(Len(u) - 1) : u[n] # "and"
  BY NameWordIsNone DEF Named, otherWords
<1>2. ASSUME NEW p \in Joins(u, lo, "and") PROVE FALSE
  <2>1. p \in (lo + 1)..(Len(u) - 1) /\ u[p] = "and"
    BY DEF Joins
  <2>2. p \in lo..l \/ p \in (l + 1)..(Len(u) - 1)
    BY <1>n, <2>1
  <2> QED
    BY <1>1, <2>1, <2>2
<1>3. ASSUME NEW p \in Joins(u, lo, "und") PROVE u[p - 1] \in hyphenated
  <2>1. p \in (lo + 1)..(Len(u) - 1) /\ u[p] = "und"
    BY DEF Joins
  <2>2. p \in lo..l \/ p \in (l + 1)..(Len(u) - 1)
    BY <1>n, <2>1
  <2>3. p \in (l + 1)..(Len(u) - 1)
    BY <2>1, <2>2
  <2> QED
    BY <2>1, <2>3 DEF Named
<1>4. ASSUME IsLastOf(m - 1, Joins(u, lo, "und")), u[m - 2] \notin hyphens PROVE FALSE
  <2>1. m - 1 \in Joins(u, lo, "und")
    BY <1>4 DEF IsLastOf
  <2>2. m \in Int
    BY <1>n DEF Cut
  <2>3. (m - 1) - 1 = m - 2
    BY <2>2
  <2> QED
    BY <1>3, <1>4, <2>1, <2>3 DEF hyphens
<1> QED
  BY <1>2, <1>4 DEF Cut, IsLastOf

LEMMA LastJoin ==
  ASSUME NEW u, NEW l, Named(u, l), NEW lo \in Nat, NEW c \in (lo + 1)..l,
         u[c - 1] \in Capital \cup Small, u[c + 1] \notin closers,
         \A n \in (c + 1)..(Len(u) - 1) : u[n] # u[c]
  PROVE  IsLastOf(c, Joins(u, lo, u[c])) /\ u[c - 1] \notin hyphens
<1>n. l \in Nat /\ Len(u) \in Nat /\ l + 1 < Len(u)
  BY DEF Named, Ends
<1>1. u[c - 1] \notin hyphens /\ u[c - 1] \notin openers
  BY OwnWord DEF capitalWords, lineSigns, hyphens
<1>2. c \in (lo + 1)..(Len(u) - 1)
  BY <1>n
<1>3. Spaced(u, c)
  BY <1>1 DEF Spaced
<1>4. c \in Joins(u, lo, u[c])
  BY <1>2, <1>3 DEF Joins
<1>5. ASSUME NEW q \in Joins(u, lo, u[c]) PROVE q <= c
  <2>1. q \in (lo + 1)..(Len(u) - 1) /\ u[q] = u[c]
    BY DEF Joins
  <2>2. q \notin (c + 1)..(Len(u) - 1)
    BY <2>1
  <2> QED
    BY <1>n, <2>1, <2>2
<1> QED
  BY <1>1, <1>4, <1>5 DEF IsLastOf

LEMMA OneLast ==
  ASSUME NEW P, NEW p \in Int, NEW q \in Int, IsLastOf(p, P), IsLastOf(q, P)
  PROVE  p = q
<1>1. p <= q /\ q <= p
  BY DEF IsLastOf
<1> QED
  BY <1>1

LEMMA NoneLater ==
  ASSUME NEW u, Ends(u), NEW lo \in Nat, NEW m \in Nat, lo <= m, NEW x
  PROVE  Joins(u, m, x) = {p \in Joins(u, lo, x) : p > m}
<1>1. Len(u) \in Nat
  BY DEF Ends
<1>2. ASSUME NEW p PROVE p \in (m + 1)..(Len(u) - 1) <=> p \in (lo + 1)..(Len(u) - 1) /\ p > m
  BY <1>1
<1> QED
  BY <1>2 DEF Joins

(* Another name is gone, or what is left of it ends with the conjunction   *)
(* the second pass takes off.                                              *)
Pending(u, l, b, c, lo) ==
  /\ c = l /\ b < c /\ u[c] = "und" /\ lo \in (b + 1)..(c - 1) /\ Joins(u, lo, "and") = {}

AtJoined(lo, b, c) == lo \in (b + 1)..Stop(b, c)

LEMMA ConjunctionStage ==
  ASSUME NEW u, NEW l, Named(u, l), NEW a, NEW b, NEW c, NEW d, NEW e, NEW f,
         Parts(u, l, a, b, c, d, e, f), NEW lo, AtJoined(lo, b, c), NEW m, Cut(u, lo, m)
  PROVE  m = c + 1 \/ Pending(u, l, b, c, m)
<1>n. b \in Nat /\ c \in Nat /\ l \in Nat /\ b <= c /\ c <= l /\ Len(u) \in Nat /\ l + 1 < Len(u)
  BY PartsOrder
<1>1. \A n \in (c + 1)..Len(u) : u[n] # "and" /\ (n <= l => u[n] # "und")
  BY BehindJoined DEF earlyWords
<1>2. CASE b = c
  <2>1. lo = c + 1
    BY <1>n, <1>2 DEF AtJoined, Stop
  <2>2. \A n \in lo..l : n \in (c + 1)..Len(u) /\ n <= l
    BY <1>n, <2>1
  <2>3. \A n \in lo..l : u[n] \notin {"and", "und"}
    BY <1>1, <2>2
  <2>4. lo \in 1..(l + 1)
    BY <1>n, <2>1
  <2> QED
    BY <2>1, <2>3, <2>4, NoneToCut
<1>3. CASE b < c
  <2>1. JoinedTo(u, l, b, c) /\ b < c
    BY <1>3 DEF Parts
  <2>2. u[c] \in {"and", "und"} /\ u[c - 1] \in Capital \cup Small
    BY <2>1 DEF JoinedTo
  <2>3. \A n \in (l + 1)..(Len(u) - 1) : u[n] # u[c]
    BY <2>1 DEF JoinedTo
  <2>4. c = l \/ \A n \in (b + 1)..(c - 1) : u[n] \notin {"and", "und"}
    BY <2>1 DEF JoinedTo
  <2>5. lo \in (b + 1)..(c - 1)
    BY <1>3 DEF AtJoined, Stop
  <2>6. u[c + 1] \notin closers
    BY HeadsAre, HeadWordIsNone
  <2>7. \A n \in (c + 1)..(Len(u) - 1) : u[n] # u[c]
    <3>1. ASSUME NEW n \in (c + 1)..(Len(u) - 1) PROVE u[n] # u[c]
      <4>1. n \in (c + 1)..Len(u) /\ (n <= l \/ n \in (l + 1)..(Len(u) - 1))
        BY <1>n
      <4> QED
        BY <1>1, <2>2, <2>3, <4>1
    <3> QED
      BY <3>1
  <2>8. lo \in Nat /\ c \in (lo + 1)..l /\ m \in lo..Len(u)
    BY <1>n, <2>5 DEF Cut
  <2>9. IsLastOf(c, Joins(u, lo, u[c])) /\ u[c - 1] \notin hyphens
    BY <2>2, <2>6, <2>7, <2>8, LastJoin
  <2>10. c \in Int /\ m - 1 \in Int
    BY <1>n, <2>8
  <2>11. c \in Joins(u, lo, u[c])
    BY <2>9 DEF IsLastOf
  <2>12. ASSUME IsLastOf(m - 1, Joins(u, lo, u[c])) PROVE m = c + 1
    <3>1. m - 1 = c
      BY <2>9, <2>10, <2>12, OneLast
    <3> QED
      BY <1>n, <2>8, <3>1
  <2>13. CASE u[c] = "and"
    <3>1. IsLastOf(m - 1, Joins(u, lo, u[c]))
      BY <2>11, <2>13 DEF Cut
    <3> QED
      BY <2>12, <3>1
  <2>14. CASE u[c] = "und"
    <3>1. CASE IsLastOf(m - 1, Joins(u, lo, u[c]))
      BY <2>12, <3>1
    <3>2. CASE IsLastOf(m - 1, Joins(u, lo, "and"))
      <4>1. m - 1 \in (lo + 1)..(Len(u) - 1) /\ u[m - 1] = "and"
        BY <3>2 DEF IsLastOf, Joins
      <4>2. m - 1 \notin (c + 1)..Len(u) /\ m - 1 # c
        BY <1>1, <2>14, <4>1
      <4>3. u[c - 1] # "and"
        BY <2>2, OwnWord DEF smallWords, stopWords
      <4>4. m - 1 # c - 1
        BY <4>1, <4>3
      <4>5. m \in (b + 1)..(c - 1) /\ m - 1 \in (b + 1)..(c - 1) /\ m \in Nat
        <5>1. m - 1 \in (lo + 1)..(Len(u) - 1)
          BY <4>1
        <5>2. m - 1 < c - 1
          BY <1>n, <2>5, <4>2, <4>4, <5>1
        <5> QED
          BY <1>n, <2>5, <2>8, <5>1, <5>2
      <4>6. c = l
        BY <2>4, <4>1, <4>5
      <4>7. \A q \in Joins(u, lo, "and") : q <= m - 1
        BY <3>2 DEF IsLastOf
      <4>8. Ends(u) /\ lo <= m
        BY <2>8 DEF Named
      <4>9. Joins(u, m, "and") = {p \in Joins(u, lo, "and") : p > m}
        BY <2>8, <4>5, <4>8, NoneLater
      <4>10. Joins(u, m, "and") = {}
        <5>1. SUFFICES ASSUME NEW q \in Joins(u, m, "and") PROVE FALSE
          OBVIOUS
        <5>2. q \in Joins(u, lo, "and") /\ q > m
          BY <4>9
        <5>3. q <= m - 1 /\ q \in Int
          BY <4>7, <5>2 DEF Joins
        <5> QED
          BY <4>5, <5>2, <5>3
      <4> QED
        BY <1>3, <2>14, <4>5, <4>6, <4>10 DEF Pending
    <3>3. CASE \E p : IsLastOf(p, Joins(u, lo, "und")) /\ u[p - 1] \in hyphens
      <4>1. PICK p : IsLastOf(p, Joins(u, lo, "und")) /\ u[p - 1] \in hyphens
        BY <3>3
      <4>2. p \in Int
        BY <1>n, <2>8, <4>1 DEF IsLastOf, Joins
      <4>3. p = c
        BY <2>9, <2>10, <2>14, <4>1, <4>2, OneLast
      <4> QED
        BY <2>9, <4>1, <4>3
    <3> QED
      BY <2>11, <2>14, <3>1, <3>2, <3>3 DEF Cut
  <2> QED
    BY <2>2, <2>13, <2>14
<1> QED
  BY <1>n, <1>2, <1>3

LEMMA ConjunctionAgainStage ==
  ASSUME NEW u, NEW l, Named(u, l), NEW a, NEW b, NEW c, NEW d, NEW e, NEW f,
         Parts(u, l, a, b, c, d, e, f), NEW lo, lo = l + 1 \/ Pending(u, l, b, c, lo),
         NEW m, Cut(u, lo, m)
  PROVE  m = l + 1
<1>n. b \in Nat /\ c \in Nat /\ l \in Nat /\ b <= c /\ c <= l /\ Len(u) \in Nat /\ l + 1 < Len(u)
  BY PartsOrder
<1>1. CASE lo = l + 1
  <2>1. lo \in 1..(l + 1) /\ \A n : n \notin lo..l
    BY <1>n, <1>1
  <2> QED
    BY <1>1, <2>1, NoneToCut
<1>2. CASE Pending(u, l, b, c, lo)
  <2>1. c = l /\ b < c /\ u[c] = "und" /\ lo \in (b + 1)..(c - 1) /\ Joins(u, lo, "and") = {}
    BY <1>2 DEF Pending
  <2>2. JoinedTo(u, l, b, c)
    BY DEF Parts
  <2>3. u[c - 1] \in Capital \cup Small /\ \A n \in (c + 1)..(Len(u) - 1) : u[n] # u[c]
    BY <2>1, <2>2 DEF JoinedTo
  <2>4. u[c + 1] \notin closers
    BY HeadsAre, HeadWordIsNone
  <2>5. b < c /\ lo \in (b + 1)..(c - 1) /\ c = l
    BY <2>1
  <2>6. lo \in Nat /\ c \in (lo + 1)..l /\ m \in lo..Len(u)
    BY <1>n, <2>5 DEF Cut
  <2>7. IsLastOf(c, Joins(u, lo, u[c])) /\ u[c - 1] \notin hyphens
    BY <2>3, <2>4, <2>6, LastJoin
  <2>8. c \in Int /\ m - 1 \in Int
    BY <1>n, <2>6
  <2>9. c \in Joins(u, lo, "und")
    BY <2>1, <2>7 DEF IsLastOf
  <2>10. CASE \E p : IsLastOf(p, Joins(u, lo, "und")) /\ u[p - 1] \in hyphens
    <3>1. PICK p : IsLastOf(p, Joins(u, lo, "und")) /\ u[p - 1] \in hyphens
      BY <2>10
    <3>2. p \in Int
      BY <1>n, <2>6, <3>1 DEF IsLastOf, Joins
    <3>3. p = c
      BY <2>1, <2>7, <2>8, <3>1, <3>2, OneLast
    <3> QED
      BY <2>7, <3>1, <3>3
  <2>11. CASE IsLastOf(m - 1, Joins(u, lo, "und"))
    <3>1. m - 1 = c
      BY <2>1, <2>7, <2>8, <2>11, OneLast
    <3> QED
      BY <1>n, <2>5, <2>6, <3>1
  <2> QED
    BY <2>1, <2>9, <2>10, <2>11 DEF Cut, IsLastOf
<1> QED
  BY <1>1, <1>2

(* Behind a role no comma follows; behind a trading name no other.         *)
LEMMA BehindRoles ==
  ASSUME NEW u, NEW l, Named(u, l), NEW a, NEW b, NEW c, NEW d, NEW e, NEW f,
         Parts(u, l, a, b, c, d, e, f), NEW n \in (d + 1)..Len(u)
  PROVE  u[n] # "," /\ (n > e => u[n] \notin tradingNames)
<1>n. /\ d \in Nat /\ e \in Nat /\ f \in Nat /\ l \in Nat
      /\ d <= e /\ e <= f /\ f <= l /\ Len(u) \in Nat /\ l + 1 < Len(u)
  BY PartsOrder
<1>1. TradingFrom(u, d, e) /\ AwardFrom(u, e, f) /\ LabelsFrom(u, l, f + 1)
  BY DEF Parts
<1>2. \/ n \in (d + 1)..e \/ n \in (e + 1)..f \/ n \in (f + 1)..l \/ n \in (l + 1)..(Len(u) - 1)
      \/ n = Len(u)
  BY <1>n
<1>3. ASSUME NEW x \in Capital \cup Small PROVE x # "," /\ x \notin tradingNames
  BY OwnWord DEF lineSigns, closers, smallWords
<1>4. CASE n \in (d + 1)..e
  <2>1. d < e /\ (n = e \/ n \in (d + 1)..(e - 1)) /\ ~(n > e)
    BY <1>n, <1>4
  <2>2. u[e] # ","
    BY <1>1, <2>1 DEF TradingFrom, tradingNames
  <2> QED
    BY <1>1, <1>3, <2>1, <2>2 DEF TradingFrom
<1>5. CASE n \in (e + 1)..f
  <2>1. e < f /\ (n = f \/ n = e + 1 \/ n \in (e + 2)..(f - 1))
    BY <1>n, <1>5
  <2>2. u[f] = ":" /\ u[e + 1] = "Best" /\ \A k \in (e + 2)..(f - 1) : u[k] \in Capital \cup Small
    BY <1>1, <2>1 DEF AwardFrom
  <2> QED
    BY <1>3, <2>1, <2>2 DEF tradingNames
<1>6. CASE n \in (f + 1)..l
  <2>1. f + 1 \in 1..(l + 1)
    BY <1>n
  <2>2. \A k \in (f + 1)..l : u[k] \in labelHeads \cup {":", "-"}
    BY <1>1, <1>n, <2>1, LabelsWords
  <2> QED
    BY <1>6, <2>2 DEF labelHeads, titledLabels, colonLabels, plainLabels, contactLabels, hostingProse,
      numberedParts, tradingNames
<1>7. CASE n \in (l + 1)..(Len(u) - 1)
  BY <1>7, NameWordIsNone DEF Named, otherWords
<1>8. CASE n = Len(u)
  BY <1>8 DEF Named, Ends, forms, tradingNames
<1> QED
  BY <1>2, <1>4, <1>5, <1>6, <1>7, <1>8

LEMMA OneWide ==
  ASSUME NEW x \in Capital
  PROVE  x \in Capitals /\ Width(x) = 1 /\ x # ","
<1>1. x \in Capitals /\ x \notin capitalWords /\ x \notin smallWords /\ x \notin lineSigns
  BY OwnWord DEF Capitals
<1>2. x \notin openers \cup closers /\ x \notin hostingProse \cup numberedParts /\ x \notin tradingNames
        /\ x \notin sentencePhrases \cup {"All rights reserved"}
  BY <1>1 DEF lineSigns, capitalWords, smallWords
<1> QED
  BY <1>1, <1>2 DEF Width, closers

LEMMA PersonIs ==
  ASSUME NEW u, NEW lo \in Nat, NEW p \in Nat, p - lo \in 1..MaxPersonWords,
         \A n \in lo..(p - 1) : u[n] \in Capital
  PROVE  PersonThere(u, lo, p)
<1> DEFINE words == {n \in 1..(p - lo) : u[lo + n - 1] \notin closers}
<1>n. MaxPersonWords \in Nat
  BY LinesAssumption
<1>1. ASSUME NEW n \in 1..(p - lo)
      PROVE  /\ u[lo + n - 1] \notin closers
             /\ u[lo + n - 1] \in Capitals /\ Width(u[lo + n - 1]) = 1
  <2>1. lo + n - 1 \in lo..(p - 1)
    OBVIOUS
  <2>2. u[lo + n - 1] \in Capital
    BY <2>1
  <2> QED
    BY <2>2, OneWide, OwnWord DEF lineSigns
<1>2. words = 1..(p - lo)
  BY <1>1
<1>3. Cardinality(1..(p - lo)) = p - lo
  <2>1. 1 \in Int /\ p - lo \in Int /\ p - lo >= 1
    BY <1>n
  <2>2. Cardinality(1..(p - lo)) = IF 1 > p - lo THEN 0 ELSE (p - lo) - 1 + 1
    BY <2>1, FS_Interval
  <2> QED
    BY <2>1, <2>2
<1>4. Cardinality(words) <= MaxPersonWords
  <2>1. Cardinality(words) = p - lo
    BY <1>2, <1>3
  <2> HIDE DEF words
  <2> QED
    BY <1>n, <2>1
<1>5. u[lo] \notin closers
  <2>1. 1 \in 1..(p - lo) /\ lo + 1 - 1 = lo
    BY <1>n
  <2> QED
    BY <1>1, <2>1
<1> QED
  BY <1>1, <1>4, <1>5 DEF PersonThere

LEMMA RoleStage ==
  ASSUME NEW u, NEW l, Named(u, l), NEW a, NEW b, NEW c, NEW d, NEW e, NEW f,
         Parts(u, l, a, b, c, d, e, f), NEW m, RoleOff(u, c + 1, m)
  PROVE  m = d + 1
<1>n. c \in Nat /\ d \in Nat /\ l \in Nat /\ c <= d /\ d <= l /\ Len(u) \in Nat /\ l + 1 < Len(u)
  BY PartsOrder
<1>1. CASE c = d
  <2>1. \A n \in (c + 1)..Len(u) : u[n] # ","
    BY <1>1, BehindRoles
  <2> QED
    BY <1>1, <2>1 DEF RoleOff, FirstCommaAt
<1>2. CASE c < d
  <2>1. PICK p \in (c + 2)..(d - 1) :
          /\ p - (c + 1) \in 1..MaxPersonWords /\ u[p] = ","
          /\ \A n \in (c + 1)..(p - 1) : u[n] \in Capital
          /\ u[p + 1] \in titles
          /\ d = p + 1 \/ (d = p + 2 /\ u[d] \in {"of", ","})
    BY <1>2 DEF Parts, RoleFrom
  <2>2. \A n \in (c + 1)..(p - 1) : u[n] \in Capitals /\ Width(u[n]) = 1 /\ u[n] # ","
    BY <2>1, OneWide
  <2>3. FirstCommaAt(u, c + 1, p)
    BY <2>1, <2>2 DEF FirstCommaAt
  <2>4. p \in (c + 1)..Len(u) /\ p \in Nat
    BY <1>n
  <2>5. u[d + 1] \notin closers /\ u[d + 1] # "of" /\ u[d + 1] # ","
    BY HeadsAre, HeadWordIsNone DEF closers
  <2>6. d = p + 1 \/ (d = p + 2 /\ u[p + 2] \in {"of", ","})
    BY <2>1
  <2>7. RoleThere(u, c + 1, p)
    <3>1. u[p + 2] \notin closers \ {","}
      <4>1. CASE d = p + 1
        <5>1. d + 1 = p + 2
          BY <2>4, <4>1
        <5> QED
          BY <2>5, <5>1
      <4>2. CASE u[p + 2] \in {"of", ","}
        BY <4>2 DEF closers
      <4> QED
        BY <2>6, <4>1, <4>2
    <3>2. PersonThere(u, c + 1, p)
      <4>1. c + 1 \in Nat /\ p \in Nat
        BY <1>n, <2>4
      <4>3. p - (c + 1) \in 1..MaxPersonWords
        BY <2>1
      <4>2. \A n \in (c + 1)..(p - 1) : u[n] \in Capital
        BY <2>1
      <4> QED
        BY <4>1, <4>2, <4>3, PersonIs
    <3> QED
      BY <2>1, <3>1, <3>2 DEF RoleThere
  <2>8. BehindRole(u, p) = d + 1
    <3>1. CASE d = p + 1
      <4>1. d + 1 = p + 2
        BY <2>4, <3>1
      <4> QED
        BY <2>5, <4>1 DEF BehindRole, BehindTitle
    <3>2. CASE d = p + 2 /\ u[p + 2] = ","
      <4>d. d = p + 2
        BY <3>2
      <4>1. d + 1 = p + 3
        BY <2>4, <4>d
      <4> QED
        BY <2>5, <3>2, <4>1 DEF BehindRole, BehindTitle
    <3>3. CASE d = p + 2 /\ u[p + 2] = "of"
      <4>1. BehindTitle(u, p) = d
        BY <3>3 DEF BehindTitle
      <4>2. ~(d > d)
        BY <1>n
      <4>3. SpacedAt(u, d, d)
        BY <2>5, <4>2 DEF SpacedAt
      <4> QED
        BY <3>3, <4>1, <4>3 DEF BehindRole
    <3> QED
      BY <2>6, <3>1, <3>2, <3>3
  <2>9. ASSUME NEW q \in (c + 1)..Len(u), FirstCommaAt(u, c + 1, q) PROVE q = p
    <3>1. u[q] = "," /\ u[p] = ","
      BY <2>1, <2>9 DEF FirstCommaAt
    <3>2. q \notin (c + 1)..(p - 1) /\ p \notin (c + 1)..(q - 1)
      BY <2>3, <2>9, <3>1 DEF FirstCommaAt
    <3> QED
      BY <1>n, <2>4, <3>2
  <2>10. ~(\A n \in (c + 1)..Len(u) : u[n] # ",")
    BY <2>1, <2>4
  <2> QED
    BY <2>7, <2>8, <2>9, <2>10 DEF RoleOff
<1> QED
  BY <1>n, <1>1, <1>2

(* The trading-name and the award pass likewise.                           *)
TradingOff(u, lo, m) ==
  /\ m \in lo..Len(u)
  /\ \/ m = lo /\ \A p \in lo..(Len(u) - 1) : u[p] \in tradingNames => u[p + 1] \in closers
     \/ /\ m > lo /\ u[m - 1] \in tradingNames /\ u[m] \notin closers
        /\ \A q \in lo..(m - 2) : u[q] \in tradingNames => u[q + 1] \in closers

LEMMA TradingStage ==
  ASSUME NEW u, NEW l, Named(u, l), NEW a, NEW b, NEW c, NEW d, NEW e, NEW f,
         Parts(u, l, a, b, c, d, e, f), NEW m, TradingOff(u, d + 1, m)
  PROVE  m = e + 1
<1>n. d \in Nat /\ e \in Nat /\ l \in Nat /\ d <= e /\ e <= l /\ Len(u) \in Nat /\ l + 1 < Len(u)
  BY PartsOrder
<1>m. m \in (d + 1)..Len(u)
  BY DEF TradingOff
<1>1. \A n \in (d + 1)..Len(u) : n > e => u[n] \notin tradingNames
  BY BehindRoles
<1>2. ASSUME m > d + 1, u[m - 1] \in tradingNames PROVE m <= e + 1
  <2>1. m > d + 1
    BY <1>2
  <2>2. m - 1 \in (d + 1)..Len(u)
    BY <1>n, <1>m, <2>1
  <2>3. ~(m - 1 > e)
    BY <1>1, <1>2, <2>2
  <2> QED
    BY <1>n, <1>m, <2>3
<1>3. CASE d = e
  <2>1. ~(m > d + 1 /\ m <= e + 1)
    BY <1>n, <1>m, <1>3
  <2> QED
    BY <1>2, <1>3, <2>1 DEF TradingOff
<1>4. CASE d < e
  <2>1. u[e] \in tradingNames /\ \A n \in (d + 1)..(e - 1) : u[n] \in Capital \cup Small
    BY <1>4 DEF Parts, TradingFrom
  <2>2. u[e + 1] \notin closers
    BY HeadsAre, HeadWordIsNone
  <2>3. e \in (d + 1)..(Len(u) - 1)
    BY <1>n, <1>4
  <2>4. m > d + 1 /\ u[m - 1] \in tradingNames /\ e \notin (d + 1)..(m - 2)
    BY <2>1, <2>2, <2>3 DEF TradingOff
  <2>5. m - 1 \notin (d + 1)..(e - 1)
    BY <2>1, <2>4, OwnWord DEF smallWords
  <2>6. m <= e + 1
    BY <1>2, <2>4
  <2>7. m > d + 1 /\ e \notin (d + 1)..(m - 2)
    BY <2>4
  <2> QED
    BY <1>n, <1>m, <1>4, <2>5, <2>6, <2>7
<1> QED
  BY <1>n, <1>3, <1>4

AwardOff(u, lo, m) ==
  /\ m \in lo..Len(u)
  /\ \/ /\ m = lo
        /\ u[lo] = "Best" /\ SpacedAt(u, lo, lo) =>
             \A p \in lo..(Len(u) - 1) : u[p] = ":" => u[p + 1] \in closers
     \/ /\ m > lo /\ u[lo] = "Best" /\ u[m - 1] = ":" /\ u[m] \notin closers
        /\ \A q \in lo..(m - 2) : u[q] = ":" => u[q + 1] \in closers

(* Behind a sign among contact labels, contact labels go on.               *)
LEMMA ContactAfter ==
  ASSUME NEW u, NEW l \in Nat, NEW x \in 1..(l + 1), ContactFrom(u, l, x),
         NEW n \in x..l, u[n] = ":"
  PROVE  ContactFrom(u, l, n + 1)
<1>1. PICK k \in Nat :
        /\ ContactsAt(u, x, k)
        /\ x + 2 * k = l + 1 \/ (x + 2 * k = l /\ u[l] \in hostingProse)
  BY DEF ContactFrom
<1>k. k \in Nat /\ (x + 2 * k = l + 1 \/ x + 2 * k = l)
  BY <1>1
<1> DEFINE h == (n - x) \div 2
           j == h + 1
<1>2. h \in Nat /\ 2 * h <= n - x /\ n - x < 2 * h + 2
  <2>1. n - x \in Nat
    OBVIOUS
  <2> QED
    BY <2>1, Halves
<1> HIDE DEF h
<1>3. n < x + 2 * k
  <2>1. CASE x + 2 * k = l + 1
    BY <2>1
  <2>2. CASE x + 2 * k = l /\ u[l] \in hostingProse
    <3>1. n # l
      BY <2>2 DEF hostingProse
    <3>2. x + 2 * k = l
      BY <2>2
    <3> QED
      BY <1>k, <3>1, <3>2
  <2> QED
    BY <1>1, <2>1, <2>2
<1>4. j \in 1..k /\ (n = x + 2 * j - 2 \/ n = x + 2 * j - 1)
  BY <1>k, <1>2, <1>3
<1>5. n = x + 2 * j - 1
  <2>1. u[x + 2 * j - 2] \in contactLabels
    BY <1>1, <1>4 DEF ContactsAt
  <2>2. n # x + 2 * j - 2
    BY <2>1 DEF contactLabels
  <2> QED
    BY <1>4, <2>2
<1> HIDE DEF j
<1>6. k - j \in Nat /\ (n + 1) + 2 * (k - j) = x + 2 * k
  BY <1>k, <1>4, <1>5
<1>7. ContactsAt(u, n + 1, k - j)
  <2>1. ASSUME NEW i \in 1..(k - j)
        PROVE  u[(n + 1) + 2 * i - 2] \in contactLabels /\ u[(n + 1) + 2 * i - 1] \in {":", "-"}
    <3>1. i + j \in 1..k /\ (n + 1) + 2 * i - 2 = x + 2 * (i + j) - 2
            /\ (n + 1) + 2 * i - 1 = x + 2 * (i + j) - 1
      BY <1>k, <1>4, <1>5
    <3> QED
      BY <1>1, <3>1 DEF ContactsAt
  <2> QED
    BY <2>1 DEF ContactsAt
<1> QED
  BY <1>1, <1>6, <1>7 DEF ContactFrom

LEMMA NameIsNoLabel ==
  ASSUME NEW u, NEW l, Named(u, l)
  PROVE  u[l + 1] \notin labelHeads \cup closers \cup {":", "-"}
BY HeadWordIsNone, NameWordIsNone DEF Named, labelHeads, otherWords, labelWords, NameWords, Ends, closers

LEMMA AwardStage ==
  ASSUME NEW u, NEW l, Named(u, l), NEW a, NEW b, NEW c, NEW d, NEW e, NEW f,
         Parts(u, l, a, b, c, d, e, f), NEW m, AwardOff(u, e + 1, m)
  PROVE  m \in 1..(l + 1) /\ LabelsFrom(u, l, m)
<1>n. e \in Nat /\ f \in Nat /\ l \in Nat /\ e <= f /\ f <= l /\ Len(u) \in Nat /\ l + 1 < Len(u)
  BY PartsOrder
<1>m. m \in (e + 1)..Len(u)
  BY DEF AwardOff
<1>1. AwardFrom(u, e, f) /\ LabelsFrom(u, l, f + 1)
  BY DEF Parts
<1>2. CASE e = f
  <2> DEFINE x == e + 1
  <2>1. x \in 1..(l + 1) /\ LabelsFrom(u, l, x)
    BY <1>n, <1>1, <1>2
  <2>2. CASE m = x
    BY <2>1, <2>2
  <2>3. CASE m > x /\ u[x] = "Best" /\ u[m - 1] = ":"
    <3>1. x <= l
      <4>1. x # l + 1
        <5>1. u[l + 1] # "Best"
          BY NameIsNoLabel DEF labelHeads, plainLabels
        <5> QED
          BY <2>3, <5>1
      <4> QED
        BY <1>n, <2>1, <4>1
    <3>2. ContactFrom(u, l, x + 1)
      <4>1. u[x] \notin contactLabels \cup hostingProse \cup titledLabels \cup colonLabels \cup numberedParts
        BY <2>3 DEF contactLabels, hostingProse, titledLabels, colonLabels, numberedParts
      <4>2. ~ContactFrom(u, l, x)
        BY <1>n, <2>1, <3>1, <4>1, ContactWords
      <4>3. ~(x = l /\ u[l] \in numberedParts)
        BY <4>1
      <4> HIDE DEF x
      <4> QED
        BY <2>1, <4>1, <4>2, <4>3 DEF LabelsFrom
    <3>3. m - 1 <= l
      <4>1. \A n \in (l + 1)..(Len(u) - 1) : u[n] # ":"
        BY NameWordIsNone DEF Named, otherWords, closers
      <4>2. m - 1 \notin (l + 1)..(Len(u) - 1)
        BY <2>3, <4>1
      <4> QED
        BY <1>n, <1>m, <4>2
    <3>4. m > x
      BY <2>3
    <3>5. x # m - 1
      BY <2>3
    <3>6. x + 1 \in 1..(l + 1) /\ m - 1 \in (x + 1)..l /\ (m - 1) + 1 = m /\ m \in 1..(l + 1)
      BY <1>n, <1>m, <2>1, <3>1, <3>3, <3>4, <3>5
    <3>7. ContactFrom(u, l, m)
      BY <1>n, <2>3, <3>2, <3>6, ContactAfter
    <3> QED
      BY <3>6, <3>7 DEF LabelsFrom
  <2> QED
    BY <2>2, <2>3 DEF AwardOff
<1>3. CASE e < f
  <2>1. /\ e + 3 <= f /\ u[e + 1] = "Best" /\ u[f] = ":"
        /\ \A n \in (e + 2)..(f - 1) : u[n] \in Capital \cup Small
    BY <1>1, <1>3 DEF AwardFrom
  <2>2. u[f + 1] \notin closers
    BY HeadsAre, HeadWordIsNone
  <2>3. \A n \in (e + 2)..(f - 1) : u[n] # ":" /\ u[n] \notin closers
    BY <2>1, OwnWord DEF lineSigns, closers
  <2>4. e + 3 <= f
    BY <2>1
  <2>5. SpacedAt(u, e + 1, e + 1)
    <3>1. e + 2 \in (e + 2)..(f - 1) /\ ~(e + 1 > e + 1) /\ (e + 1) + 1 = e + 2
      BY <1>n, <2>4
    <3>2. u[(e + 1) + 1] \notin closers
      BY <2>3, <3>1
    <3> QED
      BY <3>1, <3>2 DEF SpacedAt
  <2>6. f \in (e + 1)..(Len(u) - 1)
    BY <1>n, <1>3
  <2>7. m > e + 1 /\ u[m - 1] = ":" /\ f \notin (e + 1)..(m - 2)
    BY <2>1, <2>2, <2>5, <2>6 DEF AwardOff
  <2>8. m - 1 \notin (e + 2)..(f - 1) /\ m - 1 # e + 1
    BY <2>1, <2>3, <2>7
  <2>9. m > e + 1 /\ f \notin (e + 1)..(m - 2)
    BY <2>7
  <2>10. m = f + 1
    BY <1>n, <1>m, <1>3, <2>8, <2>9
  <2> QED
    BY <1>n, <1>1, <2>10
<1> QED
  BY <1>n, <1>2, <1>3

(* Where the passes over labels lead to.                                   *)
LabelsGone(u, lo, m) ==
  /\ u[lo] \in numberedParts => m = lo + 1
  /\ u[lo] \notin numberedParts =>
       \E k \in Nat :
         LET a == BehindLabel(u, lo)
             b == a + 2 * k
         IN  /\ a \in lo..Len(u) /\ b \in a..Len(u) /\ m = BehindHosting(u, b)
             /\ ContactsAt(u, a, k)
             /\ ~(u[b] \in contactLabels /\ SignedAt(u, b, {":", "-"}))

LEMMA ContactsGone ==
  ASSUME NEW u, NEW l, Named(u, l), NEW x \in 1..(l + 1), ContactFrom(u, l, x),
         NEW k \in Nat, ContactsAt(u, x, k), x + 2 * k <= Len(u),
         ~(u[x + 2 * k] \in contactLabels /\ SignedAt(u, x + 2 * k, {":", "-"}))
  PROVE  BehindHosting(u, x + 2 * k) = l + 1
<1>n. l \in Nat /\ Len(u) \in Nat /\ l + 1 < Len(u)
  BY DEF Named, Ends
<1>1. PICK i \in Nat :
        /\ ContactsAt(u, x, i)
        /\ x + 2 * i = l + 1 \/ (x + 2 * i = l /\ u[l] \in hostingProse)
  BY DEF ContactFrom
<1>i. x + 2 * i = l + 1 \/ x + 2 * i = l
  BY <1>1
<1>2. u[l + 1] \notin contactLabels \cup hostingProse \cup closers
  BY NameIsNoLabel DEF labelHeads
<1>3. ~(k < i)
  <2>1. SUFFICES ASSUME k < i PROVE FALSE
    OBVIOUS
  <2>2. k + 1 \in 1..i /\ x + 2 * (k + 1) - 2 = x + 2 * k /\ x + 2 * (k + 1) - 1 = (x + 2 * k) + 1
          /\ x + 2 * k < Len(u)
    BY <1>n, <1>i, <2>1
  <2>3. u[x + 2 * (k + 1) - 2] \in contactLabels /\ u[x + 2 * (k + 1) - 1] \in {":", "-"}
    BY <1>1, <2>2 DEF ContactsAt
  <2> QED
    BY <2>2, <2>3 DEF SignedAt
<1>4. ~(i < k)
  <2>1. SUFFICES ASSUME i < k PROVE FALSE
    OBVIOUS
  <2>2. i + 1 \in 1..k /\ x + 2 * (i + 1) - 2 = x + 2 * i
    BY <2>1
  <2>3. u[x + 2 * i] \in contactLabels
    BY <2>2 DEF ContactsAt
  <2>4. CASE x + 2 * i = l + 1
    BY <1>2, <2>3, <2>4
  <2>5. CASE x + 2 * i = l /\ u[l] \in hostingProse
    BY <2>3, <2>5 DEF contactLabels, hostingProse
  <2> QED
    BY <1>1, <2>4, <2>5
<1>5. k = i
  BY <1>3, <1>4
<1>6. CASE x + 2 * k = l + 1
  BY <1>2, <1>6 DEF BehindHosting
<1>7. CASE x + 2 * k = l /\ u[l] \in hostingProse
  <2>1. ~(l > l)
    BY <1>n
  <2>2. SpacedAt(u, l, l)
    BY <1>2, <2>1 DEF SpacedAt
  <2> QED
    BY <1>7, <2>2 DEF BehindHosting
<1> QED
  BY <1>1, <1>5, <1>6, <1>7

LEMMA LabelGone ==
  ASSUME NEW u, NEW l, Named(u, l), NEW x \in 1..(l + 1), LabelsFrom(u, l, x), u[x] \notin numberedParts
  PROVE  BehindLabel(u, x) \in 1..(l + 1) /\ ContactFrom(u, l, BehindLabel(u, x))
<1>n. l \in Nat /\ Len(u) \in Nat /\ l + 1 < Len(u)
  BY DEF Named, Ends
<1>1. u[l + 1] \notin labelHeads \cup closers \cup {":", "-"}
  BY NameIsNoLabel
<1>2. ASSUME NEW y \in 1..(l + 1), ContactFrom(u, l, y)
      PROVE  u[y] \notin closers \cup {":", "-"} /\ (u[y] \notin contactLabels => u[y] \notin titledLabels)
  <2>1. CASE y = l + 1
    BY <1>1, <2>1 DEF labelHeads
  <2>2. CASE y <= l
    <3>1. u[y] \in contactLabels \cup hostingProse
      BY <1>n, <1>2, <2>2, ContactWords
    <3> QED
      BY <3>1 DEF contactLabels, hostingProse, closers, titledLabels
  <2> QED
    BY <1>n, <2>1, <2>2
<1>3. ~(x > x)
  OBVIOUS
<1>4. CASE ContactFrom(u, l, x)
  <2>1. PICK k \in Nat :
          /\ ContactsAt(u, x, k)
          /\ x + 2 * k = l + 1 \/ (x + 2 * k = l /\ u[l] \in hostingProse)
    BY <1>4 DEF ContactFrom
  <2>k. x + 2 * k = l + 1 \/ x + 2 * k = l
    BY <2>1
  <2>2. CASE k = 0
    <3>1. (x = l + 1) \/ (x = l /\ u[l] \in hostingProse)
      BY <2>1, <2>2
    <3>2. u[x] \notin titledLabels \cup colonLabels \cup plainLabels
      <4>1. CASE x = l + 1
        BY <1>1, <4>1 DEF labelHeads
      <4>2. CASE x = l /\ u[l] \in hostingProse
        BY <4>2 DEF hostingProse, titledLabels, colonLabels, plainLabels
      <4> QED
        BY <3>1, <4>1, <4>2
    <3>3. BehindLabel(u, x) = x
      BY <3>2 DEF BehindLabel
    <3> QED
      BY <1>4, <3>3
  <2>3. CASE k > 0
    <3>1. 1 \in 1..k /\ x + 2 * 1 - 2 = x /\ x + 2 * 1 - 1 = x + 1
      BY <2>3
    <3>2. u[x] \in contactLabels /\ u[x + 1] \in {":", "-"}
      BY <2>1, <3>1 DEF ContactsAt
    <3>3. x < Len(u) /\ x + 2 \in 1..(l + 1) /\ k - 1 \in Nat /\ (x + 2) + 2 * (k - 1) = x + 2 * k
      BY <1>n, <2>k, <2>3
    <3>4. CASE u[x] \in titledLabels
      <4>1. BehindLabel(u, x) = x + 2
        BY <3>2, <3>3, <3>4 DEF BehindLabel, SignedAt
      <4>2. ContactsAt(u, x + 2, k - 1)
        <5>1. ASSUME NEW i \in 1..(k - 1)
              PROVE  u[(x + 2) + 2 * i - 2] \in contactLabels /\ u[(x + 2) + 2 * i - 1] \in {":", "-"}
          <6>1. i + 1 \in 1..k /\ (x + 2) + 2 * i - 2 = x + 2 * (i + 1) - 2
                  /\ (x + 2) + 2 * i - 1 = x + 2 * (i + 1) - 1
            BY <2>3
          <6> QED
            BY <2>1, <6>1 DEF ContactsAt
        <5> QED
          BY <5>1 DEF ContactsAt
      <4>3. ContactFrom(u, l, x + 2)
        BY <2>1, <3>3, <4>2 DEF ContactFrom
      <4> QED
        BY <3>3, <4>1, <4>3
    <3>5. CASE u[x] \notin titledLabels
      <4>1. u[x] \notin titledLabels \cup colonLabels \cup plainLabels
        BY <3>2, <3>5 DEF contactLabels, colonLabels, plainLabels
      <4>2. BehindLabel(u, x) = x
        BY <4>1 DEF BehindLabel
      <4> QED
        BY <1>4, <4>2
    <3> QED
      BY <3>4, <3>5
  <2> QED
    BY <2>2, <2>3
<1>5. CASE x <= l /\ u[x] \in titledLabels \cup plainLabels /\ ContactFrom(u, l, x + 1)
  <2>1. x + 1 \in 1..(l + 1)
    <3>1. x <= l
      BY <1>5
    <3> QED
      BY <1>n, <3>1
  <2>2. u[x + 1] \notin closers \cup {":", "-"}
    BY <1>2, <1>5, <2>1
  <2>3. SpacedAt(u, x, x) /\ ~SignedAt(u, x, {":", "-"})
    BY <1>3, <2>2 DEF SpacedAt, SignedAt
  <2>4. u[x] \notin colonLabels
    BY <1>5 DEF colonLabels, titledLabels, plainLabels
  <2>5. BehindLabel(u, x) = x + 1
    BY <1>5, <2>3, <2>4 DEF BehindLabel
  <2> QED
    BY <1>5, <2>1, <2>5
<1>6. CASE /\ x + 1 <= l /\ ContactFrom(u, l, x + 2)
           /\ \/ u[x] \in titledLabels /\ u[x + 1] \in {":", "-"}
              \/ u[x] \in colonLabels /\ u[x + 1] = ":"
  <2>1. x + 2 \in 1..(l + 1) /\ x < Len(u)
    <3>1. x + 1 <= l
      BY <1>6
    <3> QED
      BY <1>n, <3>1
  <2>2. BehindLabel(u, x) = x + 2
    BY <1>6, <2>1 DEF BehindLabel, SignedAt
  <2> QED
    BY <1>6, <2>1, <2>2
<1>7. ~(x = l /\ u[l] \in numberedParts)
  OBVIOUS
<1> QED
  BY <1>4, <1>5, <1>6, <1>7 DEF LabelsFrom

LEMMA LabelStage ==
  ASSUME NEW u, NEW l, Named(u, l), NEW x \in 1..(l + 1), LabelsFrom(u, l, x),
         NEW m, LabelsGone(u, x, m)
  PROVE  m = l + 1
<1>n. l \in Nat /\ Len(u) \in Nat /\ l + 1 < Len(u)
  BY DEF Named, Ends
<1>1. CASE u[x] \in numberedParts
  <2>1. m = x + 1
    BY <1>1 DEF LabelsGone
  <2>2. u[x] \notin contactLabels \cup hostingProse \cup titledLabels \cup colonLabels \cup plainLabels
    BY <1>1 DEF contactLabels, hostingProse, titledLabels, colonLabels, plainLabels, numberedParts
  <2>3. x # l + 1
    BY <1>1, NameIsNoLabel DEF labelHeads
  <2>4. x <= l
    BY <1>n, <2>3
  <2>5. ~ContactFrom(u, l, x)
    BY <1>n, <2>2, <2>4, ContactWords
  <2>6. x = l
    BY <2>2, <2>5 DEF LabelsFrom
  <2> QED
    BY <2>1, <2>6
<1>2. CASE u[x] \notin numberedParts
  <2> DEFINE a == BehindLabel(u, x)
  <2>1. a \in 1..(l + 1) /\ ContactFrom(u, l, a)
    BY <1>2, LabelGone
  <2>2. PICK k \in Nat :
          /\ a + 2 * k \in a..Len(u) /\ m = BehindHosting(u, a + 2 * k)
          /\ ContactsAt(u, a, k)
          /\ ~(u[a + 2 * k] \in contactLabels /\ SignedAt(u, a + 2 * k, {":", "-"}))
    BY <1>2 DEF LabelsGone
  <2> HIDE DEF a
  <2>3. a + 2 * k <= Len(u)
    BY <1>n, <2>1, <2>2
  <2> QED
    BY <2>1, <2>2, <2>3, ContactsGone
<1> QED
  BY <1>1, <1>2

-----------------------------------------------------------------------------
(* The name is not cut                                                     *)

cutWords == {"copyright sign", "Copyright", ".", "and"} \cup dates \cup leftoverWords
              \cup titles \cup {",", "of", ":"} \cup tradingNames \cup labelWords

(* A pass leads behind a word of its own, or stays.                        *)
CutsTo(u, lo, m) ==
  /\ m \in lo..Len(u)
  /\ \/ m = lo
     \/ u[m - 1] \in cutWords
     \/ u[m - 1] = "und" /\ u[m - 2] \notin hyphens

LEMMA CutWordsAreNone ==
  ASSUME NEW x \in cutWords
  PROVE  x \notin NameWords /\ x \notin Small /\ x # "und"
<1>1. x \in {"copyright sign", "Copyright", ".", "and", "2024", ",", "-", "open quote", "close quote", "(",
             "CEO", "of", ":", "is a trading name of", "Impressum", "Operator", "Best", "About",
             "hosted by", "Section 3:"}
  BY DEF cutWords, dates, leftoverWords, years, quotes, titles, tradingNames, labelWords, titledLabels,
    colonLabels, plainLabels, hostingProse, numberedParts
<1>2. x \in capitalWords \cup smallWords \cup lineSigns
  BY <1>1, KnownWords
<1>3. x \notin hyphenated /\ x # "und"
  BY <1>1 DEF hyphenated
<1> QED
  BY <1>2, <1>3, OwnWord DEF NameWords

LEMMA NameKept ==
  ASSUME NEW u, NEW l, Named(u, l), NEW lo \in 1..(l + 1), NEW m, CutsTo(u, lo, m)
  PROVE  m \in 1..(l + 1)
<1>n. l \in Nat /\ Len(u) \in Nat /\ l + 1 < Len(u)
  BY DEF Named, Ends
<1>1. m \in lo..Len(u)
  BY DEF CutsTo
<1>2. m - 1 \notin (l + 1)..(Len(u) - 1) \/ m = lo
  <2>1. SUFFICES ASSUME m - 1 \in (l + 1)..(Len(u) - 1), m # lo PROVE FALSE
    OBVIOUS
  <2>2. u[m - 1] \in NameWords /\ (u[m - 1] = "und" => u[(m - 1) - 1] \in hyphenated)
    BY <2>1 DEF Named
  <2>3. (m - 1) - 1 = m - 2
    BY <1>1
  <2> QED
    BY <2>1, <2>2, <2>3, CutWordsAreNone DEF CutsTo, hyphens
<1> QED
  BY <1>n, <1>1, <1>2

LEMMA PendingKept ==
  ASSUME NEW u, NEW l, Named(u, l), NEW a, NEW b, NEW c, NEW d, NEW e, NEW f,
         Parts(u, l, a, b, c, d, e, f), NEW lo, Pending(u, l, b, c, lo),
         NEW m, CutsTo(u, lo, m), m = lo \/ u[m - 1] \in cutWords
  PROVE  Pending(u, l, b, c, m)
<1>n. b \in Nat /\ c \in Nat /\ l \in Nat /\ b <= c /\ c <= l /\ Len(u) \in Nat /\ l + 1 < Len(u)
  BY PartsOrder
<1>1. c = l /\ b < c /\ u[c] = "und" /\ lo \in (b + 1)..(c - 1) /\ Joins(u, lo, "and") = {}
  BY DEF Pending
<1>2. c = l /\ b < c /\ lo \in (b + 1)..(c - 1)
  BY <1>1
<1>3. m \in lo..Len(u)
  BY DEF CutsTo
<1>4. u[c - 1] \in Capital \cup Small
  BY <1>2 DEF Parts, JoinedTo
<1>5. CASE m = lo
  BY <1>5
<1>6. CASE u[m - 1] \in cutWords
  <2>1. u[m - 1] \notin NameWords /\ u[m - 1] \notin Small /\ u[m - 1] # "und"
    BY <1>6, CutWordsAreNone
  <2>2. m - 1 # c - 1 /\ m - 1 # c
    BY <1>1, <1>4, <2>1 DEF NameWords
  <2>3. m - 1 \notin (l + 1)..(Len(u) - 1)
    BY <2>1 DEF Named
  <2>4. m \in (b + 1)..(c - 1) /\ lo \in Nat /\ m \in Nat /\ lo <= m
    BY <1>n, <1>2, <1>3, <2>2, <2>3
  <2>5. Joins(u, m, "and") = {}
    BY <1>1, <2>4, NoneLater DEF Named
  <2> QED
    BY <1>1, <2>4, <2>5 DEF Pending
<1> QED
  BY <1>5, <1>6

-----------------------------------------------------------------------------
(* What holds of the place at which the candidate begins                   *)

(* Pass by pass: s is the one to come.                                     *)
Stage(s, u, l, a, b, c, d, e, f, lo) ==
  /\ s = "copyright" => AtSigns(lo, a, b, c)
  /\ s = "leftover" => AtLeftover(u, lo, a, b, c)
  /\ s = "conjunction" => AtJoined(lo, b, c)
  /\ s = "person" => lo = c + 1 \/ Pending(u, l, b, c, lo)
  /\ s = "trading" => lo = d + 1 \/ Pending(u, l, b, c, lo)
  /\ s = "award" => lo = e + 1 \/ Pending(u, l, b, c, lo)
  /\ s = "label" => (lo \in 1..(l + 1) /\ LabelsFrom(u, l, lo)) \/ Pending(u, l, b, c, lo)
  /\ s = "conjunction again" => lo = l + 1 \/ Pending(u, l, b, c, lo)
  /\ s = "judge" => lo = l + 1

Passed(s, u, lo) ==
  \A l, a, b, c, d, e, f :
    Named(u, l) /\ Parts(u, l, a, b, c, d, e, f) /\ Len(u) <= Window + 1 =>
      Stage(s, u, l, a, b, c, d, e, f, lo)

Whole(u, lo) == \A l : Named(u, l) /\ Len(u) <= Window + l + 1 => lo <= l + 1

(* No two names are joined in what remains.                                *)
NotJoined(u, lo) ==
  /\ Joins(u, lo, "and") = {}
  /\ \/ Joins(u, lo, "und") = {}
     \/ \E p : IsLastOf(p, Joins(u, lo, "und")) /\ u[p - 1] \in hyphens

Apart(s, u, lo) ==
  /\ s \in {"person", "trading", "award", "label", "conjunction again", "judge"} =>
       Joins(u, lo, "and") = {}
  /\ s = "judge" => NotJoined(u, lo)

(* Of dates before the form nothing remains.                               *)
Alone(s, u, lo) == (\A n \in 1..(Len(u) - 1) : u[n] \in dates) /\ s # "copyright" => lo = Len(u)

PlaceInv(s, u, lo) == Passed(s, u, lo) /\ Whole(u, lo) /\ Apart(s, u, lo) /\ Alone(s, u, lo)

-----------------------------------------------------------------------------
(* Each pass keeps it                                                      *)

Strips(u, lo, m) == m \in lo..Len(u) /\ (m = lo \/ u[m - 1] \in cutWords)

CopyrightOff(u, lo, m) == \E r : Skips(u, AfterSigns(u, lo), r, dates) /\ Reserves(u, r, m)

LEMMA StripsCut ==
  ASSUME NEW u, NEW lo, NEW m, Strips(u, lo, m)
  PROVE  CutsTo(u, lo, m)
BY DEF Strips, CutsTo

LEMMA CutCuts ==
  ASSUME NEW u, NEW lo, NEW m, Cut(u, lo, m)
  PROVE  CutsTo(u, lo, m)
<1>1. \A x : \A p \in Joins(u, lo, x) : u[p] = x
  BY DEF Joins
<1>2. "and" \in cutWords
  BY DEF cutWords
<1> QED
  BY <1>1, <1>2 DEF Cut, CutsTo, IsLastOf

LEMMA CopyrightStrips ==
  ASSUME NEW u, Ends(u), NEW lo \in 1..Len(u), NEW m, CopyrightOff(u, lo, m)
  PROVE  Strips(u, lo, m)
<1> DEFINE q == AfterFirstSign(u, lo)
           p == AfterSigns(u, lo)
<1>n. Len(u) \in Nat /\ lo \in 1..Len(u)
  BY DEF Ends
<1>1. PICK r : Skips(u, p, r, dates) /\ Reserves(u, r, m)
  BY DEF CopyrightOff
<1>2. q \in lo..Len(u) /\ p \in lo..Len(u)
  BY SignsOff
<1>3. q = IF u[lo] = "copyright sign" THEN lo + 1 ELSE lo
  BY DEF AfterFirstSign
<1>4. p = IF u[q] = "Copyright" THEN q + 1 ELSE q
  BY DEF AfterSigns
<1> HIDE DEF p, q
<1>5. p = lo \/ u[p - 1] \in cutWords
  <2>1. CASE p = q
    <3>1. q = lo \/ (q = lo + 1 /\ u[lo] = "copyright sign")
      BY <1>3
    <3>2. (lo + 1) - 1 = lo
      BY <1>n
    <3> QED
      BY <2>1, <3>1, <3>2 DEF cutWords
  <2>2. CASE p = q + 1 /\ u[q] = "Copyright"
    <3>1. (q + 1) - 1 = q
      BY <1>2
    <3> QED
      BY <2>2, <3>1 DEF cutWords
  <2> QED
    BY <1>4, <2>1, <2>2
<1>6. r \in p..Len(u) /\ \A n \in p..(r - 1) : u[n] \in dates
  BY <1>1 DEF Skips
<1>7. r = lo \/ u[r - 1] \in cutWords
  <2>1. CASE r = p
    BY <1>5, <2>1
  <2>2. CASE r # p
    <3>1. r - 1 \in p..(r - 1)
      BY <1>2, <1>6, <2>2
    <3> QED
      BY <1>6, <3>1 DEF cutWords
  <2> QED
    BY <2>1, <2>2
<1>8. m \in r..Len(u) /\ (m = r \/ u[m - 1] = ".")
  BY <1>1 DEF Reserves
<1>9. r \in p..Len(u) /\ m \in r..Len(u)
  BY <1>6, <1>8
<1>10. m \in lo..Len(u)
  BY <1>n, <1>2, <1>9
<1> QED
  BY <1>7, <1>8, <1>10 DEF Strips, cutWords

LEMMA LeftoverStrips ==
  ASSUME NEW u, Ends(u), NEW lo \in 1..Len(u), NEW m, Skips(u, lo, m, leftoverWords)
  PROVE  Strips(u, lo, m)
<1>1. m \in lo..Len(u) /\ \A n \in lo..(m - 1) : u[n] \in leftoverWords
  BY DEF Skips
<1>2. CASE m # lo
  <2>1. m - 1 \in lo..(m - 1)
    BY <1>1, <1>2
  <2> QED
    BY <1>1, <2>1 DEF Strips, cutWords
<1>3. CASE m = lo
  BY <1>1, <1>3 DEF Strips
<1> QED
  BY <1>2, <1>3

LEMMA WholeKept ==
  ASSUME NEW u, NEW lo \in 1..Len(u), NEW m, CutsTo(u, lo, m), Whole(u, lo)
  PROVE  Whole(u, m)
<1>1. ASSUME NEW l, Named(u, l), Len(u) <= Window + l + 1 PROVE m <= l + 1
  <2>1. lo <= l + 1 /\ l \in Nat
    BY <1>1 DEF Whole, Named
  <2>2. lo \in 1..(l + 1)
    BY <2>1
  <2>3. m \in 1..(l + 1)
    BY <1>1, <2>2, NameKept
  <2> QED
    BY <2>1, <2>3
<1> QED
  BY <1>1 DEF Whole

LEMMA NotJoinedLater ==
  ASSUME NEW u, Ends(u), NEW lo \in 1..Len(u), NEW m \in lo..Len(u), NEW x, Joins(u, lo, x) = {}
  PROVE  Joins(u, m, x) = {}
<1>1. lo \in Nat /\ m \in Nat /\ lo <= m
  BY DEF Ends
<1> QED
  BY <1>1, NoneLater

LEMMA BehindLast ==
  ASSUME NEW u, Ends(u), NEW lo \in 1..Len(u), NEW m \in lo..Len(u), NEW x,
         IsLastOf(m - 1, Joins(u, lo, x))
  PROVE  Joins(u, m, x) = {}
<1>1. Len(u) \in Nat /\ lo \in Nat /\ m \in Nat /\ lo <= m
  BY DEF Ends
<1>2. Joins(u, m, x) = {p \in Joins(u, lo, x) : p > m}
  BY <1>1, NoneLater
<1>3. ASSUME NEW p \in Joins(u, lo, x), p > m PROVE FALSE
  <2>1. p <= m - 1
    BY DEF IsLastOf
  <2>2. p \in Int
    BY <1>1 DEF Joins
  <2> QED
    BY <1>1, <1>3, <2>1, <2>2
<1> QED
  BY <1>2, <1>3

LEMMA CutApart ==
  ASSUME NEW u, Ends(u), NEW lo \in 1..Len(u), NEW m, Cut(u, lo, m)
  PROVE  /\ m \in lo..Len(u) /\ Joins(u, m, "and") = {}
         /\ Joins(u, lo, "and") = {} => NotJoined(u, m)
<1>1. m \in lo..Len(u)
  BY DEF Cut
<1>2. CASE IsLastOf(m - 1, Joins(u, lo, "and"))
  BY <1>1, <1>2, BehindLast DEF IsLastOf
<1>3. CASE Joins(u, lo, "and") = {} /\ IsLastOf(m - 1, Joins(u, lo, "und"))
  <2>1. Joins(u, m, "und") = {}
    BY <1>1, <1>3, BehindLast
  <2>2. Joins(u, m, "and") = {}
    BY <1>1, <1>3, NotJoinedLater
  <2> QED
    BY <1>1, <2>1, <2>2 DEF NotJoined
<1>4. CASE /\ m = lo /\ Joins(u, lo, "and") = {}
           /\ \/ Joins(u, lo, "und") = {}
              \/ \E p : IsLastOf(p, Joins(u, lo, "und")) /\ u[p - 1] \in hyphens
  BY <1>1, <1>4 DEF NotJoined
<1> QED
  BY <1>2, <1>3, <1>4 DEF Cut

LEMMA AloneKept ==
  ASSUME NEW u, Ends(u), NEW lo \in 1..Len(u), NEW m \in lo..Len(u), NEW s, NEW next,
         s # "copyright", Alone(s, u, lo)
  PROVE  Alone(next, u, m)
<1>1. lo = Len(u) => m = Len(u)
  BY DEF Ends
<1> QED
  BY <1>1 DEF Alone

LEMMA CopyrightPass ==
  ASSUME NEW u, Ends(u), NEW lo \in 1..Len(u), NEW m, CopyrightOff(u, lo, m),
         PlaceInv("copyright", u, lo)
  PROVE  m \in lo..Len(u) /\ PlaceInv("leftover", u, m)
<1>1. Strips(u, lo, m)
  BY CopyrightStrips
<1>2. m \in lo..Len(u)
  BY <1>1 DEF Strips
<1>3. Whole(u, m)
  BY <1>1, StripsCut, WholeKept DEF PlaceInv
<1>4. PICK r : Skips(u, AfterSigns(u, lo), r, dates) /\ Reserves(u, r, m)
  BY DEF CopyrightOff
<1>5. Passed("leftover", u, m)
  <2>1. ASSUME NEW l, NEW a, NEW b, NEW c, NEW d, NEW e, NEW f, Named(u, l),
               Parts(u, l, a, b, c, d, e, f), Len(u) <= Window + 1
        PROVE  AtLeftover(u, m, a, b, c)
    <3>1. AtSigns(lo, a, b, c)
      BY <2>1 DEF PlaceInv, Passed, Stage
    <3> QED
      BY <1>4, <2>1, <3>1, CopyrightStage
  <2> QED
    BY <2>1 DEF Passed, Stage
<1>6. Alone("leftover", u, m)
  <2>1. SUFFICES ASSUME \A n \in 1..(Len(u) - 1) : u[n] \in dates PROVE m = Len(u)
    BY DEF Alone
  <2>n. Len(u) \in Nat
    BY DEF Ends
  <2>2. u[lo] \notin {"copyright sign", "Copyright"}
    <3>1. CASE lo = Len(u)
      BY <3>1 DEF Ends, forms
    <3>2. CASE lo # Len(u)
      <4>1. lo \in 1..(Len(u) - 1)
        BY <2>n, <3>2
      <4> QED
        BY <2>1, <4>1 DEF dates, years
    <3> QED
      BY <3>1, <3>2
  <2>3. AfterSigns(u, lo) = lo
    BY <2>2 DEF AfterSigns, AfterFirstSign
  <2>4. r \in lo..Len(u) /\ r \notin 1..(Len(u) - 1) /\ m \in r..Len(u)
    BY <1>4, <2>1, <2>3 DEF Skips, Reserves
  <2> QED
    BY <2>n, <2>4
<1>7. Apart("leftover", u, m)
  BY DEF Apart
<1> QED
  BY <1>2, <1>3, <1>5, <1>6, <1>7 DEF PlaceInv

LEMMA LeftoverPass ==
  ASSUME NEW u, Ends(u), NEW lo \in 1..Len(u), NEW m, Skips(u, lo, m, leftoverWords),
         PlaceInv("leftover", u, lo)
  PROVE  m \in lo..Len(u) /\ PlaceInv("conjunction", u, m)
<1>1. Strips(u, lo, m)
  BY LeftoverStrips
<1>2. m \in lo..Len(u)
  BY <1>1 DEF Strips
<1>3. Whole(u, m)
  BY <1>1, StripsCut, WholeKept DEF PlaceInv
<1>4. Passed("conjunction", u, m)
  <2>1. ASSUME NEW l, NEW a, NEW b, NEW c, NEW d, NEW e, NEW f, Named(u, l),
               Parts(u, l, a, b, c, d, e, f), Len(u) <= Window + 1
        PROVE  AtJoined(m, b, c)
    <3>1. AtLeftover(u, lo, a, b, c)
      BY <2>1 DEF PlaceInv, Passed, Stage
    <3>2. m \in (b + 1)..Stop(b, c)
      BY <2>1, <3>1, LeftoverStage
    <3> QED
      BY <3>2 DEF AtJoined
  <2> QED
    BY <2>1 DEF Passed, Stage
<1>5. Alone("conjunction", u, m)
  BY <1>2, AloneKept DEF PlaceInv
<1>6. Apart("conjunction", u, m)
  BY DEF Apart
<1> QED
  BY <1>2, <1>3, <1>4, <1>5, <1>6 DEF PlaceInv

LEMMA ConjunctionPass ==
  ASSUME NEW u, Ends(u), NEW lo \in 1..Len(u), NEW m, Cut(u, lo, m), PlaceInv("conjunction", u, lo)
  PROVE  m \in lo..Len(u) /\ PlaceInv("person", u, m)
<1>1. m \in lo..Len(u) /\ Joins(u, m, "and") = {}
  BY CutApart
<1>2. Whole(u, m)
  BY CutCuts, WholeKept DEF PlaceInv
<1>3. Passed("person", u, m)
  <2>1. ASSUME NEW l, NEW a, NEW b, NEW c, NEW d, NEW e, NEW f, Named(u, l),
               Parts(u, l, a, b, c, d, e, f), Len(u) <= Window + 1
        PROVE  m = c + 1 \/ Pending(u, l, b, c, m)
    <3>1. AtJoined(lo, b, c)
      BY <2>1 DEF PlaceInv, Passed, Stage
    <3> QED
      BY <2>1, <3>1, ConjunctionStage
  <2> QED
    BY <2>1 DEF Passed, Stage
<1>4. Alone("person", u, m)
  BY <1>1, AloneKept DEF PlaceInv
<1>5. Apart("person", u, m)
  BY <1>1 DEF Apart
<1> QED
  BY <1>1, <1>2, <1>3, <1>4, <1>5 DEF PlaceInv

LEMMA ConjunctionAgainPass ==
  ASSUME NEW u, Ends(u), NEW lo \in 1..Len(u), NEW m, Cut(u, lo, m),
         PlaceInv("conjunction again", u, lo)
  PROVE  m \in lo..Len(u) /\ PlaceInv("judge", u, m)
<1>0. Joins(u, lo, "and") = {}
  BY DEF PlaceInv, Apart
<1>1. m \in lo..Len(u) /\ Joins(u, m, "and") = {} /\ NotJoined(u, m)
  BY <1>0, CutApart
<1>2. Whole(u, m)
  BY CutCuts, WholeKept DEF PlaceInv
<1>3. Passed("judge", u, m)
  <2>1. ASSUME NEW l, NEW a, NEW b, NEW c, NEW d, NEW e, NEW f, Named(u, l),
               Parts(u, l, a, b, c, d, e, f), Len(u) <= Window + 1
        PROVE  Stage("judge", u, l, a, b, c, d, e, f, m)
    <3>1. lo = l + 1 \/ Pending(u, l, b, c, lo)
      BY <2>1 DEF PlaceInv, Passed, Stage
    <3>2. m = l + 1
      BY <2>1, <3>1, ConjunctionAgainStage
    <3> QED
      BY <3>2 DEF Stage
  <2> QED
    BY <2>1 DEF Passed
<1>4. Alone("judge", u, m)
  BY <1>1, AloneKept DEF PlaceInv
<1>5. Apart("judge", u, m)
  BY <1>1 DEF Apart
<1> QED
  BY <1>1, <1>2, <1>3, <1>4, <1>5 DEF PlaceInv

(* The passes between the two over conjunctions.                           *)
LEMMA BetweenPass ==
  ASSUME NEW u, Ends(u), NEW lo \in 1..Len(u), NEW m, Strips(u, lo, m),
         NEW s \in {"person", "trading", "award", "label"},
         NEW next \in {"trading", "award", "label", "conjunction again"},
         PlaceInv(s, u, lo), Passed(next, u, m)
  PROVE  m \in lo..Len(u) /\ PlaceInv(next, u, m)
<1>1. m \in lo..Len(u)
  BY DEF Strips
<1>2. Whole(u, m)
  BY StripsCut, WholeKept DEF PlaceInv
<1>3. Alone(next, u, m)
  BY <1>1, AloneKept DEF PlaceInv
<1>4. Joins(u, lo, "and") = {}
  BY DEF PlaceInv, Apart
<1>5. Joins(u, m, "and") = {}
  BY <1>1, <1>4, NotJoinedLater
<1>6. Apart(next, u, m)
  BY <1>5 DEF Apart
<1> QED
  BY <1>1, <1>2, <1>3, <1>6 DEF PlaceInv

LEMMA RolePass ==
  ASSUME NEW u, Ends(u), NEW lo \in 1..Len(u), NEW m, Strips(u, lo, m), RoleOff(u, lo, m),
         PlaceInv("person", u, lo)
  PROVE  m \in lo..Len(u) /\ PlaceInv("trading", u, m)
<1>1. Passed("trading", u, m)
  <2>1. ASSUME NEW l, NEW a, NEW b, NEW c, NEW d, NEW e, NEW f, Named(u, l),
               Parts(u, l, a, b, c, d, e, f), Len(u) <= Window + 1
        PROVE  m = d + 1 \/ Pending(u, l, b, c, m)
    <3>1. lo = c + 1 \/ Pending(u, l, b, c, lo)
      BY <2>1 DEF PlaceInv, Passed, Stage
    <3>2. CASE lo = c + 1
      BY <2>1, <3>2, RoleStage
    <3>3. CASE Pending(u, l, b, c, lo)
      BY <2>1, <3>3, StripsCut, PendingKept DEF Strips
    <3> QED
      BY <3>1, <3>2, <3>3
  <2> QED
    BY <2>1 DEF Passed, Stage
<1> QED
  BY <1>1, BetweenPass

LEMMA TradingPass ==
  ASSUME NEW u, Ends(u), NEW lo \in 1..Len(u), NEW m, Strips(u, lo, m), TradingOff(u, lo, m),
         PlaceInv("trading", u, lo)
  PROVE  m \in lo..Len(u) /\ PlaceInv("award", u, m)
<1>1. Passed("award", u, m)
  <2>1. ASSUME NEW l, NEW a, NEW b, NEW c, NEW d, NEW e, NEW f, Named(u, l),
               Parts(u, l, a, b, c, d, e, f), Len(u) <= Window + 1
        PROVE  m = e + 1 \/ Pending(u, l, b, c, m)
    <3>1. lo = d + 1 \/ Pending(u, l, b, c, lo)
      BY <2>1 DEF PlaceInv, Passed, Stage
    <3>2. CASE lo = d + 1
      BY <2>1, <3>2, TradingStage
    <3>3. CASE Pending(u, l, b, c, lo)
      BY <2>1, <3>3, StripsCut, PendingKept DEF Strips
    <3> QED
      BY <3>1, <3>2, <3>3
  <2> QED
    BY <2>1 DEF Passed, Stage
<1> QED
  BY <1>1, BetweenPass

LEMMA AwardPass ==
  ASSUME NEW u, Ends(u), NEW lo \in 1..Len(u), NEW m, Strips(u, lo, m), AwardOff(u, lo, m),
         PlaceInv("award", u, lo)
  PROVE  m \in lo..Len(u) /\ PlaceInv("label", u, m)
<1>1. Passed("label", u, m)
  <2>1. ASSUME NEW l, NEW a, NEW b, NEW c, NEW d, NEW e, NEW f, Named(u, l),
               Parts(u, l, a, b, c, d, e, f), Len(u) <= Window + 1
        PROVE  (m \in 1..(l + 1) /\ LabelsFrom(u, l, m)) \/ Pending(u, l, b, c, m)
    <3>1. lo = e + 1 \/ Pending(u, l, b, c, lo)
      BY <2>1 DEF PlaceInv, Passed, Stage
    <3>2. CASE lo = e + 1
      BY <2>1, <3>2, AwardStage
    <3>3. CASE Pending(u, l, b, c, lo)
      BY <2>1, <3>3, StripsCut, PendingKept DEF Strips
    <3> QED
      BY <3>1, <3>2, <3>3
  <2> QED
    BY <2>1 DEF Passed, Stage
<1> QED
  BY <1>1, BetweenPass

LEMMA LabelPass ==
  ASSUME NEW u, Ends(u), NEW lo \in 1..Len(u), NEW m, Strips(u, lo, m), LabelsGone(u, lo, m),
         PlaceInv("label", u, lo)
  PROVE  m \in lo..Len(u) /\ PlaceInv("conjunction again", u, m)
<1>1. Passed("conjunction again", u, m)
  <2>1. ASSUME NEW l, NEW a, NEW b, NEW c, NEW d, NEW e, NEW f, Named(u, l),
               Parts(u, l, a, b, c, d, e, f), Len(u) <= Window + 1
        PROVE  m = l + 1 \/ Pending(u, l, b, c, m)
    <3>1. (lo \in 1..(l + 1) /\ LabelsFrom(u, l, lo)) \/ Pending(u, l, b, c, lo)
      BY <2>1 DEF PlaceInv, Passed, Stage
    <3>2. CASE lo \in 1..(l + 1) /\ LabelsFrom(u, l, lo)
      BY <2>1, <3>2, LabelStage
    <3>3. CASE Pending(u, l, b, c, lo)
      BY <2>1, <3>3, StripsCut, PendingKept DEF Strips
    <3> QED
      BY <3>1, <3>2, <3>3
  <2> QED
    BY <2>1 DEF Passed, Stage
<1> QED
  BY <1>1, BetweenPass

(* Reading to the left: not farther than the window, nor past the end of   *)
(* a sentence.                                                             *)
LeftFrom(u) == IF Len(u) > Window THEN Len(u) - Window ELSE 1

LeftEnd(u, n) ==
  \/ u[n] \in bounds
  \/ u[n] = "." /\ u[n + 1] \in Capitals /\ (n > 1 => u[n - 1] \notin abbreviations)

LEMMA LeftPass ==
  ASSUME NEW u, Ends(u)
  PROVE  LET ends == {n \in LeftFrom(u)..(Len(u) - 1) : LeftEnd(u, n)}
             lo   == IF ends = {} THEN LeftFrom(u) ELSE Max(ends) + 1
         IN  lo \in 1..Len(u) /\ PlaceInv("copyright", u, lo)
<1> DEFINE x    == LeftFrom(u)
           ends == {n \in x..(Len(u) - 1) : LeftEnd(u, n)}
           lo   == IF ends = {} THEN x ELSE Max(ends) + 1
<1>n. Len(u) \in Nat /\ Len(u) > 0 /\ Window \in Nat
  BY LinesAssumption DEF Ends
<1>1. x \in 1..Len(u) \/ (Window = 0 /\ x = Len(u))
  BY <1>n DEF LeftFrom
<1>2. x \in 1..Len(u)
  BY <1>n, <1>1
<1>x. x = IF Len(u) > Window THEN Len(u) - Window ELSE 1
  BY DEF LeftFrom
<1> HIDE DEF x
<1>3. \A n \in ends : n \in x..(Len(u) - 1) /\ LeftEnd(u, n)
  OBVIOUS
<1>4. ends \in SUBSET Nat /\ \A n \in ends : n <= Len(u)
  <2>1. \A n \in ends : n \in Nat /\ n <= Len(u)
    BY <1>n, <1>2, <1>3
  <2> QED
    BY <2>1
<1>5. ends # {} => Max(ends) \in ends
  BY <1>n, <1>4, MaxIn
<1>6. lo = x \/ (lo - 1 \in x..(Len(u) - 1) /\ LeftEnd(u, lo - 1) /\ lo \in 1..Len(u))
  <2>1. CASE ends = {}
    BY <2>1
  <2>2. CASE ends # {}
    <3> DEFINE k == Max(ends)
    <3>1. k \in x..(Len(u) - 1) /\ LeftEnd(u, k)
      BY <1>3, <1>5, <2>2
    <3>2. lo = k + 1
      BY <2>2
    <3> HIDE DEF k, lo
    <3>3. lo - 1 = k /\ lo \in 1..Len(u)
      BY <1>n, <1>2, <3>1, <3>2
    <3> QED
      BY <3>1, <3>3
  <2> QED
    BY <2>1, <2>2
<1>p. Passed("copyright", u, lo)
  <2>1. ASSUME NEW l, NEW a, NEW b, NEW c, NEW d, NEW e, NEW f, Named(u, l),
               Parts(u, l, a, b, c, d, e, f), Len(u) <= Window + 1
        PROVE  AtSigns(lo, a, b, c)
    <3>1. x = 1
      <4>1. Len(u) <= Window + 1
        BY <2>1
      <4> QED
        BY <1>n, <1>x, <4>1
    <3> DEFINE early == {n \in 1..(Len(u) - 1) :
                           \/ u[n] \in bounds
                           \/ u[n] = "." /\ u[n + 1] \in Capitals /\ (n > 1 => u[n - 1] \notin abbreviations)}
    <3>2. AtSigns(IF early = {} THEN 1 ELSE Max(early) + 1, a, b, c)
      BY <2>1, LeftParts
    <3>3. ends = early
      BY <3>1 DEF LeftEnd
    <3> QED
      BY <3>1, <3>2, <3>3
  <2> HIDE DEF lo
  <2> QED
    BY <2>1 DEF Passed, Stage
<1> HIDE DEF ends, lo
<1>7. lo \in 1..Len(u)
  BY <1>2, <1>6
<1>8. Whole(u, lo)
  <2>1. ASSUME NEW l, Named(u, l), Len(u) <= Window + l + 1 PROVE lo <= l + 1
    <3>1. l \in Nat /\ l + 1 < Len(u)
      BY <2>1 DEF Named
    <3>2. Len(u) <= Window + l + 1
      BY <2>1
    <3>3. CASE lo = x
      BY <1>n, <1>x, <3>1, <3>2, <3>3
    <3>4. CASE LeftEnd(u, lo - 1) /\ lo - 1 \in x..(Len(u) - 1)
      <4>1. u[lo - 1] \in bounds \cup {"."}
        BY <3>4 DEF LeftEnd
      <4>2. lo - 1 \notin (l + 1)..(Len(u) - 1)
        BY <2>1, <4>1, NameWordIsNone DEF Named, otherWords
      <4>3. lo - 1 \in x..(Len(u) - 1)
        BY <3>4
      <4> QED
        BY <1>n, <1>2, <1>7, <3>1, <4>2, <4>3
    <3> QED
      BY <1>6, <3>3, <3>4
  <2> QED
    BY <2>1 DEF Whole
<1>9. Apart("copyright", u, lo) /\ Alone("copyright", u, lo)
  BY DEF Apart, Alone
<1>10. lo \in 1..Len(u) /\ PlaceInv("copyright", u, lo)
  BY <1>p, <1>7, <1>8, <1>9 DEF PlaceInv
<1> QED
  BY <1>10 DEF lo, ends, x

-----------------------------------------------------------------------------
(* The parts, as they are written                                          *)

(* A piece of what is written, by its places.                              *)
IsPiece(s, u, x, y) ==
  /\ x \in Nat /\ y \in Nat /\ x <= y /\ s \in Seq(LineWords) /\ Len(s) = y - x
  /\ \A n \in 1..(y - x) : s[n] = u[x + n]

LEMMA PieceWords ==
  ASSUME NEW s, NEW u, NEW x, NEW y, IsPiece(s, u, x, y)
  PROVE  /\ s = <<>> <=> x = y
         /\ x < y => s # <<>> /\ Last(s) = u[y] /\ Head(s) = u[x + 1]
         /\ \A n \in (x + 1)..y : u[n] \in Range(s)
<1>1. x \in Nat /\ y \in Nat /\ x <= y /\ s \in Seq(LineWords) /\ Len(s) = y - x
  BY DEF IsPiece
<1>2. \A n \in 1..(y - x) : s[n] = u[x + n]
  BY DEF IsPiece
<1>3. s = <<>> <=> Len(s) = 0
  BY <1>1, EmptySeq
<1>4. s = <<>> <=> x = y
  BY <1>1, <1>3
<1>5. ASSUME x < y PROVE s # <<>> /\ Last(s) = u[y] /\ Head(s) = u[x + 1]
  <2>1. y - x \in 1..(y - x) /\ x + (y - x) = y /\ 1 \in 1..(y - x)
    BY <1>1, <1>5
  <2>2. s[Len(s)] = u[y] /\ s[1] = u[x + 1]
    BY <1>1, <1>2, <2>1
  <2>3. s # <<>> /\ Head(s) = s[1]
    BY <1>1, <1>4, <1>5
  <2> QED
    BY <2>2, <2>3 DEF Last
<1>6. ASSUME NEW n \in (x + 1)..y PROVE u[n] \in Range(s)
  <2>1. n - x \in 1..(y - x) /\ x + (n - x) = n
    BY <1>1
  <2>2. s[n - x] = u[n] /\ n - x \in DOMAIN s
    BY <1>1, <1>2, <2>1
  <2> QED
    BY <2>2 DEF Range
<1> QED
  BY <1>4, <1>5, <1>6

LEMMA PieceOfPiece ==
  ASSUME NEW s, NEW u, NEW x, NEW y, IsPiece(s, u, x, y), NEW i \in Nat, NEW j \in Nat,
         i <= j, x + j <= y
  PROVE  IsPiece(SubSeq(s, i + 1, j), u, x + i, x + j)
<1>1. x \in Nat /\ y \in Nat /\ x <= y /\ s \in Seq(LineWords) /\ Len(s) = y - x
  BY DEF IsPiece
<1>2. \A n \in 1..(y - x) : s[n] = u[x + n]
  BY DEF IsPiece
<1> DEFINE v == SubSeq(s, i + 1, j)
           k == i + 1
<1>3. k \in Nat \ {0} /\ k <= j + 1 /\ j <= Len(s)
  BY <1>1
<1>4. v \in Seq(LineWords) /\ Len(v) = j - k + 1 /\ \A n \in 1..(j - k + 1) : v[n] = s[k + n - 1]
  BY <1>1, <1>3, PieceOf
<1>5. k = i + 1
  OBVIOUS
<1> HIDE DEF v, k
<1>6. Len(v) = (x + j) - (x + i) /\ x + i \in Nat /\ x + j \in Nat /\ x + i <= x + j
  BY <1>1, <1>4, <1>5
<1>7. ASSUME NEW n \in 1..((x + j) - (x + i)) PROVE v[n] = u[(x + i) + n]
  <2>1. n \in 1..(j - k + 1) /\ k + n - 1 \in 1..(y - x) /\ x + (k + n - 1) = (x + i) + n
    BY <1>1, <1>5
  <2> QED
    BY <1>2, <1>4, <2>1
<1>8. IsPiece(v, u, x + i, x + j)
  BY <1>4, <1>6, <1>7 DEF IsPiece
<1> QED
  BY <1>8 DEF v

LEMMA FrontOfPiece ==
  ASSUME NEW s, NEW u, NEW x, NEW y, IsPiece(s, u, x, y), x < y
  PROVE  IsPiece(Front(s), u, x, y - 1)
<1>1. x \in Nat /\ y \in Nat /\ x <= y /\ Len(s) = y - x /\ x < y
  BY DEF IsPiece
<1>2. (y - x) - 1 \in Nat /\ 0 <= (y - x) - 1 /\ x + ((y - x) - 1) <= y /\ x + ((y - x) - 1) = y - 1
        /\ x + 0 = x /\ 0 + 1 = 1
  BY <1>1
<1>3. IsPiece(SubSeq(s, 0 + 1, (y - x) - 1), u, x + 0, x + ((y - x) - 1))
  BY <1>2, PieceOfPiece
<1> QED
  BY <1>1, <1>2, <1>3 DEF Front

LEMMA RestOfPiece ==
  ASSUME NEW s, NEW u, NEW x, NEW y, IsPiece(s, u, x, y), NEW k \in Nat, x + k <= y
  PROVE  IsPiece(Rest(s, k + 1), u, x + k, y)
<1>1. x \in Nat /\ y \in Nat /\ x <= y /\ Len(s) = y - x /\ x + k <= y
  BY DEF IsPiece
<1>2. y - x \in Nat /\ k <= y - x /\ x + (y - x) <= y /\ x + (y - x) = y
  BY <1>1
<1>3. IsPiece(SubSeq(s, k + 1, y - x), u, x + k, x + (y - x))
  BY <1>2, PieceOfPiece
<1> QED
  BY <1>1, <1>2, <1>3 DEF Rest

LEMMA EarlierIs ==
  ASSUME NEW s, NEW u, NEW a, IsPiece(s, u, 0, a), IsEarlier(s, u[a + 1])
  PROVE  EarlierTo(u, a)
<1>1. a \in Nat /\ Len(s) = a
  BY DEF IsPiece
<1>2. CASE a = 0
  BY <1>2 DEF EarlierTo
<1>3. CASE a > 0
  <2>1. s # <<>> /\ Last(s) = u[a]
    BY <1>1, <1>3, PieceWords
  <2>2. ASSUME a > 1 PROVE s[Len(s) - 1] = u[a - 1]
    <3>1. a - 1 \in 1..(a - 0) /\ 0 + (a - 1) = a - 1
      BY <1>1, <2>2
    <3> QED
      BY <1>1, <3>1 DEF IsPiece
  <2> QED
    BY <1>1, <2>1, <2>2 DEF IsEarlier, EndsWith, EarlierTo
<1> QED
  BY <1>1, <1>2, <1>3

LEMMA SignsIs ==
  ASSUME NEW s, NEW u, NEW a, NEW b, IsPiece(s, u, a, b), IsSigns(s)
  PROVE  SignsTo(u, a, b)
<1>1. a \in Nat /\ b \in Nat /\ a <= b /\ Len(s) = b - a
  BY DEF IsPiece
<1>2. PICK n \in 0..(b - a) :
        LET signs == SubSeq(s, 1, n)
        IN  \/ IsPrefix(signs, copyrightSigns) /\ Range(Rest(s, n + 1)) \subseteq years \cup {",", "-"}
            \/ signs = Reverse(copyrightSigns) /\ Range(Rest(s, n + 1)) \subseteq years
  BY <1>1 DEF IsSigns
<1> DEFINE v == SubSeq(s, 1, n)
           w == Rest(s, n + 1)
<1>3. n \in Nat /\ a + n <= b /\ 0 \in Nat /\ 0 <= n /\ a + 0 = a /\ 0 + 1 = 1
  BY <1>1
<1>4. IsPiece(w, u, a + n, b)
  BY <1>3, RestOfPiece
<1>5. IsPiece(SubSeq(s, 0 + 1, n), u, a + 0, a + n)
  BY <1>3, PieceOfPiece
<1>6. IsPiece(v, u, a, a + n)
  BY <1>3, <1>5
<1>7. /\ \/ IsPrefix(v, copyrightSigns) /\ Range(w) \subseteq dates
         \/ v = Reverse(copyrightSigns) /\ Range(w) \subseteq years
  BY <1>2 DEF dates
<1> HIDE DEF v, w
<1>8. \A j \in (a + n + 1)..b : u[j] \in Range(w)
  BY <1>4, PieceWords
<1>9. Len(v) = n /\ \A j \in 1..n : v[j] = u[a + j]
  <2>1. (a + n) - a = n
    BY <1>1, <1>3
  <2> QED
    BY <1>6, <2>1 DEF IsPiece
<1>10. CASE IsPrefix(v, copyrightSigns) /\ Range(w) \subseteq dates
  <2>1. n <= 2 /\ SubSeq(v, 1, n) = SubSeq(copyrightSigns, 1, n)
    BY <1>9, <1>10, SignTable DEF IsPrefix
  <2>n. n = 0 \/ n = 1 \/ n = 2
    BY <1>3, <2>1
  <2>2. SubSeq(v, 1, n) = v
    BY <1>6, <1>9, SubSeqFull DEF IsPiece
  <2>3. \A j \in 1..n : v[j] = copyrightSigns[j]
    <3> DEFINE c == copyrightSigns
               Signs == {"copyright sign", "Copyright"}
    <3>1. c \in Seq(Signs)
      BY DEF copyrightSigns
    <3>2. Len(c) = 2 /\ n <= 2 /\ SubSeq(v, 1, n) = SubSeq(c, 1, n)
      BY <2>1, SignTable
    <3> HIDE DEF c, Signs
    <3>3. 1 \in Nat \ {0} /\ n \in Nat /\ n <= Len(c) /\ 1 <= n + 1 /\ n - 1 + 1 = n
      BY <1>3, <3>2
    <3>4. \A j \in 1..(n - 1 + 1) : SubSeq(c, 1, n)[j] = c[1 + j - 1]
      BY <3>1, <3>3, PieceOf
    <3>5. \A j \in 1..n : SubSeq(c, 1, n)[j] = c[j]
      <4>1. ASSUME NEW j \in 1..n PROVE 1 + j - 1 = j /\ j \in 1..(n - 1 + 1)
        BY <1>3
      <4> QED
        BY <3>4, <4>1
    <3> QED
      BY <2>2, <3>2, <3>5 DEF c
  <2>4. n >= 1 => u[a + 1] = "copyright sign"
    <3>1. n >= 1 => 1 \in 1..n
      BY <1>3
    <3> QED
      BY <1>9, <2>3, <3>1, SignTable
  <2>5. n = 2 => u[a + 2] = "Copyright"
    <3>1. n = 2 => 2 \in 1..n
      BY <1>3
    <3> QED
      BY <1>9, <2>3, <3>1, SignTable
  <2>6. n = 0 \/ (n \in 1..2 /\ n >= 1)
    BY <2>n
  <2>7. \A j \in (a + n + 1)..b : u[j] \in dates
    BY <1>8, <1>10
  <2> QED
    BY <2>4, <2>5, <2>6, <2>7 DEF SignsTo
<1>11. CASE v = Reverse(copyrightSigns) /\ Range(w) \subseteq years
  <2>1. Reverse(copyrightSigns) = [j \in 1..2 |-> copyrightSigns[2 - j + 1]]
    BY SignTable DEF Reverse
  <2>2. v[1] = "Copyright" /\ v[2] = "copyright sign"
    <3>1. v[1] = copyrightSigns[2 - 1 + 1] /\ v[2] = copyrightSigns[2 - 2 + 1]
      BY <1>11, <2>1
    <3>2. 2 - 1 + 1 = 2 /\ 2 - 2 + 1 = 1
      OBVIOUS
    <3> QED
      BY <3>1, <3>2, SignTable
  <2>3. n = 2
    <3>1. Len(Reverse(copyrightSigns)) = 2
      BY DEF Reverse, copyrightSigns
    <3> QED
      BY <1>9, <1>11, <3>1
  <2>4. 1 \in 1..n /\ 2 \in 1..n /\ a + 2 <= b /\ a + n + 1 = a + 3
    BY <1>1, <1>3, <2>3
  <2>5. u[a + 1] = "Copyright" /\ u[a + 2] = "copyright sign"
    BY <1>9, <2>2, <2>4
  <2>6. \A j \in (a + 3)..b : u[j] \in years
    BY <1>8, <1>11, <2>4
  <2> QED
    BY <2>4, <2>5, <2>6 DEF SignsTo
<1> QED
  BY <1>7, <1>10, <1>11

LEMMA JoinedIs ==
  ASSUME NEW s, NEW u, NEW l, NEW b, NEW c, IsPiece(s, u, b, c), NEW name, NEW alone,
         alone => c = l, \A n \in (l + 1)..(Len(u) - 1) : u[n] \in Range(name),
         IsJoined(s, Range(conjunctions) \ Range(name), alone)
  PROVE  JoinedTo(u, l, b, c)
<1>1. b \in Nat /\ c \in Nat /\ b <= c
  BY DEF IsPiece
<1>2. CASE b = c
  <2>1. ~(b < c)
    BY <1>1, <1>2
  <2> QED
    BY <2>1 DEF JoinedTo
<1>3. CASE b < c
  <2>1. s # <<>> /\ Last(s) = u[c]
    BY <1>3, PieceWords
  <2>2. /\ EndsWith(s, Range(conjunctions) \ Range(name)) /\ EndsWith(Front(s), Capital \cup Small)
        /\ alone \/ Range(Front(s)) \cap Range(conjunctions) = {}
    BY <2>1 DEF IsJoined
  <2>3. u[c] \in {"and", "und"} /\ u[c] \notin Range(name)
    BY <2>1, <2>2, ConjunctionTable DEF EndsWith
  <2>4. IsPiece(Front(s), u, b, c - 1)
    BY <1>3, FrontOfPiece
  <2>5. b # c - 1
    BY <2>2, <2>4, PieceWords DEF EndsWith
  <2>6. b < c - 1 /\ b + 2 <= c
    BY <1>1, <1>3, <2>5
  <2>7. u[c - 1] \in Capital \cup Small
    BY <2>2, <2>4, <2>6, PieceWords DEF EndsWith
  <2>8. \A n \in (b + 1)..(c - 1) : u[n] \in Range(Front(s))
    BY <2>4, PieceWords
  <2>9. c = l \/ \A n \in (b + 1)..(c - 1) : u[n] \notin {"and", "und"}
    BY <2>2, <2>8, ConjunctionTable
  <2> QED
    BY <2>3, <2>6, <2>7, <2>9 DEF JoinedTo
<1> QED
  BY <1>1, <1>2, <1>3

LEMMA RoleIs ==
  ASSUME NEW s, NEW u, NEW c, NEW d, IsPiece(s, u, c, d), IsRole(s)
  PROVE  RoleFrom(u, c, d)
<1>1. c \in Nat /\ d \in Nat /\ c <= d /\ Len(s) = d - c
  BY DEF IsPiece
<1>2. CASE c = d
  <2>1. ~(c < d)
    BY <1>1, <1>2
  <2> QED
    BY <2>1 DEF RoleFrom
<1>3. CASE c < d
  <2>1. s # <<>>
    BY <1>3, PieceWords
  <2>2. PICK n \in 1..MaxPersonWords :
          /\ n < Len(s) /\ Range(SubSeq(s, 1, n)) \subseteq Capital /\ s[n + 1] = ","
          /\ \E title \in titles : Rest(s, n + 2) \in {<<title>>, <<title, "of">>, <<title, ",">>}
    BY <2>1 DEF IsRole
  <2>m. MaxPersonWords \in Nat
    BY LinesAssumption
  <2>3. n \in Nat /\ n >= 1 /\ c + n < d /\ n + 1 \in Nat /\ c + (n + 1) <= d /\ (n + 1) + 1 = n + 2
          /\ n \in 1..MaxPersonWords
    <3>1. n < Len(s)
      BY <2>2
    <3> QED
      BY <1>1, <2>m, <3>1
  <2> DEFINE p == c + n + 1
             t == Rest(s, n + 2)
             v == SubSeq(s, 1, n)
  <2>4. IsPiece(t, u, p, d)
    <3>1. IsPiece(Rest(s, (n + 1) + 1), u, c + (n + 1), d)
      BY <2>3, RestOfPiece
    <3>2. c + (n + 1) = p
      BY <1>1, <2>3
    <3> QED
      BY <2>3, <3>1, <3>2
  <2>5. IsPiece(v, u, c, c + n)
    <3>1. 0 \in Nat /\ 0 <= n /\ c + n <= d /\ c + 0 = c /\ 0 + 1 = 1
      BY <1>1, <2>3
    <3>2. IsPiece(SubSeq(s, 0 + 1, n), u, c + 0, c + n)
      BY <2>3, <3>1, PieceOfPiece
    <3> QED
      BY <3>1, <3>2
  <2>6. u[p] = ","
    <3>1. n + 1 \in 1..(d - c) /\ c + (n + 1) = p
      BY <1>1, <2>3
    <3>2. s[n + 1] = u[c + (n + 1)]
      BY <3>1 DEF IsPiece
    <3> QED
      BY <2>2, <3>1, <3>2
  <2>7. Range(v) \subseteq Capital /\ \E title \in titles : t \in {<<title>>, <<title, "of">>, <<title, ",">>}
    BY <2>2
  <2>p. p = c + n + 1
    OBVIOUS
  <2> HIDE DEF p, t, v
  <2>8. \A j \in (c + 1)..(p - 1) : u[j] \in Capital
    <3>1. \A j \in (c + 1)..(c + n) : u[j] \in Range(v)
      BY <2>5, PieceWords
    <3>2. p - 1 = c + n
      BY <1>1, <2>3, <2>p
    <3> QED
      BY <2>7, <3>1, <3>2
  <2>9. PICK title \in titles : t \in {<<title>>, <<title, "of">>, <<title, ",">>}
    BY <2>7
  <2>10. Len(t) = d - p /\ \A j \in 1..(d - p) : t[j] = u[p + j]
    BY <2>4 DEF IsPiece
  <2>11. /\ t[1] = title
         /\ Len(t) = 1 \/ (Len(t) = 2 /\ t[2] \in {"of", ","})
    <3>1. CASE t = <<title>>
      <4>1. Len(<<title>>) = 1 /\ <<title>>[1] = title
        OBVIOUS
      <4> QED
        BY <3>1, <4>1
    <3>2. CASE t = <<title, "of">>
      <4>1. Len(t) = 2 /\ t[1] = title /\ t[2] = "of"
        BY <3>2
      <4> QED
        BY <4>1
    <3>3. CASE t = <<title, ",">>
      <4>1. Len(t) = 2 /\ t[1] = title /\ t[2] = ","
        BY <3>3
      <4> QED
        BY <4>1
    <3> QED
      BY <2>9, <3>1, <3>2, <3>3
  <2>12. p \in Nat /\ (d = p + 1 \/ d = p + 2) /\ 1 \in 1..(d - p)
    <3>1. Len(t) = 1 \/ Len(t) = 2
      BY <2>11
    <3>2. Len(t) = d - p
      BY <2>10
    <3> QED
      BY <1>1, <2>3, <2>p, <3>1, <3>2
  <2>13. u[p + 1] \in titles
    BY <2>10, <2>11, <2>12
  <2>14. d = p + 1 \/ (d = p + 2 /\ u[d] \in {"of", ","})
    <3>1. ASSUME d = p + 2 PROVE u[d] \in {"of", ","}
      <4>1. d - p = 2 /\ 2 \in 1..(d - p) /\ p + 2 = d
        BY <2>12, <3>1
      <4>2. t[2] = u[d] /\ Len(t) = 2
        BY <2>10, <4>1
      <4>3. ~(2 = 1)
        OBVIOUS
      <4> QED
        BY <2>11, <4>2, <4>3
    <3> QED
      BY <2>12, <3>1
  <2>15. p \in (c + 2)..(d - 1) /\ p - (c + 1) \in 1..MaxPersonWords
    BY <1>1, <2>3, <2>p, <2>12
  <2> QED
    BY <2>6, <2>8, <2>13, <2>14, <2>15 DEF RoleFrom
<1> QED
  BY <1>1, <1>2, <1>3

LEMMA TradingIs ==
  ASSUME NEW s, NEW u, NEW d, NEW e, IsPiece(s, u, d, e), IsTrading(s)
  PROVE  TradingFrom(u, d, e)
<1>1. d \in Nat /\ e \in Nat /\ d <= e
  BY DEF IsPiece
<1>2. CASE d = e
  <2>1. ~(d < e)
    BY <1>1, <1>2
  <2> QED
    BY <2>1 DEF TradingFrom
<1>3. CASE d < e
  <2>1. s # <<>> /\ Last(s) = u[e]
    BY <1>3, PieceWords
  <2>2. u[e] \in tradingNames /\ Range(Front(s)) \subseteq Capital \cup Small
    BY <2>1 DEF IsTrading, EndsWith
  <2>3. \A n \in (d + 1)..(e - 1) : u[n] \in Range(Front(s))
    BY <1>3, FrontOfPiece, PieceWords
  <2> QED
    BY <2>2, <2>3 DEF TradingFrom
<1> QED
  BY <1>1, <1>2, <1>3

LEMMA AwardIs ==
  ASSUME NEW s, NEW u, NEW e, NEW f, IsPiece(s, u, e, f), IsAward(s)
  PROVE  AwardFrom(u, e, f)
<1>1. e \in Nat /\ f \in Nat /\ e <= f /\ Len(s) = f - e
  BY DEF IsPiece
<1>2. CASE e = f
  <2>1. ~(e < f)
    BY <1>1, <1>2
  <2> QED
    BY <2>1 DEF AwardFrom
<1>3. CASE e < f
  <2>1. s # <<>> /\ Last(s) = u[f] /\ Head(s) = u[e + 1]
    BY <1>3, PieceWords
  <2>2. /\ Len(s) > 2 /\ u[e + 1] = "Best" /\ u[f] = ":"
        /\ Range(SubSeq(s, 2, Len(s) - 1)) \subseteq Capital \cup Small
    BY <2>1 DEF IsAward
  <2>3. Len(s) > 2
    BY <2>2
  <2>4. e + 3 <= f /\ 1 \in Nat /\ Len(s) - 1 \in Nat /\ 1 <= Len(s) - 1 /\ e + (Len(s) - 1) <= f
          /\ e + (Len(s) - 1) = f - 1 /\ 1 + 1 = 2 /\ (e + 1) + 1 = e + 2
    BY <1>1, <2>3
  <2>5. IsPiece(SubSeq(s, 1 + 1, Len(s) - 1), u, e + 1, e + (Len(s) - 1))
    BY <2>4, PieceOfPiece
  <2>6. \A n \in ((e + 1) + 1)..(f - 1) : u[n] \in Range(SubSeq(s, 2, Len(s) - 1))
    BY <2>4, <2>5, PieceWords
  <2> QED
    BY <2>2, <2>4, <2>6 DEF AwardFrom
<1> QED
  BY <1>1, <1>2, <1>3

LEMMA ContactIs ==
  ASSUME NEW t, NEW u, NEW y, NEW l, IsPiece(t, u, y, l), IsContact(t)
  PROVE  ContactFrom(u, l, y + 1)
<1>1. y \in Nat /\ l \in Nat /\ y <= l /\ Len(t) = l - y
  BY DEF IsPiece
<1>2. PICK k \in 0..(Len(t) \div 2) :
        /\ \A j \in 1..k : t[2 * j - 1] \in contactLabels /\ t[2 * j] \in {":", "-"}
        /\ Rest(t, 2 * k + 1) \in {<<>>} \cup {<<h>> : h \in hostingProse}
  BY DEF IsContact
<1>3. k \in Nat /\ 2 * k <= l - y
  <2>1. l - y \in Nat
    BY <1>1
  <2>2. (l - y) \div 2 \in Nat /\ 2 * ((l - y) \div 2) <= l - y
    BY <2>1, Halves
  <2> DEFINE h == (l - y) \div 2
  <2>3. h \in Nat /\ 2 * h <= l - y /\ k \in 0..h
    BY <1>1, <2>2
  <2> HIDE DEF h
  <2> QED
    BY <1>1, <2>3
<1> DEFINE r == Rest(t, 2 * k + 1)
<1>4. IsPiece(r, u, y + 2 * k, l)
  <2>1. 2 * k \in Nat /\ y + 2 * k <= l
    BY <1>1, <1>3
  <2> QED
    BY <2>1, RestOfPiece
<1>5. r = <<>> \/ \E h \in hostingProse : r = <<h>>
  BY <1>2
<1> HIDE DEF r
<1>6. ContactsAt(u, y + 1, k)
  <2>1. ASSUME NEW j \in 1..k
        PROVE  u[(y + 1) + 2 * j - 2] \in contactLabels /\ u[(y + 1) + 2 * j - 1] \in {":", "-"}
    <3>1. 2 * j - 1 \in 1..(l - y) /\ 2 * j \in 1..(l - y) /\ y + (2 * j - 1) = (y + 1) + 2 * j - 2
            /\ y + 2 * j = (y + 1) + 2 * j - 1
      BY <1>1, <1>3
    <3>2. t[2 * j - 1] = u[y + (2 * j - 1)] /\ t[2 * j] = u[y + 2 * j]
      BY <3>1 DEF IsPiece
    <3> QED
      BY <1>2, <3>1, <3>2
  <2> QED
    BY <2>1 DEF ContactsAt
<1>7. CASE r = <<>>
  <2>1. y + 2 * k = l
    BY <1>4, <1>7, PieceWords
  <2>2. (y + 1) + 2 * k = l + 1
    BY <1>1, <1>3, <2>1
  <2> QED
    BY <1>3, <1>6, <2>2 DEF ContactFrom
<1>8. CASE \E h \in hostingProse : r = <<h>>
  <2>1. PICK h \in hostingProse : r = <<h>>
    BY <1>8
  <2>2. Len(r) = 1 /\ r[1] = h
    BY <2>1
  <2>3. Len(r) = l - (y + 2 * k) /\ \A n \in 1..(l - (y + 2 * k)) : r[n] = u[(y + 2 * k) + n]
    BY <1>4 DEF IsPiece
  <2>4. l - (y + 2 * k) = 1 /\ y \in Nat /\ l \in Nat
    BY <1>1, <2>2, <2>3
  <2>5. (y + 1) + 2 * k = l /\ 1 \in 1..(l - (y + 2 * k)) /\ (y + 2 * k) + 1 = l
    BY <1>3, <2>4
  <2>6. u[l] \in hostingProse
    BY <2>2, <2>3, <2>5
  <2> QED
    BY <1>3, <1>6, <2>5, <2>6 DEF ContactFrom
<1> QED
  BY <1>5, <1>7, <1>8

LEMMA LabelsIs ==
  ASSUME NEW s, NEW u, NEW x, NEW l, IsPiece(s, u, x, l), IsLabels(s)
  PROVE  LabelsFrom(u, l, x + 1)
<1>1. x \in Nat /\ l \in Nat /\ x <= l /\ Len(s) = l - x
  BY DEF IsPiece
<1>2. \A n \in 1..(l - x) : s[n] = u[x + n]
  BY DEF IsPiece
<1>3. CASE s \in {<<w>> : w \in numberedParts}
  <2>1. PICK w \in numberedParts : s = <<w>>
    BY <1>3
  <2>2. Len(s) = 1 /\ s[1] = w
    BY <2>1
  <2>3. l - x = 1 /\ x \in Nat /\ l \in Nat
    BY <1>1, <2>2
  <2>4. x + 1 = l /\ 1 \in 1..(l - x)
    BY <2>3
  <2> QED
    BY <1>2, <2>2, <2>4 DEF LabelsFrom
<1>4. ASSUME NEW n \in 0..2, n <= Len(s), IsContact(Rest(s, n + 1)),
             CASE n = 0 -> TRUE
               [] n = 1 -> Head(s) \in titledLabels \cup plainLabels
               [] n = 2 -> \/ Head(s) \in titledLabels /\ s[2] \in {":", "-"}
                           \/ Head(s) \in colonLabels /\ s[2] = ":"
      PROVE  LabelsFrom(u, l, x + 1)
  <2>0. n \in Nat /\ x + n <= l
    <3>1. n <= Len(s)
      BY <1>4
    <3> QED
      BY <1>1, <3>1
  <2>1. ContactFrom(u, l, (x + n) + 1)
    BY <1>4, <2>0, RestOfPiece, ContactIs
  <2>2. n = 0 \/ n = 1 \/ n = 2
    OBVIOUS
  <2>3. CASE n = 0
    <3>1. (x + n) + 1 = x + 1
      BY <1>1, <2>3
    <3> QED
      BY <2>1, <3>1 DEF LabelsFrom
  <2>4. CASE n = 1
    <3>1. (x + n) + 1 = (x + 1) + 1 /\ x < l /\ x + 1 <= l
      BY <1>1, <2>0, <2>4
    <3>2. Head(s) = u[x + 1]
      BY <3>1, PieceWords
    <3>3. Head(s) \in titledLabels \cup plainLabels
      BY <1>4, <2>4
    <3> QED
      BY <2>1, <3>1, <3>2, <3>3 DEF LabelsFrom
  <2>5. CASE n = 2
    <3>1. (x + n) + 1 = (x + 1) + 2 /\ x < l /\ (x + 1) + 1 <= l /\ 2 \in 1..(l - x) /\ x + 2 = (x + 1) + 1
      BY <1>1, <2>0, <2>5
    <3>2. Head(s) = u[x + 1] /\ s[2] = u[(x + 1) + 1]
      BY <1>2, <3>1, PieceWords
    <3>3. \/ Head(s) \in titledLabels /\ s[2] \in {":", "-"}
          \/ Head(s) \in colonLabels /\ s[2] = ":"
      BY <1>4, <2>5
    <3> QED
      BY <2>1, <3>1, <3>2, <3>3 DEF LabelsFrom
  <2> QED
    BY <2>2, <2>3, <2>4, <2>5
<1> QED
  BY <1>3, <1>4, Zenon DEF IsLabels

-----------------------------------------------------------------------------
(* What is written up to the form                                          *)

upTo == SubSeq(line, 1, FormAt)

LEMMA PartsOfLine ==
  ASSUME written \in FormLine
  PROVE  /\ written.before \in Seq(LineWords) /\ written.name \in Seq(LineWords)
         /\ written.after \in Seq(LineWords) /\ written.form \in forms /\ written.formFirst \in BOOLEAN
BY DEF FormLine, LineWords

(* A string of two.                                                        *)
Both(u, s, t, x, y) ==
  /\ u \in Seq(LineWords) /\ Len(u) = x + y /\ x \in Nat /\ y \in Nat
  /\ \A i \in 1..x : u[i] = s[i]
  /\ \A i \in 1..y : u[x + i] = t[i]

LEMMA BothParts ==
  ASSUME NEW s \in Seq(LineWords), NEW t \in Seq(LineWords)
  PROVE  Both(s \o t, s, t, Len(s), Len(t))
<1> DEFINE u == s \o t
           x == Len(s)
           y == Len(t)
<1>1. /\ u \in Seq(LineWords) /\ Len(u) = Len(s) + Len(t)
      /\ \A i \in 1..(Len(s) + Len(t)) : u[i] = IF i <= Len(s) THEN s[i] ELSE t[i - Len(s)]
  BY ConcatProperties
<1> HIDE DEF u
<1>2. x \in Nat /\ y \in Nat
  BY LenProperties
<1>3. Len(u) = x + y /\ \A i \in 1..(x + y) : u[i] = IF i <= x THEN s[i] ELSE t[i - x]
  BY <1>1
<1> HIDE DEF x, y
<1>4. ASSUME NEW i \in 1..x PROVE u[i] = s[i]
  <2>1. i \in 1..(x + y) /\ i <= x
    BY <1>2
  <2> QED
    BY <1>3, <2>1
<1>5. ASSUME NEW i \in 1..y PROVE u[x + i] = t[i]
  <2>1. x + i \in 1..(x + y) /\ ~(x + i <= x) /\ (x + i) - x = i
    BY <1>2
  <2> QED
    BY <1>3, <2>1
<1>6. Both(u, s, t, x, y)
  BY <1>1, <1>2, <1>3, <1>4, <1>5 DEF Both
<1> QED
  BY <1>6 DEF u, x, y

(* The line, word by word.                                                 *)
LEMMA WordsOfLine ==
  ASSUME written \in FormLine
  PROVE  LET b == Len(written.before)
             n == Len(written.name)
         IN  /\ line \in Seq(LineWords) /\ Len(line) = b + n + 1 + Len(written.after)
             /\ \A k \in 1..b : line[k] = written.before[k]
             /\ ~written.formFirst => line[b + n + 1] = written.form
             /\ ~written.formFirst => \A k \in 1..n : line[b + k] = written.name[k]
             /\ written.formFirst => line[b + 1] = written.form
             /\ written.formFirst => \A k \in 1..n : line[b + 1 + k] = written.name[k]
             /\ \A k \in 1..Len(written.after) : line[b + n + 1 + k] = written.after[k]
<1> DEFINE before == written.before
           name   == written.name
           after  == written.after
           form   == <<written.form>>
           first  == written.formFirst
           middle == IF first THEN form \o name ELSE name \o form
           b == Len(before)
           n == Len(name)
           m == Len(after)
           opening == before \o middle
<1>0. line = opening \o after
  BY DEF line
<1>1. before \in Seq(LineWords) /\ name \in Seq(LineWords) /\ after \in Seq(LineWords)
        /\ written.form \in LineWords /\ first \in BOOLEAN
  BY PartsOfLine DEF forms, LineWords, Capitals, capitalWords
<1>2. form \in Seq(LineWords) /\ 1 = Len(form) /\ form[1] = written.form
  BY <1>1
<1>b. b = Len(before) /\ n = Len(name) /\ m = Len(after)
  OBVIOUS
<1>m. /\ first => middle = form \o name
      /\ ~first => middle = name \o form
  OBVIOUS
<1>d. opening = before \o middle
  OBVIOUS
<1> HIDE DEF form, before, name, after, first, b, n, m, middle, opening
<1>3. b \in Nat /\ n \in Nat /\ m \in Nat
  BY <1>1, <1>b, LenProperties
<1>4. first => Both(middle, form, name, 1, n)
  <2>1. Both(form \o name, form, name, Len(form), Len(name))
    BY <1>1, <1>2, BothParts
  <2> QED
    BY <2>1, <1>2, <1>b, <1>m
<1>5. ~first => Both(middle, name, form, n, 1)
  <2>1. Both(name \o form, name, form, Len(name), Len(form))
    BY <1>1, <1>2, BothParts
  <2> QED
    BY <2>1, <1>2, <1>b, <1>m
<1>6. middle \in Seq(LineWords) /\ n + 1 = Len(middle)
  BY <1>1, <1>3, <1>4, <1>5 DEF Both
<1>7. ASSUME first PROVE middle[1] = written.form /\ \A k \in 1..n : middle[1 + k] = name[k]
  BY <1>2, <1>4, <1>7 DEF Both
<1>8. ASSUME ~first PROVE middle[n + 1] = written.form /\ \A k \in 1..n : middle[k] = name[k]
  BY <1>2, <1>5, <1>8 DEF Both
<1>9. /\ opening \in Seq(LineWords) /\ Len(opening) = b + (n + 1)
      /\ \A i \in 1..b : opening[i] = before[i]
      /\ \A i \in 1..(n + 1) : opening[b + i] = middle[i]
  <2>1. Both(opening, before, middle, Len(before), Len(middle))
    BY <1>1, <1>6, <1>d, BothParts
  <2>2. Both(opening, before, middle, b, n + 1)
    BY <2>1, <1>6, <1>b
  <2> QED
    BY <2>2 DEF Both
<1> DEFINE o == b + (n + 1)
<1>o. o \in Nat /\ o = b + n + 1
  BY <1>3
<1>q. o = Len(opening)
  BY <1>9
<1> HIDE DEF o
<1>10. /\ line \in Seq(LineWords) /\ Len(line) = o + m
       /\ \A i \in 1..o : line[i] = opening[i]
       /\ \A i \in 1..m : line[o + i] = after[i]
  <2>1. Both(line, opening, after, Len(opening), Len(after))
    BY <1>0, <1>1, <1>9, BothParts
  <2>2. Both(line, opening, after, o, m)
    BY <2>1, <1>b, <1>q
  <2> QED
    BY <2>2 DEF Both
<1>13. ASSUME NEW k \in 1..b PROVE line[k] = before[k]
  <2>1. k \in 1..o
    BY <1>3, <1>o
  <2> QED
    BY <1>9, <1>10, <2>1
<1>14. ASSUME NEW k \in 1..(n + 1) PROVE line[b + k] = middle[k]
  <2>1. b + k \in 1..o
    BY <1>3, <1>o
  <2> QED
    BY <1>9, <1>10, <2>1
<1>16. ASSUME ~first PROVE line[b + n + 1] = written.form /\ \A k \in 1..n : line[b + k] = name[k]
  <2>1. n + 1 \in 1..(n + 1) /\ b + (n + 1) = b + n + 1 /\ \A k \in 1..n : k \in 1..(n + 1)
    BY <1>3
  <2> QED
    BY <1>8, <1>14, <1>16, <2>1
<1>17. ASSUME first PROVE line[b + 1] = written.form /\ \A k \in 1..n : line[b + 1 + k] = name[k]
  <2>1. 1 \in 1..(n + 1)
    BY <1>3
  <2>2. line[b + 1] = written.form
    BY <1>7, <1>14, <1>17, <2>1
  <2>3. ASSUME NEW k \in 1..n PROVE line[b + 1 + k] = name[k]
    <3>1. 1 + k \in 1..(n + 1) /\ b + (1 + k) = b + 1 + k
      BY <1>3
    <3>2. line[b + (1 + k)] = middle[1 + k]
      BY <1>14, <3>1
    <3> QED
      BY <1>7, <1>17, <3>1, <3>2
  <2> QED
    BY <2>2, <2>3
<1> QED
  BY <1>10, <1>13, <1>16, <1>17, <1>o DEF b, n, m, before, name, after, first

(* The form is where its letters first are.                                *)
LEMMA UpToForm ==
  ASSUME written \in FormLine
  PROVE  /\ FormAt \in 1..Len(line) /\ line[FormAt] = written.form /\ FormAt \in Nat
         /\ \A n \in 1..(FormAt - 1) : line[n] # written.form
         /\ Ends(upTo) /\ Len(upTo) = FormAt /\ upTo \in Seq(LineWords)
         /\ \A n \in 1..FormAt : upTo[n] = line[n]
<1> DEFINE b == Len(written.before)
           n == Len(written.name)
           m == Len(written.after)
<1>1. b \in Nat /\ n \in Nat /\ m \in Nat /\ written.form \in forms
  BY PartsOfLine, LenProperties
<1>2. /\ line \in Seq(LineWords) /\ Len(line) = b + n + 1 + m
      /\ line[b + n + 1] = written.form \/ line[b + 1] = written.form
  BY WordsOfLine, PartsOfLine
<1> HIDE DEF b, n, m
<1>3. b + n + 1 \in 1..Len(line) /\ b + 1 \in 1..Len(line)
  BY <1>1, <1>2
<1>4. WordsAt(line, {written.form}) # {}
  <2>1. PICK k \in 1..Len(line) : line[k] \in {written.form}
    BY <1>2, <1>3
  <2> QED
    BY <1>2, <2>1, NoWord
<1>5. /\ FormAt \in 1..Len(line) /\ line[FormAt] \in {written.form}
      /\ \A k \in 1..(FormAt - 1) : line[k] \notin {written.form}
  BY <1>2, <1>4, FirstWord DEF FormAt
<1>6. Len(line) \in Nat /\ FormAt \in Nat /\ FormAt > 0 /\ FormAt <= Len(line) /\ 1 <= FormAt + 1
  BY <1>2, <1>5
<1> DEFINE q == FormAt
<1>7. /\ upTo \in Seq(LineWords) /\ Len(upTo) = q - 1 + 1
      /\ \A k \in 1..(q - 1 + 1) : upTo[k] = line[1 + k - 1]
  <2>1. 1 \in Nat \ {0}
    OBVIOUS
  <2> QED
    BY <1>2, <1>6, <2>1, PieceOf DEF upTo
<1> HIDE DEF q
<1>8. q - 1 + 1 = q /\ \A k \in 1..q : 1 + k - 1 = k
  BY <1>6 DEF q
<1>9. Len(upTo) = q /\ \A k \in 1..q : upTo[k] = line[k]
  BY <1>7, <1>8
<1>10. upTo[q] = written.form
  <2>1. q \in 1..q
    BY <1>6 DEF q
  <2> QED
    BY <1>5, <1>9, <2>1 DEF q
<1>11. Ends(upTo)
  BY <1>1, <1>6, <1>7, <1>9, <1>10 DEF Ends, q
<1> QED
  BY <1>5, <1>6, <1>7, <1>9, <1>11 DEF q

(* A form whose letters occur nowhere before is found where it is written. *)
LEMMA FormIsFound ==
  ASSUME written \in FormLine, FormIsItself
  PROVE  LET b == Len(written.before)
             n == Len(written.name)
         IN  /\ b \in Nat /\ n \in Nat
             /\ ~written.formFirst => FormAt = b + n + 1 /\ IsPiece(written.name, upTo, b, b + n)
             /\ written.formFirst => FormAt = b + 1
             /\ IsPiece(written.before, upTo, 0, b)
<1> DEFINE before == written.before
           name   == written.name
           b == Len(before)
           n == Len(name)
           form  == written.form
           first == written.formFirst
<1>1. before \in Seq(LineWords) /\ name \in Seq(LineWords) /\ first \in BOOLEAN
  BY PartsOfLine
<1>2. Both(before \o name, before, name, b, n)
  BY <1>1, BothParts
<1>3. form \notin Range(before \o name)
  BY DEF FormIsItself
<1>4. /\ line \in Seq(LineWords) /\ Len(line) = b + n + 1 + Len(written.after)
      /\ \A k \in 1..b : line[k] = before[k]
      /\ ~first => line[b + n + 1] = form
      /\ ~first => \A k \in 1..n : line[b + k] = name[k]
      /\ first => line[b + 1] = form
  BY WordsOfLine
<1>5. Len(written.after) \in Nat
  BY PartsOfLine, LenProperties
<1>6. /\ FormAt \in 1..Len(line) /\ line[FormAt] = form /\ FormAt \in Nat
      /\ \A k \in 1..(FormAt - 1) : line[k] # form
      /\ Len(upTo) = FormAt /\ \A k \in 1..FormAt : upTo[k] = line[k]
  BY UpToForm
<1> DEFINE both == before \o name
           q == FormAt
<1> HIDE DEF both, b, n, before, name, form, first, q
<1>7. b \in Nat /\ n \in Nat /\ Len(both) = b + n /\ both \in Seq(LineWords)
  BY <1>2 DEF Both, both
<1>8. \A k \in 1..(b + n) : both[k] # form
  <2>1. \A k \in 1..(b + n) : k \in DOMAIN both
    BY <1>7
  <2> QED
    BY <1>3, <2>1 DEF Range, both
<1>9. ASSUME NEW k \in 1..b PROVE before[k] # form
  <2>1. both[k] = before[k] /\ k \in 1..(b + n)
    BY <1>2, <1>7 DEF Both, both
  <2> QED
    BY <1>8, <2>1
<1>10. ASSUME NEW k \in 1..n PROVE name[k] # form
  <2>1. both[b + k] = name[k] /\ b + k \in 1..(b + n)
    BY <1>2, <1>7 DEF Both, both
  <2> QED
    BY <1>8, <2>1
<1>11. ~(q \in 1..b)
  BY <1>4, <1>6, <1>9 DEF q
<1>12. ASSUME ~first PROVE q = b + n + 1
  <2>1. ~(b + n + 1 \in 1..(q - 1))
    BY <1>4, <1>6, <1>12 DEF q
  <2>2. \A k \in 1..n : q # b + k
    BY <1>4, <1>6, <1>10, <1>12 DEF q
  <2>3. q - b \in 1..n => q = b + (q - b)
    BY <1>6, <1>7 DEF q
  <2>4. ~(q - b \in 1..n) /\ q \in Nat /\ q >= 1
    BY <1>6, <2>2, <2>3 DEF q
  <2>5. ~(b + 1 <= q /\ q <= b + n)
    BY <1>7, <2>4
  <2> QED
    BY <1>7, <1>11, <2>1, <2>4, <2>5
<1>13. ASSUME first PROVE q = b + 1
  <2>1. ~(b + 1 \in 1..(q - 1)) /\ q \in Nat /\ q >= 1
    BY <1>4, <1>6, <1>13 DEF q
  <2> QED
    BY <1>7, <1>11, <2>1
<1>14. q > b /\ q \in Nat /\ \A k \in 1..q : upTo[k] = line[k]
  <2>1. q = b + n + 1 \/ q = b + 1
    BY <1>1, <1>12, <1>13 DEF first
  <2> QED
    BY <1>6, <1>7, <2>1 DEF q
<1>15. IsPiece(before, upTo, 0, b)
  <2>1. 0 \in Nat /\ 0 <= b /\ Len(before) = b - 0
    BY <1>7 DEF b
  <2>2. ASSUME NEW k \in 1..(b - 0) PROVE before[k] = upTo[0 + k]
    <3>1. k \in 1..b /\ k \in 1..q /\ 0 + k = k
      BY <1>7, <1>14
    <3> QED
      BY <1>4, <1>14, <3>1
  <2> QED
    BY <1>1, <1>7, <2>1, <2>2 DEF IsPiece
<1>16. ASSUME ~first PROVE IsPiece(name, upTo, b, b + n)
  <2>1. b <= b + n /\ Len(name) = (b + n) - b /\ b + n \in Nat /\ (b + n) - b = n
    BY <1>7 DEF n
  <2>2. ASSUME NEW k \in 1..n PROVE name[k] = upTo[b + k]
    <3>1. b + k \in 1..q
      BY <1>7, <1>12, <1>16
    <3>2. line[b + k] = name[k] /\ upTo[b + k] = line[b + k]
      BY <1>4, <1>14, <1>16, <3>1
    <3> QED
      BY <3>2
  <2> QED
    BY <1>1, <1>7, <2>1, <2>2 DEF IsPiece
<1> QED
  BY <1>7, <1>12, <1>13, <1>15, <1>16 DEF b, n, before, name, first, q

LEMMA NameIsNamed ==
  ASSUME written \in FormLine, FormIsItself, IsOwnName(written.name), ~written.formFirst
  PROVE  LET b == Len(written.before)
         IN  /\ Named(upTo, b) /\ Head(written.name) = upTo[b + 1]
             /\ \A k \in (b + 1)..(Len(upTo) - 1) : upTo[k] \in Range(written.name)
<1> DEFINE name == written.name
           b == Len(written.before)
           n == Len(name)
           q == FormAt
<1>1. name \in Seq(LineWords) /\ Ends(upTo) /\ Len(upTo) = q
  BY PartsOfLine, UpToForm
<1>2. b \in Nat /\ n \in Nat /\ q = b + n + 1 /\ IsPiece(name, upTo, b, b + n)
  BY FormIsFound
<1>3. /\ n > 0
      /\ \A k \in 1..n : name[k] \in NameWords
      /\ name[1] \in Capital \cup hyphenated /\ name[n] \in Capital
      /\ Head(name) = name[1]
      /\ \A k \in 1..n : name[k] = "und" => k > 1 /\ name[k - 1] \in hyphenated
  BY <1>1, NameIs
<1> HIDE DEF b, n, q, name
<1>4. (b + n) - b = n /\ q - 1 = b + n
  BY <1>2
<1>5. \A k \in 1..n : name[k] = upTo[b + k]
  BY <1>2, <1>4 DEF IsPiece
<1>6. ASSUME NEW k \in (b + 1)..(q - 1)
      PROVE  k - b \in 1..n /\ upTo[k] = name[k - b]
  <2>1. k - b \in 1..n /\ b + (k - b) = k
    BY <1>2
  <2> QED
    BY <1>5, <2>1
<1>7. \A k \in (b + 1)..(q - 1) : upTo[k] \in NameWords
  BY <1>3, <1>6
<1>8. upTo[b + 1] = name[1]
  <2>1. 1 \in 1..n
    BY <1>2, <1>3
  <2> QED
    BY <1>5, <2>1
<1>9. ASSUME NEW k \in (b + 1)..(q - 1), upTo[k] = "und" PROVE k > b + 1 /\ upTo[k - 1] \in hyphenated
  <2>1. k - b \in 1..n /\ name[k - b] = "und"
    BY <1>6, <1>9
  <2>2. k - b > 1 /\ name[(k - b) - 1] \in hyphenated
    BY <1>3, <2>1
  <2>3. k - b > 1
    BY <2>2
  <2>4. (k - b) - 1 \in 1..n /\ b + ((k - b) - 1) = k - 1 /\ k > b + 1
    BY <1>2, <2>3
  <2>5. upTo[k - 1] = name[(k - b) - 1]
    BY <1>5, <2>4
  <2> QED
    BY <2>2, <2>4, <2>5
<1>10. b + 1 < q
  BY <1>2, <1>3
<1>11. Named(upTo, b)
  BY <1>1, <1>2, <1>3, <1>7, <1>8, <1>9, <1>10 DEF Named, q
<1>12. \A k \in (b + 1)..(Len(upTo) - 1) : upTo[k] \in Range(name)
  <2>1. ASSUME NEW k \in (b + 1)..(b + n) PROVE upTo[k] \in Range(name)
    BY <1>2, <2>1, PieceWords
  <2>2. Len(upTo) - 1 = b + n
    BY <1>1, <1>4 DEF q
  <2> QED
    BY <2>1, <2>2
<1> QED
  BY <1>3, <1>8, <1>11, <1>12 DEF b, name

(* What introduces the name consists of its parts.                         *)
LEMMA IntroducedParts ==
  ASSUME written \in FormLine, FormIsItself, IsOwnName(written.name), ~written.formFirst,
         Introduces(written.before)
  PROVE  \E a, b, c, d, e, f : Parts(upTo, Len(written.before), a, b, c, d, e, f)
<1> DEFINE t == written.before
           l == Len(t)
           name == written.name
           joining == Range(conjunctions) \ Range(name)
<1>1. IsPiece(t, upTo, 0, l) /\ l \in Nat /\ t \in Seq(LineWords)
  BY FormIsFound, PartsOfLine
<1>2. /\ Named(upTo, l) /\ Head(name) = upTo[l + 1]
      /\ \A k \in (l + 1)..(Len(upTo) - 1) : upTo[k] \in Range(name)
  BY NameIsNamed
<1>3. PICK a \in 0..l :
        /\ IsEarlier(SubSeq(t, 1, a), Append(t, Head(name))[a + 1])
        /\ \E b \in a..l :
             /\ IsSigns(SubSeq(t, a + 1, b))
             /\ \E c \in b..l :
                  /\ IsJoined(SubSeq(t, b + 1, c), joining, c = l)
                  /\ \E d \in c..l :
                       /\ IsRole(SubSeq(t, c + 1, d))
                       /\ \E e \in d..l :
                            /\ IsTrading(SubSeq(t, d + 1, e))
                            /\ \E f \in e..l :
                                 /\ IsAward(SubSeq(t, e + 1, f))
                                 /\ IsLabels(Rest(t, f + 1))
  BY DEF Introduces
<1>4. PICK b \in a..l :
        /\ IsSigns(SubSeq(t, a + 1, b))
        /\ \E c \in b..l :
             /\ IsJoined(SubSeq(t, b + 1, c), joining, c = l)
             /\ \E d \in c..l :
                  /\ IsRole(SubSeq(t, c + 1, d))
                  /\ \E e \in d..l :
                       /\ IsTrading(SubSeq(t, d + 1, e))
                       /\ \E f \in e..l :
                            /\ IsAward(SubSeq(t, e + 1, f))
                            /\ IsLabels(Rest(t, f + 1))
  BY <1>3
<1>5. PICK c \in b..l :
        /\ IsJoined(SubSeq(t, b + 1, c), joining, c = l)
        /\ \E d \in c..l :
             /\ IsRole(SubSeq(t, c + 1, d))
             /\ \E e \in d..l :
                  /\ IsTrading(SubSeq(t, d + 1, e))
                  /\ \E f \in e..l :
                       /\ IsAward(SubSeq(t, e + 1, f))
                       /\ IsLabels(Rest(t, f + 1))
  BY <1>4
<1>6. PICK d \in c..l :
        /\ IsRole(SubSeq(t, c + 1, d))
        /\ \E e \in d..l :
             /\ IsTrading(SubSeq(t, d + 1, e))
             /\ \E f \in e..l :
                  /\ IsAward(SubSeq(t, e + 1, f))
                  /\ IsLabels(Rest(t, f + 1))
  BY <1>5
<1>7. PICK e \in d..l :
        /\ IsTrading(SubSeq(t, d + 1, e))
        /\ \E f \in e..l :
             /\ IsAward(SubSeq(t, e + 1, f))
             /\ IsLabels(Rest(t, f + 1))
  BY <1>6
<1>8. PICK f \in e..l :
        /\ IsAward(SubSeq(t, e + 1, f))
        /\ IsLabels(Rest(t, f + 1))
  BY <1>7
<1> HIDE DEF l, t, joining, name
<1>9. /\ a \in Nat /\ b \in Nat /\ c \in Nat /\ d \in Nat /\ e \in Nat /\ f \in Nat
      /\ a <= b /\ b <= c /\ c <= d /\ d <= e /\ e <= f /\ f <= l /\ a <= l /\ b <= l /\ c <= l
      /\ d <= l /\ e <= l
  BY <1>1
<1>10. ASSUME NEW x \in Nat, NEW y \in Nat, x <= y, y <= l
       PROVE  IsPiece(SubSeq(t, x + 1, y), upTo, x, y)
  <2>1. 0 + x = x /\ 0 + y = y /\ 0 + y <= l
    BY <1>1, <1>10
  <2>2. IsPiece(SubSeq(t, x + 1, y), upTo, 0 + x, 0 + y)
    BY <1>1, <1>10, <2>1, PieceOfPiece
  <2> QED
    BY <2>1, <2>2
<1>11. IsPiece(Rest(t, f + 1), upTo, f, l)
  <2>1. 0 + f = f /\ 0 + f <= l
    BY <1>9
  <2>2. IsPiece(Rest(t, f + 1), upTo, 0 + f, l)
    BY <1>1, <1>9, <2>1, RestOfPiece
  <2> QED
    BY <2>1, <2>2
<1>12. EarlierTo(upTo, a)
  <2>1. 0 \in Nat /\ 0 <= a /\ 0 + 1 = 1
    BY <1>9
  <2>2. IsPiece(SubSeq(t, 1, a), upTo, 0, a)
    BY <1>9, <1>10, <2>1
  <2>3. Append(t, Head(name))[a + 1] = upTo[a + 1]
    <3>1. Len(t) = l
      BY DEF l
    <3>2. CASE a < l
      <4>1. a + 1 \in 1..l /\ 0 + (a + 1) = a + 1 /\ a + 1 \in 1..(l - 0)
        BY <1>1, <1>9, <3>2
      <4>2. t[a + 1] = upTo[a + 1]
        BY <1>1, <4>1 DEF IsPiece
      <4>3. Append(t, Head(name))[a + 1] = t[a + 1]
        BY <1>1, <3>1, <4>1
      <4> QED
        BY <4>2, <4>3
    <3>3. CASE a = l
      <4>1. Append(t, Head(name))[l + 1] = Head(name)
        BY <1>1, <3>1
      <4> QED
        BY <1>2, <3>3, <4>1
    <3>4. a < l \/ a = l
      BY <1>1, <1>9
    <3> QED
      BY <3>2, <3>3, <3>4
  <2> QED
    BY <1>3, <2>2, <2>3, EarlierIs
<1>13. SignsTo(upTo, a, b)
  BY <1>4, <1>9, <1>10, SignsIs
<1>14. JoinedTo(upTo, l, b, c)
  <2>1. IsPiece(SubSeq(t, b + 1, c), upTo, b, c)
    BY <1>9, <1>10
  <2>2. IsJoined(SubSeq(t, b + 1, c), Range(conjunctions) \ Range(name), c = l)
    BY <1>5 DEF joining
  <2> DEFINE alone == c = l
  <2>3. alone => c = l
    OBVIOUS
  <2>4. IsJoined(SubSeq(t, b + 1, c), Range(conjunctions) \ Range(name), alone)
    BY <2>2
  <2> HIDE DEF alone
  <2> QED
    BY <1>2, <2>1, <2>3, <2>4, JoinedIs
<1>15. RoleFrom(upTo, c, d) /\ TradingFrom(upTo, d, e) /\ AwardFrom(upTo, e, f)
  <2>1. RoleFrom(upTo, c, d)
    BY <1>6, <1>9, <1>10, RoleIs
  <2>2. TradingFrom(upTo, d, e)
    BY <1>7, <1>9, <1>10, TradingIs
  <2>3. AwardFrom(upTo, e, f)
    BY <1>8, <1>9, <1>10, AwardIs
  <2> QED
    BY <2>1, <2>2, <2>3
<1>16. LabelsFrom(upTo, l, f + 1)
  BY <1>8, <1>11, LabelsIs
<1>17. Parts(upTo, l, a, b, c, d, e, f)
  BY <1>1, <1>9, <1>12, <1>13, <1>14, <1>15, <1>16 DEF Parts
<1> QED
  BY <1>17 DEF l, t

-----------------------------------------------------------------------------
(* Each pass, as the code performs it                                      *)

InPlace(s, t, u) == \E lo \in 1..Len(u) : t = Rest(u, lo) /\ PlaceInv(s, u, lo)

LEMMA InItsPlace ==
  ASSUME NEW u, Ends(u), NEW lo \in 1..Len(u), NEW m \in lo..Len(u), NEW s, PlaceInv(s, u, m)
  PROVE  InPlace(s, Rest(u, m), u)
<1>1. m \in 1..Len(u)
  BY DEF Ends
<1> QED
  BY <1>1 DEF InPlace

LEMMA CopyrightStep ==
  ASSUME NEW u, Ends(u), NEW t, InPlace("copyright", t, u)
  PROVE  InPlace("leftover", stripCopyrightPrefix(t), u)
<1>1. PICK lo \in 1..Len(u) : t = Rest(u, lo) /\ PlaceInv("copyright", u, lo)
  BY DEF InPlace
<1>2. PICK r \in AfterSigns(u, lo)..Len(u) : \E m \in r..Len(u) :
        /\ stripCopyrightPrefix(Rest(u, lo)) = Rest(u, m)
        /\ u[r] \notin dates /\ \A n \in AfterSigns(u, lo)..(r - 1) : u[n] \in dates
        /\ m = r \/ (m > r + 1 /\ u[m - 1] = "." /\ u[m - 2] = "All rights reserved")
  BY CopyrightTo
<1>3. PICK m \in r..Len(u) :
        /\ stripCopyrightPrefix(Rest(u, lo)) = Rest(u, m)
        /\ m = r \/ (m > r + 1 /\ u[m - 1] = "." /\ u[m - 2] = "All rights reserved")
  BY <1>2
<1>4. CopyrightOff(u, lo, m)
  <2>1. Skips(u, AfterSigns(u, lo), r, dates)
    BY <1>2 DEF Skips
  <2>2. Reserves(u, r, m)
    BY <1>3 DEF Reserves
  <2> QED
    BY <2>1, <2>2 DEF CopyrightOff
<1>5. m \in lo..Len(u) /\ PlaceInv("leftover", u, m)
  BY <1>1, <1>4, CopyrightPass
<1> QED
  BY <1>1, <1>3, <1>5, InItsPlace

LEMMA LeftoverStep ==
  ASSUME NEW u, Ends(u), NEW t, InPlace("leftover", t, u)
  PROVE  InPlace("conjunction", Rest(t, Min(OtherThan(t, years \cup quotes \cup {"(", "copyright sign"}))), u)
<1>1. PICK lo \in 1..Len(u) : t = Rest(u, lo) /\ PlaceInv("leftover", u, lo)
  BY DEF InPlace
<1> DEFINE X == years \cup quotes \cup {"(", "copyright sign"}
<1>2. PICK m \in lo..Len(u) :
        /\ Rest(Rest(u, lo), Min(OtherThan(Rest(u, lo), X))) = Rest(u, m)
        /\ u[m] \notin X /\ \A n \in lo..(m - 1) : u[n] \in X
  BY LeftoverTo
<1>3. X = leftoverWords
  BY DEF leftoverWords
<1> HIDE DEF X
<1>4. Skips(u, lo, m, leftoverWords)
  BY <1>2, <1>3 DEF Skips
<1>5. m \in lo..Len(u) /\ PlaceInv("conjunction", u, m)
  BY <1>1, <1>4, LeftoverPass
<1>6. InPlace("conjunction", Rest(t, Min(OtherThan(t, X))), u)
  BY <1>1, <1>2, <1>5, InItsPlace
<1> QED
  BY <1>6 DEF X

LEMMA CutTo ==
  ASSUME NEW u, Ends(u), NEW lo \in 1..Len(u)
  PROVE  \E m \in lo..Len(u) : trimAtConjunction(Rest(u, lo)) = Rest(u, m) /\ Cut(u, lo, m)
BY ConjunctionTo DEF Cut

LEMMA ConjunctionStep ==
  ASSUME NEW u, Ends(u), NEW t, InPlace("conjunction", t, u)
  PROVE  InPlace("person", trimAtConjunction(t), u)
<1>1. PICK lo \in 1..Len(u) : t = Rest(u, lo) /\ PlaceInv("conjunction", u, lo)
  BY DEF InPlace
<1>2. PICK m \in lo..Len(u) : trimAtConjunction(Rest(u, lo)) = Rest(u, m) /\ Cut(u, lo, m)
  BY CutTo
<1>3. m \in lo..Len(u) /\ PlaceInv("person", u, m)
  BY <1>1, <1>2, ConjunctionPass
<1> QED
  BY <1>1, <1>2, <1>3, InItsPlace

LEMMA ConjunctionAgainStep ==
  ASSUME NEW u, Ends(u), NEW t, InPlace("conjunction again", t, u)
  PROVE  InPlace("judge", trimAtConjunction(t), u)
<1>1. PICK lo \in 1..Len(u) : t = Rest(u, lo) /\ PlaceInv("conjunction again", u, lo)
  BY DEF InPlace
<1>2. PICK m \in lo..Len(u) : trimAtConjunction(Rest(u, lo)) = Rest(u, m) /\ Cut(u, lo, m)
  BY CutTo
<1>3. m \in lo..Len(u) /\ PlaceInv("judge", u, m)
  BY <1>1, <1>2, ConjunctionAgainPass
<1> QED
  BY <1>1, <1>2, <1>3, InItsPlace

LEMMA StripsIs ==
  ASSUME NEW u, NEW lo, NEW m \in lo..Len(u), NEW words \in SUBSET cutWords,
         m = lo \/ u[m - 1] \in words
  PROVE  Strips(u, lo, m)
BY DEF Strips

LEMMA RoleStep ==
  ASSUME NEW u, Ends(u), NEW t, InPlace("person", t, u)
  PROVE  InPlace("trading", stripPersonRolePrefix(t), u)
<1>1. PICK lo \in 1..Len(u) : t = Rest(u, lo) /\ PlaceInv("person", u, lo)
  BY DEF InPlace
<1>2. PICK m \in lo..Len(u) :
        /\ stripPersonRolePrefix(Rest(u, lo)) = Rest(u, m)
        /\ m = lo \/ (m > lo /\ u[m - 1] \in titles \cup {",", "of"})
        /\ RoleOff(u, lo, m)
  BY RoleTo
<1>3. titles \cup {",", "of"} \in SUBSET cutWords
  BY DEF cutWords
<1>4. Strips(u, lo, m)
  <2>1. m = lo \/ u[m - 1] \in titles \cup {",", "of"}
    BY <1>2
  <2> QED
    BY <1>3, <2>1, StripsIs
<1>5. m \in lo..Len(u) /\ PlaceInv("trading", u, m)
  BY <1>1, <1>2, <1>4, RolePass
<1> QED
  BY <1>1, <1>2, <1>5, InItsPlace

LEMMA TradingStep ==
  ASSUME NEW u, Ends(u), NEW t, InPlace("trading", t, u)
  PROVE  LET at == {n \in WordsAt(t, tradingNames) : t[n + 1] \notin closers}
         IN  InPlace("award", IF at = {} THEN t ELSE Rest(t, Min(at) + 1), u)
<1>1. PICK lo \in 1..Len(u) : t = Rest(u, lo) /\ PlaceInv("trading", u, lo)
  BY DEF InPlace
<1> DEFINE at == {n \in WordsAt(t, tradingNames) : t[n + 1] \notin closers}
           r  == IF at = {} THEN t ELSE Rest(t, Min(at) + 1)
<1>2. PICK m \in lo..Len(u) :
        /\ r = Rest(u, m)
        /\ \/ m = lo /\ \A p \in lo..(Len(u) - 1) : u[p] \in tradingNames => u[p + 1] \in closers
           \/ /\ m > lo /\ u[m - 1] \in tradingNames /\ u[m] \notin closers
              /\ \A q \in lo..(m - 2) : u[q] \in tradingNames => u[q + 1] \in closers
  BY <1>1, TradingTo
<1> HIDE DEF r
<1>3. tradingNames \in SUBSET cutWords
  BY DEF cutWords
<1>4. Strips(u, lo, m)
  <2>1. m = lo \/ u[m - 1] \in tradingNames
    BY <1>2
  <2> QED
    BY <1>3, <2>1, StripsIs
<1>5. TradingOff(u, lo, m)
  BY <1>2 DEF TradingOff
<1>6. m \in lo..Len(u) /\ PlaceInv("award", u, m)
  BY <1>1, <1>4, <1>5, TradingPass
<1>7. InPlace("award", r, u)
  BY <1>2, <1>6, InItsPlace
<1> QED
  BY <1>7 DEF r

LEMMA AwardStep ==
  ASSUME NEW u, Ends(u), NEW t, InPlace("award", t, u)
  PROVE  LET colons == {n \in WordsAt(t, {":"}) : t[n + 1] \notin closers}
         IN  InPlace("label",
                     IF Head(t) = "Best" /\ Spaced(t, 1) /\ colons # {}
                     THEN Rest(t, Min(colons) + 1) ELSE t, u)
<1>1. PICK lo \in 1..Len(u) : t = Rest(u, lo) /\ PlaceInv("award", u, lo)
  BY DEF InPlace
<1> DEFINE Colons(s) == {n \in WordsAt(s, {":"}) : s[n + 1] \notin closers}
           Off(s) == IF Head(s) = "Best" /\ Spaced(s, 1) /\ Colons(s) # {}
                     THEN Rest(s, Min(Colons(s)) + 1) ELSE s
           r == Off(t)
<1>r. r = Off(Rest(u, lo))
  BY <1>1
<1>2. PICK m \in lo..Len(u) :
        /\ Off(Rest(u, lo)) = Rest(u, m)
        /\ \/ /\ m = lo
              /\ u[lo] = "Best" /\ SpacedAt(u, lo, lo) =>
                   \A p \in lo..(Len(u) - 1) : u[p] = ":" => u[p + 1] \in closers
           \/ /\ m > lo /\ u[lo] = "Best" /\ u[m - 1] = ":" /\ u[m] \notin closers
              /\ \A q \in lo..(m - 2) : u[q] = ":" => u[q + 1] \in closers
  BY AwardTo, Zenon
<1> HIDE DEF r, Off
<1>3. {":"} \in SUBSET cutWords
  BY DEF cutWords
<1>4. Strips(u, lo, m)
  <2>1. m = lo \/ u[m - 1] \in {":"}
    BY <1>2
  <2> QED
    BY <1>3, <2>1, StripsIs
<1>5. AwardOff(u, lo, m)
  BY <1>2 DEF AwardOff
<1>6. m \in lo..Len(u) /\ PlaceInv("label", u, m)
  BY <1>1, <1>4, <1>5, AwardPass
<1>7. InPlace("label", r, u)
  BY <1>2, <1>6, <1>r, InItsPlace
<1> QED
  BY <1>7, Zenon DEF r, Off

LEMMA LabelStep ==
  ASSUME NEW u, Ends(u), NEW t, InPlace("label", t, u)
  PROVE  InPlace("conjunction again", stripLabelPrefix(t), u)
<1>1. PICK lo \in 1..Len(u) : t = Rest(u, lo) /\ PlaceInv("label", u, lo)
  BY DEF InPlace
<1>2. PICK m \in lo..Len(u) :
        /\ stripLabelPrefix(Rest(u, lo)) = Rest(u, m)
        /\ m = lo \/ (m > lo /\ u[m - 1] \in labelWords)
        /\ LabelsGone(u, lo, m)
  BY LabelsTo, Zenon DEF LabelsGone
<1>3. labelWords \in SUBSET cutWords
  BY DEF cutWords
<1>4. Strips(u, lo, m)
  <2>1. m = lo \/ u[m - 1] \in labelWords
    BY <1>2
  <2> QED
    BY <1>3, <2>1, StripsIs
<1>5. m \in lo..Len(u) /\ PlaceInv("conjunction again", u, m)
  BY <1>1, <1>2, <1>4, LabelPass
<1> QED
  BY <1>1, <1>2, <1>5, InItsPlace

-----------------------------------------------------------------------------
(* What is judged                                                          *)

LEMMA ReverseIs ==
  ASSUME NEW S, NEW s \in Seq(S)
  PROVE  /\ Reverse(s) \in Seq(S) /\ Len(Reverse(s)) = Len(s)
         /\ \A i \in 1..Len(s) : Reverse(s)[i] = s[Len(s) - i + 1]
<1> DEFINE n == Len(s)
           r == [i \in 1..n |-> s[(n - i) + 1]]
<1>1. n \in Nat /\ \A i \in 1..n : s[i] \in S
  OBVIOUS
<1>r. Reverse(s) = r
  BY DEF Reverse
<1> HIDE DEF n
<1>2. ASSUME NEW i \in 1..n PROVE s[(n - i) + 1] \in S
  <2>1. (n - i) + 1 \in 1..n
    BY <1>1
  <2> QED
    BY <1>1, <2>1
<1>3. r \in [1..n -> S]
  BY <1>2
<1>4. r \in Seq(S) /\ Len(r) = n
  BY <1>1, <1>3
<1>5. \A i \in 1..n : r[i] = s[n - i + 1]
  OBVIOUS
<1> QED
  BY <1>4, <1>5, <1>r DEF n

LEMMA SuffixIs ==
  ASSUME NEW S, NEW s \in Seq(S), NEW t \in Seq(S), NEW x \in Nat, Len(t) = x + Len(s),
         \A k \in 1..Len(s) : s[k] = t[x + k]
  PROVE  IsSuffix(s, t)
<1> DEFINE n == Len(s)
           m == Len(t)
           p == Reverse(s)
           q == Reverse(t)
<1>1. /\ p \in Seq(S) /\ Len(p) = n
      /\ \A i \in 1..n : p[i] = s[n - i + 1]
  BY ReverseIs
<1>2. /\ q \in Seq(S) /\ Len(q) = m
      /\ \A i \in 1..m : q[i] = t[m - i + 1]
  BY ReverseIs
<1>3. n \in Nat /\ m \in Nat /\ m = x + n /\ n <= m
  <2>1. n \in Nat /\ m \in Nat
    BY LenProperties
  <2>2. m = x + n
    OBVIOUS
  <2> HIDE DEF n, m
  <2> QED
    BY <2>1, <2>2
<1>k. \A k \in 1..n : s[k] = t[x + k]
  OBVIOUS
<1> HIDE DEF p, q, n, m
<1> DEFINE v == SubSeq(p, 1, n)
           w == SubSeq(q, 1, n)
<1>4. ASSUME NEW i \in 1..n PROVE p[i] = q[i]
  <2>1. i \in 1..m /\ n - i + 1 \in 1..n /\ x + (n - i + 1) = m - i + 1
    BY <1>3
  <2>2. s[n - i + 1] = t[x + (n - i + 1)]
    BY <1>k, <2>1
  <2> QED
    BY <1>1, <1>2, <2>1, <2>2
<1>5. 1 \in Nat \ {0} /\ 1 <= n + 1 /\ n <= Len(p) /\ n <= Len(q) /\ n - 1 + 1 = n
        /\ \A i \in 1..n : 1 + i - 1 = i
  BY <1>1, <1>2, <1>3
<1>6. v \in Seq(S) /\ Len(v) = n - 1 + 1 /\ \A i \in 1..(n - 1 + 1) : v[i] = p[1 + i - 1]
  BY <1>1, <1>3, <1>5, PieceOf
<1>7. w \in Seq(S) /\ Len(w) = n - 1 + 1 /\ \A i \in 1..(n - 1 + 1) : w[i] = q[1 + i - 1]
  BY <1>2, <1>3, <1>5, PieceOf
<1> HIDE DEF v, w
<1>8. Len(v) = n /\ Len(w) = n /\ \A i \in 1..n : v[i] = w[i]
  BY <1>4, <1>5, <1>6, <1>7
<1>9. v = w
  BY <1>6, <1>7, <1>8, SeqEqual
<1>10. IsPrefix(p, q)
  BY <1>1, <1>2, <1>3, <1>9 DEF IsPrefix, v, w
<1> QED
  BY <1>10 DEF IsSuffix, p, q

(* A name and its form.                                                    *)
IsNameAndForm(t, n, name, form) ==
  Len(t) = n + 1 /\ (\A k \in 1..n : t[k] = name[k]) /\ t[n + 1] = form

LEMMA NameAndForm ==
  ASSUME NEW name \in Seq(LineWords), NEW form \in LineWords, NEW t \in Seq(LineWords),
         IsNameAndForm(t, Len(name), name, form)
  PROVE  t = Append(name, form) /\ Front(t) = name
<1> DEFINE n == Len(name)
<1>1. n \in Nat
  BY LenProperties
<1>t. Len(t) = n + 1 /\ (\A k \in 1..n : t[k] = name[k]) /\ t[n + 1] = form
  BY DEF IsNameAndForm
<1> DEFINE w == Append(name, form)
<1>2. w \in Seq(LineWords) /\ Len(w) = n + 1 /\ w[n + 1] = form /\ \A k \in 1..n : w[k] = name[k]
  BY AppendProperties
<1>n. n = Len(name)
  OBVIOUS
<1> HIDE DEF w, n
<1>3. ASSUME NEW k \in 1..(n + 1) PROVE t[k] = w[k]
  <2>1. k \in 1..n \/ k = n + 1
    BY <1>1
  <2> QED
    BY <1>2, <1>t, <2>1
<1>4. t = w
  BY <1>2, <1>3, <1>t, SeqEqual
<1> DEFINE v == SubSeq(t, 1, n)
<1>5. 1 \in Nat \ {0} /\ 1 <= n + 1 /\ n <= Len(t) /\ n - 1 + 1 = n /\ (n + 1) - 1 = n
        /\ \A i \in 1..n : 1 + i - 1 = i
  BY <1>1, <1>t
<1>6. v \in Seq(LineWords) /\ Len(v) = n - 1 + 1 /\ \A i \in 1..(n - 1 + 1) : v[i] = t[1 + i - 1]
  BY <1>1, <1>5, PieceOf
<1>v. Front(t) = v
  BY <1>5, <1>t DEF Front
<1> HIDE DEF v
<1>7. Len(v) = Len(name) /\ Len(v) = n /\ \A i \in 1..n : v[i] = name[i]
  BY <1>5, <1>6, <1>n, <1>t
<1>8. v = name
  <2>1. \A i \in 1..Len(v) : v[i] = name[i]
    BY <1>7, <1>n
  <2> QED
    BY <1>6, <1>7, <2>1, SeqEqual
<1> QED
  BY <1>4, <1>8, <1>v DEF w

(* An introduced name is all that remains.                                 *)
LEMMA JudgedName ==
  ASSUME written \in FormLine, InPlace("judge", candidate, upTo),
         IsOwnName(written.name), FormIsItself, ~written.formFirst,
         Len(written.before \o written.name) <= Window, Introduces(written.before)
  PROVE  /\ candidate = Append(written.name, written.form)
         /\ cleanCandidateName(Front(candidate))
<1> DEFINE name == written.name
           form == written.form
           b == Len(written.before)
           n == Len(name)
           q == FormAt
<1>1. /\ written.before \in Seq(LineWords) /\ name \in Seq(LineWords) /\ form \in forms
      /\ Ends(upTo) /\ upTo \in Seq(LineWords) /\ Len(upTo) = q /\ line[q] = form
      /\ q \in Nat /\ q > 0 /\ \A k \in 1..q : upTo[k] = line[k]
  <2>1. q > 0
    BY UpToForm
  <2> QED
    BY <2>1, PartsOfLine, UpToForm
<1>2. b \in Nat /\ n \in Nat /\ q = b + n + 1 /\ IsPiece(name, upTo, b, b + n)
  BY FormIsFound
<1>3. Named(upTo, b)
  BY NameIsNamed
<1>4. q <= Window + 1
  <2>1. Both(written.before \o name, written.before, name, b, n)
    BY <1>1, BothParts
  <2>2. Len(written.before \o name) = b + n /\ Len(written.before \o name) <= Window
    BY <2>1 DEF Both
  <2> HIDE DEF b, n, q
  <2>3. b + n <= Window
    BY <2>2
  <2> QED
    BY <1>2, <2>3, LinesAssumption
<1>5. \E pa, pb, pc, pd, pe, pf : Parts(upTo, b, pa, pb, pc, pd, pe, pf)
  BY IntroducedParts
<1>6. PICK lo \in 1..Len(upTo) : candidate = Rest(upTo, lo) /\ PlaceInv("judge", upTo, lo)
  BY DEF InPlace
<1> HIDE DEF name, form, b, n, q
<1>7. lo = b + 1
  <2>1. PICK pa, pb, pc, pd, pe, pf : Parts(upTo, b, pa, pb, pc, pd, pe, pf)
    BY <1>5
  <2>2. Passed("judge", upTo, lo) /\ Len(upTo) <= Window + 1
    BY <1>1, <1>4, <1>6 DEF PlaceInv
  <2>3. Stage("judge", upTo, b, pa, pb, pc, pd, pe, pf, lo)
    BY <1>3, <2>1, <2>2 DEF Passed
  <2> QED
    BY <2>3 DEF Stage
<1>8. b + 1 \in 1..(q + 1) /\ q - (b + 1) + 1 = n + 1
  BY <1>2
<1>9. /\ candidate \in Seq(LineWords) /\ Len(candidate) = n + 1
      /\ \A k \in 1..(n + 1) : candidate[k] = upTo[b + 1 + k - 1]
  <2>1. candidate = Rest(upTo, b + 1) /\ b + 1 \in 1..(Len(upTo) + 1) /\ Len(upTo) - (b + 1) + 1 = n + 1
    BY <1>1, <1>6, <1>7, <1>8
  <2> QED
    BY <1>1, <2>1, RestOf
<1>10. ASSUME NEW k \in 1..n PROVE candidate[k] = name[k]
  <2>1. k \in 1..(n + 1) /\ b + 1 + k - 1 = b + k /\ k \in 1..((b + n) - b)
    BY <1>2
  <2>2. candidate[k] = upTo[b + k] /\ name[k] = upTo[b + k]
    BY <1>2, <1>9, <2>1 DEF IsPiece
  <2> QED
    BY <2>2
<1>11. candidate[n + 1] = form
  <2>1. n + 1 \in 1..(n + 1) /\ b + 1 + (n + 1) - 1 = q /\ q \in 1..q
    BY <1>1, <1>2
  <2>2. candidate[n + 1] = upTo[q] /\ upTo[q] = line[q]
    BY <1>1, <1>9, <2>1
  <2> QED
    BY <1>1, <2>2
<1>12. form \in LineWords
  BY <1>1 DEF forms, LineWords, Capitals, capitalWords
<1>13. n = Len(name)
  BY DEF n
<1>14. candidate = Append(name, form) /\ Front(candidate) = name
  <2>1. /\ name \in Seq(LineWords) /\ candidate \in Seq(LineWords) /\ Len(candidate) = n + 1
        /\ \A k \in 1..n : candidate[k] = name[k]
    BY <1>1, <1>9, <1>10
  <2>2. IsNameAndForm(candidate, Len(name), name, form)
    BY <1>11, <1>13, <2>1 DEF IsNameAndForm
  <2> QED
    BY <1>12, <2>1, <2>2, NameAndForm
<1>15. cleanCandidateName(name)
  BY <1>1, NameIsClean DEF name
<1> QED
  BY <1>14, <1>15 DEF name, form

(* A name is not cut, whatever precedes it.                                *)
LEMMA JudgedWhole ==
  ASSUME written \in FormLine, InPlace("judge", candidate, upTo),
         IsOwnName(written.name), FormIsItself, ~written.formFirst, Len(written.name) <= Window
  PROVE  IsSuffix(Append(written.name, written.form), candidate)
<1> DEFINE name == written.name
           form == written.form
           b == Len(written.before)
           n == Len(name)
           q == FormAt
           w == Append(name, form)
<1>1. /\ name \in Seq(LineWords) /\ form \in forms /\ Len(name) <= Window
      /\ Ends(upTo) /\ upTo \in Seq(LineWords) /\ Len(upTo) = q /\ line[q] = form
      /\ q \in Nat /\ q > 0 /\ \A k \in 1..q : upTo[k] = line[k]
  <2>1. q > 0
    BY UpToForm
  <2> QED
    BY <2>1, PartsOfLine, UpToForm
<1>2. b \in Nat /\ n \in Nat /\ q = b + n + 1 /\ IsPiece(name, upTo, b, b + n)
  BY FormIsFound
<1>3. Named(upTo, b)
  BY NameIsNamed
<1>6. PICK lo \in 1..Len(upTo) : candidate = Rest(upTo, lo) /\ PlaceInv("judge", upTo, lo)
  BY DEF InPlace
<1>w. n <= Window
  BY <1>1
<1>12. form \in LineWords
  BY <1>1 DEF forms, LineWords, Capitals, capitalWords
<1>13. w \in Seq(LineWords) /\ Len(w) = n + 1 /\ w[n + 1] = form /\ \A k \in 1..n : w[k] = name[k]
  BY <1>1, <1>12, AppendProperties
<1> HIDE DEF name, form, b, n, q, w
<1>4. q <= Window + b + 1
  BY <1>2, <1>w, LinesAssumption
<1>7. lo <= b + 1 /\ lo \in 1..q
  <2>1. Whole(upTo, lo) /\ Len(upTo) <= Window + b + 1 /\ lo \in 1..q
    BY <1>1, <1>4, <1>6 DEF PlaceInv
  <2> QED
    BY <1>3, <2>1 DEF Whole
<1> DEFINE x == b + 1 - lo
<1>x. x \in Nat /\ q - lo + 1 = x + (n + 1) /\ lo \in 1..(q + 1)
  BY <1>2, <1>7
<1>8. /\ candidate \in Seq(LineWords) /\ Len(candidate) = x + (n + 1)
      /\ \A k \in 1..(x + (n + 1)) : candidate[k] = upTo[lo + k - 1]
  <2>1. candidate = Rest(upTo, lo) /\ lo \in 1..(Len(upTo) + 1) /\ Len(upTo) - lo + 1 = x + (n + 1)
    BY <1>1, <1>6, <1>x
  <2> HIDE DEF x
  <2> QED
    BY <1>1, <2>1, RestOf
<1>9. ASSUME NEW k \in 1..(n + 1) PROVE candidate[x + k] = upTo[b + k]
  <2>1. x + k \in 1..(x + (n + 1)) /\ lo + (x + k) - 1 = b + k
    BY <1>2, <1>7
  <2> HIDE DEF x
  <2> QED
    BY <1>8, <2>1
<1> HIDE DEF x
<1>10. ASSUME NEW k \in 1..(n + 1) PROVE w[k] = candidate[x + k]
  <2>1. CASE k \in 1..n
    <3>1. k \in 1..((b + n) - b)
      BY <1>2, <2>1
    <3>2. name[k] = upTo[b + k]
      BY <1>2, <3>1 DEF IsPiece
    <3> QED
      BY <1>9, <1>13, <2>1, <3>2
  <2>2. CASE k = n + 1
    <3>1. b + k = q /\ q \in 1..q
      BY <1>1, <1>2, <2>2
    <3>2. upTo[b + k] = form
      BY <1>1, <3>1
    <3>3. w[k] = form
      BY <1>13, <2>2
    <3> QED
      BY <1>9, <3>2, <3>3
  <2>3. k \in 1..n \/ k = n + 1
    BY <1>2
  <2> QED
    BY <2>1, <2>2, <2>3
<1>14. Len(candidate) = x + Len(w) /\ \A k \in 1..Len(w) : w[k] = candidate[x + k]
  BY <1>8, <1>10, <1>13
<1>15. IsSuffix(w, candidate)
  BY <1>8, <1>13, <1>14, <1>x, SuffixIs
<1> QED
  BY <1>15 DEF w, name, form

(* Of what is joined to the name nothing is left, but behind a hyphen.     *)
LEMMA JudgedApart ==
  ASSUME NEW u, Ends(u), NEW t, InPlace("judge", t, u)
  PROVE  LET Remaining(conj) == {n \in WordsAt(t, {conj}) : n > 1 /\ Spaced(t, n)}
         IN  /\ Remaining("and") = {}
             /\ Remaining("und") # {} => t[Max(Remaining("und")) - 1] \in hyphens
<1> DEFINE Remaining(conj) == {n \in WordsAt(t, {conj}) : n > 1 /\ Spaced(t, n)}
           joins == Remaining("und")
           top == Len(u)
<1>1. PICK lo \in 1..Len(u) : t = Rest(u, lo) /\ PlaceInv("judge", u, lo)
  BY DEF InPlace
<1>2. NotJoined(u, lo)
  <2>1. Apart("judge", u, lo)
    BY <1>1 DEF PlaceInv
  <2> QED
    BY <2>1 DEF Apart
<1>3. /\ t \in Seq(LineWords) /\ Len(t) = top - lo + 1 /\ Len(t) \in Nat
      /\ \A k \in 1..Len(t) : t[k] = u[lo + k - 1]
  BY <1>1, RestAt DEF Ends
<1>4. top \in Nat /\ lo \in Nat /\ lo >= 1 /\ lo <= top /\ u[top] \notin {"and", "und"}
  BY DEF Ends, forms
<1>5. \A k \in 1..(top - lo + 1) : Spaced(t, k) <=> SpacedAt(u, lo, lo + k - 1)
  BY <1>1, SpacedRest
<1>6. ASSUME NEW x PROVE Remaining(x) = {n \in 1..Len(t) : t[n] = x /\ n > 1 /\ Spaced(t, n)}
  <2>1. DOMAIN t = 1..Len(t)
    BY <1>3
  <2> QED
    BY <2>1 DEF WordsAt
<1> HIDE DEF Remaining, top
<1>7. ASSUME NEW p \in Int, p > lo PROVE SpacedAt(u, lo, p) <=> Spaced(u, p)
  <2>1. p > 1
    BY <1>4, <1>7
  <2> QED
    BY <1>7, <2>1 DEF SpacedAt, Spaced
<1>8. ASSUME NEW x \in {"and", "und"}, NEW n \in Remaining(x)
      PROVE  lo + n - 1 \in Joins(u, lo, x) /\ n \in 1..Len(t)
  <2>1. n \in 1..Len(t) /\ t[n] = x /\ n > 1 /\ Spaced(t, n)
    BY <1>6
  <2>2. t[n] = u[lo + n - 1] /\ n \in 1..(top - lo + 1)
    BY <1>3, <2>1
  <2>3. lo + n - 1 # top
    BY <1>4, <2>1, <2>2
  <2>4. n > 1 /\ n \in 1..(top - lo + 1)
    BY <2>1, <2>2
  <2>5. lo + n - 1 \in (lo + 1)..(top - 1) /\ lo + n - 1 > lo /\ lo + n - 1 \in Int
    BY <1>4, <2>3, <2>4
  <2>6. Spaced(u, lo + n - 1)
    BY <1>5, <1>7, <2>1, <2>2, <2>5
  <2> QED
    BY <2>1, <2>2, <2>5, <2>6 DEF Joins, top
<1>9. ASSUME NEW q \in Joins(u, lo, "und") PROVE q - lo + 1 \in joins
  <2>1. q \in (lo + 1)..(top - 1) /\ u[q] = "und" /\ Spaced(u, q)
    BY DEF Joins, top
  <2>2. q - lo + 1 \in 1..(top - lo + 1) /\ q - lo + 1 > 1 /\ lo + (q - lo + 1) - 1 = q /\ q > lo /\ q \in Int
    BY <1>4, <2>1
  <2>3. Spaced(t, q - lo + 1)
    BY <1>5, <1>7, <2>1, <2>2
  <2>4. t[q - lo + 1] = "und" /\ q - lo + 1 \in 1..Len(t)
    BY <1>3, <2>1, <2>2
  <2> QED
    BY <1>6, <2>2, <2>3, <2>4
<1>a. Remaining("and") = {}
  BY <1>2, <1>8 DEF NotJoined
<1>10. ASSUME joins # {} PROVE t[Max(joins) - 1] \in hyphens
  <2>1. joins \in SUBSET Nat /\ \A n \in joins : n <= Len(t)
    BY <1>3, <1>8
  <2>2. Max(joins) \in joins /\ \A n \in joins : n <= Max(joins)
    BY <1>3, <1>10, <2>1, MaxIn
  <2> DEFINE k == Max(joins)
             p == lo + k - 1
  <2> HIDE DEF k
  <2>3. k \in joins /\ \A n \in joins : n <= k
    BY <2>2 DEF k
  <2>4. p \in Joins(u, lo, "und") /\ k \in 1..Len(t)
    BY <1>8, <2>3
  <2>6. ASSUME NEW q \in Joins(u, lo, "und") PROVE q <= p
    <3>1. q - lo + 1 <= k
      BY <1>9, <2>3
    <3>2. q \in Int
      BY DEF Joins
    <3>3. k \in Nat
      BY <1>3, <2>4
    <3> QED
      BY <1>4, <3>1, <3>2, <3>3
  <2> HIDE DEF p
  <2>7. IsLastOf(p, Joins(u, lo, "und"))
    BY <2>4, <2>6 DEF IsLastOf
  <2>8. PICK r : IsLastOf(r, Joins(u, lo, "und")) /\ u[r - 1] \in hyphens
    BY <1>2, <2>4 DEF NotJoined
  <2>9. p \in Int /\ r \in Int
    BY <2>7, <2>8 DEF IsLastOf, Joins
  <2>10. u[p - 1] \in hyphens
    BY <2>7, <2>8, <2>9, OneLast
  <2>11. k > 1 /\ k \in 1..Len(t)
    BY <1>6, <2>3
  <2>12. k - 1 \in 1..Len(t) /\ lo + (k - 1) - 1 = p - 1
    BY <1>3, <1>4, <2>11 DEF p
  <2>13. t[k - 1] = u[p - 1]
    BY <1>3, <2>12
  <2> QED
    BY <2>10, <2>13 DEF k
<1> QED
  BY <1>a, <1>10 DEF Remaining

(* Whether the form leads is told by the word before it.                   *)
LEMMA LeadsIs ==
  ASSUME written \in FormLine
  PROVE  /\ FormAt > 1 /\ line[FormAt - 1] = "-" => FormLeads
         /\ FormAt = 1 => FormLeads
         /\ Window > 0 /\ FormAt > 1 /\ line[FormAt - 1] # "-" => ~FormLeads
<1> DEFINE q == FormAt
           x == Leftmost
           s == SubSeq(line, x, q - 1)
           w == <<"-">> \o s
<1>1. q \in Nat /\ q >= 1 /\ q <= Len(line) /\ line \in Seq(LineWords) /\ Len(line) \in Nat
  BY UpToForm, WordsOfLine
<1>2. Window \in Nat /\ x = IF q > Window THEN q - Window ELSE 1
  BY LinesAssumption DEF Leftmost
<1>f. FormLeads <=> Last(w) = "-"
  BY DEF FormLeads
<1> HIDE DEF q, x
<1>3. x \in Nat \ {0} /\ q - 1 \in Nat /\ x <= (q - 1) + 1 /\ q - 1 <= Len(line)
        /\ (Window > 0 /\ q > 1 => x < q) /\ x <= q /\ (q = 1 => x = q)
  BY <1>1, <1>2
<1>4. /\ s \in Seq(LineWords) /\ Len(s) = q - 1 - x + 1
      /\ \A n \in 1..(q - 1 - x + 1) : s[n] = line[x + n - 1]
  BY <1>1, <1>3, PieceOf
<1>d. <<"-">> \in Seq(LineWords) /\ Len(<<"-">>) = 1 /\ <<"-">>[1] = "-"
  <2>1. "-" \in LineWords
    BY DEF LineWords, lineSigns
  <2> QED
    BY <2>1
<1> HIDE DEF s
<1> DEFINE n == q - x
<1>n. n \in Nat /\ q - 1 - x + 1 = n
  BY <1>1, <1>3
<1>5. Both(w, <<"-">>, s, 1, n)
  <2>1. Both(w, <<"-">>, s, Len(<<"-">>), Len(s))
    BY <1>4, <1>d, BothParts
  <2>2. Len(s) = n
    BY <1>4, <1>n
  <2> QED
    BY <1>d, <2>1, <2>2
<1> HIDE DEF w, n
<1>6. Len(w) = 1 + n /\ (\A i \in 1..1 : w[i] = <<"-">>[i]) /\ \A i \in 1..n : w[1 + i] = s[i]
  BY <1>5 DEF Both
<1>7. CASE n = 0
  <2>1. Last(w) = "-"
    <3>1. Len(w) = 1 /\ w[1] = "-"
      BY <1>6, <1>7, <1>d
    <3> QED
      BY <3>1 DEF Last
  <2>2. ~(Window > 0 /\ q > 1)
    BY <1>1, <1>3, <1>7 DEF n
  <2> QED
    BY <1>f, <2>1, <2>2 DEF q
<1>8. CASE n # 0
  <2>1. n \in 1..n /\ x + n - 1 = q - 1
    BY <1>1, <1>3, <1>n, <1>8 DEF n
  <2>2. Last(w) = line[q - 1]
    <3>1. w[1 + n] = s[n] /\ s[n] = line[x + n - 1]
      BY <1>4, <1>6, <1>n, <2>1
    <3> QED
      BY <1>6, <2>1, <3>1 DEF Last
  <2>3. q # 1
    BY <1>3, <1>8 DEF n
  <2> QED
    BY <1>f, <2>2, <2>3 DEF q
<1> QED
  BY <1>7, <1>8

LEMMA FrontIs ==
  ASSUME NEW S, NEW s \in Seq(S), NEW t \in Seq(S), Len(s) <= Len(t),
         \A k \in 1..Len(s) : t[k] = s[k]
  PROVE  SubSeq(t, 1, Len(s)) = s
<1> DEFINE n == Len(s)
           v == SubSeq(t, 1, n)
<1>1. n \in Nat /\ Len(t) \in Nat /\ n <= Len(t)
  BY LenProperties
<1>k. n = Len(s) /\ \A k \in 1..n : t[k] = s[k]
  OBVIOUS
<1> HIDE DEF n
<1>2. 1 \in Nat \ {0} /\ 1 <= n + 1 /\ n - 1 + 1 = n /\ \A i \in 1..n : 1 + i - 1 = i
  BY <1>1
<1>3. v \in Seq(S) /\ Len(v) = n - 1 + 1 /\ \A i \in 1..(n - 1 + 1) : v[i] = t[1 + i - 1]
  BY <1>1, <1>2, PieceOf
<1> HIDE DEF v
<1>4. Len(v) = Len(s) /\ \A i \in 1..Len(v) : v[i] = s[i]
  BY <1>2, <1>3, <1>k
<1>5. v = s
  BY <1>3, <1>4, SeqEqual
<1> QED
  BY <1>5, <1>k DEF v

(* Behind the form the name is read up to the next sign.                   *)
BeginsWith(a, name, n, m) ==
  /\ Len(a) = n + m /\ (m > 0 => a[n + 1] \in bars \cup {",", "."})
  /\ \A k \in 1..n : a[k] = name[k]

LEMMA ReadUpToSign ==
  ASSUME NEW name \in Seq(LineWords), IsOwnName(name), NEW a \in Seq(LineWords), NEW m \in Nat,
         BeginsWith(a, name, Len(name), m)
  PROVE  LET stops == WordsAt(a, bars \cup {",", "."})
         IN  (IF stops = {} THEN a ELSE SubSeq(a, 1, Min(stops) - 1)) = name
<1> DEFINE n == Len(name)
           X == bars \cup {",", "."}
           stops == WordsAt(a, X)
           k == Min(stops)
<1>1. \A j \in 1..n : name[j] \in NameWords
  BY NameIs
<1>n. n \in Nat
  BY LenProperties
<1>2. \A j \in 1..n : name[j] \notin X
  BY <1>1, NameWordIsNone DEF otherWords, bounds, bars
<1>a. Len(a) = n + m /\ (m > 0 => a[n + 1] \in X) /\ n = Len(name)
  BY DEF BeginsWith
<1>b. \A j \in 1..n : a[j] = name[j]
  BY DEF BeginsWith
<1>3. \A j \in 1..n : a[j] \notin X
  BY <1>2, <1>b
<1>s. stops # {} => k \in 1..Len(a) /\ a[k] \in X /\ \A j \in 1..(k - 1) : a[j] \notin X
  BY FirstWord
<1>e. stops = {} <=> \A j \in 1..Len(a) : a[j] \notin X
  BY NoWord
<1> HIDE DEF n, X, stops, k
<1>4. SubSeq(a, 1, n) = name
  <2>1. n <= Len(a)
    BY <1>a, <1>n
  <2>2. Len(name) <= Len(a) /\ \A j \in 1..Len(name) : a[j] = name[j]
    BY <1>a, <1>b, <2>1
  <2> QED
    BY <1>a, <2>2, FrontIs
<1>5. CASE stops = {}
  <2>1. \A j \in 1..(n + m) : a[j] \notin X
    BY <1>5, <1>a, <1>e
  <2>2. n + 1 \in 1..(n + m) \/ ~(m > 0)
    BY <1>n
  <2>3. ~(m > 0)
    BY <1>a, <2>1, <2>2
  <2>m. n + m = n
    BY <1>n, <2>3
  <2>4. Len(a) = n
    BY <1>a, <2>m
  <2>5. SubSeq(a, 1, Len(a)) = a
    BY SubSeqFull
  <2> QED
    BY <1>4, <1>5, <2>4, <2>5 DEF stops, X
<1>6. CASE stops # {}
  <2>1. k \in 1..(n + m) /\ a[k] \in X /\ \A j \in 1..(k - 1) : a[j] \notin X
    BY <1>6, <1>a, <1>s
  <2>2. ~(k \in 1..n) /\ k \in 1..(n + m)
    BY <1>3, <2>1
  <2>3. k > n /\ m > 0 /\ k \in Nat
    BY <1>n, <2>2
  <2>4. ~(n + 1 \in 1..(k - 1))
    BY <1>a, <2>1, <2>3
  <2>5. k - 1 = n
    BY <1>n, <2>3, <2>4
  <2>6. SubSeq(a, 1, k - 1) = name
    BY <1>4, <2>5
  <2> QED
    BY <1>6, <2>6 DEF stops, X, k
<1> QED
  BY <1>5, <1>6

IsNameBehind ==
  /\ IsOwnName(written.name) /\ FormIsItself /\ written.formFirst
  /\ Range(written.before) \subseteq years \cup {"-"}
  /\ written.before # <<>> => Last(written.before) = "-"
  /\ written.after = <<>> \/ Head(written.after) \in bars \cup {",", "."}

LEMMA AfterFormIs ==
  ASSUME written \in FormLine, IsNameBehind
  PROVE  AfterForm = written.name
<1> DEFINE name == written.name
           b == Len(written.before)
           n == Len(name)
           m == Len(written.after)
           q == FormAt
           a == Rest(line, q + 1)
           stops == WordsAt(a, bars \cup {",", "."})
           read  == IF stops = {} THEN a ELSE SubSeq(a, 1, Min(stops) - 1)
<1>0. /\ IsOwnName(name) /\ FormIsItself /\ written.formFirst
      /\ written.after = <<>> \/ Head(written.after) \in bars \cup {",", "."}
  BY DEF IsNameBehind
<1>1. name \in Seq(LineWords) /\ written.after \in Seq(LineWords)
  BY PartsOfLine
<1>2. b \in Nat /\ n \in Nat /\ q = b + 1
  BY <1>0, FormIsFound
<1>m. m \in Nat
  BY <1>1, LenProperties
<1>3. /\ line \in Seq(LineWords) /\ Len(line) = b + n + 1 + m
      /\ \A k \in 1..n : line[b + 1 + k] = name[k]
      /\ \A k \in 1..m : line[b + n + 1 + k] = written.after[k]
  BY <1>0, WordsOfLine
<1>h. m > 0 => written.after[1] \in bars \cup {",", "."}
  <2>1. m > 0 => written.after # <<>> /\ Head(written.after) = written.after[1]
    BY <1>1, TailIsRest
  <2> QED
    BY <1>0, <2>1
<1>o. AfterForm = LET opened == IF read # <<>> /\ Head(read) = "open quote" THEN Tail(read) ELSE read
                  IN  IF opened # <<>> /\ Last(opened) = "close quote" THEN Front(opened) ELSE opened
  BY DEF AfterForm
<1>n. n = Len(name)
  OBVIOUS
<1> HIDE DEF name, b, n, m, q, a
<1>4. q + 1 \in 1..(Len(line) + 1) /\ Len(line) - (q + 1) + 1 = n + m
  <2>1. Len(line) = b + n + 1 + m
    BY <1>3
  <2> QED
    BY <1>2, <1>m, <2>1
<1>5. a \in Seq(LineWords) /\ Len(a) = n + m /\ \A k \in 1..(n + m) : a[k] = line[q + 1 + k - 1]
  <2>1. line \in Seq(LineWords)
    BY <1>3
  <2> QED
    BY <1>4, <2>1, RestOf DEF a
<1>6. ASSUME NEW k \in 1..n PROVE a[k] = name[k]
  <2>1. k \in 1..(n + m) /\ q + 1 + k - 1 = b + 1 + k
    BY <1>2, <1>m
  <2> QED
    BY <1>3, <1>5, <2>1
<1>7. m > 0 => a[n + 1] \in bars \cup {",", "."}
  <2>1. SUFFICES ASSUME m > 0 PROVE a[n + 1] \in bars \cup {",", "."}
    OBVIOUS
  <2>2. n + 1 \in 1..(n + m) /\ q + 1 + (n + 1) - 1 = b + n + 1 + 1 /\ 1 \in 1..m
    BY <1>2, <1>m, <2>1
  <2>3. a[n + 1] = written.after[1]
    BY <1>3, <1>5, <2>2
  <2> QED
    BY <1>h, <2>1, <2>3
<1>8. read = name
  <2>1. BeginsWith(a, name, Len(name), m)
    BY <1>5, <1>6, <1>7, <1>n DEF BeginsWith
  <2>2. IsOwnName(name)
    BY <1>0
  <2> QED
    BY <1>1, <1>5, <1>m, <2>1, <2>2, ReadUpToSign
<1>9. Head(name) # "open quote" /\ Last(name) # "close quote"
  <2>1. Head(name) \in NameWords /\ Last(name) \in NameWords
    BY <1>0, <1>1, NameIs DEF NameWords
  <2> QED
    BY <2>1, NameWordIsNone DEF otherWords, quotes
<1> HIDE DEF read
<1> QED
  BY <1>8, <1>9, <1>o DEF name

(* A form with nothing but dates before it is refused, and its name sought *)
(* behind it.                                                              *)
LEMMA JudgedBehind ==
  ASSUME written \in FormLine, InPlace("judge", candidate, upTo), IsNameBehind
  PROVE  /\ ~cleanCandidateName(Front(candidate)) /\ FormLeads
         /\ AfterForm = written.name /\ cleanCandidateName(AfterForm)
<1> DEFINE t == written.before
           b == Len(t)
           q == FormAt
<1>1. /\ t \in Seq(LineWords) /\ written.name \in Seq(LineWords)
      /\ Ends(upTo) /\ upTo \in Seq(LineWords) /\ Len(upTo) = q
      /\ q \in Nat /\ \A k \in 1..q : upTo[k] = line[k]
  BY PartsOfLine, UpToForm
<1>0. /\ IsOwnName(written.name) /\ FormIsItself /\ written.formFirst
      /\ Range(t) \subseteq years \cup {"-"} /\ (t # <<>> => Last(t) = "-")
      /\ written.after = <<>> \/ Head(written.after) \in bars \cup {",", "."}
  BY DEF IsNameBehind
<1>2. b \in Nat /\ q = b + 1 /\ IsPiece(t, upTo, 0, b)
  BY <1>0, FormIsFound
<1>3. PICK lo \in 1..Len(upTo) : candidate = Rest(upTo, lo) /\ PlaceInv("judge", upTo, lo)
  BY DEF InPlace
<1> HIDE DEF t, b, q
<1>4. \A k \in 1..(Len(upTo) - 1) : upTo[k] \in dates
  <2>1. \A k \in (0 + 1)..b : upTo[k] \in Range(t)
    BY <1>2, PieceWords
  <2>2. Len(upTo) - 1 = b /\ 0 + 1 = 1
    BY <1>1, <1>2
  <2>3. \A k \in 1..b : upTo[k] \in years \cup {"-"}
    BY <1>0, <2>1, <2>2
  <2> QED
    BY <2>2, <2>3 DEF dates
<1>5. lo = q
  <2>1. Alone("judge", upTo, lo)
    BY <1>3 DEF PlaceInv
  <2> QED
    BY <1>1, <1>4, <2>1 DEF Alone
<1>6. ~cleanCandidateName(Front(candidate))
  <2>1. candidate \in Seq(LineWords) /\ Len(candidate) = 1
    <3>1. candidate = Rest(upTo, q) /\ q \in 1..(Len(upTo) + 1) /\ Len(upTo) - q + 1 = 1
      BY <1>1, <1>2, <1>3, <1>5
    <3> QED
      BY <1>1, <3>1, RestOf
  <2>2. Front(candidate) = <<>>
    <3>1. SubSeq(candidate, 1, 0) = <<>>
      BY SubSeqEmpty
    <3>2. Len(candidate) - 1 = 0
      BY <2>1
    <3> QED
      BY <3>1, <3>2 DEF Front
  <2> QED
    BY <2>2 DEF cleanCandidateName
<1>7. FormLeads
  <2>1. CASE b = 0
    <3>1. q = 1
      BY <1>2, <2>1
    <3> QED
      BY <3>1, LeadsIs DEF q
  <2>2. CASE b # 0
    <3>1. 0 < b /\ b \in 1..q /\ q > 1 /\ q - 1 = b
      BY <1>2, <2>2
    <3>2. t # <<>> /\ Last(t) = upTo[b]
      BY <1>2, <3>1, PieceWords
    <3>3. line[q - 1] = "-"
      BY <1>0, <1>1, <3>1, <3>2
    <3> QED
      BY <3>1, <3>3, LeadsIs DEF q
  <2> QED
    BY <2>1, <2>2
<1>8. AfterForm = written.name
  BY AfterFormIs
<1>9. cleanCandidateName(AfterForm)
  BY <1>0, <1>1, <1>8, NameIsClean
<1> QED
  BY <1>6, <1>7, <1>8, <1>9

(* What is behind the form is a string.                                    *)
LEMMA AfterFormWords ==
  ASSUME written \in FormLine
  PROVE  Head(<<written.form>> \o AfterForm) = written.form
<1> DEFINE q == FormAt
           a == Rest(line, q + 1)
           stops == WordsAt(a, bars \cup {",", "."})
           read  == IF stops = {} THEN a ELSE SubSeq(a, 1, Min(stops) - 1)
           opened == IF read # <<>> /\ Head(read) = "open quote" THEN Tail(read) ELSE read
           form == <<written.form>>
<1>1. line \in Seq(LineWords) /\ q \in 1..Len(line)
  BY WordsOfLine, UpToForm
<1>2. a \in Seq(LineWords)
  <2>1. q + 1 \in 1..(Len(line) + 1)
    BY <1>1
  <2> QED
    BY <1>1, <2>1, RestOf
<1>s. stops # {} => Min(stops) \in 1..Len(a)
  BY <1>2, FirstWord
<1>o. AfterForm = IF opened # <<>> /\ Last(opened) = "close quote" THEN Front(opened) ELSE opened
  BY DEF AfterForm
<1> HIDE DEF a, stops
<1>3. read \in Seq(LineWords)
  <2>1. CASE stops # {}
    <3> DEFINE k == Min(stops) - 1
    <3>1. 1 \in Nat \ {0} /\ k \in Nat /\ 1 <= k + 1 /\ k <= Len(a)
      BY <1>2, <1>s, <2>1
    <3> HIDE DEF k
    <3>2. SubSeq(a, 1, k) \in Seq(LineWords)
      BY <1>2, <3>1, PieceOf
    <3> QED
      BY <2>1, <3>2 DEF k
  <2> QED
    BY <1>2, <2>1
<1> HIDE DEF read
<1>4. opened \in Seq(LineWords)
  BY <1>3, HeadTailProperties
<1> HIDE DEF opened
<1>5. opened # <<>> => Front(opened) \in Seq(LineWords)
  <2>1. SUFFICES ASSUME opened # <<>> PROVE Front(opened) \in Seq(LineWords)
    OBVIOUS
  <2> DEFINE k == Len(opened) - 1
  <2>2. 1 \in Nat \ {0} /\ k \in Nat /\ 1 <= k + 1 /\ k <= Len(opened)
    BY <1>4, <2>1, EmptySeq
  <2> HIDE DEF k
  <2>3. SubSeq(opened, 1, k) \in Seq(LineWords)
    BY <1>4, <2>2, PieceOf
  <2> QED
    BY <2>3 DEF Front, k
<1>6. AfterForm \in Seq(LineWords)
  BY <1>4, <1>5, <1>o
<1>7. form \in Seq(LineWords) /\ Len(form) = 1 /\ form[1] = written.form
  <2>1. written.form \in LineWords
    BY PartsOfLine DEF forms, LineWords, Capitals, capitalWords
  <2> QED
    BY <2>1
<1> DEFINE w == form \o AfterForm
           n == Len(AfterForm)
<1> HIDE DEF form
<1>8. Both(w, form, AfterForm, 1, n)
  <2>1. Both(w, form, AfterForm, Len(form), n)
    BY <1>6, <1>7, BothParts
  <2> QED
    BY <1>7, <2>1
<1> HIDE DEF w, n
<1>9. w \in Seq(LineWords) /\ Len(w) = 1 + n /\ n \in Nat /\ \A i \in 1..1 : w[i] = form[i]
  BY <1>8 DEF Both
<1>10. Len(w) > 0 /\ w[1] = written.form
  BY <1>7, <1>9
<1>11. Head(w) = written.form
  BY <1>9, <1>10, TailIsRest
<1> QED
  BY <1>11 DEF w, form

LEMMA ReadStep ==
  ASSUME written \in FormLine
  PROVE  LET ends == {n \in Leftmost..(FormAt - 1) : line[n] \in bounds \/ SentenceEnds(n)}
         IN  InPlace("copyright", SubSeq(line, IF ends = {} THEN Leftmost ELSE Max(ends) + 1, FormAt), upTo)
<1> DEFINE q == FormAt
           ends == {n \in Leftmost..(q - 1) : line[n] \in bounds \/ SentenceEnds(n)}
           gone == {n \in LeftFrom(upTo)..(Len(upTo) - 1) : LeftEnd(upTo, n)}
           lo == IF gone = {} THEN LeftFrom(upTo) ELSE Max(gone) + 1
<1>0. q \in 1..Len(line) /\ line \in Seq(LineWords)
  BY UpToForm, WordsOfLine
<1>1. /\ q \in Nat /\ q >= 1 /\ q <= Len(line) /\ line \in Seq(LineWords) /\ Len(line) \in Nat
      /\ Ends(upTo) /\ upTo \in Seq(LineWords) /\ Len(upTo) = q
      /\ \A n \in 1..q : upTo[n] = line[n]
  <2>1. q \in Nat /\ q >= 1 /\ q <= Len(line) /\ line \in Seq(LineWords) /\ Len(line) \in Nat
    BY <1>0, LenProperties
  <2> QED
    BY <2>1, UpToForm
<1>2. lo \in 1..Len(upTo) /\ PlaceInv("copyright", upTo, lo)
  BY <1>1, LeftPass
<1>3. LeftFrom(upTo) = Leftmost
  BY <1>1 DEF LeftFrom, Leftmost
<1>w. Window \in Nat /\ Leftmost = IF q > Window THEN q - Window ELSE 1
  BY LinesAssumption DEF Leftmost
<1> HIDE DEF q, lo
<1>4. ASSUME NEW n \in Leftmost..(q - 1) PROVE (line[n] \in bounds \/ SentenceEnds(n)) <=> LeftEnd(upTo, n)
  <2>1. n \in 1..q /\ n + 1 \in 1..q /\ (n > 1 => n - 1 \in 1..q)
    BY <1>1, <1>w
  <2>2. upTo[n] = line[n] /\ upTo[n + 1] = line[n + 1] /\ (n > 1 => upTo[n - 1] = line[n - 1])
    BY <1>1, <2>1
  <2> QED
    BY <2>2 DEF LeftEnd, SentenceEnds
<1>5. ends = gone
  BY <1>1, <1>3, <1>4
<1>6. SubSeq(line, lo, q) = Rest(upTo, lo)
  <2> DEFINE v == SubSeq(line, lo, q)
             w == Rest(upTo, lo)
  <2>1. lo \in Nat \ {0} /\ lo <= q + 1 /\ lo \in 1..(Len(upTo) + 1) /\ lo >= 1
    BY <1>1, <1>2
  <2>2. v \in Seq(LineWords) /\ Len(v) = q - lo + 1 /\ \A n \in 1..(q - lo + 1) : v[n] = line[lo + n - 1]
    BY <1>1, <2>1, PieceOf
  <2>3. w \in Seq(LineWords) /\ Len(w) = q - lo + 1 /\ \A n \in 1..(q - lo + 1) : w[n] = upTo[lo + n - 1]
    <3>1. upTo \in Seq(LineWords) /\ Len(upTo) = q
      BY <1>1
    <3> QED
      BY <2>1, <3>1, RestOf
  <2> HIDE DEF v, w
  <2>4. ASSUME NEW n \in 1..(q - lo + 1) PROVE v[n] = w[n]
    <3>1. lo + n - 1 \in 1..q
      BY <1>1, <2>1
    <3> QED
      BY <1>1, <2>2, <2>3, <3>1
  <2>5. Len(v) = Len(w) /\ \A n \in 1..Len(v) : v[n] = w[n]
    BY <2>2, <2>3, <2>4
  <2>6. v = w
    BY <2>2, <2>3, <2>5, SeqEqual
  <2> QED
    BY <2>6 DEF v, w
<1>7. InPlace("copyright", SubSeq(line, lo, q), upTo)
  BY <1>2, <1>6 DEF InPlace
<1>8. lo = IF ends = {} THEN Leftmost ELSE Max(ends) + 1
  BY <1>3, <1>5 DEF lo
<1> QED
  BY <1>7, <1>8 DEF q

-----------------------------------------------------------------------------
(* The invariant                                                           *)

passes == {"copyright", "leftover", "conjunction", "person", "trading", "award", "label",
           "conjunction again", "judge"}

LineInv ==
  /\ written \in FormLine
  /\ step \in passes => InPlace(step, candidate, upTo)
  /\ NameOnItsLine

LEMMA Continues ==
  ASSUME LineInv, UNCHANGED written, step' \in passes, InPlace(step', candidate', upTo)
  PROVE  LineInv'
<1>1. upTo' = upTo
  BY DEF upTo, line, FormAt
<1>2. InPlace(step', candidate', upTo')
  BY <1>1
<1>3. step' \notin {"found", "none"}
  BY DEF passes
<1>4. NameOnItsLine'
  BY <1>3 DEF NameOnItsLine, NameWhole, NoneJoined
<1> QED
  BY <1>2, <1>4 DEF LineInv

(* The words of the candidate, as the step before the last leaves it.      *)
LEMMA Judged ==
  ASSUME LineInv, step = "judge"
  PROVE  written \in FormLine /\ InPlace("judge", candidate, upTo) /\ Ends(upTo)
BY UpToForm DEF LineInv, passes

IsNameBefore ==
  /\ IsOwnName(written.name) /\ FormIsItself /\ ~written.formFirst
  /\ Len(written.before \o written.name) <= Window /\ Introduces(written.before)

IsNameInSight ==
  IsOwnName(written.name) /\ FormIsItself /\ ~written.formFirst /\ Len(written.name) <= Window

(* Before a name stands a name's word, not a dash.                         *)
LEMMA NameDoesNotLead ==
  ASSUME written \in FormLine, IsNameInSight
  PROVE  ~FormLeads
<1> DEFINE name == written.name
           b == Len(written.before)
           n == Len(name)
           q == FormAt
<1>0. IsOwnName(name) /\ FormIsItself /\ ~written.formFirst /\ n <= Window
  BY DEF IsNameInSight
<1>1. name \in Seq(LineWords) /\ \A k \in 1..q : upTo[k] = line[k]
  BY PartsOfLine, UpToForm
<1>2. b \in Nat /\ n \in Nat /\ q = b + n + 1 /\ IsPiece(name, upTo, b, b + n)
  BY <1>0, FormIsFound
<1>3. n > 0 /\ Last(name) \in Capital
  BY <1>0, <1>1, NameIs
<1> HIDE DEF name, b, n, q
<1>4. q > 1 /\ q - 1 = b + n /\ b < b + n /\ q - 1 \in 1..q /\ Window > 0
  BY <1>0, <1>2, <1>3, LinesAssumption
<1>5. line[q - 1] = Last(name)
  <2>1. Last(name) = upTo[b + n]
    BY <1>2, <1>4, PieceWords
  <2> QED
    BY <1>1, <1>4, <2>1
<1>6. line[q - 1] # "-"
  <2>1. "-" \notin Capital
    BY OwnWord DEF lineSigns
  <2> QED
    BY <1>3, <1>5, <2>1
<1> QED
  BY <1>4, <1>6, LeadsIs DEF q

LEMMA SameLine ==
  ASSUME written' = written
  PROVE  /\ IsNameBefore' <=> IsNameBefore
         /\ IsNameBehind' <=> IsNameBehind
         /\ IsNameInSight' <=> IsNameInSight
<1>1. Introduces(written.before)' <=> Introduces(written.before)
  BY DEF Introduces
<1>2. FormIsItself' <=> FormIsItself
  BY DEF FormIsItself
<1>3. IsOwnName(written.name)' <=> IsOwnName(written.name)
  BY DEF IsOwnName
<1>4. IsNameBefore' <=> IsNameBefore
  BY <1>1, <1>2, <1>3 DEF IsNameBefore
<1>5. IsNameBehind' <=> IsNameBehind
  BY <1>2, <1>3 DEF IsNameBehind
<1>6. IsNameInSight' <=> IsNameInSight
  BY <1>2, <1>3 DEF IsNameInSight
<1> QED
  BY <1>4, <1>5, <1>6

LEMMA AcceptKeeps ==
  ASSUME LineInv, Accept
  PROVE  LineInv'
<1>1. /\ step = "judge" /\ step' = "found" /\ candidate' = candidate /\ written' = written
      /\ cleanCandidateName(Front(candidate))
  BY DEF Accept, Pass
<1>2. written \in FormLine /\ InPlace("judge", candidate, upTo) /\ Ends(upTo)
  BY <1>1, Judged
<1>3. NameFound'
  <2>1. IsNameBefore => candidate = Append(written.name, written.form)
    BY <1>2, JudgedName DEF IsNameBefore
  <2>2. IsNameBefore' <=> IsNameBefore
    BY <1>1, SameLine
  <2>3. IsNameBefore' => step' = "found" /\ candidate' = Append(written'.name, written'.form)
    BY <1>1, <2>1, <2>2
  <2> QED
    BY <2>3 DEF NameFound, IsNameBefore
<1>4. NameFoundBehind'
  <2>1. ~IsNameBehind
    BY <1>1, <1>2, JudgedBehind
  <2>2. ~IsNameBehind'
    BY <1>1, <2>1, SameLine
  <2> QED
    BY <2>2 DEF NameFoundBehind, IsNameBehind
<1>5. NameWhole'
  <2>1. IsNameInSight => IsSuffix(Append(written.name, written.form), candidate)
    BY <1>2, JudgedWhole DEF IsNameInSight
  <2>2. IsNameInSight' <=> IsNameInSight
    BY <1>1, SameLine
  <2>3. IsNameInSight' => IsSuffix(Append(written'.name, written'.form), candidate')
    BY <1>1, <2>1, <2>2
  <2> QED
    BY <2>3 DEF NameWhole, IsNameInSight
<1>6. NoneJoined'
  <2>1. LET Remaining(conj) == {n \in WordsAt(candidate, {conj}) : n > 1 /\ Spaced(candidate, n)}
        IN  /\ Remaining("and") = {}
            /\ Remaining("und") # {} => candidate[Max(Remaining("und")) - 1] \in hyphens
    BY <1>2, JudgedApart
  <2> QED
    BY <1>1, <2>1, Zenon DEF NoneJoined
<1>7. NameOnItsLine'
  BY <1>3, <1>4, <1>5, <1>6 DEF NameOnItsLine
<1> QED
  BY <1>1, <1>2, <1>7 DEF LineInv, passes

LEMMA AcceptAfterFormKeeps ==
  ASSUME LineInv, AcceptAfterForm
  PROVE  LineInv'
<1>1. /\ step = "judge" /\ step' = "found" /\ candidate' = <<written.form>> \o AfterForm
      /\ written' = written /\ ~cleanCandidateName(Front(candidate)) /\ FormLeads
  BY DEF AcceptAfterForm, Pass
<1>2. written \in FormLine /\ InPlace("judge", candidate, upTo) /\ Ends(upTo)
  BY <1>1, Judged
<1>3. NameFound'
  <2>1. ~IsNameBefore
    BY <1>1, <1>2, JudgedName DEF IsNameBefore
  <2>2. ~IsNameBefore'
    BY <1>1, <2>1, SameLine
  <2> QED
    BY <2>2 DEF NameFound, IsNameBefore
<1>4. NameFoundBehind'
  <2>1. IsNameBehind => candidate' = <<written.form>> \o written.name
    BY <1>1, <1>2, JudgedBehind
  <2>2. IsNameBehind' <=> IsNameBehind
    BY <1>1, SameLine
  <2>3. IsNameBehind' => step' = "found" /\ candidate' = <<written'.form>> \o written'.name
    BY <1>1, <2>1, <2>2
  <2> QED
    BY <2>3 DEF NameFoundBehind, IsNameBehind
<1>5. NameWhole'
  <2>1. ~IsNameInSight
    BY <1>1, <1>2, NameDoesNotLead
  <2>2. ~IsNameInSight'
    BY <1>1, <2>1, SameLine
  <2> QED
    BY <2>2 DEF NameWhole, IsNameInSight
<1>6. NoneJoined'
  <2>1. Head(candidate') = written'.form
    <3>1. Head(<<written.form>> \o AfterForm) = written.form
      BY <1>2, AfterFormWords
    <3> QED
      BY <1>1, <3>1
  <2> QED
    BY <2>1 DEF NoneJoined
<1>7. NameOnItsLine'
  BY <1>3, <1>4, <1>5, <1>6 DEF NameOnItsLine
<1> QED
  BY <1>1, <1>2, <1>7 DEF LineInv, passes

LEMMA RefuseKeeps ==
  ASSUME LineInv, Refuse
  PROVE  LineInv'
<1>1. /\ step = "judge" /\ step' = "none" /\ written' = written
      /\ ~cleanCandidateName(Front(candidate)) /\ (FormLeads => ~cleanCandidateName(AfterForm))
  BY DEF Refuse, Pass
<1>2. written \in FormLine /\ InPlace("judge", candidate, upTo) /\ Ends(upTo)
  BY <1>1, Judged
<1>3. NameFound'
  <2>1. ~IsNameBefore
    BY <1>1, <1>2, JudgedName DEF IsNameBefore
  <2>2. ~IsNameBefore'
    BY <1>1, <2>1, SameLine
  <2> QED
    BY <2>2 DEF NameFound, IsNameBefore
<1>4. NameFoundBehind'
  <2>1. ~IsNameBehind
    BY <1>1, <1>2, JudgedBehind
  <2>2. ~IsNameBehind'
    BY <1>1, <2>1, SameLine
  <2> QED
    BY <2>2 DEF NameFoundBehind, IsNameBehind
<1>5. NameWhole' /\ NoneJoined'
  BY <1>1 DEF NameWhole, NoneJoined
<1>7. NameOnItsLine'
  BY <1>3, <1>4, <1>5 DEF NameOnItsLine
<1> QED
  BY <1>1, <1>2, <1>7 DEF LineInv, passes

-----------------------------------------------------------------------------
(* A company named on a line is found under its whole name, whatever       *)
(* introduces it; and no part of the name is lost, nor another company's   *)
(* added (imprint_name.go 680-697, 1240-1252).                             *)
THEOREM NameIsOnItsLine == LineSpec => []NameOnItsLine
<1>1. LineInit => LineInv
  <2>1. SUFFICES ASSUME LineInit PROVE LineInv
    OBVIOUS
  <2>2. written \in FormLine /\ step \notin passes /\ step \notin {"found", "none"}
    BY <2>1, LinesAssumption DEF LineInit, passes
  <2>3. NameOnItsLine
    BY <2>2 DEF NameOnItsLine, NameWhole, NoneJoined
  <2> QED
    BY <2>2, <2>3 DEF LineInv
<1>2. LineInv /\ [LineNext]_lineVars => LineInv'
  <2> SUFFICES ASSUME LineInv, [LineNext]_lineVars PROVE LineInv'
    OBVIOUS
  <2>0. written \in FormLine /\ Ends(upTo) /\ (step \in passes => InPlace(step, candidate, upTo))
    BY UpToForm DEF LineInv
  <2>1. ASSUME ReadLeft PROVE LineInv'
    <3>1. UNCHANGED written /\ step' = "copyright" /\ step' \in passes
      BY <2>1, Zenon DEF ReadLeft, Pass, passes
    <3>2. InPlace("copyright", candidate', upTo)
      <4>1. candidate' = LET ends == {n \in Leftmost..(FormAt - 1) : line[n] \in bounds \/ SentenceEnds(n)}
                         IN  SubSeq(line, IF ends = {} THEN Leftmost ELSE Max(ends) + 1, FormAt)
        BY <2>1, Zenon DEF ReadLeft, Pass
      <4> QED
        BY <2>0, <4>1, ReadStep, Zenon
    <3> QED
      BY <3>1, <3>2, Continues
  <2>2. ASSUME Copyright PROVE LineInv'
    <3>1. UNCHANGED written /\ step = "copyright" /\ step' = "leftover" /\ step \in passes /\ step' \in passes
            /\ candidate' = stripCopyrightPrefix(candidate)
      BY <2>2 DEF Copyright, Pass, passes
    <3>2. InPlace("leftover", candidate', upTo)
      BY <2>0, <3>1, CopyrightStep
    <3> QED
      BY <3>1, <3>2, Continues
  <2>3. ASSUME Leftover PROVE LineInv'
    <3>1. /\ UNCHANGED written /\ step = "leftover" /\ step' = "conjunction" /\ step \in passes /\ step' \in passes
          /\ candidate' = Rest(candidate, Min(OtherThan(candidate, years \cup quotes \cup {"(", "copyright sign"})))
      BY <2>3 DEF Leftover, Pass, passes
    <3>2. InPlace("conjunction", candidate', upTo)
      BY <2>0, <3>1, LeftoverStep
    <3> QED
      BY <3>1, <3>2, Continues
  <2>4. ASSUME Conjunction PROVE LineInv'
    <3>1. UNCHANGED written /\ step = "conjunction" /\ step' = "person" /\ step \in passes /\ step' \in passes
            /\ candidate' = trimAtConjunction(candidate)
      BY <2>4 DEF Conjunction, Pass, passes
    <3>2. InPlace("person", candidate', upTo)
      BY <2>0, <3>1, ConjunctionStep
    <3> QED
      BY <3>1, <3>2, Continues
  <2>5. ASSUME PersonRole PROVE LineInv'
    <3>1. UNCHANGED written /\ step = "person" /\ step' = "trading" /\ step \in passes /\ step' \in passes
            /\ candidate' = stripPersonRolePrefix(candidate)
      BY <2>5 DEF PersonRole, Pass, passes
    <3>2. InPlace("trading", candidate', upTo)
      BY <2>0, <3>1, RoleStep
    <3> QED
      BY <3>1, <3>2, Continues
  <2>6. ASSUME TradingName PROVE LineInv'
    <3>1. /\ UNCHANGED written /\ step = "trading" /\ step' = "award"
          /\ candidate' = LET at == {n \in WordsAt(candidate, tradingNames) : candidate[n + 1] \notin closers}
                          IN  IF at = {} THEN candidate ELSE Rest(candidate, Min(at) + 1)
      BY <2>6, Zenon DEF TradingName, Pass
    <3>2. step \in passes /\ step' \in passes
      BY <3>1 DEF passes
    <3>3. InPlace("trading", candidate, upTo)
      BY <2>0, <3>1, <3>2, Zenon
    <3>4. InPlace("award", candidate', upTo)
      BY <2>0, <3>1, <3>3, TradingStep, Zenon
    <3> QED
      BY <3>1, <3>2, <3>4, Continues
  <2>7. ASSUME Award PROVE LineInv'
    <3>1. /\ UNCHANGED written /\ step = "award" /\ step' = "label"
          /\ candidate' = LET colons == {n \in WordsAt(candidate, {":"}) : candidate[n + 1] \notin closers}
                          IN  IF Head(candidate) = "Best" /\ Spaced(candidate, 1) /\ colons # {}
                              THEN Rest(candidate, Min(colons) + 1) ELSE candidate
      BY <2>7, Zenon DEF Award, Pass
    <3>2. step \in passes /\ step' \in passes
      BY <3>1 DEF passes
    <3>3. InPlace("award", candidate, upTo)
      BY <2>0, <3>1, <3>2, Zenon
    <3>4. InPlace("label", candidate', upTo)
      BY <2>0, <3>1, <3>3, AwardStep, Zenon
    <3> QED
      BY <3>1, <3>2, <3>4, Continues
  <2>8. ASSUME LabelOff PROVE LineInv'
    <3>1. UNCHANGED written /\ step = "label" /\ step' = "conjunction again" /\ step \in passes /\ step' \in passes
            /\ candidate' = stripLabelPrefix(candidate)
      BY <2>8 DEF LabelOff, Pass, passes
    <3>2. InPlace("conjunction again", candidate', upTo)
      BY <2>0, <3>1, LabelStep
    <3> QED
      BY <3>1, <3>2, Continues
  <2>9. ASSUME ConjunctionAgain PROVE LineInv'
    <3>1. UNCHANGED written /\ step = "conjunction again" /\ step' = "judge" /\ step \in passes /\ step' \in passes
            /\ candidate' = trimAtConjunction(candidate)
      BY <2>9 DEF ConjunctionAgain, Pass, passes
    <3>2. InPlace("judge", candidate', upTo)
      BY <2>0, <3>1, ConjunctionAgainStep
    <3> QED
      BY <3>1, <3>2, Continues
  <2>10. ASSUME Accept PROVE LineInv'
    BY <2>10, AcceptKeeps
  <2>11. ASSUME AcceptAfterForm PROVE LineInv'
    BY <2>11, AcceptAfterFormKeeps
  <2>12. ASSUME Refuse PROVE LineInv'
    BY <2>12, RefuseKeeps
  <2>13. ASSUME UNCHANGED lineVars PROVE LineInv'
    <3>1. written' = written /\ step' = step /\ candidate' = candidate
      BY <2>13 DEF lineVars
    <3>2. upTo' = upTo
      BY <3>1 DEF upTo, line, FormAt
    <3>3. NameFound' <=> NameFound
      <4>1. NameFound <=> (IsNameBefore => step = "found" /\ candidate = Append(written.name, written.form))
        BY DEF NameFound, IsNameBefore
      <4>2. NameFound' <=> (IsNameBefore' => step' = "found" /\ candidate' = Append(written'.name, written'.form))
        BY DEF NameFound, IsNameBefore
      <4> QED
        BY <3>1, <4>1, <4>2, SameLine
    <3>4. NameFoundBehind' <=> NameFoundBehind
      BY <3>1 DEF NameFoundBehind, FormIsItself
    <3>5. (NameWhole' <=> NameWhole) /\ (NoneJoined' <=> NoneJoined)
      BY <3>1 DEF NameWhole, NoneJoined, FormIsItself
    <3>6. NameOnItsLine' <=> NameOnItsLine
      BY <3>1, <3>3, <3>4, <3>5 DEF NameOnItsLine
    <3>7. InPlace(step, candidate, upTo)' <=> InPlace(step, candidate, upTo)
      BY <3>1, <3>2 DEF InPlace
    <3> QED
      BY <3>1, <3>2, <3>6, <3>7 DEF LineInv
  <2>14. LineReturned => UNCHANGED lineVars
    BY DEF LineReturned
  <2> QED
    BY <2>1, <2>2, <2>3, <2>4, <2>5, <2>6, <2>7, <2>8, <2>9, <2>10, <2>11, <2>12, <2>13, <2>14 DEF LineNext
<1>3. LineInv => NameOnItsLine
  BY DEF LineInv
<1> QED
  BY <1>1, <1>2, <1>3, PTL DEF LineSpec

=============================================================================
