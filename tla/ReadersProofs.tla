---------------------------- MODULE ReadersProofs ----------------------------
(***************************************************************************)
(* What is read of a page, for any page: its text, its anchors, and which  *)
(* of its links are kept.                                                  *)
(*                                                                         *)
(* visibleText (fastre.go), under any bound: what the pass that jumps      *)
(* keeps is what the reader of one token at a time sees, with one space    *)
(* wherever something was left out, and never more than the bound.         *)
(*                                                                         *)
(* fastRE: in every match of an expression stands one of the literals      *)
(* found for it, however its operators are nested.                         *)
(*                                                                         *)
(* linkScan, for any pattern table and any hosts: which link it keeps of   *)
(* several that name one type, and when it follows one to another site.    *)
(*                                                                         *)
(* pathMatcher.match, for any tokens and any path: looking the segments up *)
(* in a set gives the answer of the expressions it replaces, where letters *)
(* fold as they are lowered.                                               *)
(*                                                                         *)
(* scanAnchors: the pass over the page reports, one after another, what    *)
(* the regular expression that defines an anchor would find, and on a page *)
(* whose quoted values close inside their tag it reports all of it.        *)
(*                                                                         *)
(* The readers, the loops over the branches of a node and what is found    *)
(* for the nodes of a tree are recursive functions.  Their equations, and  *)
(* what holds all along them, are shown with the least place at which it   *)
(* would fail.                                                             *)
(***************************************************************************)
EXTENDS LinkDiscovery, PathMatcher, AnchorScan, VisibleText, Prefilter, WellFoundedInduction, TLAPS
LOCAL INSTANCE FiniteSetsExt

-----------------------------------------------------------------------------
(* The least element of a set of numbers                                   *)

IsLeast(m, S) == m \in S /\ \A n \in S : m <= n

LEMMA LeastNumber ==
  ASSUME NEW S \in SUBSET Nat, S # {}
  PROVE  \E m : IsLeast(m, S)
<1> DEFINE R == {ss \in Nat \X Nat : ss[1] < ss[2]}
<1>1. R = OpToRel(<, Nat)
  BY DEF OpToRel
<1>2. IsWellFoundedOn(R, Nat)
  BY <1>1, NatLessThanWellFounded
<1> HIDE DEF R
<1>3. PICK m \in S : \A n \in S : ~(<<n, m>> \in R)
  BY <1>2, WFMin
<1>4. ASSUME NEW n \in S PROVE m <= n
  <2>1. m \in Nat /\ n \in Nat
    OBVIOUS
  <2>2. n < m => <<n, m>> \in R
    BY <2>1 DEF R
  <2> QED
    BY <1>3, <2>1, <2>2
<1> QED
  BY <1>4 DEF IsLeast

LEMMA MinIsLeast ==
  ASSUME NEW S \in SUBSET Nat, S # {}
  PROVE  IsLeast(Min(S), S)
<1>1. \E m \in S : \A n \in S : m <= n
  BY LeastNumber DEF IsLeast
<1> QED
  BY <1>1, Zenon DEF Min, IsLeast

(* It is what Min returns.                                                 *)
LEMMA LeastIsMin ==
  ASSUME NEW S \in SUBSET Nat, NEW m, IsLeast(m, S)
  PROVE  Min(S) = m
<1>1. IsLeast(Min(S), S)
  BY Zenon DEF Min, IsLeast
<1>2. m \in Nat /\ Min(S) \in Nat /\ m <= Min(S) /\ Min(S) <= m
  BY <1>1 DEF IsLeast
<1> QED
  BY <1>2

-----------------------------------------------------------------------------
(* visibleText                                                             *)

TextTypeOK ==
  /\ text \in Seq(Tokens) /\ limit \in Nat
  /\ i \in 1..(Len(text) + 1)
  /\ out \in Seq(Nat)
  /\ lastSpace \in BOOLEAN /\ done \in BOOLEAN

(* lastSpace is what its name says, and a word written last is the one     *)
(* just passed.                                                            *)
SpaceInv ==
  /\ OneSpaceBetween
  /\ lastSpace <=> (out = <<>> \/ out[Len(out)] = 0)
  /\ ~lastSpace => out[Len(out)] = i - 1

(* The pass stands where the reader is outside of everything, has written  *)
(* all that was to be seen so far, and stops where nothing more is.        *)
SeenInv ==
  Regular(text) =>
    /\ ~done /\ i <= Len(text) => StateAt(text)[i] = Outside
    /\ Written = {n \in Seen(text) : n < i}
    /\ done /\ limit = 0 => \A n \in Seen(text) : n < i

-----------------------------------------------------------------------------
(* FirstOf finds the first token of a set, or 0 when there is none.        *)
LEMMA FirstOfFinds ==
  ASSUME text \in Seq(Tokens), NEW first \in Nat \ {0}, NEW set
  PROVE  \/ FirstOf(first, set) = 0 /\ \A n \in first..Len(text) : text[n] \notin set
         \/ /\ FirstOf(first, set) \in first..Len(text) /\ text[FirstOf(first, set)] \in set
            /\ \A n \in first..(FirstOf(first, set) - 1) : text[n] \notin set
<1> DEFINE S == {n \in first..Len(text) : text[n] \in set}
<1>1. Len(text) \in Nat
  OBVIOUS
<1>2. CASE S = {}
  BY <1>2 DEF FirstOf
<1>3. CASE S # {}
  <2>1. S \in SUBSET Nat
    BY <1>1
  <2>2. FirstOf(first, set) = Min(S)
    BY <1>3, Zenon DEF FirstOf
  <2>3. IsLeast(Min(S), S)
    BY <1>3, <2>1, MinIsLeast
  <2> DEFINE m == Min(S)
  <2> HIDE DEF m
  <2>4. m \in first..Len(text) /\ text[m] \in set
    BY <2>3 DEF IsLeast, m
  <2>5. ASSUME NEW n \in first..(m - 1), text[n] \in set PROVE FALSE
    <3>1. n \in S /\ n < m
      BY <1>1, <2>4, <2>5
    <3>2. m <= n
      BY <2>3, <3>1 DEF IsLeast, m
    <3> QED
      BY <1>1, <2>4, <3>1, <3>2
  <2> QED
    BY <2>2, <2>4, <2>5 DEF m
<1> QED
  BY <1>2, <1>3

-----------------------------------------------------------------------------
(* The reader                                                              *)

(* What is asked of the states of a reader of the first k tokens.          *)
Reads(s, t, k) ==
  s = [n \in 1..(k + 1) |-> IF n = 1 THEN Outside ELSE After(s[n - 1], t, n - 1)]

LEMMA ReadsOneMore ==
  ASSUME NEW t, NEW k \in Nat, NEW s, Reads(s, t, k)
  PROVE  \E r : Reads(r, t, k + 1)
<1> DEFINE r == [n \in 1..(k + 2) |-> IF n = k + 2 THEN After(s[k + 1], t, k + 1) ELSE s[n]]
<1>1. ASSUME NEW n \in 1..(k + 2)
      PROVE  r[n] = IF n = 1 THEN Outside ELSE After(r[n - 1], t, n - 1)
  <2>1. CASE n = k + 2
    <3>1. n # 1 /\ n - 1 = k + 1 /\ n - 1 \in 1..(k + 2) /\ n - 1 # k + 2
      BY <2>1
    <3>2. r[n] = After(s[k + 1], t, k + 1) /\ r[n - 1] = s[k + 1]
      BY <2>1, <3>1
    <3> QED
      BY <3>1, <3>2
  <2>2. CASE n # k + 2
    <3>1. n \in 1..(k + 1)
      BY <2>2
    <3>2. r[n] = s[n]
      BY <2>2
    <3>3. s[n] = IF n = 1 THEN Outside ELSE After(s[n - 1], t, n - 1)
      BY <3>1, Zenon DEF Reads
    <3>4. n # 1 => r[n - 1] = s[n - 1]
      BY <3>1
    <3> QED
      BY <3>2, <3>3, <3>4
  <2> QED
    BY <2>1, <2>2
<1>2. r = [n \in 1..(k + 2) |-> r[n]]
  OBVIOUS
<1> HIDE DEF r
<1>3. r = [n \in 1..(k + 2) |-> IF n = 1 THEN Outside ELSE After(r[n - 1], t, n - 1)]
  BY <1>1, <1>2
<1>4. (k + 1) + 1 = k + 2
  OBVIOUS
<1> QED
  BY <1>3, <1>4 DEF Reads

LEMMA ReaderExists ==
  ASSUME NEW t, NEW k \in Nat
  PROVE  \E s : Reads(s, t, k)
<1> DEFINE bad == {j \in Nat : ~\E s : Reads(s, t, j)}
<1> SUFFICES ASSUME bad # {} PROVE FALSE
  OBVIOUS
<1>1. PICK m : IsLeast(m, bad)
  BY LeastNumber
<1>2. m \in Nat /\ ~\E s : Reads(s, t, m)
  BY <1>1 DEF IsLeast
<1>3. CASE m = 0
  <2> DEFINE s == [n \in 1..1 |-> Outside]
  <2>1. s = [n \in 1..1 |-> IF n = 1 THEN Outside ELSE After(s[n - 1], t, n - 1)]
    <3>1. \A n \in 1..1 : n = 1
      OBVIOUS
    <3> QED
      BY <3>1
  <2> HIDE DEF s
  <2>2. Reads(s, t, 0)
    BY <2>1 DEF Reads
  <2> QED
    BY <1>2, <1>3, <2>2
<1>4. CASE m # 0
  <2>1. m - 1 \in Nat /\ (m - 1) + 1 = m /\ ~(m <= m - 1)
    BY <1>2, <1>4
  <2>2. m - 1 \notin bad
    BY <1>1, <2>1 DEF IsLeast
  <2>3. PICK s : Reads(s, t, m - 1)
    BY <2>1, <2>2
  <2>4. \E r : Reads(r, t, (m - 1) + 1)
    BY <2>1, <2>3, ReadsOneMore
  <2> QED
    BY <1>2, <2>1, <2>4
<1> QED
  BY <1>3, <1>4

(* The equations of the reader.                                            *)
LEMMA ReaderSteps ==
  ASSUME NEW t \in Seq(Tokens)
  PROVE  /\ StateAt(t)[1] = Outside
         /\ \A n \in 1..Len(t) : StateAt(t)[n + 1] = After(StateAt(t)[n], t, n)
<1>1. Len(t) \in Nat
  OBVIOUS
<1>2. StateAt(t) = CHOOSE s : Reads(s, t, Len(t))
  BY Zenon DEF StateAt, Reads
<1>3. Reads(StateAt(t), t, Len(t))
  BY <1>1, <1>2, ReaderExists, Zenon
<1> DEFINE s == StateAt(t)
<1> HIDE DEF s
<1>4. \A n \in 1..(Len(t) + 1) :
        s[n] = IF n = 1 THEN Outside ELSE After(s[n - 1], t, n - 1)
  BY <1>3, Zenon DEF Reads, s
<1>5. s[1] = Outside
  BY <1>1, <1>4
<1>6. ASSUME NEW n \in 1..Len(t) PROVE s[n + 1] = After(s[n], t, n)
  <2>1. n + 1 \in 1..(Len(t) + 1) /\ n + 1 # 1 /\ (n + 1) - 1 = n
    BY <1>1
  <2> QED
    BY <1>4, <2>1
<1> QED
  BY <1>5, <1>6 DEF s

(* Over a stretch that no token ends the reader's state stays the same.    *)
LEMMA Stretch ==
  ASSUME NEW s, NEW a \in Nat, NEW b \in Nat, NEW q, s[a] = q,
         \A n \in a..(b - 1) : s[n] = q => s[n + 1] = q
  PROVE  \A n \in a..b : s[n] = q
<1> DEFINE bad == {n \in a..b : s[n] # q}
<1> SUFFICES ASSUME bad # {} PROVE FALSE
  OBVIOUS
<1>1. bad \in SUBSET Nat
  OBVIOUS
<1>2. PICK m : IsLeast(m, bad)
  BY <1>1, LeastNumber
<1>3. m \in a..b /\ s[m] # q /\ m # a
  BY <1>2 DEF IsLeast
<1>4. m - 1 \in a..(b - 1) /\ m - 1 \in a..b /\ (m - 1) + 1 = m /\ ~(m <= m - 1)
  BY <1>3
<1>5. m - 1 \notin bad
  BY <1>2, <1>4 DEF IsLeast
<1>6. s[m - 1] = q
  BY <1>4, <1>5
<1> QED
  BY <1>3, <1>4, <1>6

-----------------------------------------------------------------------------
(* Types, spaces and the bound                                             *)

(* Where the pass goes behind an element that ends at n.                   *)
LEMMA FoundIsAhead ==
  ASSUME TextTypeOK, NEW first \in i..(Len(text) + 1), NEW set
  PROVE  FirstOf(first, set) \in {0} \cup (first..Len(text))
<1>1. first \in Nat \ {0} /\ text \in Seq(Tokens)
  BY DEF TextTypeOK
<1> QED
  BY <1>1, FirstOfFinds

(* Every step writes the word it stands at, or goes behind something with  *)
(* a space, or writes nothing.                                             *)
LEMMA StepForms ==
  ASSUME TextTypeOK, [VisibleNext]_visibleVars
  PROVE  \/ UNCHANGED <<text, limit, i, out, lastSpace>> /\ done' \in BOOLEAN
         \/ Reading /\ Write(i) /\ i' = i + 1 /\ Fixed /\ UNCHANGED done
         \/ /\ Reading /\ Space /\ Fixed /\ UNCHANGED done
            /\ \E n \in i..Len(text) : i' = n + 1
<1>1. Len(text) \in Nat /\ i \in Nat
      /\ (Reading => i \in i..Len(text) /\ i + 1 \in i..(Len(text) + 1))
  <2>1. Len(text) \in Nat /\ i \in Nat
    BY DEF TextTypeOK
  <2> QED
    BY <2>1 DEF Reading
<1>2. done' \in BOOLEAN \/ ~UNCHANGED done
  BY DEF TextTypeOK
<1>3. ASSUME Reading, NEW n \in {0} \cup (i..Len(text)), Behind(n)
      PROVE  \/ UNCHANGED <<text, limit, i, out, lastSpace>> /\ done' \in BOOLEAN
             \/ /\ Reading /\ Space /\ Fixed /\ UNCHANGED done
                /\ \E m \in i..Len(text) : i' = m + 1
  BY <1>3 DEF Behind, Stop
<1>4. CASE Finish
  BY <1>4 DEF Finish, Stop
<1>5. CASE PlainText
  BY <1>1, <1>5 DEF PlainText
<1>6. CASE Comment
  <2>1. FirstOf(i + 1, {"-->"}) \in {0} \cup (i..Len(text))
    BY <1>1, <1>6, FoundIsAhead DEF Comment
  <2> QED
    BY <1>3, <1>6, <2>1 DEF Comment
<1>7. CASE LoneLess
  BY <1>7 DEF LoneLess, Stop
<1>8. CASE InvisibleElement
  <2> DEFINE close == FirstOf(i + 1, {CloseOf[text[i]]})
             gt    == FirstOf(close, {"gt"})
             n     == IF close = 0 \/ gt = 0 THEN Len(text) ELSE gt
  <2>1. close \in {0} \cup ((i + 1)..Len(text))
    BY <1>1, <1>8, FoundIsAhead DEF InvisibleElement
  <2> HIDE DEF close
  <2>2. close # 0 => gt \in {0} \cup (close..Len(text))
    BY <1>1, <2>1, FoundIsAhead
  <2>3. Reading /\ Behind(n)
    BY <1>8 DEF InvisibleElement, close
  <2> HIDE DEF gt
  <2>4. n \in {0} \cup (i..Len(text))
    BY <1>1, <2>1, <2>2, <2>3
  <2> QED
    BY <1>3, <2>3, <2>4
<1>9. CASE Tag
  <2>1. FirstOf(i, {"gt"}) \in {0} \cup (i..Len(text))
    BY <1>1, <1>9, FoundIsAhead DEF Tag
  <2> QED
    BY <1>3, <1>9, <2>1 DEF Tag
<1>10. CASE UNCHANGED visibleVars
  BY <1>2, <1>10 DEF visibleVars
<1> QED
  BY <1>4, <1>5, <1>6, <1>7, <1>8, <1>9, <1>10 DEF VisibleNext, Returned

LEMMA TextTypeStep ==
  ASSUME TextTypeOK, [VisibleNext]_visibleVars
  PROVE  TextTypeOK'
<1>1. CASE UNCHANGED <<text, limit, i, out, lastSpace>> /\ done' \in BOOLEAN
  BY <1>1 DEF TextTypeOK
<1>2. CASE Reading /\ Write(i) /\ i' = i + 1 /\ Fixed /\ UNCHANGED done
  <2>1. Len(text) \in Nat /\ i \in Nat \ {0} /\ i <= Len(text) /\ out \in Seq(Nat)
    BY <1>2 DEF TextTypeOK, Reading
  <2>2. out' \in Seq(Nat) /\ lastSpace' \in BOOLEAN
    <3>1. Append(out, i) \in Seq(Nat)
      BY <2>1
    <3> QED
      BY <1>2, <3>1 DEF Write
  <2>3. i' \in 1..(Len(text') + 1)
    BY <1>2, <2>1 DEF Fixed
  <2> QED
    BY <1>2, <2>2, <2>3 DEF TextTypeOK, Fixed
<1>3. CASE /\ Reading /\ Space /\ Fixed /\ UNCHANGED done
           /\ \E n \in i..Len(text) : i' = n + 1
  BY <1>3 DEF TextTypeOK, Space, Fixed
<1> QED
  BY <1>1, <1>2, <1>3, StepForms

(* One more position at the end of the text.                               *)
LEMMA Appended ==
  ASSUME out \in Seq(Nat), NEW n, out' = Append(out, n)
  PROVE  /\ Len(out) \in Nat /\ Len(out') = Len(out) + 1
         /\ out'[Len(out')] = n /\ out' # <<>>
         /\ \A k \in 1..Len(out) : out'[k] = out[k]
OBVIOUS

LEMMA SpaceStep ==
  ASSUME TextTypeOK, SpaceInv, [VisibleNext]_visibleVars
  PROVE  SpaceInv'
<1>1. CASE UNCHANGED <<text, limit, i, out, lastSpace>>
  BY <1>1 DEF SpaceInv, OneSpaceBetween
<1>2. out \in Seq(Nat) /\ i \in Nat \ {0}
  BY DEF TextTypeOK
<1>3. CASE Write(i) /\ i' = i + 1
  <2>1. /\ Len(out) \in Nat /\ Len(out') = Len(out) + 1
        /\ out'[Len(out')] = i /\ out' # <<>>
        /\ \A k \in 1..Len(out) : out'[k] = out[k]
    BY <1>2, <1>3, Appended DEF Write
  <2>2. Len(out) # 0 /\ out[Len(out)] # 0 => out[Len(out)] = i - 1
    BY <1>2 DEF SpaceInv
  <2>3. OneSpaceBetween'
    <3> SUFFICES ASSUME NEW n \in 1..Len(out')
                 PROVE  IF out'[n] = 0 THEN n > 1 /\ out'[n - 1] # 0
                        ELSE n > 1 /\ out'[n - 1] # 0 => out'[n] = out'[n - 1] + 1
      BY DEF OneSpaceBetween
    <3>1. CASE n = Len(out')
      BY <1>2, <2>1, <2>2, <3>1
    <3>2. CASE n # Len(out')
      <4>1. n \in 1..Len(out) /\ (n > 1 => n - 1 \in 1..Len(out))
        BY <2>1, <3>2
      <4> QED
        BY <2>1, <4>1 DEF SpaceInv, OneSpaceBetween
    <3> QED
      BY <3>1, <3>2
  <2> QED
    BY <1>2, <1>3, <2>1, <2>3 DEF SpaceInv, Write
<1>4. CASE Space /\ lastSpace
  BY <1>4 DEF SpaceInv, OneSpaceBetween, Space
<1>5. CASE Space /\ ~lastSpace
  <2>1. /\ Len(out) \in Nat /\ Len(out') = Len(out) + 1
        /\ out'[Len(out')] = 0 /\ out' # <<>>
        /\ \A k \in 1..Len(out) : out'[k] = out[k]
    BY <1>2, <1>5, Appended DEF Space
  <2>2. Len(out) # 0 /\ out[Len(out)] # 0
    BY <1>2, <1>5 DEF SpaceInv
  <2>3. OneSpaceBetween'
    <3> SUFFICES ASSUME NEW n \in 1..Len(out')
                 PROVE  IF out'[n] = 0 THEN n > 1 /\ out'[n - 1] # 0
                        ELSE n > 1 /\ out'[n - 1] # 0 => out'[n] = out'[n - 1] + 1
      BY DEF OneSpaceBetween
    <3>1. CASE n = Len(out')
      BY <2>1, <2>2, <3>1
    <3>2. CASE n # Len(out')
      <4>1. n \in 1..Len(out) /\ (n > 1 => n - 1 \in 1..Len(out))
        BY <2>1, <3>2
      <4> QED
        BY <2>1, <4>1 DEF SpaceInv, OneSpaceBetween
    <3> QED
      BY <3>1, <3>2
  <2>4. lastSpace'
    BY <1>5 DEF Space
  <2> QED
    BY <2>1, <2>3, <2>4 DEF SpaceInv
<1>6. lastSpace \in BOOLEAN
  BY DEF TextTypeOK
<1> QED
  BY <1>1, <1>3, <1>4, <1>5, <1>6, StepForms

LEMMA LimitStep ==
  ASSUME TextTypeOK, WithinLimit, [VisibleNext]_visibleVars
  PROVE  WithinLimit'
<1>1. limit \in Nat /\ out \in Seq(Nat) /\ Len(out) \in Nat
  BY DEF TextTypeOK
<1>2. CASE UNCHANGED <<text, limit, i, out, lastSpace>>
  BY <1>2 DEF WithinLimit
<1>3. CASE Reading /\ Fixed /\ \E n : out' = Append(out, n)
  <2>1. Len(out') = Len(out) + 1
    BY <1>1, <1>3, Appended
  <2> QED
    BY <1>1, <1>3, <2>1 DEF WithinLimit, Reading, Fixed
<1>4. CASE Fixed /\ UNCHANGED out
  BY <1>4 DEF WithinLimit, Fixed
<1> QED
  BY <1>2, <1>3, <1>4, StepForms DEF Write, Space

LEMMA TextInit ==
  ASSUME VisibleInit
  PROVE  TextTypeOK /\ SpaceInv /\ WithinLimit
<1>1. text \in Seq(Tokens) /\ limit \in Nat /\ Len(text) \in Nat
  BY TextsAssumption DEF VisibleInit
<1>2. out = <<>> /\ Len(out) = 0 /\ out \in Seq(Nat) /\ 1..Len(out) = {}
  BY DEF VisibleInit
<1>3. i = 1 /\ lastSpace = TRUE /\ done = FALSE
  BY DEF VisibleInit
<1>4. TextTypeOK
  <2>1. i \in 1..(Len(text) + 1)
    BY <1>1, <1>3
  <2> QED
    BY <1>1, <1>2, <1>3, <2>1 DEF TextTypeOK
<1>5. SpaceInv
  BY <1>2, <1>3 DEF SpaceInv, OneSpaceBetween
<1>6. WithinLimit
  BY <1>1, <1>2 DEF WithinLimit
<1> QED
  BY <1>4, <1>5, <1>6

-----------------------------------------------------------------------------
(* What the reader makes of a stretch of tokens                            *)

LEMMA CloseTags ==
  /\ Opening = {"<script", "<svg"}
  /\ CloseOf["<script"] = "</script" /\ CloseOf["<svg"] = "</svg"
  /\ Closing = {"</script", "</svg"}
BY DEF Opening, Closing, CloseOf

LEMMA TagStarts ==
  TagStart = {"<script", "<svg", "</script", "</svg", "<tag"}
BY CloseTags DEF TagStart

(* What is seen is outside of everything and no opening of anything.       *)
LEMMA SeenIs ==
  ASSUME text \in Seq(Tokens), NEW n
  PROVE  n \in Seen(text) <=>
           /\ n \in 1..Len(text) /\ StateAt(text)[n] = Outside
           /\ \/ text[n] \in {"word", "slash", "gt", "-->"}
              \/ text[n] = "<" /\ n # Len(text)
BY Zenon DEF Seen

LEMMA Insides ==
  ASSUME NEW name \in Opening \cup {"tag", "comment"}, NEW depth
  PROVE  In(name, depth) # Outside
<1>1. In(name, depth).in = name /\ Outside.in = "text"
  BY DEF In, Outside
<1> QED
  BY <1>1, CloseTags

(* From outside.                                                           *)
LEMMA FromOutside ==
  ASSUME text \in Seq(Tokens), Regular(text), NEW n \in 1..Len(text),
         StateAt(text)[n] = Outside
  PROVE  StateAt(text)[n + 1] =
           IF text[n] = "<!--" THEN In("comment", 0)
           ELSE IF Invisible(text, n) THEN In(text[n], 1)
           ELSE IF text[n] \in TagStart THEN In("tag", 0)
           ELSE Outside
<1>1. StateAt(text)[n + 1] = After(Outside, text, n)
  BY ReaderSteps
<1>2. Outside.in = "text"
  BY DEF Outside, In
<1>3. Opens(text, n) <=> Invisible(text, n)
  BY DEF Regular, Opens
<1> QED
  BY <1>1, <1>2, <1>3, Zenon DEF After

(* In a tag up to the ">", in a comment up to its end.                     *)
LEMMA InTag ==
  ASSUME text \in Seq(Tokens), NEW n \in 1..Len(text), StateAt(text)[n] = In("tag", 0)
  PROVE  StateAt(text)[n + 1] = IF text[n] = "gt" THEN Outside ELSE In("tag", 0)
<1>1. StateAt(text)[n + 1] = After(In("tag", 0), text, n)
  BY ReaderSteps
<1>2. In("tag", 0).in = "tag"
  BY DEF In
<1> QED
  BY <1>1, <1>2 DEF After

LEMMA InComment ==
  ASSUME text \in Seq(Tokens), NEW n \in 1..Len(text), StateAt(text)[n] = In("comment", 0)
  PROVE  StateAt(text)[n + 1] = IF text[n] = "-->" THEN Outside ELSE In("comment", 0)
<1>1. StateAt(text)[n + 1] = After(In("comment", 0), text, n)
  BY ReaderSteps
<1>2. In("comment", 0).in = "comment"
  BY DEF In
<1> QED
  BY <1>1, <1>2 DEF After

(* In an element up to its close tag, where none of its name is nested.    *)
LEMMA InElement ==
  ASSUME text \in Seq(Tokens), Regular(text), NEW name \in Opening,
         NEW n \in 1..Len(text), StateAt(text)[n] = In(name, 1)
  PROVE  StateAt(text)[n + 1] = IF text[n] = CloseOf[name] THEN In("tag", 0) ELSE In(name, 1)
<1> DEFINE q == In(name, 1)
<1>1. StateAt(text)[n + 1] = After(q, text, n)
  BY ReaderSteps
<1>2. q.in = name /\ q.depth = 1 /\ name \notin {"text", "comment", "tag"}
  BY CloseTags DEF In
<1>3. ASSUME name = "<svg", text[n] = "<svg", Opens(text, n),
             StateAt(text)[n + 1] = In(name, 2)
      PROVE  FALSE
  <2>1. n + 1 \in 1..Len(text)
    BY <1>3 DEF Opens, Invisible
  <2>2. StateAt(text)[n + 1].depth = 2
    BY <1>3 DEF In
  <2> QED
    BY <2>1, <2>2 DEF Regular
<1> HIDE DEF q
<1>4. After(q, text, n) =
        IF text[n] = CloseOf[name] THEN In("tag", 0)
        ELSE IF name = "<svg" /\ text[n] = "<svg" /\ Opens(text, n) THEN In(name, 2)
        ELSE q
  BY <1>2 DEF After
<1> QED
  BY <1>1, <1>3, <1>4 DEF q

(* Over several tokens.                                                    *)
LEMMA TagLasts ==
  ASSUME text \in Seq(Tokens), NEW a \in Nat \ {0}, NEW b \in Nat, b <= Len(text),
         StateAt(text)[a] = In("tag", 0), \A n \in a..(b - 1) : text[n] # "gt"
  PROVE  /\ \A n \in a..b : n \notin Seen(text)
         /\ b \in a..Len(text) /\ text[b] = "gt" => StateAt(text)[b + 1] = Outside
<1>1. \A n \in a..(b - 1) : n \in 1..Len(text)
  OBVIOUS
<1>2. \A n \in a..(b - 1) :
        StateAt(text)[n] = In("tag", 0) => StateAt(text)[n + 1] = In("tag", 0)
  BY <1>1, InTag
<1>3. \A n \in a..b : StateAt(text)[n] = In("tag", 0)
  BY <1>2, Stretch
<1>4. \A n \in a..b : n \notin Seen(text)
  BY <1>3, SeenIs, Insides
<1>5. ASSUME b \in a..Len(text), text[b] = "gt" PROVE StateAt(text)[b + 1] = Outside
  <2>1. b \in 1..Len(text) /\ b \in a..b
    BY <1>5
  <2> QED
    BY <1>3, <1>5, <2>1, InTag
<1> QED
  BY <1>4, <1>5

LEMMA CommentLasts ==
  ASSUME text \in Seq(Tokens), NEW a \in Nat \ {0}, NEW b \in Nat, b <= Len(text),
         StateAt(text)[a] = In("comment", 0), \A n \in a..(b - 1) : text[n] # "-->"
  PROVE  /\ \A n \in a..b : n \notin Seen(text)
         /\ b \in a..Len(text) /\ text[b] = "-->" => StateAt(text)[b + 1] = Outside
<1>1. \A n \in a..(b - 1) : n \in 1..Len(text)
  OBVIOUS
<1>2. \A n \in a..(b - 1) :
        StateAt(text)[n] = In("comment", 0) => StateAt(text)[n + 1] = In("comment", 0)
  BY <1>1, InComment
<1>3. \A n \in a..b : StateAt(text)[n] = In("comment", 0)
  BY <1>2, Stretch
<1>4. \A n \in a..b : n \notin Seen(text)
  BY <1>3, SeenIs, Insides
<1>5. ASSUME b \in a..Len(text), text[b] = "-->" PROVE StateAt(text)[b + 1] = Outside
  <2>1. b \in 1..Len(text) /\ b \in a..b
    BY <1>5
  <2> QED
    BY <1>3, <1>5, <2>1, InComment
<1> QED
  BY <1>4, <1>5

LEMMA ElementLasts ==
  ASSUME text \in Seq(Tokens), Regular(text), NEW name \in Opening,
         NEW a \in Nat \ {0}, NEW b \in Nat, b <= Len(text),
         StateAt(text)[a] = In(name, 1), \A n \in a..(b - 1) : text[n] # CloseOf[name]
  PROVE  /\ \A n \in a..b : n \notin Seen(text)
         /\ b \in a..Len(text) /\ text[b] = CloseOf[name]
              => StateAt(text)[b + 1] = In("tag", 0)
<1>1. \A n \in a..(b - 1) : n \in 1..Len(text)
  OBVIOUS
<1>2. \A n \in a..(b - 1) :
        StateAt(text)[n] = In(name, 1) => StateAt(text)[n + 1] = In(name, 1)
  BY <1>1, InElement
<1>3. \A n \in a..b : StateAt(text)[n] = In(name, 1)
  BY <1>2, Stretch
<1>4. \A n \in a..b : n \notin Seen(text)
  BY <1>3, SeenIs, Insides
<1>5. ASSUME b \in a..Len(text), text[b] = CloseOf[name]
      PROVE  StateAt(text)[b + 1] = In("tag", 0)
  <2>1. b \in 1..Len(text) /\ b \in a..b
    BY <1>5
  <2> QED
    BY <1>3, <1>5, <2>1, InElement
<1> QED
  BY <1>4, <1>5

-----------------------------------------------------------------------------
(* What is written is what is seen                                         *)

LEMMA WrittenGrows ==
  ASSUME out \in Seq(Nat), NEW n, out' = Append(out, n)
  PROVE  Written' = (Written \cup {n}) \ {0}
<1>1. /\ Len(out) \in Nat /\ Len(out') = Len(out) + 1 /\ out'[Len(out')] = n
      /\ \A k \in 1..Len(out) : out'[k] = out[k]
  BY Appended
<1>2. 1..Len(out') = 1..Len(out) \cup {Len(out')}
  BY <1>1
<1>3. ASSUME NEW x PROVE x \in {out'[k] : k \in 1..Len(out')} <=>
                           x \in {out[k] : k \in 1..Len(out)} \/ x = n
  BY <1>1, <1>2
<1> QED
  BY <1>3, Zenon DEF Written

LEMMA SpaceWritesNothing ==
  ASSUME out \in Seq(Nat), Space
  PROVE  Written' = Written
<1>1. CASE out' = out
  BY <1>1 DEF Written
<1>2. CASE out' = Append(out, 0)
  <2>1. Written' = (Written \cup {0}) \ {0}
    BY <1>2, WrittenGrows
  <2>2. 0 \notin Written
    BY DEF Written
  <2> QED
    BY <2>1, <2>2
<1> QED
  BY <1>1, <1>2 DEF Space

(* The text does not change, nor what is seen in it.                       *)
LEMMA SameText ==
  ASSUME text' = text
  PROVE  /\ Regular(text)' <=> Regular(text)
         /\ Seen(text)' = Seen(text) /\ StateAt(text)' = StateAt(text)
BY DEF Regular, Seen, StateAt

LEMMA SeenInText ==
  ASSUME text \in Seq(Tokens)
  PROVE  Seen(text) \in SUBSET Nat
BY SeenIs

(* The pass goes behind n, over nothing that is seen.                      *)
LEMMA PassBehind ==
  ASSUME TextTypeOK, SeenInv, Regular(text), Space, Fixed, UNCHANGED done, ~done,
         NEW n \in i..Len(text), i' = n + 1,
         \A k \in i..n : k \notin Seen(text),
         n < Len(text) => StateAt(text)[n + 1] = Outside
  PROVE  SeenInv'
<1>1. text \in Seq(Tokens) /\ out \in Seq(Nat) /\ i \in Nat /\ Len(text) \in Nat /\ n \in Nat
  BY DEF TextTypeOK
<1>2. text' = text
  BY DEF Fixed
<1>3. Written' = Written
  BY <1>1, SpaceWritesNothing
<1>4. \A k \in Seen(text) : k < i <=> k < n + 1
  <2> TAKE k \in Seen(text)
  <2>1. k \in Nat /\ k \notin i..n
    BY <1>1, SeenInText
  <2> QED
    BY <1>1, <2>1
<1>5. Written = {k \in Seen(text) : k < i}
  BY DEF SeenInv
<1>6. Written' = {k \in Seen(text) : k < i'}
  BY <1>3, <1>4, <1>5
<1>7. i' <= Len(text) => StateAt(text)[i'] = Outside
  BY <1>1
<1> QED
  BY <1>2, <1>6, <1>7, SameText DEF SeenInv

(* It keeps a word that is seen.                                           *)
LEMMA WriteWord ==
  ASSUME TextTypeOK, SeenInv, Regular(text), Write(i), Fixed, UNCHANGED done, ~done,
         i' = i + 1, i \in Seen(text), i < Len(text) => StateAt(text)[i + 1] = Outside
  PROVE  SeenInv'
<1>1. text \in Seq(Tokens) /\ out \in Seq(Nat) /\ i \in Nat \ {0} /\ Len(text) \in Nat
  BY DEF TextTypeOK
<1>2. text' = text
  BY DEF Fixed
<1>3. Written' = (Written \cup {i}) \ {0}
  BY <1>1, WrittenGrows DEF Write
<1>4. Seen(text) \in SUBSET Nat
  BY <1>1, SeenInText
<1>5. Written = {k \in Seen(text) : k < i}
  BY DEF SeenInv
<1>6. ASSUME NEW k PROVE k \in Written' <=> k \in Seen(text) /\ k < i'
  <2>1. 0 \notin Seen(text)
    BY <1>1, SeenIs
  <2>2. k \in Seen(text) => (k < i + 1 <=> k < i \/ k = i)
    BY <1>1, <1>4
  <2> QED
    BY <1>3, <1>5, <2>1, <2>2
<1>7. Written' = {k \in Seen(text) : k < i'}
  BY <1>6
<1>8. i' <= Len(text) => StateAt(text)[i'] = Outside
  BY <1>1
<1> QED
  BY <1>2, <1>7, <1>8, SameText DEF SeenInv

(* It stops where nothing more is seen, or at the bound.                   *)
LEMMA StopHere ==
  ASSUME SeenInv, Regular(text), Stop,
         limit = 0 => \A k \in Seen(text) : k < i
  PROVE  SeenInv'
BY SameText DEF SeenInv, Stop, Written

(* The pass stands outside.                                                *)
LEMMA StandsOutside ==
  ASSUME TextTypeOK, SeenInv, Regular(text), Reading
  PROVE  /\ text \in Seq(Tokens) /\ Len(text) \in Nat /\ i \in 1..Len(text)
         /\ ~done /\ StateAt(text)[i] = Outside
         /\ \A k \in Seen(text) : k \in 1..Len(text)
<1>1. text \in Seq(Tokens) /\ Len(text) \in Nat /\ i \in 1..(Len(text) + 1) /\ i <= Len(text)
  BY DEF TextTypeOK, Reading
<1>2. i \in 1..Len(text)
  BY <1>1
<1>3. ~done /\ StateAt(text)[i] = Outside
  BY <1>1 DEF SeenInv, Reading
<1> QED
  BY <1>1, <1>2, <1>3, SeenIs

LEMMA StepPlainText ==
  ASSUME TextTypeOK, SeenInv, Regular(text), PlainText
  PROVE  SeenInv'
<1>1. /\ text \in Seq(Tokens) /\ Len(text) \in Nat /\ i \in 1..Len(text)
      /\ ~done /\ StateAt(text)[i] = Outside
  BY StandsOutside DEF PlainText
<1>2. StateAt(text)[i + 1] = Outside
  <2>1. text[i] \in {"sp", "word", "slash", "gt", "-->"}
    BY DEF PlainText
  <2>2. text[i] # "<!--" /\ ~Invisible(text, i) /\ text[i] \notin TagStart
    BY <2>1, CloseTags, TagStarts DEF Invisible
  <2> QED
    BY <1>1, <2>2, FromOutside
<1>3. Fixed /\ UNCHANGED done /\ i' = i + 1
  BY DEF PlainText
<1>4. CASE text[i] = "sp"
  <2>1. i \notin Seen(text) /\ i \in i..Len(text) /\ \A k \in i..i : k = i
    BY <1>1, <1>4, SeenIs
  <2>2. Space
    BY <1>4 DEF PlainText
  <2> QED
    BY <1>1, <1>2, <1>3, <2>1, <2>2, PassBehind
<1>5. CASE text[i] # "sp"
  <2>1. i \in Seen(text)
    BY <1>1, <1>5, SeenIs DEF PlainText
  <2>2. Write(i)
    BY <1>5 DEF PlainText
  <2> QED
    BY <1>1, <1>2, <1>3, <2>1, <2>2, WriteWord
<1> QED
  BY <1>4, <1>5

LEMMA StepLoneLess ==
  ASSUME TextTypeOK, SeenInv, Regular(text), LoneLess
  PROVE  SeenInv'
<1>1. /\ text \in Seq(Tokens) /\ Len(text) \in Nat /\ i \in 1..Len(text)
      /\ ~done /\ StateAt(text)[i] = Outside
      /\ \A k \in Seen(text) : k \in 1..Len(text)
  BY StandsOutside DEF LoneLess
<1>2. text[i] = "<"
  BY DEF LoneLess
<1>3. CASE i = Len(text)
  <2>1. i \notin Seen(text)
    BY <1>1, <1>2, <1>3, SeenIs
  <2>2. \A k \in Seen(text) : k < i
    BY <1>1, <1>3, <2>1
  <2> QED
    BY <1>3, <2>2, StopHere DEF LoneLess
<1>4. CASE i # Len(text)
  <2>1. i \in Seen(text)
    BY <1>1, <1>2, <1>4, SeenIs
  <2>2. StateAt(text)[i + 1] = Outside
    <3>1. text[i] # "<!--" /\ ~Invisible(text, i) /\ text[i] \notin TagStart
      BY <1>2, CloseTags, TagStarts DEF Invisible
    <3> QED
      BY <1>1, <3>1, FromOutside
  <2>3. Write(i) /\ i' = i + 1 /\ Fixed /\ UNCHANGED done
    BY <1>4 DEF LoneLess
  <2> QED
    BY <1>1, <2>1, <2>2, <2>3, WriteWord
<1> QED
  BY <1>3, <1>4

LEMMA StepComment ==
  ASSUME TextTypeOK, SeenInv, Regular(text), Comment
  PROVE  SeenInv'
<1> DEFINE n == FirstOf(i + 1, {"-->"})
<1>1. /\ text \in Seq(Tokens) /\ Len(text) \in Nat /\ i \in 1..Len(text)
      /\ ~done /\ StateAt(text)[i] = Outside
      /\ \A k \in Seen(text) : k \in 1..Len(text)
  BY StandsOutside DEF Comment
<1>2. text[i] = "<!--" /\ Behind(n)
  BY DEF Comment
<1>3. i \notin Seen(text)
  BY <1>1, <1>2, SeenIs
<1>4. StateAt(text)[i + 1] = In("comment", 0)
  BY <1>1, <1>2, FromOutside
<1>5. \/ n = 0 /\ \A k \in (i + 1)..Len(text) : text[k] # "-->"
      \/ /\ n \in (i + 1)..Len(text) /\ text[n] = "-->"
         /\ \A k \in (i + 1)..(n - 1) : text[k] # "-->"
  <2>1. i + 1 \in Nat \ {0}
    BY <1>1
  <2> QED
    BY <1>1, <2>1, FirstOfFinds
<1> HIDE DEF n
<1>6. CASE n = 0
  <2>1. \A k \in (i + 1)..(Len(text) - 1) : text[k] # "-->"
    BY <1>1, <1>5, <1>6
  <2>2. \A k \in (i + 1)..Len(text) : k \notin Seen(text)
    BY <1>1, <1>4, <2>1, CommentLasts
  <2>3. \A k \in Seen(text) : k < i
    BY <1>1, <1>3, <2>2
  <2> QED
    BY <1>2, <1>6, <2>3, StopHere DEF Behind
<1>7. CASE n # 0
  <2>1. /\ \A k \in (i + 1)..n : k \notin Seen(text)
        /\ StateAt(text)[n + 1] = Outside
    BY <1>1, <1>4, <1>5, <1>7, CommentLasts
  <2>2. n \in i..Len(text) /\ \A k \in i..n : k \notin Seen(text)
    BY <1>1, <1>3, <1>5, <1>7, <2>1
  <2>3. i' = n + 1 /\ Space /\ Fixed /\ UNCHANGED done
    BY <1>2, <1>7 DEF Behind
  <2> QED
    BY <1>1, <2>1, <2>2, <2>3, PassBehind
<1> QED
  BY <1>6, <1>7

LEMMA StepTag ==
  ASSUME TextTypeOK, SeenInv, Regular(text), Tag
  PROVE  SeenInv'
<1> DEFINE n == FirstOf(i, {"gt"})
<1>1. /\ text \in Seq(Tokens) /\ Len(text) \in Nat /\ i \in 1..Len(text)
      /\ ~done /\ StateAt(text)[i] = Outside
      /\ \A k \in Seen(text) : k \in 1..Len(text)
  BY StandsOutside DEF Tag
<1>2. text[i] \in TagStart /\ ~Invisible(text, i) /\ Behind(n)
  BY DEF Tag
<1>3. text[i] \notin {"word", "slash", "gt", "-->", "<", "<!--"}
  BY <1>2, TagStarts
<1>4. i \notin Seen(text)
  BY <1>1, <1>3, SeenIs
<1>5. StateAt(text)[i + 1] = In("tag", 0)
  BY <1>1, <1>2, <1>3, FromOutside
<1>6. \/ n = 0 /\ \A k \in i..Len(text) : text[k] # "gt"
      \/ n \in i..Len(text) /\ text[n] = "gt" /\ \A k \in i..(n - 1) : text[k] # "gt"
  BY <1>1, FirstOfFinds
<1> HIDE DEF n
<1>7. CASE n = 0
  <2>1. \A k \in (i + 1)..(Len(text) - 1) : text[k] # "gt"
    BY <1>1, <1>6, <1>7
  <2>2. \A k \in (i + 1)..Len(text) : k \notin Seen(text)
    BY <1>1, <1>5, <2>1, TagLasts
  <2>3. \A k \in Seen(text) : k < i
    BY <1>1, <1>4, <2>2
  <2> QED
    BY <1>2, <1>7, <2>3, StopHere DEF Behind
<1>8. CASE n # 0
  <2>1. /\ n \in (i + 1)..Len(text) /\ text[n] = "gt"
        /\ \A k \in (i + 1)..(n - 1) : text[k] # "gt"
    BY <1>1, <1>3, <1>6, <1>8
  <2>2. /\ \A k \in (i + 1)..n : k \notin Seen(text)
        /\ StateAt(text)[n + 1] = Outside
    BY <1>1, <1>5, <2>1, TagLasts
  <2>3. n \in i..Len(text) /\ \A k \in i..n : k \notin Seen(text)
    BY <1>1, <1>4, <2>1, <2>2
  <2>4. i' = n + 1 /\ Space /\ Fixed /\ UNCHANGED done
    BY <1>2, <1>8 DEF Behind
  <2> QED
    BY <1>1, <2>2, <2>3, <2>4, PassBehind
<1> QED
  BY <1>7, <1>8

(* Without its close tag, or a ">" behind that, the element hides the rest *)
(* of the page.                                                            *)
LEMMA StepInvisibleElement ==
  ASSUME TextTypeOK, SeenInv, Regular(text), InvisibleElement
  PROVE  SeenInv'
<1> DEFINE name  == text[i]
           close == FirstOf(i + 1, {CloseOf[name]})
           gt    == FirstOf(close, {"gt"})
           n     == IF close = 0 \/ gt = 0 THEN Len(text) ELSE gt
<1>1. /\ text \in Seq(Tokens) /\ Len(text) \in Nat /\ i \in 1..Len(text)
      /\ ~done /\ StateAt(text)[i] = Outside
  BY StandsOutside DEF InvisibleElement
<1>2. Invisible(text, i) /\ name \in Opening /\ i < Len(text) /\ Behind(n)
  BY DEF InvisibleElement, Invisible
<1>3. /\ name \notin {"word", "slash", "gt", "-->", "<", "<!--"}
      /\ CloseOf[name] # "gt"
  BY <1>2, CloseTags
<1>4. i \notin Seen(text)
  BY <1>1, <1>3, SeenIs
<1>5. StateAt(text)[i + 1] = In(name, 1)
  BY <1>1, <1>2, <1>3, FromOutside
<1>6. \/ close = 0 /\ \A k \in (i + 1)..Len(text) : text[k] # CloseOf[name]
      \/ /\ close \in (i + 1)..Len(text) /\ text[close] = CloseOf[name]
         /\ \A k \in (i + 1)..(close - 1) : text[k] # CloseOf[name]
  <2>1. i + 1 \in Nat \ {0}
    BY <1>1
  <2> QED
    BY <1>1, <2>1, FirstOfFinds
<1> HIDE DEF name, close
<1>7. CASE close = 0
  <2>1. \A k \in (i + 1)..(Len(text) - 1) : text[k] # CloseOf[name]
    BY <1>1, <1>6, <1>7
  <2>2. \A k \in (i + 1)..Len(text) : k \notin Seen(text)
    <3>1. i + 1 \in Nat \ {0} /\ Len(text) <= Len(text) /\ name \in Opening
      BY <1>1, <1>2
    <3> HIDE DEF gt, n
    <3> QED
      BY <1>1, <1>5, <2>1, <3>1, ElementLasts
  <2>3. Len(text) \in i..Len(text) /\ \A k \in i..Len(text) : k \notin Seen(text)
    BY <1>1, <1>4, <2>2
  <2>4. i' = Len(text) + 1 /\ Space /\ Fixed /\ UNCHANGED done
    BY <1>1, <1>2, <1>7 DEF Behind
  <2> QED
    BY <1>1, <2>3, <2>4, PassBehind
<1>8. CASE close # 0
  <2>1. close \in (i + 1)..Len(text) /\ close \in Nat \ {0}
    BY <1>1, <1>6, <1>8
  <2>2. /\ \A k \in (i + 1)..close : k \notin Seen(text)
        /\ StateAt(text)[close + 1] = In("tag", 0)
    BY <1>1, <1>2, <1>5, <1>6, <1>8, <2>1, ElementLasts
  <2>3. \/ gt = 0 /\ \A k \in close..Len(text) : text[k] # "gt"
        \/ gt \in close..Len(text) /\ text[gt] = "gt" /\ \A k \in close..(gt - 1) : text[k] # "gt"
    BY <1>1, <2>1, FirstOfFinds
  <2>4. text[close] # "gt"
    BY <1>3, <1>6, <1>8
  <2> HIDE DEF gt
  <2>5. CASE gt = 0
    <3>1. \A k \in (close + 1)..(Len(text) - 1) : text[k] # "gt"
      BY <1>1, <2>1, <2>3, <2>5
    <3>2. \A k \in (close + 1)..Len(text) : k \notin Seen(text)
      BY <1>1, <2>1, <2>2, <3>1, TagLasts
    <3>3. Len(text) \in i..Len(text) /\ \A k \in i..Len(text) : k \notin Seen(text)
      BY <1>1, <1>4, <2>1, <2>2, <3>2
    <3>4. i' = Len(text) + 1 /\ Space /\ Fixed /\ UNCHANGED done
      BY <1>1, <1>2, <2>5 DEF Behind
    <3> QED
      BY <1>1, <3>3, <3>4, PassBehind
  <2>6. CASE gt # 0
    <3>1. /\ gt \in (close + 1)..Len(text) /\ text[gt] = "gt"
          /\ \A k \in (close + 1)..(gt - 1) : text[k] # "gt"
      BY <1>1, <2>1, <2>3, <2>4, <2>6
    <3>2. /\ \A k \in (close + 1)..gt : k \notin Seen(text)
          /\ StateAt(text)[gt + 1] = Outside
      BY <1>1, <2>1, <2>2, <3>1, TagLasts
    <3>3. gt \in i..Len(text) /\ \A k \in i..gt : k \notin Seen(text)
      BY <1>1, <1>4, <2>1, <2>2, <3>1, <3>2
    <3>4. i' = gt + 1 /\ Space /\ Fixed /\ UNCHANGED done
      BY <1>2, <1>8, <2>1, <2>6, <3>1 DEF Behind
    <3> QED
      BY <1>1, <3>2, <3>3, <3>4, PassBehind
  <2> QED
    BY <2>5, <2>6
<1> QED
  BY <1>7, <1>8

LEMMA StepFinish ==
  ASSUME TextTypeOK, SeenInv, Regular(text), Finish
  PROVE  SeenInv'
<1>1. text \in Seq(Tokens) /\ Len(text) \in Nat /\ i \in Nat /\ limit \in Nat
  BY DEF TextTypeOK
<1>2. \A k \in Seen(text) : k \in 1..Len(text)
  BY <1>1, SeenIs
<1>3. limit = 0 => i > Len(text)
  BY <1>1 DEF Finish
<1>4. limit = 0 => \A k \in Seen(text) : k < i
  BY <1>1, <1>2, <1>3
<1> QED
  BY <1>4, StopHere DEF Finish

LEMMA SeenStep ==
  ASSUME TextTypeOK, SeenInv, [VisibleNext]_visibleVars
  PROVE  SeenInv'
<1>1. text' = text
  BY StepForms DEF Fixed
<1>2. CASE ~Regular(text)
  BY <1>1, <1>2, SameText DEF SeenInv
<1>3. CASE Regular(text) /\ UNCHANGED visibleVars
  BY <1>1, <1>3, SameText DEF SeenInv, visibleVars, Written
<1> QED
  BY <1>2, <1>3, StepFinish, StepPlainText, StepComment, StepLoneLess, StepInvisibleElement,
     StepTag DEF VisibleNext, Returned

LEMMA SeenInit ==
  ASSUME VisibleInit
  PROVE  SeenInv
<1>1. text \in Seq(Tokens) /\ i = 1 /\ ~done
  BY TextsAssumption DEF VisibleInit
<1>2. Written = {}
  <2>1. 1..Len(out) = {}
    BY DEF VisibleInit
  <2> QED
    BY <2>1 DEF Written
<1>3. \A n \in Seen(text) : ~(n < 1)
  BY <1>1, SeenIs
<1>4. StateAt(text)[1] = Outside
  BY <1>1, ReaderSteps
<1> QED
  BY <1>1, <1>2, <1>3, <1>4 DEF SeenInv

-----------------------------------------------------------------------------
LEMMA TextInvariance == VisibleSpec => [](TextTypeOK /\ SpaceInv /\ SeenInv)
<1>1. VisibleInit => TextTypeOK /\ SpaceInv /\ SeenInv
  BY TextInit, SeenInit
<1>2. TextTypeOK /\ SpaceInv /\ SeenInv /\ [VisibleNext]_visibleVars => (TextTypeOK /\ SpaceInv /\ SeenInv)'
  BY TextTypeStep, SpaceStep, SeenStep
<1> QED
  BY <1>1, <1>2, PTL DEF VisibleSpec

(* On any page without nested elements of one invisible name visibleText   *)
(* keeps only what a reader sees, and all of it when there is no bound; on *)
(* any page it puts one space wherever something was left out, and never   *)
(* two (ExactlyWhatIsSeen; fastre.go 194-204, 240-255, 318-324).           *)
THEOREM TextIsWhatIsSeen == VisibleSpec => []ExactlyWhatIsSeen
<1>1. TextTypeOK /\ SpaceInv /\ SeenInv => ExactlyWhatIsSeen
  BY DEF SeenInv, SpaceInv, ExactlyWhatIsSeen, WordsAreSeen
<1> QED
  BY <1>1, TextInvariance, PTL

(* It never produces more than its bound (fastre.go 197-198).              *)
THEOREM TextStaysWithinLimit == VisibleSpec => []WithinLimit
<1>1. VisibleInit => TextTypeOK /\ WithinLimit
  BY TextInit
<1>2. TextTypeOK /\ WithinLimit /\ [VisibleNext]_visibleVars => (TextTypeOK /\ WithinLimit)'
  BY TextTypeStep, LimitStep
<1> QED
  BY <1>1, <1>2, PTL DEF VisibleSpec

-----------------------------------------------------------------------------
(* A set that 0 is in, and with every number the next, has all numbers.    *)
LEMMA StepByStep ==
  ASSUME NEW P, 0 \in P, \A n \in Nat : n \in P => n + 1 \in P
  PROVE  \A n \in Nat : n \in P
<1> DEFINE bad == {n \in Nat : n \notin P}
<1> SUFFICES ASSUME bad # {} PROVE FALSE
  OBVIOUS
<1>1. PICK m : IsLeast(m, bad)
  BY LeastNumber
<1>2. m \in Nat /\ m \notin P
  BY <1>1 DEF IsLeast
<1>3. m - 1 \in Nat /\ (m - 1) + 1 = m /\ ~(m <= m - 1)
  <2>1. m # 0
    BY <1>2
  <2> QED
    BY <1>2, <2>1
<1>4. m - 1 \notin bad
  BY <1>1, <1>3 DEF IsLeast
<1> QED
  BY <1>2, <1>3, <1>4

-----------------------------------------------------------------------------
(* The branch whose literals are taken for a concatenation                 *)

LooksAt(f, branches, m) ==
  f = [k \in 0..m |-> IF k = 0 THEN 0 ELSE Better(branches, k, f[k - 1])]

LEMMA LooksOneMore ==
  ASSUME NEW branches, NEW m \in Nat, NEW f, LooksAt(f, branches, m)
  PROVE  \E g : LooksAt(g, branches, m + 1)
<1> DEFINE g == [k \in 0..(m + 1) |-> IF k = m + 1 THEN Better(branches, k, f[m]) ELSE f[k]]
<1>1. ASSUME NEW k \in 0..(m + 1)
      PROVE  g[k] = IF k = 0 THEN 0 ELSE Better(branches, k, g[k - 1])
  <2>1. CASE k = m + 1
    <3>1. k # 0 /\ k - 1 = m /\ k - 1 \in 0..(m + 1) /\ k - 1 # m + 1
      BY <2>1
    <3>2. g[k] = Better(branches, k, f[m]) /\ g[k - 1] = f[m]
      BY <2>1, <3>1
    <3> QED
      BY <3>1, <3>2
  <2>2. CASE k # m + 1
    <3>1. k \in 0..m /\ (k # 0 => k - 1 \in 0..(m + 1) /\ k - 1 # m + 1)
      BY <2>2
    <3>2. g[k] = f[k] /\ (k # 0 => g[k - 1] = f[k - 1])
      BY <2>2, <3>1
    <3>3. f[k] = IF k = 0 THEN 0 ELSE Better(branches, k, f[k - 1])
      BY <3>1, Zenon DEF LooksAt
    <3> QED
      BY <3>2, <3>3
  <2> QED
    BY <2>1, <2>2
<1>2. g = [k \in 0..(m + 1) |-> g[k]]
  OBVIOUS
<1> HIDE DEF g
<1>3. g = [k \in 0..(m + 1) |-> IF k = 0 THEN 0 ELSE Better(branches, k, g[k - 1])]
  BY <1>1, <1>2
<1> QED
  BY <1>3 DEF LooksAt

LEMMA LookExists ==
  ASSUME NEW branches
  PROVE  \A m \in Nat : \E f : LooksAt(f, branches, m)
<1> DEFINE P == {m \in Nat : \E f : LooksAt(f, branches, m)}
<1>1. 0 \in P
  <2> DEFINE f == [k \in 0..0 |-> 0]
  <2>1. \A k \in 0..0 : k = 0
    OBVIOUS
  <2>2. f = [k \in 0..0 |-> IF k = 0 THEN 0 ELSE Better(branches, k, f[k - 1])]
    BY <2>1
  <2> HIDE DEF f
  <2>3. LooksAt(f, branches, 0)
    BY <2>2 DEF LooksAt
  <2> QED
    BY <2>3
<1>2. \A m \in Nat : m \in P => m + 1 \in P
  BY LooksOneMore
<1> HIDE DEF P
<1>3. \A m \in Nat : m \in P
  BY <1>1, <1>2, StepByStep, Zenon
<1> QED
  BY <1>3 DEF P

(* It is one that has literals.                                            *)
LEMMA BestHasLiterals ==
  ASSUME NEW branches, Len(branches) \in Nat, Best(branches) # 0
  PROVE  Best(branches) \in 1..Len(branches) /\ branches[Best(branches)] # None
<1> DEFINE N == Len(branches)
           best == CHOOSE f : LooksAt(f, branches, N)
           P == {k \in Nat : k <= N /\ best[k] # 0 => best[k] \in 1..N /\ branches[best[k]] # None}
<1>1. Best(branches) = best[N]
  BY Zenon DEF Best, LooksAt
<1>2. LooksAt(best, branches, N)
  BY LookExists, Zenon
<1> HIDE DEF best
<1>3. \A k \in 0..N : best[k] = IF k = 0 THEN 0 ELSE Better(branches, k, best[k - 1])
  BY <1>2, Zenon DEF LooksAt
<1>4. 0 \in P
  <2>1. best[0] = 0
    BY <1>3
  <2> QED
    BY <2>1
<1>5. ASSUME NEW k \in Nat, k \in P PROVE k + 1 \in P
  <2> SUFFICES ASSUME k + 1 <= N, best[k + 1] # 0
               PROVE  best[k + 1] \in 1..N /\ branches[best[k + 1]] # None
    OBVIOUS
  <2>1. k + 1 \in 0..N /\ k + 1 # 0 /\ (k + 1) - 1 = k /\ k <= N /\ k + 1 \in 1..N
    OBVIOUS
  <2>2. best[k + 1] = Better(branches, k + 1, best[k])
    BY <1>3, <2>1
  <2>3. CASE best[k + 1] = k + 1 /\ branches[k + 1] # None
    BY <2>1, <2>3
  <2>4. CASE best[k + 1] = best[k]
    BY <1>5, <2>1, <2>4
  <2> QED
    BY <2>2, <2>3, <2>4 DEF Better
<1> HIDE DEF P
<1>6. N \in P
  BY <1>4, <1>5, StepByStep, Zenon
<1> QED
  BY <1>1, <1>6 DEF P

-----------------------------------------------------------------------------
(* The literals of an alternation                                          *)

Joins(f, branches, m) ==
  f = [k \in 0..m |-> IF k = 0 THEN <<>> ELSE f[k - 1] \o branches[k]]

LEMMA JoinsOneMore ==
  ASSUME NEW branches, NEW m \in Nat, NEW f, Joins(f, branches, m)
  PROVE  \E g : Joins(g, branches, m + 1)
<1> DEFINE g == [k \in 0..(m + 1) |-> IF k = m + 1 THEN f[m] \o branches[k] ELSE f[k]]
<1>1. ASSUME NEW k \in 0..(m + 1)
      PROVE  g[k] = IF k = 0 THEN <<>> ELSE g[k - 1] \o branches[k]
  <2>1. CASE k = m + 1
    <3>1. k # 0 /\ k - 1 = m /\ k - 1 \in 0..(m + 1) /\ k - 1 # m + 1
      BY <2>1
    <3>2. g[k] = f[m] \o branches[k] /\ g[k - 1] = f[m]
      BY <2>1, <3>1
    <3> QED
      BY <3>1, <3>2
  <2>2. CASE k # m + 1
    <3>1. k \in 0..m /\ (k # 0 => k - 1 \in 0..(m + 1) /\ k - 1 # m + 1)
      BY <2>2
    <3>2. g[k] = f[k] /\ (k # 0 => g[k - 1] = f[k - 1])
      BY <2>2, <3>1
    <3>3. f[k] = IF k = 0 THEN <<>> ELSE f[k - 1] \o branches[k]
      BY <3>1, Zenon DEF Joins
    <3> QED
      BY <3>2, <3>3
  <2> QED
    BY <2>1, <2>2
<1>2. g = [k \in 0..(m + 1) |-> g[k]]
  OBVIOUS
<1> HIDE DEF g
<1>3. g = [k \in 0..(m + 1) |-> IF k = 0 THEN <<>> ELSE g[k - 1] \o branches[k]]
  BY <1>1, <1>2
<1> QED
  BY <1>3 DEF Joins

LEMMA JoinExists ==
  ASSUME NEW branches
  PROVE  \A m \in Nat : \E f : Joins(f, branches, m)
<1> DEFINE P == {m \in Nat : \E f : Joins(f, branches, m)}
<1>1. 0 \in P
  <2> DEFINE f == [k \in 0..0 |-> <<>>]
  <2>1. \A k \in 0..0 : k = 0
    OBVIOUS
  <2>2. f = [k \in 0..0 |-> IF k = 0 THEN <<>> ELSE f[k - 1] \o branches[k]]
    BY <2>1
  <2> HIDE DEF f
  <2>3. Joins(f, branches, 0)
    BY <2>2 DEF Joins
  <2> QED
    BY <2>3
<1>2. \A m \in Nat : m \in P => m + 1 \in P
  BY JoinsOneMore
<1> HIDE DEF P
<1>3. \A m \in Nat : m \in P
  BY <1>1, <1>2, StepByStep, Zenon
<1> QED
  BY <1>3 DEF P

(* Every literal of the first m branches is in all.                        *)
HasAll(all, branches, m) ==
  \A k \in 1..m : \A l \in DOMAIN branches[k] : \E j \in DOMAIN all : all[j] = branches[k][l]

LEMMA JoinedHasAll ==
  ASSUME NEW X, NEW branches, Len(branches) \in Nat,
         \A k \in 1..Len(branches) : branches[k] \in Seq(X)
  PROVE  Joined(branches) \in Seq(X) /\ HasAll(Joined(branches), branches, Len(branches))
<1> DEFINE N == Len(branches)
           all == CHOOSE f : Joins(f, branches, N)
           Holds(m) == all[m] \in Seq(X) /\ HasAll(all[m], branches, m)
           P == {m \in Nat : m <= N => Holds(m)}
<1>1. Joined(branches) = all[N]
  BY Zenon DEF Joined, Joins
<1>2. Joins(all, branches, N)
  BY JoinExists, Zenon
<1> HIDE DEF all
<1>3. \A k \in 0..N : all[k] = IF k = 0 THEN <<>> ELSE all[k - 1] \o branches[k]
  BY <1>2, Zenon DEF Joins
<1>4. 0 \in P
  <2>1. all[0] = <<>> /\ <<>> \in Seq(X)
    BY <1>3
  <2>2. \A k \in 1..0 : FALSE
    OBVIOUS
  <2>3. Holds(0)
    BY <2>1, <2>2 DEF HasAll
  <2> HIDE DEF Holds
  <2> QED
    BY <2>3
<1>5. ASSUME NEW m \in Nat, m \in P PROVE m + 1 \in P
  <2> SUFFICES ASSUME m + 1 <= N PROVE Holds(m + 1)
    OBVIOUS
  <2>1. m + 1 \in 0..N /\ m + 1 # 0 /\ (m + 1) - 1 = m /\ m <= N /\ m + 1 \in 1..N
    OBVIOUS
  <2>2. all[m + 1] = all[m] \o branches[m + 1]
    BY <1>3, <2>1
  <2>3. Holds(m)
    BY <1>5, <2>1
  <2> DEFINE a == all[m]
             b == branches[m + 1]
             c == all[m + 1]
  <2>4. a \in Seq(X) /\ b \in Seq(X) /\ c = a \o b
    BY <2>1, <2>2, <2>3
  <2>5. \A k \in 1..m : \A l \in DOMAIN branches[k] : \E j \in DOMAIN a : a[j] = branches[k][l]
    BY <2>3 DEF HasAll
  <2> HIDE DEF a, b, c
  <2>6. /\ c \in Seq(X)
        /\ \A j \in DOMAIN a : j \in DOMAIN c /\ c[j] = a[j]
        /\ \A j \in DOMAIN b : Len(a) + j \in DOMAIN c /\ c[Len(a) + j] = b[j]
    BY <2>4
  <2>7. ASSUME NEW k \in 1..(m + 1), NEW l \in DOMAIN branches[k]
        PROVE  \E j \in DOMAIN c : c[j] = branches[k][l]
    <3>1. CASE k = m + 1
      BY <2>6, <3>1 DEF b
    <3>2. CASE k # m + 1
      <4>1. k \in 1..m
        BY <3>2
      <4>2. PICK j \in DOMAIN a : a[j] = branches[k][l]
        BY <2>5, <4>1
      <4> QED
        BY <2>6, <4>2
    <3> QED
      BY <3>1, <3>2
  <2> QED
    BY <2>6, <2>7 DEF c, HasAll
<1> HIDE DEF P
<1>6. N \in P
  BY <1>4, <1>5, StepByStep, Zenon
<1> QED
  BY <1>1, <1>6 DEF P

-----------------------------------------------------------------------------
(* A chain of links                                                        *)

Runs(f, links, t, m) ==
  f = [k \in 0..m |-> IF k = 0 THEN {<<p, p>> : p \in Places(t)} ELSE Followed(f[k - 1], links[k])]

LEMMA RunsOneMore ==
  ASSUME NEW links, NEW t, NEW m \in Nat, NEW f, Runs(f, links, t, m)
  PROVE  \E g : Runs(g, links, t, m + 1)
<1> DEFINE g == [k \in 0..(m + 1) |-> IF k = m + 1 THEN Followed(f[m], links[k]) ELSE f[k]]
<1>1. ASSUME NEW k \in 0..(m + 1)
      PROVE  g[k] = IF k = 0 THEN {<<p, p>> : p \in Places(t)} ELSE Followed(g[k - 1], links[k])
  <2>1. CASE k = m + 1
    <3>1. k # 0 /\ k - 1 = m /\ k - 1 \in 0..(m + 1) /\ k - 1 # m + 1
      BY <2>1
    <3>2. g[k] = Followed(f[m], links[k]) /\ g[k - 1] = f[m]
      BY <2>1, <3>1
    <3> QED
      BY <3>1, <3>2
  <2>2. CASE k # m + 1
    <3>1. k \in 0..m /\ (k # 0 => k - 1 \in 0..(m + 1) /\ k - 1 # m + 1)
      BY <2>2
    <3>2. g[k] = f[k] /\ (k # 0 => g[k - 1] = f[k - 1])
      BY <2>2, <3>1
    <3>3. f[k] = IF k = 0 THEN {<<p, p>> : p \in Places(t)} ELSE Followed(f[k - 1], links[k])
      BY <3>1, Zenon DEF Runs
    <3> QED
      BY <3>2, <3>3
  <2> QED
    BY <2>1, <2>2
<1>2. g = [k \in 0..(m + 1) |-> g[k]]
  OBVIOUS
<1> HIDE DEF g
<1>3. g = [k \in 0..(m + 1) |-> IF k = 0 THEN {<<p, p>> : p \in Places(t)} ELSE Followed(g[k - 1], links[k])]
  BY <1>1, <1>2
<1> QED
  BY <1>3 DEF Runs

LEMMA RunExists ==
  ASSUME NEW links, NEW t
  PROVE  \A m \in Nat : \E f : Runs(f, links, t, m)
<1> DEFINE P == {m \in Nat : \E f : Runs(f, links, t, m)}
<1>1. 0 \in P
  <2> DEFINE f == [k \in 0..0 |-> {<<p, p>> : p \in Places(t)}]
  <2>1. \A k \in 0..0 : k = 0
    OBVIOUS
  <2>2. f = [k \in 0..0 |-> IF k = 0 THEN {<<p, p>> : p \in Places(t)} ELSE Followed(f[k - 1], links[k])]
    BY <2>1
  <2> HIDE DEF f
  <2>3. Runs(f, links, t, 0)
    BY <2>2 DEF Runs
  <2> QED
    BY <2>3
<1>2. \A m \in Nat : m \in P => m + 1 \in P
  BY RunsOneMore
<1> HIDE DEF P
<1>3. \A m \in Nat : m \in P
  BY <1>1, <1>2, StepByStep, Zenon
<1> QED
  BY <1>3 DEF P

(* Where the whole matches, every link does.                               *)
LEMMA ChainNeedsAll ==
  ASSUME NEW links, NEW t, Len(links) \in Nat, Chain(links, t) # {}
  PROVE  \A k \in 1..Len(links) : links[k] # {}
<1> DEFINE N == Len(links)
           run == CHOOSE f : Runs(f, links, t, N)
           P == {m \in Nat : m <= N /\ run[m] # {} => \A k \in 1..m : links[k] # {}}
<1>1. Chain(links, t) = run[N]
  BY Zenon DEF Chain, Runs
<1>2. Runs(run, links, t, N)
  BY RunExists, Zenon
<1> HIDE DEF run
<1>3. ASSUME NEW k \in 1..N PROVE run[k] = Followed(run[k - 1], links[k])
  <2>1. k \in 0..N /\ k # 0
    OBVIOUS
  <2>2. run[k] = IF k = 0 THEN {<<p, p>> : p \in Places(t)} ELSE Followed(run[k - 1], links[k])
    BY <1>2, <2>1, Zenon DEF Runs
  <2> QED
    BY <2>1, <2>2, Zenon
<1>4. 0 \in P
  OBVIOUS
<1>5. ASSUME NEW m \in Nat, m \in P PROVE m + 1 \in P
  <2> SUFFICES ASSUME m + 1 <= N, run[m + 1] # {}
               PROVE  \A k \in 1..(m + 1) : links[k] # {}
    OBVIOUS
  <2>1. m + 1 \in 1..N /\ (m + 1) - 1 = m /\ m <= N
    OBVIOUS
  <2>2. run[m + 1] = Followed(run[m], links[m + 1])
    BY <1>3, <2>1
  <2>3. run[m] # {} /\ links[m + 1] # {}
    BY <2>2 DEF Followed
  <2>4. \A k \in 1..m : links[k] # {}
    BY <1>5, <2>1, <2>3
  <2>5. \A k \in 1..(m + 1) : k \in 1..m \/ k = m + 1
    OBVIOUS
  <2> QED
    BY <2>3, <2>4, <2>5
<1> HIDE DEF P
<1>6. N \in P
  BY <1>4, <1>5, StepByStep, Zenon
<1> QED
  BY <1>1, <1>6 DEF P

LEMMA RepetitionNeedsIt ==
  ASSUME NEW lo \in Nat, NEW hi \in Int, NEW link, NEW t, lo >= 1, Between(lo, hi, link, t) # {}
  PROVE  link # {}
<1>1. PICK k \in lo..hi : Chain([j \in 1..k |-> link], t) # {}
  BY DEF Between
<1>2. k \in Nat /\ 1 \in 1..k
  BY <1>1
<1> DEFINE links == [j \in 1..k |-> link]
<1>3. Len(links) = k /\ links[1] = link
  <2>1. links \in Seq({link})
    BY <1>2
  <2>2. DOMAIN links = 1..Len(links) /\ Len(links) \in Nat
    BY <2>1
  <2> QED
    BY <1>2, <2>1, <2>2
<1> HIDE DEF links
<1>4. links[1] # {}
  BY <1>1, <1>2, <1>3, ChainNeedsAll DEF links
<1> QED
  BY <1>3, <1>4

-----------------------------------------------------------------------------
(* What is found for a node follows from what is found for its branches    *)

LEMMA SubsAreBefore ==
  ASSUME NEW tree, IsTree(tree), NEW m \in Nat, m + 1 <= Len(tree), NEW n \in 1..(m + 1),
         NEW k \in DOMAIN tree[n].sub
  PROVE  tree[n].sub[k] \in 1..m
<1>1. n \in DOMAIN tree /\ n - 1 <= m
  BY DEF IsTree
<1>2. tree[n].sub \in Seq(1..(n - 1))
  BY <1>1 DEF IsTree
<1>3. tree[n].sub[k] \in 1..(n - 1)
  BY <1>2
<1> QED
  BY <1>1, <1>3

Finds(f, tree, m) ==
  f = [n \in 1..m |-> LiteralsOf(tree[n], BranchesOf(tree[n], f))]

LEMMA FindsOneMore ==
  ASSUME NEW tree, IsTree(tree), NEW m \in Nat, m + 1 <= Len(tree),
         NEW f, Finds(f, tree, m)
  PROVE  \E g : Finds(g, tree, m + 1)
<1> DEFINE g == [n \in 1..(m + 1) |-> IF n = m + 1 THEN LiteralsOf(tree[n], BranchesOf(tree[n], f)) ELSE f[n]]
<1>1. ASSUME NEW n \in 1..(m + 1) PROVE BranchesOf(tree[n], g) = BranchesOf(tree[n], f)
  <2>1. \A k \in DOMAIN tree[n].sub : tree[n].sub[k] \in 1..m
    BY SubsAreBefore
  <2>2. \A k \in DOMAIN tree[n].sub : g[tree[n].sub[k]] = f[tree[n].sub[k]]
    BY <2>1
  <2> QED
    BY <2>2 DEF BranchesOf
<1>2. ASSUME NEW n \in 1..(m + 1) PROVE g[n] = LiteralsOf(tree[n], BranchesOf(tree[n], f))
  <2>1. CASE n = m + 1
    BY <2>1
  <2>2. CASE n # m + 1
    <3>1. n \in 1..m
      BY <2>2
    <3>2. f[n] = LiteralsOf(tree[n], BranchesOf(tree[n], f))
      BY <3>1, Zenon DEF Finds
    <3> QED
      BY <2>2, <3>2
  <2> QED
    BY <2>1, <2>2
<1>3. g = [n \in 1..(m + 1) |-> g[n]]
  OBVIOUS
<1> HIDE DEF g
<1>4. g = [n \in 1..(m + 1) |-> LiteralsOf(tree[n], BranchesOf(tree[n], g))]
  BY <1>1, <1>2, <1>3
<1> QED
  BY <1>4 DEF Finds

LEMMA FindingExists ==
  ASSUME NEW tree, IsTree(tree)
  PROVE  \E f : Finds(f, tree, Len(tree))
<1> DEFINE P == {m \in Nat : m <= Len(tree) => \E f : Finds(f, tree, m)}
<1>1. Len(tree) \in Nat
  BY DEF IsTree
<1>2. 0 \in P
  <2> DEFINE f == [n \in 1..0 |-> n]
  <2>1. \A n \in 1..0 : FALSE
    OBVIOUS
  <2>2. f = [n \in 1..0 |-> LiteralsOf(tree[n], BranchesOf(tree[n], f))]
    BY <2>1
  <2> HIDE DEF f
  <2>3. Finds(f, tree, 0)
    BY <2>2 DEF Finds
  <2> QED
    BY <2>3
<1>3. ASSUME NEW m \in Nat, m \in P PROVE m + 1 \in P
  BY <1>1, <1>3, FindsOneMore
<1> HIDE DEF P
<1>4. Len(tree) \in P
  BY <1>1, <1>2, <1>3, StepByStep, Zenon
<1> QED
  BY <1>4 DEF P

LEMMA LiteralsStep ==
  ASSUME NEW tree, IsTree(tree), NEW n \in 1..Len(tree)
  PROVE  LiteralsIn(tree)[n] = LiteralsOf(tree[n], BranchesOf(tree[n], LiteralsIn(tree)))
<1>1. DOMAIN tree = 1..Len(tree)
  BY DEF IsTree
<1>2. LiteralsIn(tree) = CHOOSE f : Finds(f, tree, Len(tree))
  BY <1>1, Zenon DEF LiteralsIn, Finds
<1>3. Finds(LiteralsIn(tree), tree, Len(tree))
  BY <1>2, FindingExists, Zenon
<1> QED
  BY <1>3, Zenon DEF Finds

Spanned(f, tree, t, m) ==
  f = [n \in 1..m |-> SpansOf(tree[n], BranchesOf(tree[n], f), t)]

LEMMA SpannedOneMore ==
  ASSUME NEW tree, NEW t, IsTree(tree), NEW m \in Nat, m + 1 <= Len(tree),
         NEW f, Spanned(f, tree, t, m)
  PROVE  \E g : Spanned(g, tree, t, m + 1)
<1> DEFINE g == [n \in 1..(m + 1) |-> IF n = m + 1 THEN SpansOf(tree[n], BranchesOf(tree[n], f), t) ELSE f[n]]
<1>1. ASSUME NEW n \in 1..(m + 1) PROVE BranchesOf(tree[n], g) = BranchesOf(tree[n], f)
  <2>1. \A k \in DOMAIN tree[n].sub : tree[n].sub[k] \in 1..m
    BY SubsAreBefore
  <2>2. \A k \in DOMAIN tree[n].sub : g[tree[n].sub[k]] = f[tree[n].sub[k]]
    BY <2>1
  <2> QED
    BY <2>2 DEF BranchesOf
<1>2. ASSUME NEW n \in 1..(m + 1) PROVE g[n] = SpansOf(tree[n], BranchesOf(tree[n], f), t)
  <2>1. CASE n = m + 1
    BY <2>1
  <2>2. CASE n # m + 1
    <3>1. n \in 1..m
      BY <2>2
    <3>2. f[n] = SpansOf(tree[n], BranchesOf(tree[n], f), t)
      BY <3>1, Zenon DEF Spanned
    <3> QED
      BY <2>2, <3>2
  <2> QED
    BY <2>1, <2>2
<1>3. g = [n \in 1..(m + 1) |-> g[n]]
  OBVIOUS
<1> HIDE DEF g
<1>4. g = [n \in 1..(m + 1) |-> SpansOf(tree[n], BranchesOf(tree[n], g), t)]
  BY <1>1, <1>2, <1>3
<1> QED
  BY <1>4 DEF Spanned

LEMMA SpanningExists ==
  ASSUME NEW tree, NEW t, IsTree(tree)
  PROVE  \E f : Spanned(f, tree, t, Len(tree))
<1> DEFINE P == {m \in Nat : m <= Len(tree) => \E f : Spanned(f, tree, t, m)}
<1>1. Len(tree) \in Nat
  BY DEF IsTree
<1>2. 0 \in P
  <2> DEFINE f == [n \in 1..0 |-> n]
  <2>1. \A n \in 1..0 : FALSE
    OBVIOUS
  <2>2. f = [n \in 1..0 |-> SpansOf(tree[n], BranchesOf(tree[n], f), t)]
    BY <2>1
  <2> HIDE DEF f
  <2>3. Spanned(f, tree, t, 0)
    BY <2>2 DEF Spanned
  <2> QED
    BY <2>3
<1>3. ASSUME NEW m \in Nat, m \in P PROVE m + 1 \in P
  BY <1>1, <1>3, SpannedOneMore
<1> HIDE DEF P
<1>4. Len(tree) \in P
  BY <1>1, <1>2, <1>3, StepByStep, Zenon
<1> QED
  BY <1>4 DEF P

LEMMA SpansStep ==
  ASSUME NEW tree, NEW t, IsTree(tree), NEW n \in 1..Len(tree)
  PROVE  Spans(tree, t)[n] = SpansOf(tree[n], BranchesOf(tree[n], Spans(tree, t)), t)
<1>1. DOMAIN tree = 1..Len(tree)
  BY DEF IsTree
<1>2. Spans(tree, t) = CHOOSE f : Spanned(f, tree, t, Len(tree))
  BY <1>1, Zenon DEF Spans, Spanned
<1>3. Spanned(Spans(tree, t), tree, t, Len(tree))
  BY <1>2, SpanningExists, Zenon
<1> QED
  BY <1>3, Zenon DEF Spanned

-----------------------------------------------------------------------------
(* Where a node matches, one of its literals occurs                        *)

LowerCase == {ToLower(s) : s \in Seq(Letter)}

FoundIn(set, t) == \E k \in DOMAIN set : Occurs(set[k], ToLower(t))

Sound(set, spans, t) ==
  /\ set \in Seq(LowerCase)
  /\ set # None /\ spans # {} => FoundIn(set, t)

LEMMA LoweredOccurs ==
  ASSUME NEW s \in Seq(Letter), NEW t \in Seq(Letter), NEW p \in Places(t), p + Len(s) <= Len(t),
         \A n \in DOMAIN s : Lower[t[p + n]] = Lower[s[n]]
  PROVE  Occurs(ToLower(s), ToLower(t))
<1> DEFINE ls == ToLower(s)
           lt == ToLower(t)
<1>1. /\ Len(s) \in Nat /\ DOMAIN s = 1..Len(s) /\ Len(t) \in Nat /\ DOMAIN t = 1..Len(t)
      /\ p \in Nat
  BY DEF Places
<1>2. ls = [n \in 1..Len(s) |-> Lower[s[n]]] /\ lt = [n \in 1..Len(t) |-> Lower[t[n]]]
  BY <1>1 DEF ToLower
<1> HIDE DEF ls, lt
<1>3. Len(ls) = Len(s) /\ Len(lt) = Len(t) /\ DOMAIN ls = 1..Len(s)
  BY <1>1, <1>2
<1>4. ASSUME NEW n \in DOMAIN ls PROVE lt[p + n] = ls[n]
  <2>1. n \in 1..Len(s) /\ p + n \in 1..Len(t)
    BY <1>1, <1>3
  <2>2. ls[n] = Lower[s[n]] /\ lt[p + n] = Lower[t[p + n]]
    BY <1>2, <2>1
  <2> QED
    BY <1>1, <2>1, <2>2
<1>5. OccursAt(ls, lt, p)
  BY <1>3, <1>4 DEF OccursAt
<1>6. p \in 0..Len(lt)
  BY <1>3 DEF Places
<1> QED
  BY <1>5, <1>6 DEF Occurs, ls, lt

LEMMA LiteralIsSound ==
  ASSUME NEW tree, NEW t \in Seq(Letter), IsTree(tree), LowersAlike(tree, t),
         NEW n \in DOMAIN tree, tree[n].op = "literal", NEW branches
  PROVE  Sound(OfLiteral(tree[n]), SpansOf(tree[n], branches, t), t)
<1> DEFINE s == tree[n].runes
<1>1. s \in Seq(Letter) /\ tree[n].fold \in BOOLEAN
  BY DEF IsTree
<1>2. OfLiteral(tree[n]) = None \/ OfLiteral(tree[n]) = <<ToLower(s)>>
  BY DEF OfLiteral
<1>3. ToLower(s) \in LowerCase
  BY <1>1 DEF LowerCase
<1>4. OfLiteral(tree[n]) \in Seq(LowerCase)
  <2> DEFINE l == ToLower(s)
  <2> HIDE DEF l
  <2>1. l \in LowerCase => <<l>> \in Seq(LowerCase)
    OBVIOUS
  <2>2. <<>> \in Seq(LowerCase)
    OBVIOUS
  <2> QED
    BY <1>2, <1>3, <2>1, <2>2 DEF None, l
<1>5. ASSUME SpansOf(tree[n], branches, t) # {} PROVE Occurs(ToLower(s), ToLower(t))
  <2>1. PICK p \in Places(t) : IF tree[n].fold THEN FoldsAt(s, t, p) ELSE OccursAt(s, t, p)
    BY <1>5 DEF SpansOf
  <2>2. p + Len(s) <= Len(t)
    BY <2>1 DEF FoldsAt, OccursAt
  <2>3. /\ Len(s) \in Nat /\ DOMAIN s = 1..Len(s) /\ Len(t) \in Nat /\ DOMAIN t = 1..Len(t)
        /\ p \in Nat
    BY <1>1 DEF Places
  <2>4. ASSUME NEW k \in DOMAIN s PROVE Lower[t[p + k]] = Lower[s[k]]
    <3>1. p + k \in DOMAIN t
      BY <2>2, <2>3
    <3>2. CASE tree[n].fold
      <4>1. t[p + k] \in Orbit[s[k]]
        BY <2>1, <3>2 DEF FoldsAt
      <4> QED
        BY <3>1, <3>2, <4>1 DEF LowersAlike
    <3>3. CASE ~tree[n].fold
      BY <2>1, <3>3 DEF OccursAt
    <3> QED
      BY <3>2, <3>3
  <2> QED
    BY <1>1, <2>1, <2>2, <2>4, LoweredOccurs
<1> DEFINE l == ToLower(s)
<1> HIDE DEF l
<1>6. DOMAIN <<l>> = {1} /\ <<l>>[1] = l
  OBVIOUS
<1>7. Occurs(l, ToLower(t)) => FoundIn(<<l>>, t)
  BY <1>6 DEF FoundIn
<1> QED
  BY <1>2, <1>4, <1>5, <1>7 DEF Sound, l

LEMMA ConcatIsSound ==
  ASSUME NEW t, NEW sets, NEW spans, Len(sets) \in Nat, Len(spans) = Len(sets),
         \A k \in 1..Len(sets) : Sound(sets[k], spans[k], t)
  PROVE  Sound(OfConcat(sets), Chain(spans, t), t)
<1>1. CASE Best(sets) = 0
  BY <1>1 DEF OfConcat, Sound, None
<1>2. CASE Best(sets) # 0
  <2> DEFINE b == Best(sets)
  <2>1. b \in 1..Len(sets) /\ sets[b] # None /\ OfConcat(sets) = sets[b]
    BY <1>2, BestHasLiterals DEF OfConcat
  <2>2. Chain(spans, t) # {} => spans[b] # {}
    BY <2>1, ChainNeedsAll
  <2> QED
    BY <2>1, <2>2 DEF Sound
<1> QED
  BY <1>1, <1>2

LEMMA AlternateIsSound ==
  ASSUME NEW t, NEW sets, NEW spans, Len(sets) \in Nat,
         DOMAIN sets = 1..Len(sets), DOMAIN spans = 1..Len(sets),
         \A k \in 1..Len(sets) : Sound(sets[k], spans[k], t)
  PROVE  Sound(OfAlternate(sets), UNION {spans[k] : k \in DOMAIN spans}, t)
<1>1. CASE \E k \in DOMAIN sets : sets[k] = None
  BY <1>1 DEF OfAlternate, Sound, None
<1>2. CASE \A k \in DOMAIN sets : sets[k] # None
  <2>1. OfAlternate(sets) = Joined(sets)
    BY <1>2 DEF OfAlternate
  <2>2. \A k \in 1..Len(sets) : sets[k] \in Seq(LowerCase)
    BY DEF Sound
  <2>3. Joined(sets) \in Seq(LowerCase) /\ HasAll(Joined(sets), sets, Len(sets))
    BY <2>2, JoinedHasAll
  <2>4. ASSUME UNION {spans[k] : k \in DOMAIN spans} # {} PROVE FoundIn(Joined(sets), t)
    <3>1. PICK k \in 1..Len(sets) : spans[k] # {}
      BY <2>4
    <3>2. FoundIn(sets[k], t)
      BY <1>2, <3>1 DEF Sound
    <3> QED
      BY <2>3, <3>2 DEF FoundIn, HasAll
  <2> QED
    BY <2>1, <2>3, <2>4 DEF Sound
<1> QED
  BY <1>1, <1>2

LEMMA NodeIsSound ==
  ASSUME NEW tree, NEW t \in Seq(Letter), IsTree(tree), LowersAlike(tree, t), NEW n \in DOMAIN tree,
         NEW sets, NEW spans,
         DOMAIN sets = DOMAIN tree[n].sub, DOMAIN spans = DOMAIN tree[n].sub,
         Len(sets) = Len(tree[n].sub), Len(spans) = Len(tree[n].sub),
         \A k \in DOMAIN tree[n].sub : Sound(sets[k], spans[k], t)
  PROVE  Sound(LiteralsOf(tree[n], sets), SpansOf(tree[n], spans, t), t)
<1> DEFINE node == tree[n]
           N == Len(node.sub)
<1>1. node.op \in {"literal", "class", "concat", "alternate"} \cup Unary
  BY DEF IsTree
<1>2. N \in Nat /\ DOMAIN node.sub = 1..N /\ n \in Int
  <2>1. n \in Int /\ node.sub \in Seq(1..(n - 1))
    BY DEF IsTree
  <2> QED
    BY <2>1
<1>3. node.op \in Unary => Sound(sets[1], spans[1], t)
  <2> SUFFICES ASSUME node.op \in Unary PROVE Sound(sets[1], spans[1], t)
    OBVIOUS
  <2>1. N = 1
    BY DEF IsTree
  <2> QED
    BY <1>2, <2>1
<1>4. Len(t) \in Nat
  OBVIOUS
<1>5. CASE node.op = "literal"
  <2>1. LiteralsOf(node, sets) = OfLiteral(node)
    BY <1>5 DEF LiteralsOf
  <2> QED
    BY <1>5, <2>1, LiteralIsSound
<1>6. CASE node.op \in {"class", "star", "quest"}
  <2>1. LiteralsOf(node, sets) = None
    BY <1>6 DEF LiteralsOf
  <2> QED
    BY <2>1 DEF Sound, None
<1>7. CASE node.op = "capture"
  <2>1. LiteralsOf(node, sets) = sets[1] /\ SpansOf(node, spans, t) = spans[1]
    BY <1>7 DEF LiteralsOf, SpansOf
  <2> QED
    BY <1>3, <1>7, <2>1 DEF Unary
<1>8. CASE node.op = "plus"
  <2>1. LiteralsOf(node, sets) = sets[1] /\ SpansOf(node, spans, t) = Between(1, Len(t) + 1, spans[1], t)
    BY <1>8 DEF LiteralsOf, SpansOf
  <2>2. 1 \in Nat /\ 1 >= 1 /\ Len(t) + 1 \in Int
    BY <1>4
  <2>3. SpansOf(node, spans, t) # {} => spans[1] # {}
    BY <2>1, <2>2, RepetitionNeedsIt, Zenon
  <2> QED
    BY <1>3, <1>8, <2>1, <2>3 DEF Unary, Sound
<1>9. CASE node.op = "repeat" /\ node.min >= 1
  <2>1. node.min \in Nat /\ node.max \in Nat \cup {-1}
    BY <1>9 DEF IsTree
  <2>2. /\ LiteralsOf(node, sets) = sets[1]
        /\ SpansOf(node, spans, t) =
             Between(node.min, IF node.max = -1 THEN node.min + Len(t) ELSE node.max, spans[1], t)
    BY <1>9 DEF LiteralsOf, SpansOf
  <2>3. (IF node.max = -1 THEN node.min + Len(t) ELSE node.max) \in Int
    BY <1>4, <2>1
  <2>4. SpansOf(node, spans, t) # {} => spans[1] # {}
    BY <1>9, <2>1, <2>2, <2>3, RepetitionNeedsIt
  <2> QED
    BY <1>3, <1>9, <2>2, <2>4 DEF Unary, Sound
<1>10. CASE node.op = "repeat" /\ ~(node.min >= 1)
  <2>1. LiteralsOf(node, sets) = None
    BY <1>10 DEF LiteralsOf
  <2> QED
    BY <2>1 DEF Sound, None
<1>11. CASE node.op = "concat"
  <2>1. LiteralsOf(node, sets) = OfConcat(sets) /\ SpansOf(node, spans, t) = Chain(spans, t)
    BY <1>11 DEF LiteralsOf, SpansOf
  <2> QED
    BY <1>2, <2>1, ConcatIsSound
<1>12. CASE node.op = "alternate"
  <2>1. /\ LiteralsOf(node, sets) = OfAlternate(sets)
        /\ SpansOf(node, spans, t) = UNION {spans[k] : k \in DOMAIN spans}
    BY <1>12 DEF LiteralsOf, SpansOf
  <2> QED
    BY <1>2, <2>1, AlternateIsSound
<1> QED
  BY <1>1, <1>5, <1>6, <1>7, <1>8, <1>9, <1>10, <1>11, <1>12 DEF Unary

(* Of every match of the expression the text has one of its literals.      *)
LEMMA LiteralsAreRequired ==
  ASSUME NEW tree, NEW t \in Seq(Letter), IsTree(tree), LowersAlike(tree, t)
  PROVE  \A n \in 1..Len(tree) : Sound(LiteralsIn(tree)[n], Spans(tree, t)[n], t)
<1> DEFINE sets == LiteralsIn(tree)
           spans == Spans(tree, t)
           P == {m \in Nat : m <= Len(tree) => \A n \in 1..m : Sound(sets[n], spans[n], t)}
<1>1. Len(tree) \in Nat /\ DOMAIN tree = 1..Len(tree)
  BY DEF IsTree
<1>2. 0 \in P
  OBVIOUS
<1>3. ASSUME NEW m \in Nat, m \in P PROVE m + 1 \in P
  <2> SUFFICES ASSUME m + 1 <= Len(tree), NEW n \in 1..(m + 1) PROVE Sound(sets[n], spans[n], t)
    OBVIOUS
  <2>1. \A j \in 1..m : Sound(sets[j], spans[j], t)
    BY <1>1, <1>3
  <2>2. n \in 1..Len(tree)
    BY <1>1
  <2> DEFINE sub == tree[n].sub
             a == BranchesOf(tree[n], sets)
             b == BranchesOf(tree[n], spans)
  <2>3. \A k \in DOMAIN sub : sub[k] \in 1..m
    BY SubsAreBefore
  <2>4. \A k \in DOMAIN sub : Sound(a[k], b[k], t)
    BY <2>1, <2>3 DEF BranchesOf
  <2>5. DOMAIN sub = 1..Len(sub) /\ Len(sub) \in Nat
    <3>1. sub \in Seq(1..(n - 1))
      BY <1>1, <2>2 DEF IsTree
    <3> QED
      BY <3>1
  <2>6. DOMAIN a = DOMAIN sub /\ DOMAIN b = DOMAIN sub /\ Len(a) = Len(sub) /\ Len(b) = Len(sub)
    BY <2>5 DEF BranchesOf
  <2>7. sets[n] = LiteralsOf(tree[n], a) /\ spans[n] = SpansOf(tree[n], b, t)
    BY <2>2, LiteralsStep, SpansStep
  <2> HIDE DEF a, b, sets, spans
  <2> QED
    BY <1>1, <2>2, <2>4, <2>6, <2>7, NodeIsSound
<1> HIDE DEF P
<1>4. Len(tree) \in P
  BY <1>1, <1>2, <1>3, StepByStep, Zenon
<1> QED
  BY <1>1, <1>4 DEF P

LEMMA FilterIsExpression ==
  ASSUME NEW tree, NEW t \in Seq(Letter), IsTree(tree), LowersAlike(tree, t)
  PROVE  MatchString(tree, t) <=> Matches(tree, t)
<1>1. Len(tree) \in 1..Len(tree)
  BY DEF IsTree
<1>2. Sound(LiteralsIn(tree)[Len(tree)], Spans(tree, t)[Len(tree)], t)
  BY <1>1, LiteralsAreRequired
<1>3. Matches(tree, t) /\ requiredLiterals(tree) # None => FoundIn(requiredLiterals(tree), t)
  BY <1>2 DEF Matches, requiredLiterals, Sound
<1> QED
  BY <1>3, Zenon DEF MatchString, FastMatch, FoundIn

-----------------------------------------------------------------------------
(* The question asked is answered for the expression and text it is about. *)
FilterInv ==
  /\ regexp \in Regexps /\ sample \in Samples
  /\ hit \in {"", "yes", "no"}
  /\ hit # "" => (hit = "yes" <=> MatchString(regexp, sample))

LEMMA FilterInvariance == FilterSpec => []FilterInv
<1>1. FilterInit => FilterInv
  BY DEF FilterInit, FilterInv
<1>2. FilterInv /\ [FilterNext]_filterVars => FilterInv'
  <2> SUFFICES ASSUME FilterInv, [FilterNext]_filterVars PROVE FilterInv'
    OBVIOUS
  <2>1. CASE Ask
    BY <2>1, Zenon DEF Ask, FilterInv
  <2>2. CASE Told
    BY <2>2, Zenon DEF Told, FilterInv, filterVars
  <2>3. CASE UNCHANGED filterVars
    BY <2>3, Zenon DEF FilterInv, filterVars
  <2> QED
    BY <2>1, <2>2, <2>3 DEF FilterNext
<1> QED
  BY <1>1, <1>2, PTL DEF FilterSpec

(* Whatever the expression and the text, no choice of literals rejects a   *)
(* text the expression matches, where letters are lowered as they fold     *)
(* (fastre.go 23-27, 51-118).                                              *)
THEOREM FilterIsSound == FilterSpec => []FilterLosesNothing
<1>1. FilterInv => FilterLosesNothing
  <2> SUFFICES ASSUME FilterInv, hit # "", LowersAlike(regexp, sample)
               PROVE  (hit = "yes") = Matches(regexp, sample)
    BY DEF FilterLosesNothing
  <2>1. IsTree(regexp) /\ sample \in Seq(Letter)
    BY RegexpsAssumption DEF FilterInv
  <2>2. MatchString(regexp, sample) <=> Matches(regexp, sample)
    BY <2>1, FilterIsExpression
  <2>3. hit = "yes" <=> MatchString(regexp, sample)
    BY DEF FilterInv
  <2>4. Matches(regexp, sample) \in BOOLEAN
    BY DEF Matches
  <2> QED
    BY <2>2, <2>3, <2>4
<1> QED
  BY <1>1, FilterInvariance, PTL

-----------------------------------------------------------------------------
(* linkScan                                                                *)

(* The footer links among the anchors that name a type, and those of which *)
(* the first is kept.                                                      *)
Footer(t) == {n \in Naming(t) : Source(page, page.anchors[n]) = "footer_link"}

Eligible(t) == IF Footer(t) = {} THEN Naming(t) ELSE Footer(t)

(* The scan runs over the anchors of one page from the first.              *)
ScanTypeOK ==
  /\ page \in Pages
  /\ next \in Nat \ {0}
  /\ \A n \in 1..(next - 1) : n \in 1..Len(page.anchors)
  /\ hits = [t \in Types |-> hits[t]]

(* The hit of a type is that of the first eligible anchor.                 *)
KeptInv ==
  \A t \in Types :
    \/ Naming(t) = {} /\ hits[t] = NoHit
    \/ \E m : IsLeast(m, Eligible(t)) /\ hits[t] = Hit(page, page.anchors[m])
-----------------------------------------------------------------------------
(* A later element does not change which is first; and a single element    *)
(* is.                                                                     *)
LEMMA FirstStays ==
  ASSUME NEW S, NEW m, IsLeast(m, S), NEW k, \A n \in S : n <= k
  PROVE  IsLeast(m, S \cup {k})
BY DEF IsLeast

LEMMA SingleIsLeast == ASSUME NEW k \in Nat PROVE IsLeast(k, {k})
BY DEF IsLeast

(* Evidence of a type comes with a floor: such a hit is not the absent one.*)
LEMMA EvidenceIsAHit ==
  ASSUME NEW p, NEW a, Evidence(p, a).type # ""
  PROVE  Hit(p, a) # NoHit
<1>1. Evidence(p, a).floor \in {"low", "medium"}
  BY DEF Evidence, classifyLinkEvidence, Unclassified, Verdict
<1>2. Hit(p, a).floor = Evidence(p, a).floor /\ NoHit.floor = "none"
  BY DEF Hit, NoHit
<1> QED
  BY <1>1, <1>2

-----------------------------------------------------------------------------
(* The hit that is kept                                                    *)

LEMMA InitKept == Init => ScanTypeOK /\ KeptInv
<1> SUFFICES ASSUME Init PROVE ScanTypeOK /\ KeptInv
  OBVIOUS
<1>1. 1..(next - 1) = {}
  BY DEF Init
<1>2. ScanTypeOK
  BY <1>1 DEF Init, ScanTypeOK
<1>3. \A t \in Types : Naming(t) = {} /\ hits[t] = NoHit
  BY <1>1 DEF Init, Naming
<1> QED
  BY <1>2, <1>3 DEF KeptInv

(* Looking at an anchor adds it to those that name its type, at the end.   *)
LEMMA LookingAdds ==
  ASSUME ScanTypeOK, Looking, Advance, NEW t
  PROVE  /\ Naming(t) \in SUBSET Nat /\ Footer(t) \in SUBSET Naming(t)
         /\ \A n \in Naming(t) : n <= next
         /\ Naming(t)' = IF t = Evidence(page, Current).type
                         THEN Naming(t) \cup {next} ELSE Naming(t)
         /\ Footer(t)' = IF /\ t = Evidence(page, Current).type
                            /\ Source(page, Current) = "footer_link"
                         THEN Footer(t) \cup {next} ELSE Footer(t)
<1>1. next \in Nat \ {0} /\ next' = next + 1 /\ page' = page
  BY DEF ScanTypeOK, Advance
<1>2. 1..(next' - 1) = (1..(next - 1)) \cup {next}
  BY <1>1
<1>3. \A n \in 1..(next - 1) : n \in Nat /\ n <= next
  BY <1>1
<1> QED
  BY <1>1, <1>2, <1>3 DEF Naming, Footer, Current

(* The scan goes on over the same page.                                    *)
LEMMA StepScan == ScanTypeOK /\ [Next]_vars => ScanTypeOK'
<1> SUFFICES ASSUME ScanTypeOK, [Next]_vars PROVE ScanTypeOK'
  OBVIOUS
<1>1. CASE UNCHANGED vars
  BY <1>1 DEF vars, ScanTypeOK
<1>2. ASSUME Looking, Advance, hits' = [t \in Types |-> hits'[t]] PROVE ScanTypeOK'
  <2>1. next \in Nat \ {0} /\ next' = next + 1 /\ page' = page
    BY <1>2 DEF ScanTypeOK, Advance
  <2>2. page.anchors \in Seq([href : Destinations, text : LinkTexts, offset : Nat])
    BY PagesAssumption DEF ScanTypeOK
  <2>3. Len(page.anchors) \in Nat
    BY <2>2
  <2>4. \A n \in 1..(next' - 1) : n \in 1..(next - 1) \/ n = next
    BY <2>1
  <2>5. next \in 1..Len(page.anchors)
    BY <1>2, <2>1, <2>3 DEF Looking
  <2>6. \A n \in 1..(next' - 1) : n \in 1..Len(page'.anchors)
    BY <2>1, <2>4, <2>5 DEF ScanTypeOK
  <2> QED
    BY <1>2, <2>1, <2>6 DEF ScanTypeOK
<1>3. ASSUME hits' = hits \/ \E a : Store(a) PROVE hits' = [t \in Types |-> hits'[t]]
  BY <1>3 DEF Store, ScanTypeOK
<1> QED
  BY <1>1, <1>2, <1>3 DEF Next, Skip, Found, Again, Scanned

(* Looking at an anchor keeps the hits right: the first of a type is       *)
(* stored, a footer link replaces one that is not, and every other anchor  *)
(* comes too late.                                                         *)
LEMMA LookingKeeps ==
  ASSUME ScanTypeOK, KeptInv, Skip \/ Found \/ Again
  PROVE  KeptInv'
<1> DEFINE a  == Current
           t0 == Evidence(page, a).type
<1>0. Looking /\ Advance
  BY DEF Skip, Found, Again
<1>1. page' = page /\ next \in Nat
  BY <1>0 DEF Advance, ScanTypeOK
<1> SUFFICES ASSUME NEW t \in Types
             PROVE  \/ Naming(t)' = {} /\ hits'[t] = NoHit
                    \/ \E m : IsLeast(m, Eligible(t)') /\ hits'[t] = Hit(page, page.anchors[m])
  BY <1>1 DEF KeptInv
<1>2. t # ""
  BY LinkAssumption
<1>3. /\ Naming(t) \in SUBSET Nat /\ Footer(t) \in SUBSET Naming(t)
      /\ \A n \in Naming(t) : n <= next
      /\ Naming(t)' = IF t = t0 THEN Naming(t) \cup {next} ELSE Naming(t)
      /\ Footer(t)' = IF t = t0 /\ Source(page, a) = "footer_link"
                      THEN Footer(t) \cup {next} ELSE Footer(t)
  BY <1>0, LookingAdds
<1>4. CASE t # t0
  <2>1. Naming(t)' = Naming(t) /\ Eligible(t)' = Eligible(t)
    BY <1>3, <1>4 DEF Eligible
  <2>2. hits'[t] = hits[t]
    BY <1>4 DEF Skip, Found, Again, Store, ScanTypeOK
  <2> QED
    BY <2>1, <2>2 DEF KeptInv
<1>5. CASE t = t0 /\ Naming(t) = {}
  <2>1. hits[t] = NoHit
    <3>1. \A m : ~IsLeast(m, Eligible(t))
      BY <1>3, <1>5 DEF IsLeast, Eligible
    <3> QED
      BY <3>1 DEF KeptInv
  <2>2. hits'[t] = Hit(page, page.anchors[next])
    BY <1>2, <1>5, <2>1 DEF Skip, Found, Again, Store, ScanTypeOK, Current
  <2>3. Eligible(t)' = {next}
    BY <1>3, <1>5 DEF Eligible
  <2> QED
    BY <1>1, <2>2, <2>3, SingleIsLeast
<1>6. CASE t = t0 /\ Naming(t) # {}
  <2>0. PICK m : IsLeast(m, Eligible(t)) /\ hits[t] = Hit(page, page.anchors[m])
    BY <1>6 DEF KeptInv
  <2>1. m \in Naming(t) /\ Evidence(page, page.anchors[m]).type = t
    BY <1>3, <2>0 DEF IsLeast, Eligible, Naming
  <2>2. hits[t] # NoHit
    BY <1>2, <2>0, <2>1, EvidenceIsAHit
  <2>3. hits[t].source = "footer_link" <=> Footer(t) # {}
    <3>1. hits[t].source = Source(page, page.anchors[m])
      BY <2>0 DEF Hit
    <3>2. Footer(t) # {} => m \in Footer(t)
      BY <2>0 DEF IsLeast, Eligible
    <3> QED
      BY <2>1, <3>1, <3>2 DEF Footer
  <2>4. IF Footer(t) = {} /\ Source(page, a) = "footer_link"
        THEN hits'[t] = Hit(page, a) ELSE hits'[t] = hits[t]
    BY <1>2, <1>6, <2>2, <2>3 DEF Skip, Found, Again, Store, ScanTypeOK
  <2>5. CASE Footer(t) = {} /\ Source(page, a) = "footer_link"
    <3>1. Eligible(t)' = {next}
      BY <1>3, <1>6, <2>5 DEF Eligible
    <3> QED
      BY <1>1, <2>4, <2>5, <3>1, SingleIsLeast DEF Current
  <2>6. CASE ~(Footer(t) = {} /\ Source(page, a) = "footer_link")
    <3>1. Eligible(t)' = Eligible(t) \/ Eligible(t)' = Eligible(t) \cup {next}
      BY <1>3, <1>6, <2>6 DEF Eligible
    <3>2. \A n \in Eligible(t) : n <= next
      BY <1>3 DEF Eligible
    <3>3. IsLeast(m, Eligible(t)')
      BY <2>0, <3>1, <3>2, FirstStays
    <3> QED
      BY <2>0, <2>4, <2>6, <3>3
  <2> QED
    BY <2>5, <2>6
<1> QED
  BY <1>4, <1>5, <1>6

LEMMA StepKept == ScanTypeOK /\ KeptInv /\ [Next]_vars => KeptInv'
<1> SUFFICES ASSUME ScanTypeOK, KeptInv, [Next]_vars PROVE KeptInv'
  OBVIOUS
<1>1. CASE UNCHANGED vars
  BY <1>1 DEF vars, KeptInv, Naming, Eligible, Footer
<1> QED
  BY <1>1, LookingKeeps DEF Next, Scanned

THEOREM LinksAreKept == Spec => [](ScanTypeOK /\ KeptInv)
BY InitKept, StepScan, StepKept, PTL DEF Spec

(* Per type linkScan keeps the first footer link, else the first link      *)
(* (FirstFooterLinkElseFirst), wherever the footer stands and however many *)
(* anchors name the type (discover.go 12-14, 76-82).                       *)
THEOREM FirstFooterLinkIsKept == Spec => []FirstFooterLinkElseFirst
<1>1. ASSUME ScanTypeOK, KeptInv PROVE FirstFooterLinkElseFirst
  <2> SUFFICES ASSUME NEW t \in Types
               PROVE  hits[t] = IF Naming(t) = {} THEN NoHit
                                ELSE Hit(page, page.anchors[Min(Eligible(t))])
    BY DEF FirstFooterLinkElseFirst, Eligible, Footer
  <2>1. Eligible(t) \in SUBSET Nat /\ (Naming(t) = {} => Eligible(t) = {})
    BY <1>1 DEF Eligible, Footer, Naming, ScanTypeOK
  <2>2. CASE Naming(t) = {}
    BY <1>1, <2>1, <2>2 DEF KeptInv, IsLeast
  <2>3. CASE Naming(t) # {}
    <3>1. PICK m : IsLeast(m, Eligible(t)) /\ hits[t] = Hit(page, page.anchors[m])
      BY <1>1, <2>3 DEF KeptInv
    <3>2. Min(Eligible(t)) = m
      BY <2>1, <3>1, LeastIsMin
    <3> QED
      BY <2>3, <3>1, <3>2
  <2> QED
    BY <2>2, <2>3
<1> QED
  BY <1>1, LinksAreKept, PTL

-----------------------------------------------------------------------------
(* The types a path and a text name                                        *)

(* The first pattern of a set of types is one of them.                     *)
LEMMA FirstInSet ==
  ASSUME NEW S \in SUBSET Types, S # {}
  PROVE  FirstIn(S) \in S
<1> DEFINE N == {n \in 1..Len(Patterns) : Patterns[n] \in S}
<1>1. N \in SUBSET Nat /\ N # {}
  BY DEF Types
<1>2. PICK m : IsLeast(m, N)
  BY <1>1, LeastNumber
<1>3. Min(N) = m /\ m \in N
  <2> HIDE DEF N
  <2>1. Min(N) = m
    BY <1>1, <1>2, LeastIsMin
  <2> QED
    BY <1>2, <2>1 DEF IsLeast
<1>4. FirstIn(S) = Patterns[Min(N)]
  BY DEF FirstIn
<1> QED
  BY <1>3, <1>4

(* A specific type named without a text comes from the path; and then the  *)
(* path alone decides the type whatever the text, and the text the floor.  *)
LEMMA PathNames ==
  ASSUME NEW path \in Paths, classifyLinkEvidence(path, NoText).type \notin Hubs \cup {""}
  PROVE  LET t == classifyLinkEvidence(path, NoText).type
         IN  /\ t \in PathTypes[path] \ Hubs
             /\ \A x \in LinkTexts :
                  /\ classifyLinkEvidence(path, x).type = t
                  /\ t \in TextTypes[x] => classifyLinkEvidence(path, x).floor = "medium"
<1> DEFINE byPath == PathTypes[path] \ Hubs
           hubs   == HubByPath(path) \cup HubByText(path, NoText)
<1>1. /\ PathTypes[path] \in SUBSET Types /\ Hubs \subseteq Types
      /\ TextTypes[NoText] = {} /\ NoText \in LinkTexts
  BY LinkAssumption
<1>2. hubs \in SUBSET Hubs
  BY DEF HubByPath, HubByText
<1>3. byPath # {}
  <2> SUFFICES ASSUME byPath = {} PROVE FALSE
    OBVIOUS
  <2>1. TextTypes[NoText] \ (Hubs \cup {Disclaimer}) = {}
    BY <1>1
  <2>2. CASE hubs = {}
    BY <2>1, <2>2 DEF classifyLinkEvidence, Unclassified, Verdict
  <2>3. CASE hubs # {}
    <3>1. FirstIn(hubs) \in Hubs
      BY <1>1, <1>2, <2>3, FirstInSet
    <3> QED
      BY <2>1, <2>3, <3>1 DEF classifyLinkEvidence, Verdict
  <2> QED
    BY <2>2, <2>3
<1>4. FirstIn(byPath) \in byPath
  BY <1>1, <1>3, FirstInSet
<1> DEFINE first == FirstIn(byPath)
<1>5. \A x \in LinkTexts :
        /\ classifyLinkEvidence(path, x).type = first
        /\ first \in TextTypes[x] => classifyLinkEvidence(path, x).floor = "medium"
  BY <1>3 DEF classifyLinkEvidence, Verdict
<1> HIDE DEF byPath, hubs, first
<1>6. classifyLinkEvidence(path, NoText).type = first
  BY <1>1, <1>5
<1>7. first \in PathTypes[path] \ Hubs
  BY <1>4 DEF first, byPath
<1> QED
  BY <1>5, <1>6, <1>7

(* A specific type named at the root of a site comes from the text.        *)
LEMMA TextNames ==
  ASSUME NEW x \in LinkTexts, classifyLinkEvidence(Root, x).type \notin Hubs \cup {""}
  PROVE  classifyLinkEvidence(Root, x).type \in TextTypes[x]
<1> DEFINE byText == TextTypes[x] \ (Hubs \cup {Disclaimer})
           hubs   == HubByPath(Root) \cup HubByText(Root, x)
<1>1. /\ PathTypes[Root] \ Hubs = {} /\ TextTypes[x] \in SUBSET Types /\ Hubs \in SUBSET Types
  BY LinkAssumption
<1>2. hubs \in SUBSET Hubs
  BY DEF HubByPath, HubByText
<1>3. CASE byText # {}
  <2>1. FirstIn(byText) \in byText
    BY <1>1, <1>3, FirstInSet
  <2> QED
    BY <1>1, <1>3, <2>1 DEF classifyLinkEvidence, Verdict
<1>4. CASE byText = {} /\ hubs # {}
  <2>1. FirstIn(hubs) \in Hubs
    BY <1>1, <1>2, <1>4, FirstInSet
  <2> QED
    BY <1>1, <1>4, <2>1 DEF classifyLinkEvidence, Verdict
<1>5. CASE byText = {} /\ hubs = {}
  BY <1>1, <1>5 DEF classifyLinkEvidence, Unclassified, Verdict
<1> QED
  BY <1>3, <1>4, <1>5

(* A sequence over a set holds members of it.                              *)
LEMMA SequenceHolds ==
  ASSUME NEW S, NEW s \in Seq(S)
  PROVE  Len(s) \in Nat /\ \A n \in 1..Len(s) : s[n] \in S
OBVIOUS

(* The URL of a page function is one the page has for it.                  *)
LEMMA FunctionURLs ==
  ASSUME NEW p \in Pages, NEW fn
  PROVE  staticScriptLegalURLs(p, fn) \in URLs \cup {NoURL}
<1> DEFINE fs == p.functions
           ds == {n \in 1..Len(fs) :
                    fs[n].name = fn /\ \E u \in fs[n].literals : fs[n].literals = {u}}
           ms == {Len(fs) - n : n \in ds}
           last == Max(ds)
<1>1. fs \in Seq([name : STRING, literals : SUBSET URLs])
  BY PagesAssumption
<1>2. Len(fs) \in Nat /\ \A n \in 1..Len(fs) : fs[n].literals \in SUBSET URLs
  <2> HIDE DEF fs
  <2>1. Len(fs) \in Nat /\ \A n \in 1..Len(fs) : fs[n] \in [name : STRING, literals : SUBSET URLs]
    BY <1>1, SequenceHolds, Zenon
  <2> QED
    BY <2>1
<1>3. CASE ds = {}
  BY <1>3, SMTT(30) DEF staticScriptLegalURLs
<1>4. CASE ds # {}
  <2>1. ds \in SUBSET Nat /\ ms \in SUBSET Nat /\ ms # {}
    <3>1. \A n \in ds : n \in Nat /\ n <= Len(fs)
      BY <1>2
    <3> HIDE DEF fs, ds
    <3>2. \A n \in ds : Len(fs) - n \in Nat
      BY <1>2, <3>1
    <3>3. ds \in SUBSET Nat
      BY <3>1
    <3>4. ms \in SUBSET Nat
      BY <3>2
    <3> QED
      BY <1>4, <3>3, <3>4
  <2>2. PICK m : IsLeast(m, ms)
    BY <2>1, LeastNumber
  <2>3. \E n \in ds : \A k \in ds : n >= k
    <3>1. PICK n \in ds : m = Len(fs) - n
      BY <2>2 DEF IsLeast
    <3>2. ASSUME NEW k \in ds PROVE n >= k
      <4>1. m <= Len(fs) - k
        BY <2>2 DEF IsLeast
      <4>2. n \in Nat /\ k \in Nat
        BY <2>1
      <4> QED
        BY <1>2, <3>1, <4>1, <4>2
    <3> QED
      BY <3>2
  <2>4. last \in ds
    <3> HIDE DEF ds
    <3> QED
      BY <2>3, Zenon DEF Max
  <2>5. fs[last].literals \in SUBSET URLs
    BY <1>2, <2>4
  <2>6. fs[last].literals # {}
    BY <2>4
  <2>7. (CHOOSE u \in fs[last].literals : TRUE) \in URLs
    BY <2>5, <2>6
  <2>8. staticScriptLegalURLs(p, fn) = CHOOSE u \in fs[last].literals : TRUE
    BY <1>4, Zenon DEF staticScriptLegalURLs
  <2> QED
    BY <2>7, <2>8
<1> QED
  BY <1>3, <1>4

(* An anchor that leads off the site is evidence only of what its path and *)
(* its text both name.                                                     *)
LEMMA OffsiteAgrees ==
  ASSUME NEW p \in Pages, NEW n \in 1..Len(p.anchors),
         Evidence(p, p.anchors[n]).type # "", ~sameSiteHost(Target(p, p.anchors[n]).host)
  PROVE  LET a == p.anchors[n]
             t == Evidence(p, a).type
         IN  /\ t \notin Hubs /\ Evidence(p, a).floor = "medium"
             /\ t \in PathTypes[Target(p, a).path] /\ t \in TextTypes[a.text]
<1> DEFINE a == p.anchors[n]
           u == Target(p, a)
           t == Evidence(p, a).type
           named == classifyLinkEvidence(u.path, NoText).type
<1>1. a.text \in LinkTexts
  <2>1. p.anchors \in Seq([href : Destinations, text : LinkTexts, offset : Nat])
    BY PagesAssumption
  <2>2. a \in [href : Destinations, text : LinkTexts, offset : Nat]
    BY <2>1, SequenceHolds, Zenon
  <2> QED
    BY <2>2
<1>2. /\ u # NoURL /\ Scripted(a)
      /\ Evidence(p, a) = classifyLinkEvidence(u.path, a.text)
  BY ZenonT(60) DEF Evidence, Unclassified, Verdict
<1>3. /\ u = staticScriptLegalURLs(p, a.href.fn)
      /\ named \notin Hubs \cup {""} /\ named = classifyLinkEvidence(Root, a.text).type
  BY <1>2, ZenonT(60) DEF Scripted, Target, staticScriptLegalTarget
<1>4. u.path \in Paths
  BY <1>2, <1>3, FunctionURLs DEF URLs
<1> HIDE DEF a, u
<1>5. named \in TextTypes[a.text]
  BY <1>1, <1>3, TextNames
<1>6. /\ named \in PathTypes[u.path] \ Hubs
      /\ classifyLinkEvidence(u.path, a.text).type = named
      /\ classifyLinkEvidence(u.path, a.text).floor = "medium"
  BY <1>1, <1>3, <1>4, <1>5, PathNames
<1> QED
  BY <1>2, <1>5, <1>6 DEF a, u

(* A document off the site is reported only when the page calls it by name *)
(* and its path agrees (OffsiteOnlyByAgreement), each on its own           *)
(* (discover.go 104-131).                                                  *)
THEOREM OffsiteLinksAgree == Spec => []OffsiteOnlyByAgreement
<1>1. ASSUME ScanTypeOK, KeptInv PROVE OffsiteOnlyByAgreement
  <2> SUFFICES ASSUME NEW t \in Types, hits[t] # NoHit, ~sameSiteHost(hits[t].url.host)
               PROVE  /\ t \notin Hubs /\ hits[t].floor = "medium"
                      /\ t \in PathTypes[hits[t].url.path]
                      /\ \E n \in Naming(t) : t \in TextTypes[page.anchors[n].text]
    BY DEF OffsiteOnlyByAgreement
  <2>1. PICK m : m \in Naming(t) /\ hits[t] = Hit(page, page.anchors[m])
    BY <1>1 DEF KeptInv, IsLeast, Eligible, Footer
  <2>2. /\ m \in 1..Len(page.anchors) /\ page \in Pages
        /\ Evidence(page, page.anchors[m]).type = t /\ t # ""
    BY <1>1, <2>1, LinkAssumption DEF ScanTypeOK, Naming
  <2>3. /\ hits[t].url = Target(page, page.anchors[m])
        /\ hits[t].floor = Evidence(page, page.anchors[m]).floor
    BY <2>1 DEF Hit
  <2> QED
    BY <2>1, <2>2, <2>3, OffsiteAgrees
<1> QED
  BY <1>1, LinksAreKept, PTL

-----------------------------------------------------------------------------
(* Looking the segments of a path up                                       *)

(* A segment that begins behind p is the answer to the expressions that    *)
(* begin at p.                                                             *)
ExactAt(t, path, p) ==
  /\ FoldsAt(t, path, p)
  /\ LET q == p + Len(t) IN
     q = Len(path) \/ path[q + 1] = "/" \/ OccursAt(<<".", "ext">>, path, q)

ContainsAt(t, path, p) ==
  \E q \in p..Len(path) : (\A n \in (p + 1)..q : path[n] # "/") /\ FoldsAt(t, path, q)

NamedAt(m, path, p) ==
  \/ \E t \in m.exact : ExactAt(t, path, p)
  \/ \E t \in m.contains : ContainsAt(t, path, p)

Lowered == {Lower[x] : x \in Letter}

(* A token the set can express.                                            *)
Plain(t) == t \in Seq(Letter) \ {<<>>} /\ ~Has(t, ".") /\ ~Has(t, "/")

Folds(t, path) ==
  \A k \in DOMAIN t, n \in DOMAIN path : path[n] \in Orbit[t[k]] <=> Lower[path[n]] = t[k]

PathTypeOK ==
  /\ urlPath \in Seq(Letter)
  /\ \A t \in matcher.exact \cup matcher.contains : Plain(t)
  /\ segment \in 0..(Len(urlPath) + 2)
  /\ AtSegment => segment - 1 \in SegmentStarts(urlPath)
  /\ matched \in BOOLEAN

(* No expression matches at a segment that was passed.                     *)
AnswerInv ==
  FoldsAsItLowers =>
    /\ segment # 0 =>
         \A p \in SegmentStarts(urlPath) : p + 1 < segment => ~NamedAt(matcher, urlPath, p)
    /\ segment = 0 => (matched <=> RegexpsMatch(AllTokens, urlPath))

-----------------------------------------------------------------------------
(* The first place of a letter                                             *)

LEMMA PlaceOfIsFirst ==
  ASSUME NEW c, NEW s, Len(s) \in Nat, NEW n \in 1..(Len(s) + 1)
  PROVE  /\ PlaceOf(c, s, n) \in n..(Len(s) + 1)
         /\ PlaceOf(c, s, n) <= Len(s) => s[PlaceOf(c, s, n)] = c
         /\ \A k \in n..(PlaceOf(c, s, n) - 1) : s[k] # c
<1> DEFINE S == {k \in n..Len(s) : s[k] = c} \cup {Len(s) + 1}
           r == PlaceOf(c, s, n)
<1>1. S \in SUBSET Nat /\ Len(s) + 1 \in S
  OBVIOUS
<1>2. r = Min(S)
  BY DEF PlaceOf
<1> HIDE DEF r
<1>3. \E m \in S : \A k \in S : m <= k
  <2> HIDE DEF S
  <2>1. PICK m : IsLeast(m, S)
    BY <1>1, LeastNumber, Zenon
  <2> QED
    BY <2>1 DEF IsLeast
<1>4. r \in S /\ \A k \in S : r <= k
  <2> HIDE DEF S
  <2> QED
    BY <1>2, <1>3, Zenon DEF Min
<1>5. r \in n..(Len(s) + 1) /\ (r <= Len(s) => s[r] = c)
  BY <1>4
<1>6. ASSUME NEW k \in n..(r - 1) PROVE s[k] # c
  BY <1>4, <1>5
<1> QED
  BY <1>5, <1>6 DEF r

-----------------------------------------------------------------------------
(* A segment is the path up to the next slash, in lower case.              *)
Segmented(path, p, e, seg) ==
  /\ e \in (p + 1)..(Len(path) + 1)
  /\ e <= Len(path) => path[e] = "/"
  /\ \A k \in (p + 1)..(e - 1) : path[k] # "/"
  /\ seg \in Seq(Lowered) /\ Len(seg) = e - 1 - p
  /\ \A k \in 1..Len(seg) : p + k \in 1..Len(path) /\ seg[k] = Lower[path[p + k]]

LEMMA SegmentIs ==
  ASSUME NEW path \in Seq(Letter), NEW p \in 0..Len(path),
         NEW e, e = SegmentEnd(path, p + 1), NEW seg, seg = SegmentAt(path, p + 1)
  PROVE  Segmented(path, p, e, seg)
<1>1. Len(path) \in Nat /\ p + 1 \in 1..(Len(path) + 1)
  OBVIOUS
<1>2. /\ e \in (p + 1)..(Len(path) + 1)
      /\ e <= Len(path) => path[e] = "/"
      /\ \A k \in (p + 1)..(e - 1) : path[k] # "/"
  BY <1>1, PlaceOfIsFirst DEF SegmentEnd
<1> DEFINE s == SubSeq(path, p + 1, e - 1)
<1>3. /\ s \in Seq(Letter) /\ Len(s) = e - 1 - p
      /\ \A k \in 1..Len(s) : p + k \in 1..Len(path) /\ s[k] = path[p + k]
  BY <1>1, <1>2, SMTT(30)
<1>4. seg = [k \in 1..Len(s) |-> Lower[s[k]]]
  BY <1>3 DEF SegmentAt, ToLower
<1> HIDE DEF s
<1>5. \A k \in 1..Len(s) : s[k] \in Letter
  BY <1>3
<1>6. seg \in Seq(Lowered) /\ Len(seg) = Len(s)
  <2>1. \A k \in 1..Len(s) : Lower[s[k]] \in Lowered
    BY <1>5 DEF Lowered
  <2>2. seg \in [1..Len(s) -> Lowered]
    BY <1>4, <2>1
  <2>3. Len(s) \in Nat
    BY <1>3
  <2> QED
    BY <2>2, <2>3
<1> QED
  BY <1>2, <1>3, <1>4, <1>6, SMTT(30) DEF Segmented

(* To lower a letter of a path keeps a slash, a dot and an extension.      *)
LEMMA PunctuationStays ==
  ASSUME NEW path \in Seq(Letter), NEW k \in 1..Len(path), NEW c \in {"/", ".", "ext"}
  PROVE  Lower[path[k]] = c <=> path[k] = c
<1>1. path[k] \in Letter
  OBVIOUS
<1> QED
  BY <1>1, PathsAssumption, Zenon

(* Where a plain token stands in a path, no segment ends.                  *)
LEMMA TokenStands ==
  ASSUME NEW path \in Seq(Letter), NEW t, Plain(t), Folds(t, path), NEW q \in 0..Len(path)
  PROVE  FoldsAt(t, path, q) <=>
           /\ q + Len(t) <= Len(path)
           /\ \A k \in 1..Len(t) : Lower[path[q + k]] = t[k] /\ path[q + k] \notin {"/", "."}
<1>1. t \in Seq(Letter) /\ DOMAIN t = 1..Len(t) /\ Len(t) \in Nat /\ Len(path) \in Nat
      /\ DOMAIN path = 1..Len(path)
  BY DEF Plain
<1>2. ASSUME q + Len(t) <= Len(path), NEW k \in 1..Len(t)
      PROVE  /\ path[q + k] \in Orbit[t[k]] <=> Lower[path[q + k]] = t[k]
             /\ Lower[path[q + k]] = t[k] => path[q + k] \notin {"/", "."}
  <2>1. q + k \in 1..Len(path)
    BY <1>1, <1>2
  <2>2. path[q + k] \in Orbit[t[k]] <=> Lower[path[q + k]] = t[k]
    BY <1>1, <2>1, Zenon DEF Folds
  <2>3. t[k] # "/" /\ t[k] # "."
    BY <1>1, Zenon DEF Plain, Has
  <2>4. /\ Lower[path[q + k]] = "/" <=> path[q + k] = "/"
        /\ Lower[path[q + k]] = "." <=> path[q + k] = "."
    BY <2>1, PunctuationStays
  <2> QED
    BY <2>2, <2>3, <2>4
<1>3. ASSUME q + Len(t) <= Len(path)
      PROVE  (\A k \in DOMAIN t : path[q + k] \in Orbit[t[k]]) <=>
             \A k \in 1..Len(t) : Lower[path[q + k]] = t[k] /\ path[q + k] \notin {"/", "."}
  BY <1>1, <1>2, <1>3
<1> QED
  BY <1>3 DEF FoldsAt

(* The expression of an exact token is the look-up of a segment's base.    *)
LEMMA ExactIsLookup ==
  ASSUME NEW path \in Seq(Letter), NEW p \in 0..Len(path),
         NEW t, Plain(t), Folds(t, path), NEW seg, seg = SegmentAt(path, p + 1)
  PROVE  ExactAt(t, path, p) <=>
           /\ Base(seg) = t
           /\ Rest(seg) = <<>> \/ OccursAt(<<".", "ext">>, Rest(seg), 0)
<1> DEFINE e == SegmentEnd(path, p + 1)
           b == Dot(seg)
           l == Len(t)
<1>1. /\ t \in Seq(Letter) /\ l \in Nat /\ l > 0 /\ Len(path) \in Nat
      /\ \A k \in 1..l : t[k] # "." /\ t[k] # "/"
  BY DEF Plain, Has
<1>2. /\ e \in (p + 1)..(Len(path) + 1)
      /\ e <= Len(path) => path[e] = "/"
      /\ \A k \in (p + 1)..(e - 1) : path[k] # "/"
      /\ seg \in Seq(Lowered) /\ Len(seg) = e - 1 - p
      /\ \A k \in 1..Len(seg) : p + k \in 1..Len(path) /\ seg[k] = Lower[path[p + k]]
  <2>1. Segmented(path, p, e, seg)
    BY SegmentIs
  <2> HIDE DEF e
  <2> QED
    BY <2>1 DEF Segmented
<1>3. Len(seg) \in Nat /\ e \in Int /\ p \in Int /\ Len(seg) = e - 1 - p
  BY <1>2
<1>4. /\ b \in 1..(Len(seg) + 1)
      /\ b <= Len(seg) => seg[b] = "."
      /\ \A k \in 1..(b - 1) : seg[k] # "."
  BY <1>3, PlaceOfIsFirst DEF Dot
<1>5. ASSUME NEW k \in 1..Len(seg), NEW c \in {".", "ext"} PROVE seg[k] = c <=> path[p + k] = c
  <2>1. p + k \in 1..Len(path) /\ seg[k] = Lower[path[p + k]] /\ c \in {"/", ".", "ext"}
    BY <1>2
  <2>2. Lower[path[p + k]] = c <=> path[p + k] = c
    BY <2>1, PunctuationStays
  <2> QED
    BY <2>1, <2>2
<1> HIDE DEF e, b
<1>6. /\ Base(seg) \in Seq(Lowered) /\ Len(Base(seg)) = b - 1
      /\ \A k \in 1..(b - 1) : Base(seg)[k] = seg[k]
  <2>1. Base(seg) = SubSeq(seg, 1, b - 1)
    BY DEF Base, b
  <2>2. seg \in Seq(Lowered)
    BY <1>2
  <2>3. SubSeq(seg, 1, b - 1) \in Seq(Lowered) /\ Len(SubSeq(seg, 1, b - 1)) = b - 1
        /\ \A k \in 1..(b - 1) : SubSeq(seg, 1, b - 1)[k] = seg[k]
    BY <1>3, <1>4, <2>2
  <2> QED
    BY <2>1, <2>3
<1>7. /\ Rest(seg) \in Seq(Lowered) /\ Len(Rest(seg)) = Len(seg) - b + 1
      /\ \A k \in 1..(Len(seg) - b + 1) : Rest(seg)[k] = seg[b - 1 + k]
  <2>1. Rest(seg) = SubSeq(seg, b, Len(seg))
    BY DEF Rest, b
  <2> DEFINE r == SubSeq(seg, b, Len(seg))
  <2>2. seg \in Seq(Lowered)
    BY <1>2
  <2>3. r \in Seq(Lowered) /\ Len(r) = Len(seg) - b + 1
    BY <1>3, <1>4, <2>2
  <2>4. ASSUME NEW k \in 1..(Len(seg) - b + 1) PROVE r[k] = seg[b - 1 + k]
    BY <1>3, <1>4, <2>2
  <2> QED
    BY <2>1, <2>3, <2>4
<1>8. Rest(seg) = <<>> <=> b = Len(seg) + 1
  <2>1. Rest(seg) = <<>> <=> Len(Rest(seg)) = 0
    BY <1>7
  <2> QED
    BY <1>3, <1>4, <1>7, <2>1
<1>9. OccursAt(<<".", "ext">>, Rest(seg), 0) <=>
        b + 1 <= Len(seg) /\ path[p + b] = "." /\ path[p + b + 1] = "ext"
  <2>1. OccursAt(<<".", "ext">>, Rest(seg), 0) <=>
          2 <= Len(Rest(seg)) /\ Rest(seg)[1] = "." /\ Rest(seg)[2] = "ext"
    BY <1>7 DEF OccursAt
  <2>2. ASSUME b + 1 <= Len(seg)
        PROVE  /\ Rest(seg)[1] = "." <=> path[p + b] = "."
               /\ Rest(seg)[2] = "ext" <=> path[p + b + 1] = "ext"
    <3>1. Rest(seg)[1] = seg[b] /\ Rest(seg)[2] = seg[b + 1]
      <4>1. 1 \in 1..(Len(seg) - b + 1) /\ 2 \in 1..(Len(seg) - b + 1)
        BY <1>3, <1>4, <2>2
      <4>2. Rest(seg)[1] = seg[b - 1 + 1] /\ Rest(seg)[2] = seg[b - 1 + 2]
        BY <1>7, <4>1
      <4>3. b - 1 + 1 = b /\ b - 1 + 2 = b + 1
        BY <1>3, <1>4
      <4> QED
        BY <4>2, <4>3
    <3>2. b \in 1..Len(seg) /\ b + 1 \in 1..Len(seg) /\ p + (b + 1) = p + b + 1
      BY <1>3, <1>4, <2>2
    <3> QED
      BY <1>5, <3>1, <3>2
  <2>3. 2 <= Len(Rest(seg)) <=> b + 1 <= Len(seg)
    BY <1>3, <1>4, <1>7
  <2> QED
    BY <2>1, <2>2, <2>3
<1>10. ASSUME ExactAt(t, path, p)
       PROVE  Base(seg) = t /\ (Rest(seg) = <<>> \/ OccursAt(<<".", "ext">>, Rest(seg), 0))
  <2>1. /\ FoldsAt(t, path, p)
        /\ \/ p + l = Len(path)
           \/ path[p + l + 1] = "/"
           \/ OccursAt(<<".", "ext">>, path, p + l)
    BY <1>10, Zenon DEF ExactAt
  <2>2. /\ p + l <= Len(path)
        /\ \A k \in 1..l : Lower[path[p + k]] = t[k] /\ path[p + k] \notin {"/", "."}
    BY <2>1, TokenStands
  <2>3. e > p + l
    <3>1. ASSUME e <= p + l PROVE FALSE
      <4>1. e - p \in 1..l /\ p + (e - p) = e /\ e <= Len(path)
        BY <1>1, <1>2, <2>2, <3>1
      <4> QED
        BY <1>2, <2>2, <4>1
    <3> QED
      BY <1>1, <1>2, <3>1
  <2>4. l <= Len(seg)
    BY <1>1, <1>2, <2>3
  <2>5. \A k \in 1..l : seg[k] = t[k] /\ seg[k] # "."
    BY <1>1, <1>2, <2>2, <2>4
  <2>6. b > l
    <3>1. ASSUME b <= l PROVE FALSE
      <4>1. b \in 1..l /\ b <= Len(seg)
        BY <1>1, <1>3, <1>4, <2>4, <3>1
      <4> QED
        BY <1>4, <2>5, <4>1
    <3> QED
      BY <1>1, <1>4, <3>1
  <2>7. b = l + 1 /\ (Rest(seg) = <<>> \/ OccursAt(<<".", "ext">>, Rest(seg), 0))
    <3>1. ASSUME Len(seg) = l PROVE b = l + 1 /\ Rest(seg) = <<>>
      BY <1>1, <1>3, <1>4, <1>8, <2>6, <3>1
    <3>2. CASE p + l = Len(path)
      BY <1>1, <1>2, <2>3, <3>1, <3>2
    <3>3. CASE path[p + l + 1] = "/" /\ p + l # Len(path)
      <4>1. ~(p + l + 1 \in (p + 1)..(e - 1))
        BY <1>2, <3>3
      <4>2. e = p + l + 1
        BY <1>1, <1>2, <2>2, <2>3, <3>3, <4>1
      <4> QED
        BY <1>1, <1>2, <3>1, <4>2
    <3>4. CASE OccursAt(<<".", "ext">>, path, p + l)
      <4>1. p + l + 2 <= Len(path) /\ path[p + l + 1] = "." /\ path[p + l + 2] = "ext"
        BY <3>4 DEF OccursAt
      <4>2. e # p + l + 1 /\ e # p + l + 2
        BY <1>1, <1>2, <4>1
      <4>3. l + 2 <= Len(seg)
        BY <1>1, <1>2, <2>3, <4>1, <4>2
      <4>4. p + (l + 1) = p + l + 1 /\ l + 1 \in 1..Len(seg)
        BY <1>1, <4>3
      <4>5. seg[l + 1] = "."
        BY <1>5, <4>1, <4>4
      <4>6. b = l + 1
        <5>1. ~(l + 1 \in 1..(b - 1))
          BY <1>4, <4>5
        <5> QED
          BY <1>1, <1>4, <2>6, <5>1
      <4>7. p + b = p + l + 1 /\ p + b + 1 = p + l + 2
        BY <1>1, <4>6
      <4> QED
        BY <1>1, <1>9, <4>1, <4>3, <4>6, <4>7
    <3> QED
      BY <2>1, <3>2, <3>3, <3>4
  <2>8. Base(seg) = t
    <3>1. Len(Base(seg)) = l /\ \A k \in 1..l : Base(seg)[k] = t[k]
      BY <1>1, <1>6, <2>5, <2>7
    <3>2. Base(seg) \in Seq(Lowered)
      BY <1>6
    <3> QED
      BY <1>1, <3>1, <3>2
  <2> QED
    BY <2>7, <2>8
<1>11. ASSUME Base(seg) = t, Rest(seg) = <<>> \/ OccursAt(<<".", "ext">>, Rest(seg), 0)
       PROVE  ExactAt(t, path, p)
  <2>1. b = l + 1
    BY <1>1, <1>4, <1>6, <1>11
  <2>2. l <= Len(seg)
    BY <1>1, <1>3, <1>4, <2>1
  <2>3. \A k \in 1..l : t[k] = seg[k] /\ k \in 1..Len(seg)
    BY <1>1, <1>3, <1>6, <1>11, <2>1, <2>2
  <2>4. \A k \in 1..l : Lower[path[p + k]] = t[k] /\ path[p + k] \notin {"/", "."}
    <3>1. ASSUME NEW k \in 1..l PROVE Lower[path[p + k]] = t[k] /\ path[p + k] \notin {"/", "."}
      <4>1. t[k] = seg[k] /\ k \in 1..Len(seg)
        BY <2>3
      <4>2. p + k \in 1..Len(path) /\ seg[k] = Lower[path[p + k]]
        BY <1>2, <4>1
      <4>3. /\ Lower[path[p + k]] = "/" <=> path[p + k] = "/"
            /\ Lower[path[p + k]] = "." <=> path[p + k] = "."
        BY <4>2, PunctuationStays
      <4> QED
        BY <1>1, <4>1, <4>2, <4>3
    <3> QED
      BY <3>1
  <2>5. p + l <= Len(path) /\ p + l <= e - 1
    BY <1>1, <1>2, <2>2
  <2>6. FoldsAt(t, path, p)
    BY <2>4, <2>5, TokenStands
  <2>7. \/ p + l = Len(path)
        \/ path[p + l + 1] = "/"
        \/ OccursAt(<<".", "ext">>, path, p + l)
    <3>1. CASE Rest(seg) = <<>>
      <4>1. Len(seg) = l
        BY <1>1, <1>3, <1>8, <2>1, <3>1
      <4>2. e = p + l + 1
        BY <1>1, <1>3, <4>1
      <4> QED
        BY <1>1, <1>2, <2>5, <4>2
    <3>2. CASE OccursAt(<<".", "ext">>, Rest(seg), 0)
      <4>1. /\ l + 2 <= Len(seg) /\ path[p + l + 1] = "." /\ path[p + l + 2] = "ext"
        <5>1. p + b = p + l + 1 /\ p + b + 1 = p + l + 2 /\ b + 1 = l + 2
          BY <1>1, <2>1
        <5> QED
          BY <1>9, <3>2, <5>1
      <4>2. p + l + 2 <= Len(path)
        BY <1>1, <1>2, <4>1
      <4> QED
        BY <1>1, <4>1, <4>2, SMTT(30) DEF OccursAt
    <3> QED
      BY <1>11, <3>1, <3>2
  <2> QED
    BY <2>6, <2>7 DEF ExactAt
<1> QED
  BY <1>10, <1>11

(* The expression of a token that is contained is a search in a segment.   *)
LEMMA ContainsIsSearch ==
  ASSUME NEW path \in Seq(Letter), NEW p \in 0..Len(path),
         NEW t, Plain(t), Folds(t, path), NEW seg, seg = SegmentAt(path, p + 1)
  PROVE  ContainsAt(t, path, p) <=> Occurs(t, seg)
<1> DEFINE e == SegmentEnd(path, p + 1)
           l == Len(t)
<1>1. /\ t \in Seq(Letter) /\ l \in Nat /\ l > 0 /\ Len(path) \in Nat /\ DOMAIN t = 1..l
  BY DEF Plain
<1>2. /\ e \in (p + 1)..(Len(path) + 1)
      /\ e <= Len(path) => path[e] = "/"
      /\ \A k \in (p + 1)..(e - 1) : path[k] # "/"
      /\ seg \in Seq(Lowered) /\ Len(seg) = e - 1 - p
      /\ \A k \in 1..Len(seg) : p + k \in 1..Len(path) /\ seg[k] = Lower[path[p + k]]
  <2>1. Segmented(path, p, e, seg)
    BY SegmentIs
  <2> HIDE DEF e
  <2> QED
    BY <2>1 DEF Segmented
<1> HIDE DEF e
<1>3. ASSUME NEW q \in p..Len(path), \A n \in (p + 1)..q : path[n] # "/", FoldsAt(t, path, q)
      PROVE  Occurs(t, seg)
  <2>1. /\ q \in 0..Len(path) /\ q + l <= Len(path)
        /\ \A k \in 1..l : Lower[path[q + k]] = t[k] /\ path[q + k] \notin {"/", "."}
    <3>1. q \in 0..Len(path)
      OBVIOUS
    <3> QED
      BY <1>3, <3>1, TokenStands
  <2>2. e > q + l
    <3>1. ASSUME e <= q + l PROVE FALSE
      <4>1. e <= Len(path) /\ path[e] = "/"
        BY <1>1, <1>2, <2>1, <3>1
      <4>2. ~(e \in (p + 1)..q)
        BY <1>3, <4>1
      <4>3. e - q \in 1..l /\ q + (e - q) = e
        BY <1>1, <1>2, <3>1, <4>2
      <4> QED
        BY <2>1, <4>1, <4>3
    <3> QED
      BY <1>1, <1>2, <3>1
  <2>3. q - p \in 0..Len(seg) /\ (q - p) + l <= Len(seg)
    BY <1>1, <1>2, <2>2
  <2>4. ASSUME NEW k \in 1..l PROVE seg[(q - p) + k] = t[k]
    <3>1. (q - p) + k \in 1..Len(seg) /\ p + ((q - p) + k) = q + k
      <4>1. q \in Int /\ p \in Int /\ k \in Int /\ Len(seg) \in Int /\ k >= 1 /\ k <= l
        BY <1>1, <1>2
      <4> HIDE DEF l
      <4> QED
        BY <1>1, <2>3, <4>1
    <3> QED
      BY <1>2, <2>1, <3>1
  <2> QED
    BY <1>1, <2>3, <2>4 DEF Occurs, OccursAt
<1>4. ASSUME NEW j \in 0..Len(seg), OccursAt(t, seg, j)
      PROVE  ContainsAt(t, path, p)
  <2>1. j + l <= Len(seg) /\ \A k \in 1..l : seg[j + k] = t[k]
    BY <1>1, <1>4 DEF OccursAt
  <2>2. /\ p + j \in p..Len(path) /\ p + j \in 0..Len(path) /\ p + j + l <= Len(path)
        /\ p + j <= e - 1
    BY <1>1, <1>2, <2>1
  <2>3. ASSUME NEW k \in 1..l
        PROVE  Lower[path[(p + j) + k]] = t[k] /\ path[(p + j) + k] \notin {"/", "."}
    <3>1. j + k \in 1..Len(seg) /\ p + (j + k) = (p + j) + k
      BY <1>1, <1>2, <2>1
    <3>2. (p + j) + k \in 1..Len(path) /\ seg[j + k] = Lower[path[(p + j) + k]]
      BY <1>2, <3>1
    <3>3. /\ Lower[path[(p + j) + k]] = "/" <=> path[(p + j) + k] = "/"
          /\ Lower[path[(p + j) + k]] = "." <=> path[(p + j) + k] = "."
      BY <3>2, PunctuationStays
    <3>4. t[k] # "/" /\ t[k] # "."
      BY <1>1 DEF Plain, Has
    <3> QED
      BY <2>1, <3>2, <3>3, <3>4
  <2>4. FoldsAt(t, path, p + j)
    BY <2>2, <2>3, TokenStands
  <2>5. \A n \in (p + 1)..(p + j) : path[n] # "/"
    BY <1>2, <2>2
  <2> QED
    BY <2>2, <2>4, <2>5 DEF ContainsAt
<1> QED
  BY <1>3, <1>4 DEF ContainsAt, Occurs

(* So a segment is looked up as the expressions match where it begins.     *)
LEMMA LookupIsMatch ==
  ASSUME NEW path \in Seq(Letter), NEW p \in SegmentStarts(path), NEW m,
         \A t \in m.exact \cup m.contains : Plain(t) /\ Folds(t, path)
  PROVE  SegmentMatches(m, SegmentAt(path, p + 1)) <=> NamedAt(m, path, p)
<1> DEFINE seg == SegmentAt(path, p + 1)
<1>1. p \in 0..Len(path)
  BY DEF SegmentStarts
<1>2. Len(seg) \in Nat /\ seg \in Seq(Lowered)
  <2>1. Segmented(path, p, SegmentEnd(path, p + 1), seg)
    BY <1>1, SegmentIs
  <2> QED
    BY <2>1 DEF Segmented
<1> HIDE DEF seg
<1>3. ASSUME NEW t \in m.exact
      PROVE  /\ Plain(t)
             /\ ExactAt(t, path, p) <=>
                  Base(seg) = t /\ (Rest(seg) = <<>> \/ OccursAt(<<".", "ext">>, Rest(seg), 0))
  BY <1>1, ExactIsLookup DEF seg
<1>4. ASSUME NEW t \in m.contains
      PROVE  Plain(t) /\ (ContainsAt(t, path, p) <=> Occurs(t, seg))
  BY <1>1, ContainsIsSearch DEF seg
<1>5. Listed(m, seg) <=> \E t \in m.exact : ExactAt(t, path, p)
  BY <1>3, Zenon DEF Listed
<1>6. (\E t \in m.contains : Occurs(t, seg)) <=> \E t \in m.contains : ContainsAt(t, path, p)
  BY <1>4, Zenon
<1>7. ASSUME Listed(m, seg) PROVE seg # <<>>
  <2>1. Base(seg) \in m.exact
    BY <1>7 DEF Listed
  <2>2. Base(seg) # <<>>
    BY <1>3, <2>1 DEF Plain
  <2>3. ASSUME seg = <<>> PROVE Base(seg) = <<>>
    <3>1. Len(seg) = 0
      BY <2>3
    <3>2. Dot(seg) \in 1..(Len(seg) + 1)
      BY <1>2, <3>1, PlaceOfIsFirst DEF Dot
    <3>3. Dot(seg) - 1 = 0
      BY <3>1, <3>2
    <3> QED
      BY <1>2, <3>3 DEF Base
  <2> QED
    BY <2>2, <2>3
<1>8. ASSUME NEW t \in m.contains, Occurs(t, seg) PROVE seg # <<>>
  <2>1. Len(t) \in Nat /\ Len(t) > 0
    BY <1>4 DEF Plain
  <2>2. \E j \in 0..Len(seg) : j + Len(t) <= Len(seg)
    BY <1>8 DEF Occurs, OccursAt
  <2> QED
    BY <1>2, <2>1, <2>2
<1>9. SegmentMatches(m, seg) <=> Listed(m, seg) \/ \E t \in m.contains : Occurs(t, seg)
  BY <1>7, <1>8, Zenon DEF SegmentMatches
<1> QED
  BY <1>5, <1>6, <1>9, Zenon DEF NamedAt, seg

-----------------------------------------------------------------------------
(* The matcher                                                             *)

(* All expressions together match where those do that a set expresses, or  *)
(* the others.                                                             *)
LEMMA AllTokensMatch ==
  ASSUME NEW path
  PROVE  RegexpsMatch(AllTokens, path) <=>
           \/ \E p \in SegmentStarts(path) : NamedAt(matcher, path, p)
           \/ RegexpsMatch([exact |-> matcher.exactRegs, contains |-> matcher.containsRegs], path)
<1>1. \A t : ExactRE(t, path) <=> \E p \in SegmentStarts(path) : ExactAt(t, path, p)
  BY Zenon DEF ExactRE, ExactAt
<1>2. \A t : ContainsRE(t, path) <=> \E p \in SegmentStarts(path) : ContainsAt(t, path, p)
  BY Zenon DEF ContainsRE, ContainsAt
<1>3. /\ AllTokens.exact = matcher.exact \cup matcher.exactRegs
      /\ AllTokens.contains = matcher.contains \cup matcher.containsRegs
  BY DEF AllTokens
<1>4. RegexpsMatch(AllTokens, path) <=>
        \/ \E t \in matcher.exact \cup matcher.exactRegs : ExactRE(t, path)
        \/ \E t \in matcher.contains \cup matcher.containsRegs : ContainsRE(t, path)
  BY <1>3 DEF RegexpsMatch
<1>5. RegexpsMatch([exact |-> matcher.exactRegs, contains |-> matcher.containsRegs], path) <=>
        \/ \E t \in matcher.exactRegs : ExactRE(t, path)
        \/ \E t \in matcher.containsRegs : ContainsRE(t, path)
  BY DEF RegexpsMatch
<1>6. RegexpsMatch(AllTokens, path) <=>
        \/ \E t \in matcher.exact : ExactRE(t, path)
        \/ \E t \in matcher.contains : ContainsRE(t, path)
        \/ RegexpsMatch([exact |-> matcher.exactRegs, contains |-> matcher.containsRegs], path)
  BY <1>4, <1>5
<1>7. /\ (\E t \in matcher.exact : ExactRE(t, path)) <=>
           \E p \in SegmentStarts(path) : \E t \in matcher.exact : ExactAt(t, path, p)
      /\ (\E t \in matcher.contains : ContainsRE(t, path)) <=>
           \E p \in SegmentStarts(path) : \E t \in matcher.contains : ContainsAt(t, path, p)
  BY <1>1, <1>2, Zenon
<1> QED
  BY <1>6, <1>7, Zenon DEF NamedAt

(* The segment to come is looked up as the expressions match there.        *)
LEMMA CurrentLookup ==
  ASSUME PathTypeOK, AtSegment, FoldsAsItLowers
  PROVE  /\ segment - 1 \in SegmentStarts(urlPath)
         /\ SegmentMatches(matcher, SegmentAt(urlPath, segment)) <=>
              NamedAt(matcher, urlPath, segment - 1)
<1>1. /\ urlPath \in Seq(Letter) /\ segment - 1 \in SegmentStarts(urlPath)
      /\ (segment - 1) + 1 = segment
  BY DEF PathTypeOK, AtSegment
<1>2. \A t \in matcher.exact \cup matcher.contains : Plain(t) /\ Folds(t, urlPath)
  <2>1. \A t \in matcher.exact \cup matcher.contains : Plain(t)
    BY DEF PathTypeOK
  <2>2. \A t \in AllTokens.exact \cup AllTokens.contains : Folds(t, urlPath)
    BY Zenon DEF FoldsAsItLowers, Folds
  <2> QED
    BY <2>1, <2>2 DEF AllTokens
<1> QED
  BY <1>1, <1>2, LookupIsMatch

LEMMA MatcherIsPlain ==
  ASSUME NEW tokens \in TokenLists
  PROVE  \A t \in newPathMatcher(tokens).exact \cup newPathMatcher(tokens).contains : Plain(t)
<1>1. \A t \in tokens.exact \cup tokens.contains : t \in Seq(Letter) \ {<<>>}
  BY PathsAssumption
<1> DEFINE regs == {t \in tokens.exact \cup tokens.contains : Has(t, ".") \/ Has(t, "/")}
<1>2. /\ newPathMatcher(tokens).exact = tokens.exact \ regs
      /\ newPathMatcher(tokens).contains = tokens.contains \ regs
  BY DEF newPathMatcher
<1> QED
  BY <1>1, <1>2 DEF Plain

LEMMA PathStepKeeps ==
  ASSUME PathTypeOK, AnswerInv, PathNext
  PROVE  PathTypeOK' /\ AnswerInv'
<1>1. CASE FoundSegment
  <2>1. /\ AtSegment /\ SegmentMatches(matcher, SegmentAt(urlPath, segment))
        /\ segment' = 0 /\ matched' = TRUE /\ UNCHANGED <<matcher, urlPath>>
    BY <1>1 DEF FoundSegment
  <2>2. 0 \in 0..(Len(urlPath) + 2) /\ ~(0 \in 1..(Len(urlPath) + 1))
    BY DEF PathTypeOK
  <2>3. PathTypeOK'
    BY <2>1, <2>2 DEF PathTypeOK, AtSegment
  <2>4. ASSUME FoldsAsItLowers PROVE RegexpsMatch(AllTokens, urlPath)
    BY <2>1, <2>4, CurrentLookup, AllTokensMatch, Zenon
  <2>5. AllTokens' = AllTokens /\ FoldsAsItLowers' = FoldsAsItLowers
    BY <2>1 DEF AllTokens, FoldsAsItLowers
  <2>6. FoldsAsItLowers' => RegexpsMatch(AllTokens, urlPath)'
    BY <2>1, <2>4, <2>5
  <2> QED
    BY <2>1, <2>3, <2>6 DEF AnswerInv
<1>2. CASE NextSegment
  <2> DEFINE e == SegmentEnd(urlPath, segment)
  <2>1. /\ AtSegment /\ ~SegmentMatches(matcher, SegmentAt(urlPath, segment))
        /\ segment' = e + 1 /\ UNCHANGED <<matcher, urlPath, matched>>
    BY <1>2 DEF NextSegment
  <2>2. /\ segment \in 1..(Len(urlPath) + 1) /\ Len(urlPath) \in Nat
    BY <2>1 DEF AtSegment, PathTypeOK
  <2>3. /\ e \in segment..(Len(urlPath) + 1)
        /\ e <= Len(urlPath) => urlPath[e] = "/"
        /\ \A k \in segment..(e - 1) : urlPath[k] # "/"
    BY <2>2, PlaceOfIsFirst DEF SegmentEnd
  <2> HIDE DEF e
  <2>4. segment' \in 0..(Len(urlPath) + 2) /\ segment' - 1 = e /\ segment' # 0
    BY <2>1, <2>2, <2>3
  <2>5. segment' \in 1..(Len(urlPath) + 1) => segment' - 1 \in SegmentStarts(urlPath)
    <3>1. e \in Int /\ (segment' \in 1..(Len(urlPath) + 1) => e <= Len(urlPath))
      BY <2>1, <2>2, <2>3
    <3>2. e <= Len(urlPath) => e \in SegmentStarts(urlPath)
      BY <2>2, <2>3, <3>1 DEF SegmentStarts
    <3> QED
      BY <2>4, <3>1, <3>2
  <2>6. PathTypeOK'
    BY <2>1, <2>4, <2>5 DEF PathTypeOK, AtSegment, SegmentStarts
  <2>7. ASSUME FoldsAsItLowers, NEW p \in SegmentStarts(urlPath), p + 1 < segment'
        PROVE  ~NamedAt(matcher, urlPath, p)
    <3>1. p \in 0..Len(urlPath) /\ (p = 0 \/ urlPath[p] = "/")
      BY DEF SegmentStarts
    <3>2. CASE p + 1 < segment
      BY <2>2, <2>7, <3>2 DEF AnswerInv
    <3>3. CASE p + 1 = segment
      <4>1. p = segment - 1
        BY <2>2, <3>1, <3>3
      <4> QED
        BY <2>1, <2>7, <4>1, CurrentLookup
    <3>4. CASE p + 1 > segment
      <4>1. p \in segment..(e - 1)
        BY <2>1, <2>2, <2>3, <2>7, <3>1, <3>4
      <4>2. p # 0
        BY <2>2, <4>1
      <4> QED
        BY <2>3, <3>1, <4>1, <4>2
    <3> QED
      BY <2>2, <3>1, <3>2, <3>3, <3>4
  <2>8. FoldsAsItLowers' = FoldsAsItLowers
    BY <2>1 DEF AllTokens, FoldsAsItLowers
  <2> QED
    BY <2>1, <2>4, <2>6, <2>7, <2>8 DEF AnswerInv, SegmentStarts
<1>3. CASE AskRegexps
  <2> DEFINE Others == RegexpsMatch([exact |-> matcher.exactRegs, contains |-> matcher.containsRegs], urlPath)
  <2>1. /\ segment > Len(urlPath) + 1 /\ segment' = 0 /\ matched' = Others
        /\ UNCHANGED <<matcher, urlPath>>
    BY <1>3 DEF AskRegexps
  <2>2. Len(urlPath) \in Nat /\ segment \in 0..(Len(urlPath) + 2) /\ segment # 0
    BY <2>1 DEF PathTypeOK
  <2>3. Others \in BOOLEAN
    BY Zenon DEF RegexpsMatch
  <2>4. 0 \in 0..(Len(urlPath) + 2) /\ ~(0 \in 1..(Len(urlPath) + 1))
    BY <2>2
  <2>5. PathTypeOK'
    <3>1. matched' \in BOOLEAN
      BY <2>1, <2>3, Zenon
    <3> QED
      BY <2>1, <2>4, <3>1 DEF PathTypeOK, AtSegment
  <2>6. ASSUME FoldsAsItLowers PROVE RegexpsMatch(AllTokens, urlPath) <=> Others
    <3>1. \A p \in SegmentStarts(urlPath) : p + 1 < segment
      BY <2>1, <2>2 DEF SegmentStarts
    <3>2. \A p \in SegmentStarts(urlPath) : ~NamedAt(matcher, urlPath, p)
      BY <2>2, <2>6, <3>1 DEF AnswerInv
    <3> QED
      BY <3>2, AllTokensMatch, Zenon
  <2>7. FoldsAsItLowers' <=> FoldsAsItLowers
    BY <2>1 DEF AllTokens, FoldsAsItLowers
  <2>8. RegexpsMatch(AllTokens, urlPath)' <=> RegexpsMatch(AllTokens, urlPath)
    BY <2>1 DEF AllTokens, RegexpsMatch, ExactRE, ContainsRE, SegmentStarts
  <2> HIDE DEF Others
  <2>9. FoldsAsItLowers' => (matched' <=> RegexpsMatch(AllTokens, urlPath)')
    BY <2>1, <2>6, <2>7, <2>8, Zenon
  <2> QED
    BY <2>1, <2>5, <2>9 DEF AnswerInv
<1>4. CASE Answered
  BY <1>4 DEF Answered, pathVars, PathTypeOK, AnswerInv, AtSegment, FoldsAsItLowers, AllTokens
<1> QED
  BY <1>1, <1>2, <1>3, <1>4 DEF PathNext

(* Whatever tokens the matcher was made of and whatever the path, its      *)
(* answer is that of the expressions, if the letters of the path fold as   *)
(* they are lowered (patterns_path.go 26-31).                              *)
THEOREM MatcherIsTheExpressions == PathSpec => []SetIsEquivalent
<1>1. PathInit => PathTypeOK /\ AnswerInv
  <2> SUFFICES ASSUME PathInit PROVE PathTypeOK /\ AnswerInv
    OBVIOUS
  <2>1. /\ urlPath \in Seq(Letter) /\ Len(urlPath) \in Nat
        /\ segment = 1 /\ matched = FALSE
    BY PathsAssumption DEF PathInit
  <2>2. \A t \in matcher.exact \cup matcher.contains : Plain(t)
    BY MatcherIsPlain DEF PathInit
  <2>3. segment \in 0..(Len(urlPath) + 2) /\ segment - 1 \in SegmentStarts(urlPath)
    BY <2>1 DEF SegmentStarts
  <2>4. matched \in BOOLEAN
    BY <2>1, Zenon
  <2>5. \A p \in SegmentStarts(urlPath) : ~(p + 1 < segment)
    BY <2>1 DEF SegmentStarts
  <2> QED
    BY <2>1, <2>2, <2>3, <2>4, <2>5 DEF PathTypeOK, AnswerInv
<1>2. PathTypeOK /\ AnswerInv /\ [PathNext]_pathVars => (PathTypeOK /\ AnswerInv)'
  <2>1. CASE PathNext
    BY <2>1, PathStepKeeps
  <2>2. CASE UNCHANGED pathVars
    BY <2>2 DEF pathVars, PathTypeOK, AnswerInv, AtSegment, FoldsAsItLowers, AllTokens
  <2> QED
    BY <2>1, <2>2
<1>3. PathTypeOK /\ AnswerInv => SetIsEquivalent
  <2> SUFFICES ASSUME PathTypeOK, AnswerInv, segment = 0, FoldsAsItLowers
               PROVE  matched = RegexpsMatch(AllTokens, urlPath)
    BY DEF SetIsEquivalent
  <2>1. matched \in BOOLEAN /\ RegexpsMatch(AllTokens, urlPath) \in BOOLEAN
    BY Zenon DEF PathTypeOK, RegexpsMatch
  <2>2. matched <=> RegexpsMatch(AllTokens, urlPath)
    BY Zenon DEF AnswerInv
  <2> DEFINE r == RegexpsMatch(AllTokens, urlPath)
  <2> HIDE DEF r
  <2>3. matched \in BOOLEAN /\ r \in BOOLEAN /\ (matched <=> r)
    BY <2>1, <2>2, Zenon DEF r
  <2>4. matched = r
    BY <2>3
  <2> QED
    BY <2>4 DEF r
<1> QED
  BY <1>1, <1>2, <1>3, PTL DEF PathSpec

-----------------------------------------------------------------------------
(* The anchors of a page                                                   *)

Stretches == Nat \X Nat
Elements == [offset : Nat, href : Stretches, inner : Stretches]

(* Where the search goes on behind the last anchor found.                  *)
Resumed == Resumes(anchors, Len(anchors))

AnchorTypeOK ==
  /\ source \in Seq(Markup)
  /\ from \in 1..End(source)
  /\ anchors \in Seq(Elements)
  /\ over \in BOOLEAN

(* Between the last anchor and the search there is no other.               *)
PassedInv ==
  /\ FoundInTurn(source, anchors)
  /\ Resumed \in 1..from
  /\ \A p \in StartsBehind(source, Resumed) : p >= from
  /\ NothingMissed

-----------------------------------------------------------------------------
(* The first position with a property                                      *)

LEMMA LeastPosition ==
  ASSUME NEW S \in SUBSET Nat, S # {}
  PROVE  \E m \in S : \A n \in S : m <= n
<1>1. PICK m : IsLeast(m, S)
  BY LeastNumber
<1> QED
  BY <1>1 DEF IsLeast

LEMMA LowestIsLeast ==
  ASSUME NEW S \in SUBSET (Nat \ {0})
  PROVE  /\ Lowest(S) \in Nat
         /\ Lowest(S) = 0 <=> S = {}
         /\ Lowest(S) # 0 => Lowest(S) \in S /\ \A n \in S : Lowest(S) <= n
<1>1. CASE S = {}
  BY <1>1 DEF Lowest
<1>2. CASE S # {}
  <2>1. \E m \in S : \A n \in S : m <= n
    BY <1>2, LeastPosition
  <2>2. Lowest(S) \in S /\ \A n \in S : Lowest(S) <= n
    BY <1>2, <2>1, Zenon DEF Lowest, Min
  <2> QED
    BY <1>2, <2>2
<1> QED
  BY <1>1, <1>2

(* NextOf finds the first token of a set, or 0 when there is none.         *)
LEMMA NextOfFinds ==
  ASSUME NEW t, Len(t) \in Nat, NEW a \in Nat \ {0}, NEW b \in Nat, NEW set
  PROVE  /\ NextOf(t, a, b, set) \in Nat
         /\ NextOf(t, a, b, set) = 0 => \A n \in a..(b - 1) : t[n] \notin set
         /\ NextOf(t, a, b, set) # 0 =>
              /\ NextOf(t, a, b, set) \in a..(b - 1)
              /\ t[NextOf(t, a, b, set)] \in set
              /\ \A n \in a..(b - 1) : t[n] \in set => NextOf(t, a, b, set) <= n
<1> DEFINE S == {n \in a..(b - 1) : t[n] \in set}
<1>1. S \in SUBSET (Nat \ {0})
  OBVIOUS
<1>2. NextOf(t, a, b, set) = Lowest(S)
  BY DEF NextOf
<1> DEFINE r == Lowest(S)
<1>3. /\ r \in Nat
      /\ r = 0 <=> S = {}
      /\ r # 0 => r \in S /\ \A n \in S : r <= n
  BY <1>1, LowestIsLeast, Zenon
<1> HIDE DEF r
<1>4. r = 0 => \A n \in a..(b - 1) : t[n] \notin set
  BY <1>3, Zenon
<1>5. r # 0 => r \in a..(b - 1) /\ t[r] \in set
  BY <1>3, Zenon
<1>6. r # 0 => \A n \in a..(b - 1) : t[n] \in set => r <= n
  BY <1>3, Zenon
<1> QED
  BY <1>2, <1>3, <1>4, <1>5, <1>6 DEF r

LEMMA CloseTagFinds ==
  ASSUME NEW t, Len(t) \in Nat, NEW a \in Nat \ {0}
  PROVE  /\ CloseTag(t, a) \in Nat
         /\ CloseTag(t, a) = 0 =>
              \A n \in a..(Len(t) - 1) : ~(t[n] = "</a" /\ t[n + 1] = "gt")
         /\ CloseTag(t, a) # 0 =>
              /\ CloseTag(t, a) \in a..(Len(t) - 1)
              /\ t[CloseTag(t, a)] = "</a" /\ t[CloseTag(t, a) + 1] = "gt"
<1> DEFINE S == {n \in a..(Len(t) - 1) : t[n] = "</a" /\ t[n + 1] = "gt"}
<1>1. S \in SUBSET (Nat \ {0})
  OBVIOUS
<1>2. CloseTag(t, a) = Lowest(S)
  BY DEF CloseTag
<1> DEFINE r == Lowest(S)
<1>3. /\ r \in Nat
      /\ r = 0 <=> S = {}
      /\ r # 0 => r \in S
  BY <1>1, LowestIsLeast, Zenon
<1> HIDE DEF r
<1>4. r = 0 => \A n \in a..(Len(t) - 1) : ~(t[n] = "</a" /\ t[n + 1] = "gt")
  BY <1>3, Zenon
<1>5. r # 0 => r \in a..(Len(t) - 1) /\ t[r] = "</a" /\ t[r + 1] = "gt"
  BY <1>3, Zenon
<1> QED
  BY <1>2, <1>3, <1>4, <1>5 DEF r

(* SkipSpaces stops at the first token that is not a space.                *)
LEMMA SkipSpacesStops ==
  ASSUME NEW t, Len(t) \in Nat, NEW a \in 1..End(t)
  PROVE  /\ SkipSpaces(t, a) \in a..End(t)
         /\ \A n \in a..(SkipSpaces(t, a) - 1) : t[n] = "space"
<1> DEFINE Stops(k) == /\ \A n \in a..(k - 1) : t[n] = "space"
                       /\ k # End(t) => t[k] # "space"
           S == {n \in a..Len(t) : t[n] # "space"}
<1>1. a \in Nat \ {0} /\ End(t) \in Nat /\ End(t) = Len(t) + 1
  BY DEF End
<1>2. \E k \in a..End(t) : Stops(k)
  <2>1. CASE S = {}
    <3>1. \A n \in a..Len(t) : t[n] = "space"
      BY <2>1
    <3>2. Stops(End(t))
      BY <1>1, <3>1
    <3> QED
      BY <1>1, <3>2
  <2>2. CASE S # {}
    <3>1. S \in SUBSET Nat
      BY <1>1
    <3>2. PICK m \in S : \A n \in S : m <= n
      BY <2>2, <3>1, LeastPosition
    <3>3. m \in a..End(t) /\ m \in Nat /\ t[m] # "space"
      BY <1>1
    <3>4. ASSUME NEW n \in a..(m - 1) PROVE t[n] = "space"
      BY <1>1, <3>2, <3>3
    <3> QED
      BY <3>3, <3>4
  <2> QED
    BY <2>1, <2>2
<1>3. SkipSpaces(t, a) = CHOOSE k \in a..End(t) : Stops(k)
  BY DEF SkipSpaces
<1> HIDE DEF Stops
<1>4. SkipSpaces(t, a) \in a..End(t) /\ Stops(SkipSpaces(t, a))
  BY <1>2, <1>3, Zenon
<1> QED
  BY <1>4 DEF Stops

-----------------------------------------------------------------------------
(* Values and hrefs                                                        *)

(* A value that is there ends behind its beginning, and in the page.       *)
LEMMA QuotedShape ==
  ASSUME NEW t, Len(t) \in Nat, NEW k \in Nat \ {0}
  PROVE  \/ Quoted(t, k) = NoValue
         \/ Quoted(t, k).span \in Stretches /\ Quoted(t, k).end \in (k + 1)..End(t)
<1> DEFINE e == NextOf(t, k + 1, End(t), {t[k]})
<1>1. End(t) \in Nat /\ End(t) = Len(t) + 1 /\ k + 1 \in Nat \ {0}
  BY DEF End
<1>2. e = 0 \/ e \in (k + 1)..(End(t) - 1)
  BY <1>1, NextOfFinds
<1>3. Quoted(t, k) = NoValue \/ (e # 0 /\ Quoted(t, k) = [span |-> <<k + 1, e - 1>>, end |-> e + 1])
  BY Zenon DEF Quoted
<1> HIDE DEF e
<1>4. CASE e # 0 /\ Quoted(t, k) = [span |-> <<k + 1, e - 1>>, end |-> e + 1]
  <2>1. <<k + 1, e - 1>> \in Stretches /\ e + 1 \in (k + 1)..End(t)
    BY <1>1, <1>2, <1>4 DEF Stretches
  <2> QED
    BY <1>4, <2>1
<1> QED
  BY <1>3, <1>4

LEMMA UnquotedShape ==
  ASSUME NEW t, Len(t) \in Nat, NEW k \in Nat \ {0}
  PROVE  \/ Unquoted(t, k) = NoValue
         \/ Unquoted(t, k).span \in Stretches /\ Unquoted(t, k).end \in (k + 1)..End(t)
<1> DEFINE e == NextOf(t, k, End(t), {"space", "gt"})
           v == IF e = 0 THEN End(t) ELSE e
<1>1. End(t) \in Nat /\ End(t) = Len(t) + 1
  BY DEF End
<1>2. e = 0 \/ e \in k..(End(t) - 1)
  BY <1>1, NextOfFinds
<1>3. v \in Nat /\ v <= End(t)
  BY <1>1, <1>2
<1>4. Unquoted(t, k) = NoValue \/ (~(v <= k) /\ Unquoted(t, k) = [span |-> <<k, v - 1>>, end |-> v])
  BY Zenon DEF Unquoted
<1> HIDE DEF v
<1>5. CASE ~(v <= k) /\ Unquoted(t, k) = [span |-> <<k, v - 1>>, end |-> v]
  <2>1. <<k, v - 1>> \in Stretches /\ v \in (k + 1)..End(t)
    BY <1>1, <1>3, <1>5 DEF Stretches
  <2> QED
    BY <1>5, <2>1
<1> QED
  BY <1>4, <1>5

LEMMA ValueShape ==
  ASSUME NEW t, Len(t) \in Nat, NEW k \in Nat \ {0}, Value(t, k) # NoValue
  PROVE  Value(t, k).span \in Stretches /\ Value(t, k).end \in (k + 1)..End(t)
BY QuotedShape, UnquotedShape DEF Value

(* The value of an href begins behind it.                                  *)
LEMMA ValueBegins ==
  ASSUME NEW t, Len(t) \in Nat, NEW h \in 1..Len(t), HrefAt(t, h)
  PROVE  /\ SkipSpaces(t, h + 1) \in (h + 1)..Len(t)
         /\ t[SkipSpaces(t, h + 1)] = "="
         /\ \A n \in (h + 1)..(SkipSpaces(t, h + 1) - 1) : t[n] = "space"
         /\ ValueStart(t, h) \in (h + 2)..End(t)
         /\ \A n \in (SkipSpaces(t, h + 1) + 1)..(ValueStart(t, h) - 1) : t[n] = "space"
<1> DEFINE k == SkipSpaces(t, h + 1)
<1>1. End(t) = Len(t) + 1 /\ h + 1 \in 1..End(t)
  BY DEF End
<1>2. k \in (h + 1)..End(t) /\ \A n \in (h + 1)..(k - 1) : t[n] = "space"
  BY <1>1, SkipSpacesStops
<1>3. k < End(t) /\ t[k] = "="
  BY Zenon DEF HrefAt
<1>4. ValueStart(t, h) = SkipSpaces(t, k + 1)
  BY DEF ValueStart
<1> HIDE DEF k
<1>5. k + 1 \in 1..End(t) /\ k \in (h + 1)..Len(t)
  BY <1>1, <1>2, <1>3
<1>6. /\ SkipSpaces(t, k + 1) \in (k + 1)..End(t)
      /\ \A n \in (k + 1)..(SkipSpaces(t, k + 1) - 1) : t[n] = "space"
  BY <1>5, SkipSpacesStops
<1>7. ValueStart(t, h) \in (h + 2)..End(t)
  BY <1>1, <1>4, <1>5, <1>6
<1> QED
  BY <1>2, <1>3, <1>4, <1>5, <1>6, <1>7 DEF k

(* Before a ">" that ends the tag, so does the value of an href.           *)
LEMMA ValueInTag ==
  ASSUME NEW t, Len(t) \in Nat, NEW h \in 2..Len(t), HrefAt(t, h),
         NEW q \in (h + 1)..Len(t), t[q] = "gt",
         QuotesCloseInTag(t), Value(t, ValueStart(t, h)) # NoValue
  PROVE  Value(t, ValueStart(t, h)).end <= q
<1> DEFINE k == SkipSpaces(t, h + 1)
           s == ValueStart(t, h)
<1>1. End(t) = Len(t) + 1 /\ End(t) \in Nat /\ h \in 1..Len(t)
  BY DEF End
<1>2. /\ k \in (h + 1)..Len(t) /\ t[k] = "="
      /\ \A n \in (h + 1)..(k - 1) : t[n] = "space"
      /\ s \in (h + 2)..End(t)
      /\ \A n \in (k + 1)..(s - 1) : t[n] = "space"
  BY <1>1, ValueBegins
<1> HIDE DEF k, s
<1>3. s <= q
  <2>1. ~(q < k)
    <3>1. q < k => q \in (h + 1)..(k - 1)
      BY <1>1, <1>2
    <3> QED
      BY <1>2, <3>1
  <2>2. q # k
    BY <1>2
  <2>3. ~(q \in (k + 1)..(s - 1))
    BY <1>2
  <2> QED
    BY <1>1, <1>2, <2>1, <2>2, <2>3
<1>4. s \in Nat \ {0}
  BY <1>1, <1>2
<1>5. CASE Quoted(t, s) # NoValue
  <2>1. Value(t, s) = Quoted(t, s)
    BY <1>5 DEF Value
  <2> DEFINE e == Quoted(t, s).end
  <2>2. e \in Nat
    BY <1>1, <1>4, <1>5, QuotedShape
  <2>3. NextOf(t, h, e, {"gt"}) = 0
    BY Zenon DEF QuotesCloseInTag, s
  <2> HIDE DEF e
  <2>4. \A n \in h..(e - 1) : t[n] \notin {"gt"}
    BY <1>1, <2>2, <2>3, NextOfFinds
  <2>5. ~(q \in h..(e - 1))
    BY <2>4
  <2>6. e <= q
    BY <1>1, <2>2, <2>5
  <2> QED
    BY <2>1, <2>6 DEF e, s
<1>6. CASE Quoted(t, s) = NoValue
  <2>1. Value(t, s) = Unquoted(t, s) /\ Unquoted(t, s) # NoValue
    BY <1>6 DEF Value, s
  <2> DEFINE e == NextOf(t, s, End(t), {"space", "gt"})
             v == IF e = 0 THEN End(t) ELSE e
  <2>2. Unquoted(t, s) = [span |-> <<s, v - 1>>, end |-> v]
    BY <2>1, Zenon DEF Unquoted
  <2>3. q \in s..(End(t) - 1) /\ t[q] \in {"space", "gt"}
    BY <1>1, <1>3, <1>4
  <2>4. /\ e = 0 => \A n \in s..(End(t) - 1) : t[n] \notin {"space", "gt"}
        /\ e # 0 => \A n \in s..(End(t) - 1) : t[n] \in {"space", "gt"} => e <= n
    BY <1>1, <1>4, NextOfFinds
  <2> HIDE DEF e
  <2>5. e # 0 /\ e <= q
    BY <2>3, <2>4, Zenon
  <2>6. v <= q
    BY <2>5
  <2> HIDE DEF v
  <2> QED
    BY <2>1, <2>2, <2>6 DEF s
<1> QED
  BY <1>5, <1>6

-----------------------------------------------------------------------------
(* Matches                                                                 *)

(* The alternatives of the expression for the value of an href.            *)
Alternative(t, h, n) == IF n = 1 THEN Quoted(t, ValueStart(t, h)) ELSE Unquoted(t, ValueStart(t, h))

LEMMA CapturedIs ==
  ASSUME NEW t, NEW p, NEW v, NEW e
  PROVE  e \in Captured(t, p, v) <=>
           LET g == NextOf(t, v.end, End(t), {"gt"})
           IN  v # NoValue /\ g # 0 /\ CloseTag(t, g + 1) # 0 /\ e = Element(p, v, g, CloseTag(t, g + 1))
BY Zenon DEF Captured

LEMMA MatchesAre ==
  ASSUME NEW t, NEW p, NEW m
  PROVE  m \in MatchesAt(t, p) <=>
           \E h \in TagHrefs(t, p), n \in {1, 2} :
             \E e \in Captured(t, p, Alternative(t, h, n)) : m = [at |-> <<h, n>>, found |-> e]
<1> DEFINE Q(h) == {[at |-> <<h, 1>>, found |-> e] : e \in Captured(t, p, Quoted(t, ValueStart(t, h)))}
           U(h) == {[at |-> <<h, 2>>, found |-> e] : e \in Captured(t, p, Unquoted(t, ValueStart(t, h)))}
<1>1. MatchesAt(t, p) = UNION {Q(h) \cup U(h) : h \in TagHrefs(t, p)}
  BY DEF MatchesAt
<1>2. ASSUME NEW h
      PROVE  /\ Alternative(t, h, 1) = Quoted(t, ValueStart(t, h))
             /\ Alternative(t, h, 2) = Unquoted(t, ValueStart(t, h))
  BY DEF Alternative
<1>3. ASSUME NEW h
      PROVE  /\ m \in Q(h) <=> \E e \in Captured(t, p, Alternative(t, h, 1)) : m = [at |-> <<h, 1>>, found |-> e]
             /\ m \in U(h) <=> \E e \in Captured(t, p, Alternative(t, h, 2)) : m = [at |-> <<h, 2>>, found |-> e]
  BY <1>2, Zenon
<1> HIDE DEF Q, U
<1>4. m \in MatchesAt(t, p) <=> \E h \in TagHrefs(t, p) : m \in Q(h) \/ m \in U(h)
  <2> DEFINE D == {Q(h) \cup U(h) : h \in TagHrefs(t, p)}
  <2>1. m \in MatchesAt(t, p) <=> \E x \in D : m \in x
    BY <1>1
  <2>2. \A h \in TagHrefs(t, p) : Q(h) \cup U(h) \in D
    OBVIOUS
  <2>3. \A x \in D : \E h \in TagHrefs(t, p) : x = Q(h) \cup U(h)
    OBVIOUS
  <2>4. \A h \in TagHrefs(t, p) : m \in Q(h) \cup U(h) <=> m \in Q(h) \/ m \in U(h)
    OBVIOUS
  <2> HIDE DEF D
  <2>5. ASSUME m \in MatchesAt(t, p) PROVE \E h \in TagHrefs(t, p) : m \in Q(h) \/ m \in U(h)
    <3>1. PICK x \in D : m \in x
      BY <2>1, <2>5
    <3>2. PICK h \in TagHrefs(t, p) : x = Q(h) \cup U(h)
      BY <2>3
    <3>3. m \in Q(h) \cup U(h)
      BY <3>1, <3>2
    <3> QED
      BY <2>4, <3>3
  <2>6. ASSUME NEW h \in TagHrefs(t, p), m \in Q(h) \/ m \in U(h) PROVE m \in MatchesAt(t, p)
    <3>1. Q(h) \cup U(h) \in D /\ m \in Q(h) \cup U(h)
      BY <2>2, <2>4, <2>6
    <3> QED
      BY <2>1, <3>1
  <2> QED
    BY <2>5, <2>6
<1> QED
  BY <1>3, <1>4, Zenon

(* A match has an href in its tag, with a value, and a ">" and an end tag  *)
(* behind it.                                                              *)
LEMMA MatchHas ==
  ASSUME NEW t, Len(t) \in Nat, NEW p \in 1..Len(t), NEW m \in MatchesAt(t, p)
  PROVE  \E h \in TagHrefs(t, p), n \in {1, 2} :
           LET v == Alternative(t, h, n)
               g == NextOf(t, v.end, End(t), {"gt"})
               c == CloseTag(t, g + 1)
           IN  /\ m.at = <<h, n>>
               /\ m.found = Element(p, v, g, c)
               /\ v # NoValue /\ Value(t, ValueStart(t, h)) # NoValue
               /\ v.end \in (p + 1)..End(t)
               /\ g \in v.end..Len(t) /\ t[g] = "gt"
               /\ c \in (g + 1)..(Len(t) - 1) /\ t[c] = "</a" /\ t[c + 1] = "gt"
<1>1. PICK h \in TagHrefs(t, p), n \in {1, 2} :
         \E e \in Captured(t, p, Alternative(t, h, n)) : m = [at |-> <<h, n>>, found |-> e]
  BY MatchesAre
<1> DEFINE v == Alternative(t, h, n)
           g == NextOf(t, v.end, End(t), {"gt"})
           c == CloseTag(t, g + 1)
<1>2. PICK e \in Captured(t, p, v) : m = [at |-> <<h, n>>, found |-> e]
  BY <1>1, Zenon
<1>3. m.at = <<h, n>> /\ m.found = e
  BY <1>2
<1>4. v # NoValue /\ g # 0 /\ c # 0 /\ e = Element(p, v, g, c)
  BY CapturedIs, Zenon
<1>5. h \in 1..Len(t) /\ h > p /\ HrefAt(t, h)
  BY DEF TagHrefs, Positions
<1>6. End(t) \in Nat /\ End(t) = Len(t) + 1
  BY DEF End
<1>7. ValueStart(t, h) \in (h + 2)..End(t)
  BY <1>5, ValueBegins
<1>8. ValueStart(t, h) \in Nat \ {0}
  BY <1>5, <1>6, <1>7
<1>9. v.end \in (ValueStart(t, h) + 1)..End(t) /\ Value(t, ValueStart(t, h)) # NoValue
  BY <1>4, <1>8, QuotedShape, UnquotedShape DEF Alternative, Value
<1> HIDE DEF v
<1>10. v.end \in (p + 1)..End(t) /\ v.end \in Nat \ {0}
  BY <1>5, <1>6, <1>7, <1>9
<1>11. g \in v.end..Len(t) /\ t[g] = "gt"
  <2>1. g \in v.end..(End(t) - 1) /\ t[g] \in {"gt"}
    BY <1>4, <1>6, <1>10, NextOfFinds
  <2> QED
    BY <1>6, <2>1
<1> HIDE DEF g
<1>12. g + 1 \in Nat \ {0}
  BY <1>10, <1>11
<1>13. c \in (g + 1)..(Len(t) - 1) /\ t[c] = "</a" /\ t[c + 1] = "gt"
  BY <1>4, <1>12, CloseTagFinds
<1> QED
  BY <1>3, <1>4, <1>9, <1>10, <1>11, <1>13 DEF v, g, c

(* What the expression finds at a tag is decided by the first href of the  *)
(* tag that has a value, if something closes the element behind it.        *)
LEMMA MatchIsFirstValue ==
  ASSUME NEW t, Len(t) \in Nat, NEW p \in 1..Len(t), NEW h \in TagHrefs(t, p),
         \A x \in TagHrefs(t, p) : Value(t, ValueStart(t, x)) # NoValue => h <= x,
         NEW v, v = Value(t, ValueStart(t, h)), v # NoValue,
         NEW g, g = NextOf(t, v.end, End(t), {"gt"}), g # 0,
         NEW c, c = CloseTag(t, g + 1), c # 0
  PROVE  MatchesAt(t, p) # {} /\ Match(t, p) = Element(p, v, g, c)
<1> DEFINE n == IF Quoted(t, ValueStart(t, h)) # NoValue THEN 1 ELSE 2
           m == [at |-> <<h, n>>, found |-> Element(p, v, g, c)]
           Earliest(x) == \A o \in MatchesAt(t, p) : Before(x.at, o.at)
<1>1. v = Alternative(t, h, n) /\ n \in {1, 2}
  BY DEF Alternative, Value
<1>2. Quoted(t, ValueStart(t, h)) # NoValue <=> n = 1
  OBVIOUS
<1> HIDE DEF n
<1>3. Element(p, v, g, c) \in Captured(t, p, v)
  BY CapturedIs, Zenon
<1>4. m \in MatchesAt(t, p)
  BY <1>1, <1>3, MatchesAre, Zenon
<1>5. h \in Nat
  BY DEF TagHrefs, Positions
<1>6. ASSUME NEW o \in MatchesAt(t, p)
      PROVE  /\ Before(<<h, n>>, o.at)
             /\ Before(o.at, <<h, n>>) => o.found = Element(p, v, g, c)
  <2>1. PICK x \in TagHrefs(t, p), k \in {1, 2} :
          /\ o.at = <<x, k>>
          /\ Alternative(t, x, k) # NoValue /\ Value(t, ValueStart(t, x)) # NoValue
          /\ LET w == Alternative(t, x, k)
                 y == NextOf(t, w.end, End(t), {"gt"})
             IN  o.found = Element(p, w, y, CloseTag(t, y + 1))
    BY MatchHas, Zenon
  <2>2. h <= x /\ x \in Nat
    BY <2>1 DEF TagHrefs, Positions
  <2>3. x = h => n <= k
    BY <1>1, <1>2, <2>1 DEF Alternative
  <2>4. Before(<<h, n>>, <<x, k>>)
    BY <1>1, <1>5, <2>2, <2>3 DEF Before
  <2>5. ASSUME Before(<<x, k>>, <<h, n>>) PROVE o.found = Element(p, v, g, c)
    <3>1. x = h /\ k = n
      BY <1>1, <1>5, <2>2, <2>3, <2>5 DEF Before
    <3> QED
      BY <1>1, <2>1, <3>1, Zenon
  <2> QED
    BY <2>1, <2>4, <2>5, Zenon
<1>7. Earliest(m)
  BY <1>6, Zenon
<1>8. Match(t, p) = (CHOOSE x \in MatchesAt(t, p) : Earliest(x)).found
  BY DEF Match
<1> DEFINE r == CHOOSE x \in MatchesAt(t, p) : Earliest(x)
<1>9. m.at = <<h, n>>
  OBVIOUS
<1> HIDE DEF m
<1>10. r \in MatchesAt(t, p) /\ Earliest(r)
  BY <1>4, <1>7, Zenon
<1> HIDE DEF r
<1>11. Before(r.at, <<h, n>>)
  BY <1>4, <1>9, <1>10, Zenon
<1> QED
  BY <1>4, <1>6, <1>8, <1>10, <1>11, Zenon DEF r

-----------------------------------------------------------------------------
(* A tag                                                                   *)

(* The hrefs of the expression are those before the first ">" of the tag.  *)
LEMMA HrefsOfTag ==
  ASSUME NEW t, Len(t) \in Nat, NEW p \in 1..Len(t), t[p] = "<a",
         NEW q, q = NextOf(t, p + 1, End(t), {"gt"}), q # 0
  PROVE  /\ q \in (p + 1)..Len(t) /\ t[q] = "gt"
         /\ TagHrefs(t, p) = {h \in (p + 1)..(q - 1) : HrefAt(t, h)}
<1>1. End(t) \in Nat /\ End(t) = Len(t) + 1 /\ p \in Nat \ {0} /\ p + 1 \in Nat \ {0}
  BY DEF End
<1>2. /\ q \in (p + 1)..(End(t) - 1) /\ t[q] \in {"gt"}
      /\ \A n \in (p + 1)..(End(t) - 1) : t[n] \in {"gt"} => q <= n
  BY <1>1, NextOfFinds
<1>3. q \in (p + 1)..Len(t) /\ t[q] = "gt"
  BY <1>1, <1>2
<1>4. ASSUME NEW h \in TagHrefs(t, p) PROVE h \in (p + 1)..(q - 1) /\ HrefAt(t, h)
  <2>1. h \in 1..Len(t) /\ t[h] = "href" /\ h > p /\ HrefAt(t, h) /\ NextOf(t, p, h, {"gt"}) = 0
    BY DEF TagHrefs, Positions
  <2>2. \A n \in p..(h - 1) : t[n] \notin {"gt"}
    BY <1>1, <2>1, NextOfFinds
  <2>3. ~(q \in p..(h - 1)) /\ q # h
    BY <1>3, <2>1, <2>2
  <2> QED
    BY <1>1, <1>3, <2>1, <2>3
<1>5. ASSUME NEW h \in (p + 1)..(q - 1), HrefAt(t, h) PROVE h \in TagHrefs(t, p)
  <2>1. h \in 1..Len(t) /\ h > p /\ h \in Nat
    BY <1>1, <1>3
  <2>2. t[h] = "href"
    BY <1>5, Zenon DEF HrefAt
  <2> DEFINE r == NextOf(t, p, h, {"gt"})
  <2>3. r # 0 => r \in p..(h - 1) /\ t[r] \in {"gt"}
    BY <1>1, <2>1, NextOfFinds
  <2> HIDE DEF r
  <2>4. ASSUME r # 0 PROVE FALSE
    <3>1. r \in p..(h - 1) /\ t[r] = "gt"
      BY <2>3, <2>4
    <3>2. r # p
      BY <3>1
    <3>3. r \in (p + 1)..(End(t) - 1) /\ r < q
      BY <1>1, <1>3, <3>1, <3>2
    <3> QED
      BY <1>2, <1>3, <3>1, <3>3
  <2> QED
    BY <1>5, <2>1, <2>2, <2>4 DEF TagHrefs, Positions, r
<1> QED
  BY <1>3, <1>4, <1>5

LEMMA TagValueIs ==
  ASSUME NEW t, Len(t) \in Nat, NEW p \in 1..Len(t), t[p] = "<a",
         NEW q, q = NextOf(t, p + 1, End(t), {"gt"}), q # 0
  PROVE  \/ /\ TagValue(t, p + 1, q) = NoValue
            /\ MatchesAt(t, p) = {}
         \/ \E h \in TagHrefs(t, p) :
              /\ TagValue(t, p + 1, q) = Value(t, ValueStart(t, h))
              /\ TagValue(t, p + 1, q) # NoValue
              /\ \A x \in TagHrefs(t, p) : Value(t, ValueStart(t, x)) # NoValue => h <= x
<1> DEFINE hs == {h \in (p + 1)..(q - 1) : HrefAt(t, h) /\ Value(t, ValueStart(t, h)) # NoValue}
<1>1. TagHrefs(t, p) = {h \in (p + 1)..(q - 1) : HrefAt(t, h)}
  BY HrefsOfTag
<1>2. hs = {h \in TagHrefs(t, p) : Value(t, ValueStart(t, h)) # NoValue}
  BY <1>1
<1>3. q \in (p + 1)..Len(t)
  BY HrefsOfTag
<1>4. hs \in SUBSET Nat
  BY <1>3
<1>5. TagValue(t, p + 1, q) =
        IF hs = {} THEN NoValue ELSE Value(t, ValueStart(t, CHOOSE h \in hs : \A x \in hs : h <= x))
  BY DEF TagValue
<1> HIDE DEF hs
<1>6. CASE hs = {}
  <2>1. \A x \in TagHrefs(t, p) : Value(t, ValueStart(t, x)) = NoValue
    BY <1>2, <1>6
  <2>2. MatchesAt(t, p) = {}
    BY <2>1, MatchHas, Zenon
  <2> QED
    BY <1>5, <1>6, <2>2
<1>7. CASE hs # {}
  <2> DEFINE h == CHOOSE h \in hs : \A x \in hs : h <= x
  <2>1. \E m \in hs : \A x \in hs : m <= x
    BY <1>4, <1>7, LeastPosition, Zenon
  <2>2. h \in hs /\ \A x \in hs : h <= x
    BY <2>1, Zenon
  <2>3. TagValue(t, p + 1, q) = Value(t, ValueStart(t, h))
    BY <1>5, <1>7, Zenon
  <2> HIDE DEF h
  <2> QED
    BY <1>2, <2>2, <2>3
<1> QED
  BY <1>6, <1>7

-----------------------------------------------------------------------------
(* The scanner                                                             *)

(* The next place where the expression matches is not before the next tag. *)
LEMMA NextTagFirst ==
  ASSUME AnchorTypeOK, NEW p \in Starts(source), p >= from
  PROVE  OpenTag # 0 /\ OpenTag <= p /\ OpenTag < Len(source)
<1>1. /\ Len(source) \in Nat /\ End(source) = Len(source) + 1 /\ End(source) \in Nat
      /\ from \in Nat \ {0}
  BY DEF AnchorTypeOK, End
<1>2. p \in 1..Len(source) /\ source[p] = "<a" /\ p < Len(source)
  BY DEF Starts, Positions
<1>3. p \in from..(End(source) - 1) /\ source[p] \in {"<a"}
  BY <1>1, <1>2
<1>4. /\ OpenTag \in Nat
      /\ OpenTag = 0 => \A n \in from..(End(source) - 1) : source[n] \notin {"<a"}
      /\ OpenTag # 0 => \A n \in from..(End(source) - 1) : source[n] \in {"<a"} => OpenTag <= n
  BY <1>1, NextOfFinds DEF OpenTag
<1>5. OpenTag # 0 /\ OpenTag <= p
  BY <1>3, <1>4, Zenon
<1> QED
  BY <1>1, <1>2, <1>4, <1>5

LEMMA OpenTagIs ==
  ASSUME AnchorTypeOK, HasTag
  PROVE  /\ OpenTag \in from..(Len(source) - 1) /\ OpenTag \in 1..Len(source)
         /\ source[OpenTag] = "<a" /\ Len(source) \in Nat
<1>1. /\ Len(source) \in Nat /\ End(source) = Len(source) + 1 /\ End(source) \in Nat
      /\ from \in Nat \ {0}
  BY DEF AnchorTypeOK, End
<1>2. OpenTag # 0 => OpenTag \in from..(End(source) - 1) /\ source[OpenTag] \in {"<a"}
  BY <1>1, NextOfFinds DEF OpenTag
<1>3. OpenTag # 0 /\ OpenTag < Len(source)
  BY DEF HasTag
<1> QED
  BY <1>1, <1>2, <1>3

(* To pass a tag that is no match misses none.                             *)
LEMMA PassTag ==
  ASSUME AnchorTypeOK, PassedInv, HasTag, SkipTo(OpenTag + 1), OpenTag \notin Starts(source)
  PROVE  AnchorTypeOK' /\ PassedInv'
<1>1. OpenTag \in from..(Len(source) - 1) /\ Len(source) \in Nat /\ ~over
  BY OpenTagIs DEF HasTag
<1>2. from \in 1..End(source) /\ End(source) = Len(source) + 1
  BY DEF AnchorTypeOK, End
<1>3. from' = OpenTag + 1 /\ UNCHANGED <<source, anchors, over>>
  BY DEF SkipTo
<1>4. from' \in 1..End(source) /\ from <= from' /\ from' \in Nat
  BY <1>1, <1>2, <1>3
<1>5. AnchorTypeOK'
  BY <1>3, <1>4 DEF AnchorTypeOK
<1>6. Resumed' = Resumed
  BY <1>3 DEF Resumed
<1>7. Resumed \in 1..from /\ \A p \in StartsBehind(source, Resumed) : p >= from
  BY DEF PassedInv
<1>8. ASSUME NEW p \in StartsBehind(source, Resumed) PROVE p >= from'
  <2>1. p \in Starts(source) /\ p >= from /\ p \in Nat
    BY <1>7 DEF StartsBehind, Starts, Positions
  <2>2. OpenTag <= p
    BY <2>1, NextTagFirst
  <2>3. OpenTag # p
    BY <2>1
  <2> QED
    BY <1>1, <1>2, <1>3, <2>1, <2>2, <2>3
<1>9. Resumed \in 1..from'
  BY <1>2, <1>4, <1>7
<1>10. FoundInTurn(source, anchors)' /\ NothingMissed'
  BY <1>1, <1>3 DEF PassedInv, NothingMissed
<1> QED
  BY <1>3, <1>5, <1>6, <1>8, <1>9, <1>10 DEF PassedInv

(* To stop where no further match is misses none.                          *)
LEMMA ScanStops ==
  ASSUME AnchorTypeOK, PassedInv, Stopped,
         \A p \in Starts(source) : p >= from => ~QuotesCloseInTag(source)
  PROVE  AnchorTypeOK' /\ PassedInv'
<1>1. over' = TRUE /\ UNCHANGED <<source, from, anchors>>
  BY DEF Stopped
<1>2. AnchorTypeOK'
  BY <1>1 DEF AnchorTypeOK
<1>3. Resumed' = Resumed
  BY <1>1 DEF Resumed
<1>4. \A p \in StartsBehind(source, Resumed) : p \in Starts(source) /\ p >= from
  BY DEF PassedInv, StartsBehind
<1>5. QuotesCloseInTag(source) => StartsBehind(source, Resumed) = {}
  BY <1>4
<1>6. NothingMissed'
  BY <1>1, <1>5 DEF NothingMissed, Resumed
<1> QED
  BY <1>1, <1>2, <1>3, <1>6 DEF PassedInv

(* A match at or behind the next tag closes behind the end of that tag.    *)
LEMMA MatchClosesLater ==
  ASSUME AnchorTypeOK, HasTag, NEW p \in Starts(source), p >= from
  PROVE  /\ TagEnd # 0 /\ TagEnd \in (OpenTag + 1)..Len(source)
         /\ source[TagEnd] = "gt"
         /\ CloseTag(source, TagEnd + 1) # 0
<1>1. /\ Len(source) \in Nat /\ End(source) = Len(source) + 1 /\ End(source) \in Nat
      /\ OpenTag \in 1..Len(source) /\ source[OpenTag] = "<a"
      /\ OpenTag + 1 \in Nat \ {0}
  BY OpenTagIs DEF End
<1>2. p \in 1..Len(source) /\ OpenTag <= p /\ MatchesAt(source, p) # {}
  BY NextTagFirst DEF Starts, Positions
<1>3. PICK g, c : /\ g \in (p + 1)..Len(source) /\ source[g] = "gt"
                  /\ c \in (g + 1)..(Len(source) - 1)
                  /\ source[c] = "</a" /\ source[c + 1] = "gt"
  <2>1. PICK m \in MatchesAt(source, p) : TRUE
    BY <1>2
  <2>2. PICK h \in TagHrefs(source, p), n \in {1, 2} :
          LET v == Alternative(source, h, n)
              g == NextOf(source, v.end, End(source), {"gt"})
              c == CloseTag(source, g + 1)
          IN  /\ v.end \in (p + 1)..End(source)
              /\ g \in v.end..Len(source) /\ source[g] = "gt"
              /\ c \in (g + 1)..(Len(source) - 1) /\ source[c] = "</a" /\ source[c + 1] = "gt"
    BY <1>1, <1>2, <2>1, MatchHas, ZenonT(60)
  <2> DEFINE v == Alternative(source, h, n)
             g == NextOf(source, v.end, End(source), {"gt"})
             c == CloseTag(source, g + 1)
  <2>3. /\ v.end \in (p + 1)..End(source)
        /\ g \in v.end..Len(source) /\ source[g] = "gt"
        /\ c \in (g + 1)..(Len(source) - 1) /\ source[c] = "</a" /\ source[c + 1] = "gt"
    BY <2>2
  <2> HIDE DEF v, g, c
  <2>4. g \in (p + 1)..Len(source)
    BY <1>1, <1>2, <2>3
  <2> QED
    BY <2>3, <2>4
<1>4. g \in (OpenTag + 1)..(End(source) - 1) /\ source[g] \in {"gt"}
  BY <1>1, <1>2, <1>3
<1>5. /\ TagEnd \in Nat
      /\ TagEnd = 0 => \A n \in (OpenTag + 1)..(End(source) - 1) : source[n] \notin {"gt"}
      /\ TagEnd # 0 =>
           /\ TagEnd \in (OpenTag + 1)..(End(source) - 1) /\ source[TagEnd] \in {"gt"}
           /\ \A n \in (OpenTag + 1)..(End(source) - 1) : source[n] \in {"gt"} => TagEnd <= n
  BY <1>1, NextOfFinds DEF TagEnd
<1>6. /\ TagEnd # 0 /\ TagEnd <= g /\ TagEnd \in (OpenTag + 1)..(End(source) - 1)
      /\ source[TagEnd] \in {"gt"}
  BY <1>4, <1>5, Zenon
<1>7. TagEnd + 1 \in Nat \ {0} /\ c \in (TagEnd + 1)..(Len(source) - 1)
  BY <1>1, <1>3, <1>6
<1>8. CloseTag(source, TagEnd + 1) = 0 =>
        \A n \in (TagEnd + 1)..(Len(source) - 1) : ~(source[n] = "</a" /\ source[n + 1] = "gt")
  BY <1>1, <1>7, CloseTagFinds
<1>9. CloseTag(source, TagEnd + 1) # 0
  BY <1>3, <1>7, <1>8, Zenon
<1> QED
  BY <1>1, <1>6, <1>9

(* Where the quoted values close inside their tag, the end of the tag is   *)
(* the first ">" behind its value.                                         *)
LEMMA EndBehindValue ==
  ASSUME AnchorTypeOK, HasTag, TagEnd # 0, QuotesCloseInTag(source),
         NEW h \in TagHrefs(source, OpenTag), NEW v, v = Value(source, ValueStart(source, h)),
         v # NoValue
  PROVE  NextOf(source, v.end, End(source), {"gt"}) = TagEnd
<1>1. /\ Len(source) \in Nat /\ End(source) = Len(source) + 1 /\ End(source) \in Nat
      /\ OpenTag \in 1..Len(source) /\ source[OpenTag] = "<a"
      /\ OpenTag + 1 \in Nat \ {0}
  BY OpenTagIs DEF End
<1>2. /\ TagEnd \in (OpenTag + 1)..Len(source) /\ source[TagEnd] = "gt"
      /\ h \in (OpenTag + 1)..(TagEnd - 1) /\ HrefAt(source, h)
  BY <1>1, HrefsOfTag DEF TagEnd
<1>3. h \in 2..Len(source) /\ h \in 1..Len(source) /\ TagEnd \in (h + 1)..Len(source)
  BY <1>1, <1>2
<1>4. v.end <= TagEnd
  BY <1>1, <1>2, <1>3, ValueInTag
<1>5. ValueStart(source, h) \in (h + 2)..End(source)
  BY <1>1, <1>2, <1>3, ValueBegins
<1>6. v.end \in (ValueStart(source, h) + 1)..End(source)
  BY <1>1, <1>3, <1>5, ValueShape
<1>7. v.end \in Nat \ {0} /\ OpenTag + 1 <= v.end
  BY <1>1, <1>2, <1>3, <1>5, <1>6
<1> DEFINE g == NextOf(source, v.end, End(source), {"gt"})
<1>8. /\ g \in Nat
      /\ g = 0 => \A n \in v.end..(End(source) - 1) : source[n] \notin {"gt"}
      /\ g # 0 =>
           /\ g \in v.end..(End(source) - 1) /\ source[g] \in {"gt"}
           /\ \A n \in v.end..(End(source) - 1) : source[n] \in {"gt"} => g <= n
  BY <1>1, <1>7, NextOfFinds
<1>9. TagEnd # 0 => \A n \in (OpenTag + 1)..(End(source) - 1) : source[n] \in {"gt"} => TagEnd <= n
  BY <1>1, NextOfFinds DEF TagEnd
<1> HIDE DEF g
<1>10. TagEnd \in v.end..(End(source) - 1) /\ source[TagEnd] \in {"gt"}
  BY <1>1, <1>2, <1>4, <1>7
<1>11. g # 0 /\ g <= TagEnd
  BY <1>8, <1>10, Zenon
<1>12. g \in (OpenTag + 1)..(End(source) - 1) /\ source[g] \in {"gt"}
  BY <1>1, <1>7, <1>8, <1>11
<1>13. TagEnd <= g
  BY <1>9, <1>12
<1> QED
  BY <1>2, <1>8, <1>11, <1>13 DEF g

(* To report an element is to report the next match.                       *)
LEMMA ReportTag ==
  ASSUME AnchorTypeOK, PassedInv, IsAnchor, TagEnd # 0,
         NEW h \in TagHrefs(source, OpenTag),
         \A x \in TagHrefs(source, OpenTag) : Value(source, ValueStart(source, x)) # NoValue => h <= x,
         NEW v, v = Value(source, ValueStart(source, h)), v # NoValue,
         NEW g, g = NextOf(source, v.end, End(source), {"gt"}), g # 0,
         NEW c, c = CloseTag(source, g + 1), c # 0,
         anchors' = Append(anchors, Element(OpenTag, v, g, c)), from' = c + 2,
         UNCHANGED <<source, over>>
  PROVE  AnchorTypeOK' /\ PassedInv'
<1> DEFINE e == Element(OpenTag, v, g, c)
<1>1. /\ Len(source) \in Nat /\ End(source) = Len(source) + 1 /\ End(source) \in Nat
      /\ OpenTag \in from..(Len(source) - 1)
      /\ OpenTag \in 1..Len(source) /\ source[OpenTag] = "<a" /\ ~over
      /\ source[OpenTag + 1] \notin StartWord
  BY OpenTagIs DEF End, IsAnchor, HasTag
<1>2. from \in Nat /\ anchors \in Seq(Elements) /\ Len(anchors) \in Nat
  BY <1>1 DEF AnchorTypeOK
<1>3. MatchesAt(source, OpenTag) # {} /\ Match(source, OpenTag) = e
  BY <1>1, MatchIsFirstValue
<1>4. OpenTag \in Starts(source)
  BY <1>1, <1>3 DEF Starts, Positions
<1>5. h \in 1..Len(source) /\ HrefAt(source, h) /\ h > OpenTag
  BY DEF TagHrefs, Positions
<1>6. ValueStart(source, h) \in (h + 2)..End(source) /\ ValueStart(source, h) \in Nat \ {0}
  BY <1>1, <1>5, ValueBegins
<1>7. v.span \in Stretches /\ v.end \in (ValueStart(source, h) + 1)..End(source)
  BY <1>1, <1>6, ValueShape
<1>8. v.end \in Nat \ {0} /\ v.end > OpenTag
  BY <1>1, <1>5, <1>6, <1>7
<1>9. g \in v.end..(End(source) - 1)
  BY <1>1, <1>8, NextOfFinds
<1>10. g \in Nat /\ g + 1 \in Nat \ {0} /\ g > OpenTag
  BY <1>1, <1>8, <1>9
<1>11. c \in (g + 1)..(Len(source) - 1)
  BY <1>1, <1>10, CloseTagFinds
<1>12. c \in Nat /\ c > OpenTag /\ c - 1 \in Nat /\ OpenTag \in Nat
  BY <1>1, <1>10, <1>11, SMTT(30)
<1>13. e \in Elements /\ e.inner[2] = c - 1
  BY <1>7, <1>10, <1>12 DEF Element, Elements, Stretches
<1> HIDE DEF e
<1>14. from' \in 1..End(source) /\ from' \in Nat /\ from' > OpenTag
  BY <1>1, <1>11, <1>12
<1>15. /\ anchors' = Append(anchors, e) /\ anchors' \in Seq(Elements)
       /\ Len(anchors') = Len(anchors) + 1 /\ anchors'[Len(anchors) + 1] = e
       /\ \A n \in 1..Len(anchors) : anchors'[n] = anchors[n]
  <2>1. anchors' = Append(anchors, e)
    BY DEF e
  <2> QED
    BY <1>2, <1>13, <2>1
<1>16. AnchorTypeOK'
  BY <1>14, <1>15 DEF AnchorTypeOK
<1>17. Resumed' = from'
  <2>1. Resumed' = anchors'[Len(anchors) + 1].inner[2] + 3
    BY <1>2, <1>15 DEF Resumed, Resumes
  <2> QED
    BY <1>12, <1>13, <1>15, <2>1
<1>18. Resumed \in 1..from /\ FoundInTurn(source, anchors)
       /\ \A p \in StartsBehind(source, Resumed) : p >= from
  BY DEF PassedInv
<1>19. Lowest(StartsBehind(source, Resumed)) = OpenTag
  <2> DEFINE S == StartsBehind(source, Resumed)
  <2>1. OpenTag \in S
    BY <1>1, <1>2, <1>4, <1>18 DEF StartsBehind
  <2>2. ASSUME NEW p \in S PROVE OpenTag <= p
    <3>1. p \in Starts(source) /\ p >= from
      BY <1>18 DEF StartsBehind
    <3> QED
      BY <3>1, NextTagFirst
  <2>3. S \in SUBSET (Nat \ {0})
    BY <1>1 DEF StartsBehind, Starts, Positions
  <2> HIDE DEF S
  <2>4. Lowest(S) \in S /\ Lowest(S) <= OpenTag
    <3>1. Lowest(S) # 0
      BY <2>1, <2>3, LowestIsLeast
    <3> QED
      BY <2>1, <2>3, <3>1, LowestIsLeast
  <2>5. OpenTag <= Lowest(S) /\ Lowest(S) \in Nat
    BY <2>2, <2>3, <2>4
  <2> QED
    BY <1>12, <2>4, <2>5 DEF S
<1>20. FoundInTurn(source, anchors')
  <2> SUFFICES ASSUME NEW n \in 1..Len(anchors')
               PROVE  LET starts == StartsBehind(source, Resumes(anchors', n - 1))
                      IN  starts # {} /\ anchors'[n] = Match(source, Lowest(starts))
    BY Zenon DEF FoundInTurn
  <2>1. n \in 1..(Len(anchors) + 1)
    BY <1>2, <1>15
  <2>2. Resumes(anchors', n - 1) = Resumes(anchors, n - 1)
    <3>1. n - 1 # 0 => n - 1 \in 1..Len(anchors)
      BY <1>2, <2>1
    <3> QED
      BY <1>15, <3>1 DEF Resumes
  <2>3. CASE n \in 1..Len(anchors)
    <3>1. LET starts == StartsBehind(source, Resumes(anchors, n - 1))
          IN  starts # {} /\ anchors[n] = Match(source, Lowest(starts))
      BY <1>18, <2>3, Zenon DEF FoundInTurn
    <3> QED
      BY <1>15, <2>2, <2>3, <3>1
  <2>4. CASE n = Len(anchors) + 1
    <3>1. Resumes(anchors, n - 1) = Resumed
      <4>1. n - 1 = Len(anchors)
        BY <1>2, <2>4
      <4> QED
        BY <4>1 DEF Resumed
    <3>2. StartsBehind(source, Resumed) # {}
      BY <1>1, <1>2, <1>4, <1>18 DEF StartsBehind
    <3> QED
      BY <1>3, <1>15, <1>19, <2>2, <2>4, <3>1, <3>2
  <2> QED
    BY <1>2, <2>1, <2>3, <2>4
<1>21. NothingMissed'
  BY <1>1 DEF NothingMissed
<1>22. \A p \in StartsBehind(source, Resumed)' : p >= from'
  BY <1>17 DEF StartsBehind
<1> QED
  BY <1>14, <1>16, <1>17, <1>20, <1>21, <1>22 DEF PassedInv

-----------------------------------------------------------------------------
LEMMA StepKeeps ==
  ASSUME AnchorTypeOK, PassedInv, AnchorNext
  PROVE  AnchorTypeOK' /\ PassedInv'
<1>1. CASE NoMoreTags
  <2>1. ~HasTag /\ ~over /\ Stopped
    BY <1>1 DEF NoMoreTags
  <2>2. \A p \in Starts(source) : ~(p >= from)
    BY <2>1, NextTagFirst DEF HasTag
  <2> QED
    BY <2>1, <2>2, ScanStops
<1>2. CASE OtherElement
  <2>1. HasTag /\ source[OpenTag + 1] \in StartWord /\ SkipTo(OpenTag + 1)
    BY <1>2 DEF OtherElement
  <2>2. OpenTag \notin Starts(source)
    BY <2>1 DEF Starts
  <2> QED
    BY <2>1, <2>2, PassTag
<1>3. CASE TagNotEnded
  <2>1. HasTag /\ TagEnd = 0 /\ Stopped
    BY <1>3 DEF TagNotEnded, IsAnchor
  <2>2. \A p \in Starts(source) : ~(p >= from)
    BY <2>1, MatchClosesLater
  <2> QED
    BY <2>1, <2>2, ScanStops
<1>4. CASE ReadElement
  <2> DEFINE v == TagValue(source, OpenTag + 1, TagEnd)
             g == NextOf(source, v.end, End(source), {"gt"})
             c == CloseTag(source, g + 1)
  <2>1. IsAnchor /\ HasTag /\ TagEnd # 0 /\ ReadTag(v)
    BY <1>4 DEF ReadElement, IsAnchor
  <2>2. OpenTag \in 1..Len(source) /\ source[OpenTag] = "<a" /\ Len(source) \in Nat
    BY <2>1, OpenTagIs
  <2>3. TagEnd = NextOf(source, OpenTag + 1, End(source), {"gt"})
    BY DEF TagEnd
  <2>4. \/ v = NoValue /\ SkipTo(OpenTag + 1)
        \/ v # NoValue /\ (g = 0 \/ c = 0) /\ Stopped
        \/ /\ v # NoValue /\ g # 0 /\ c # 0
           /\ anchors' = Append(anchors, Element(OpenTag, v, g, c))
           /\ from' = c + 2
           /\ UNCHANGED <<source, over>>
    BY <2>1, Zenon DEF ReadTag
  <2>5. \/ v = NoValue /\ MatchesAt(source, OpenTag) = {}
        \/ \E h \in TagHrefs(source, OpenTag) :
             /\ v = Value(source, ValueStart(source, h)) /\ v # NoValue
             /\ \A x \in TagHrefs(source, OpenTag) :
                  Value(source, ValueStart(source, x)) # NoValue => h <= x
    BY <2>1, <2>2, <2>3, TagValueIs
  <2> HIDE DEF v, c
  <2>6. CASE v = NoValue
    <3>1. OpenTag \notin Starts(source)
      BY <2>5, <2>6 DEF Starts
    <3> QED
      BY <2>1, <2>4, <2>6, <3>1, PassTag
  <2>7. CASE v # NoValue
    <3>1. PICK h \in TagHrefs(source, OpenTag) :
             /\ v = Value(source, ValueStart(source, h))
             /\ \A x \in TagHrefs(source, OpenTag) :
                  Value(source, ValueStart(source, x)) # NoValue => h <= x
      BY <2>5, <2>7
    <3>2. CASE (g = 0 \/ c = 0) /\ Stopped
      <4>1. QuotesCloseInTag(source) => g = TagEnd
        BY <2>1, <2>7, <3>1, EndBehindValue
      <4>2. ASSUME NEW p \in Starts(source), p >= from PROVE ~QuotesCloseInTag(source)
        <5>1. CloseTag(source, TagEnd + 1) # 0
          BY <2>1, <4>2, MatchClosesLater
        <5>2. g = TagEnd => c # 0 /\ g # 0
          BY <2>1, <5>1 DEF c
        <5> QED
          BY <3>2, <4>1, <5>2, Zenon
      <4> QED
        BY <3>2, <4>2, ScanStops
    <3>3. CASE /\ g # 0 /\ c # 0
               /\ anchors' = Append(anchors, Element(OpenTag, v, g, c))
               /\ from' = c + 2
               /\ UNCHANGED <<source, over>>
      BY <2>1, <2>7, <3>1, <3>3, ReportTag DEF c
    <3> QED
      BY <2>4, <2>7, <3>2, <3>3
  <2> QED
    BY <2>6, <2>7
<1>5. CASE ScanReturned
  BY <1>5 DEF ScanReturned, anchorVars, AnchorTypeOK, PassedInv, Resumed, NothingMissed
<1> QED
  BY <1>1, <1>2, <1>3, <1>4, <1>5 DEF AnchorNext

(* scanAnchors reports what the regular expression finds, in its order and *)
(* with nothing between, on any page; and all of it, on a page whose       *)
(* quoted values close inside their tag (discover.go 180-286).             *)
THEOREM ScannerFindsTheAnchors == AnchorSpec => []ScannerIsExpression
<1>1. AnchorInit => AnchorTypeOK /\ PassedInv
  <2> SUFFICES ASSUME AnchorInit PROVE AnchorTypeOK /\ PassedInv
    OBVIOUS
  <2>1. source \in Seq(Markup) /\ from = 1 /\ anchors = <<>> /\ over = FALSE
    BY AnchorTextsAssumption DEF AnchorInit
  <2>2. Len(source) \in Nat /\ Len(anchors) = 0 /\ anchors \in Seq(Elements)
    BY <2>1
  <2>3. AnchorTypeOK
    <3>1. from \in 1..End(source)
      <4>1. End(source) = Len(source) + 1
        BY DEF End
      <4> QED
        BY <2>1, <2>2, <4>1
    <3>2. over \in BOOLEAN
      BY <2>1, Zenon
    <3> QED
      BY <2>1, <2>2, <3>1, <3>2 DEF AnchorTypeOK
  <2>4. Resumed = 1
    BY <2>2 DEF Resumed, Resumes
  <2>5. \A p \in StartsBehind(source, Resumed) : p >= from
    BY <2>1, <2>4 DEF StartsBehind
  <2>6. FoundInTurn(source, anchors)
    BY <2>2 DEF FoundInTurn
  <2> QED
    BY <2>1, <2>3, <2>4, <2>5, <2>6 DEF PassedInv, NothingMissed
<1>2. AnchorTypeOK /\ PassedInv /\ [AnchorNext]_anchorVars => (AnchorTypeOK /\ PassedInv)'
  <2>1. CASE AnchorNext
    BY <2>1, StepKeeps
  <2>2. CASE UNCHANGED anchorVars
    BY <2>2 DEF anchorVars, AnchorTypeOK, PassedInv, Resumed, NothingMissed
  <2> QED
    BY <2>1, <2>2
<1>3. AnchorTypeOK /\ PassedInv => ScannerIsExpression
  BY DEF PassedInv, ScannerIsExpression, NothingInvented
<1> QED
  BY <1>1, <1>2, <1>3, PTL DEF AnchorSpec

=============================================================================
