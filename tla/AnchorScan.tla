----------------------------- MODULE AnchorScan -----------------------------
(***************************************************************************)
(* scanAnchors (discover.go): the single pass over a page that finds its   *)
(* <a href=...>...</a> elements, one iteration of its outer loop per step, *)
(* beside the regular expression anchorRE that says what an anchor is.     *)
(*                                                                         *)
(* A page is a sequence of tokens, each standing for the bytes that the    *)
(* scanner and the expression treat alike.  MCReaders reads with it beside *)
(* other readers; hence the names of Init, Next and Spec.                  *)
(***************************************************************************)
EXTENDS Naturals, Sequences
LOCAL INSTANCE FiniteSetsExt

CONSTANT AnchorTexts          \* the pages

Quotes    == {"dq", "sq"}
Markup    == {"<a", "</a", "href", "=", "gt", "space", "word"} \cup Quotes
StartWord == {"href", "word"}                   \* begin with a word byte
EndWord   == StartWord \cup {"<a", "</a"}       \* end with one

ASSUME AnchorTextsAssumption == AnchorTexts \subseteq Seq(Markup)

VARIABLES
  source,     \* the page
  from,       \* where the next search begins
  anchors,    \* the anchors found so far
  over        \* scanAnchors has returned

anchorVars == <<source, from, anchors, over>>

(* The least of a set of positions; 0 if it is empty.                      *)
Lowest(S) == IF S = {} THEN 0 ELSE Min(S)

(* The first of these tokens at or after a and before b.                   *)
NextOf(t, a, b, set) == Lowest({n \in a..(b - 1) : t[n] \in set})

End(t) == Len(t) + 1

(* The first "</a>" at or after a.                                         *)
CloseTag(t, a) ==
  Lowest({n \in a..(Len(t) - 1) : t[n] = "</a" /\ t[n + 1] = "gt"})

(* The first position at or after a that does not hold a space.            *)
SkipSpaces(t, a) ==
  CHOOSE k \in a..End(t) :
    /\ \A n \in a..(k - 1) : t[n] = "space"
    /\ k # End(t) => t[k] # "space"

(* \bhref\s*= at position h.                                               *)
HrefAt(t, h) ==
  /\ t[h] = "href"
  /\ t[h - 1] \notin EndWord
  /\ LET k == SkipSpaces(t, h + 1) IN k < End(t) /\ t[k] = "="

ValueStart(t, h) == SkipSpaces(t, SkipSpaces(t, h + 1) + 1)

(* A value is the span of its tokens and the position after it.            *)
NoValue == [span |-> <<0, 0>>, end |-> 0]

Quoted(t, k) ==
  LET e == IF k < End(t) /\ t[k] \in Quotes
           THEN NextOf(t, k + 1, End(t), {t[k]}) ELSE 0
  IN  IF e = 0 THEN NoValue ELSE [span |-> <<k + 1, e - 1>>, end |-> e + 1]

Unquoted(t, k) ==
  LET e == NextOf(t, k, End(t), {"space", "gt"})
      v == IF e = 0 THEN End(t) ELSE e
  IN  IF v <= k THEN NoValue ELSE [span |-> <<k, v - 1>>, end |-> v]

Element(p, v, g, c) == [offset |-> p, href |-> v.span, inner |-> <<g + 1, c - 1>>]

---------------------------------------------------------------------------
(***************************************************************************)
(* The reference, anchorRE: leftmost match first, an earlier href before a *)
(* later one, a quoted value before an unquoted one, and an alternative    *)
(* given up when the rest of the expression does not match behind it.      *)
(***************************************************************************)
Positions(t, c) == {n \in 1..Len(t) : t[n] = c}

(* What the expression captures when it starts at p, its href is at h, and *)
(* its value is v: at most one element.                                    *)
Captured(t, p, v) ==
  IF v = NoValue THEN {}
  ELSE {Element(p, v, g, CloseTag(t, g + 1)) :
          g \in {n \in {NextOf(t, v.end, End(t), {"gt"})} :
                     n # 0 /\ CloseTag(t, n + 1) # 0}}

TagHrefs(t, p) ==
  {h \in Positions(t, "href") : h > p /\ HrefAt(t, h) /\ NextOf(t, p, h, {"gt"}) = 0}

MatchesAt(t, p) ==
  UNION {LET k == ValueStart(t, h)
         IN  {[at |-> <<h, 1>>, found |-> e] : e \in Captured(t, p, Quoted(t, k))}
             \cup {[at |-> <<h, 2>>, found |-> e] : e \in Captured(t, p, Unquoted(t, k))}
         : h \in TagHrefs(t, p)}

Before(x, y) == x[1] < y[1] \/ (x[1] = y[1] /\ x[2] <= y[2])

Match(t, p) ==
  (CHOOSE m \in MatchesAt(t, p) : \A o \in MatchesAt(t, p) : Before(m.at, o.at)).found

Starts(t) ==
  {p \in Positions(t, "<a") : /\ p < Len(t) /\ t[p + 1] \notin StartWord
                              /\ MatchesAt(t, p) # {}}

(* Where the search goes on behind the first n of these elements.          *)
Resumes(es, n) == IF n = 0 THEN 1 ELSE es[n].inner[2] + 3

StartsBehind(t, n) == {p \in Starts(t) : p >= n}

(* All these elements are what the expression finds one after another.     *)
FoundInTurn(t, es) ==
  \A n \in 1..Len(es) :
    LET starts == StartsBehind(t, Resumes(es, n - 1))
    IN  starts # {} /\ es[n] = Match(t, Lowest(starts))

---------------------------------------------------------------------------
(***************************************************************************)
(* The scanner.                                                            *)
(***************************************************************************)
OpenTag == NextOf(source, from, End(source), {"<a"})
TagEnd  == NextOf(source, OpenTag + 1, End(source), {"gt"})

(* Fault: a quote that is never closed is no value.                        *)
Value_NoFallback(t, k) == Quoted(t, k)

(* A quote that is never closed is read as the beginning of an unquoted    *)
(* value.                                                                  *)
Value(t, k) == IF Quoted(t, k) # NoValue THEN Quoted(t, k) ELSE Unquoted(t, k)

(* The value of the first href of the tag that has one.                    *)
TagValue(t, q, end) ==
  LET hs == {h \in q..(end - 1) : HrefAt(t, h) /\ Value(t, ValueStart(t, h)) # NoValue}
  IN  IF hs = {} THEN NoValue
      ELSE Value(t, ValueStart(t, CHOOSE h \in hs : \A x \in hs : h <= x))

AnchorInit ==
  /\ source \in AnchorTexts
  /\ from = 1
  /\ anchors = <<>>
  /\ over = FALSE

Stopped == over' = TRUE /\ UNCHANGED <<source, from, anchors>>

SkipTo(n) == from' = n /\ UNCHANGED <<source, anchors, over>>

HasTag   == ~over /\ OpenTag # 0 /\ OpenTag < Len(source)
IsAnchor == HasTag /\ source[OpenTag + 1] \notin StartWord

NoMoreTags   == ~over /\ ~HasTag /\ Stopped
OtherElement == HasTag /\ source[OpenTag + 1] \in StartWord /\ SkipTo(OpenTag + 1)
TagNotEnded  == IsAnchor /\ TagEnd = 0 /\ Stopped

(* The rest of an iteration, for a tag that ends.                          *)
ReadTag(v) ==
  LET g == NextOf(source, v.end, End(source), {"gt"})
      c == CloseTag(source, g + 1)
  IN  \/ v = NoValue /\ SkipTo(OpenTag + 1)
      \/ v # NoValue /\ (g = 0 \/ c = 0) /\ Stopped
      \/ /\ v # NoValue /\ g # 0 /\ c # 0
         /\ anchors' = Append(anchors, Element(OpenTag, v, g, c))
         /\ from' = c + 2
         /\ UNCHANGED <<source, over>>

ReadElement ==
  /\ IsAnchor /\ TagEnd # 0
  /\ ReadTag(TagValue(source, OpenTag + 1, TagEnd))

ScanReturned == over /\ UNCHANGED anchorVars

AnchorNext == NoMoreTags \/ OtherElement \/ TagNotEnded \/ ReadElement \/ ScanReturned

AnchorSpec == AnchorInit /\ [][AnchorNext]_anchorVars

---------------------------------------------------------------------------
(* Every anchor scanAnchors reports is the one anchorRE would report next: *)
(* the scanner invents nothing and skips nothing on the way (discover.go   *)
(* 180-286), whatever the markup.                                          *)
NothingInvented == FoundInTurn(source, anchors)

(* In a page whose quoted values all close inside their tag, the scanner   *)
(* finds every anchor anchorRE finds.                                      *)
QuotesCloseInTag(t) ==
  \A h \in 2..Len(t) :
    HrefAt(t, h) => LET v == Quoted(t, ValueStart(t, h))
                    IN  NextOf(t, h, v.end, {"gt"}) = 0

NothingMissed ==
  over /\ QuotesCloseInTag(source) => StartsBehind(source, Resumes(anchors, Len(anchors))) = {}

(* scanAnchors reports only what anchorRE would, and all of it where       *)
(* quoted values close inside their tag (discover.go 180-286).             *)
ScannerIsExpression == NothingInvented /\ NothingMissed

=============================================================================
