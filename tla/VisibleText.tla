----------------------------- MODULE VisibleText ----------------------------
(***************************************************************************)
(* visibleText (fastre.go): the text a reader of a page would see, found   *)
(* in one pass that jumps from a tag, a comment or an invisible element to *)
(* its end.  Every vocabulary decision about a page is taken on it.        *)
(*                                                                         *)
(* MCReaders reads with it beside other readers; hence the names of Init,  *)
(* Next and Spec.                                                          *)
(*                                                                         *)
(* A page is a sequence of tokens.  "<script" and "<svg" stand for the     *)
(* openings of two of the invisibleTags, one whose content is raw text and *)
(* one whose content is markup; "<tag" for any other tag, a close tag or a *)
(* declaration; "<" for one that begins no tag; "sp" for any white space,  *)
(* U+00A0 included; "slash" for one; "word" for anything else.  A token    *)
(* counts as one byte.  No "<" is followed by a "word" or a "slash": that  *)
(* would begin a tag.                                                      *)
(***************************************************************************)
EXTENDS Naturals, Sequences
LOCAL INSTANCE FiniteSetsExt

CONSTANTS
  Texts,      \* the pages
  Limits      \* the bounds callers give; 0 is no bound

Opening  == {"<script", "<svg"}
CloseOf  == [n \in Opening |-> IF n = "<script" THEN "</script" ELSE "</svg"]
Closing  == {CloseOf[n] : n \in Opening}
TagStart == Opening \cup Closing \cup {"<tag"}
Tokens   == TagStart \cup {"<!--", "-->", "<", "gt", "sp", "slash", "word"}

ASSUME TextsAssumption == Texts \subseteq Seq(Tokens) /\ Limits \subseteq Nat

VARIABLES
  text, limit,
  i,          \* the position the pass has reached
  out,        \* the text so far: the positions kept, 0 for a written space
  lastSpace,  \* the flag of that name
  done

visibleVars == <<text, limit, i, out, lastSpace, done>>

VisibleInit ==
  /\ text \in Texts /\ limit \in Limits
  /\ i = 1 /\ out = <<>> /\ lastSpace = TRUE /\ done = FALSE

(* Fault: the bound is looked at only once.                                *)
Reading_Unbounded == ~done /\ i <= Len(text)

Reading == ~done /\ i <= Len(text) /\ (limit > 0 => Len(out) < limit)

Fixed == UNCHANGED <<text, limit>>

Stop == done' = TRUE /\ UNCHANGED <<text, limit, i, out, lastSpace>>

(* Write this position, or a space unless the last thing written is one.   *)
Write(n) == out' = Append(out, n) /\ lastSpace' = FALSE
Space    == /\ out' = IF lastSpace THEN out ELSE Append(out, 0)
            /\ lastSpace' = TRUE

FirstOf(from, set) ==
  LET S == {n \in from..Len(text) : text[n] \in set} IN IF S = {} THEN 0 ELSE Min(S)

(* Continue behind position n with a space, or stop when there is none.    *)
Behind(n) == IF n = 0 THEN Stop ELSE i' = n + 1 /\ Space /\ Fixed /\ UNCHANGED done

(* The name is that of an invisible element, and it is complete.           *)
Invisible(t, n) == t[n] \in Opening /\ n < Len(t) /\ t[n + 1] \in {"gt", "slash", "sp"}

Finish ==
  /\ ~done
  /\ i > Len(text) \/ (limit > 0 /\ Len(out) >= limit)
  /\ Stop

PlainText ==
  /\ Reading /\ text[i] \in {"sp", "word", "slash", "gt", "-->"}
  /\ IF text[i] = "sp" THEN Space ELSE Write(i)
  /\ i' = i + 1 /\ Fixed /\ UNCHANGED done

Comment == Reading /\ text[i] = "<!--" /\ Behind(FirstOf(i + 1, {"-->"}))

LoneLess ==
  /\ Reading /\ text[i] = "<"
  /\ IF i = Len(text) THEN Stop
     ELSE Write(i) /\ i' = i + 1 /\ Fixed /\ UNCHANGED done

(* Fault: any close tag ends the element.                                  *)
InvisibleElement_AnyClose ==
  /\ Reading /\ Invisible(text, i)
  /\ LET close == FirstOf(i + 1, Closing)
         gt    == FirstOf(close, {"gt"})
     IN  Behind(IF close = 0 \/ gt = 0 THEN Len(text) ELSE gt)

(* Skip to the end of the first close tag of that name; the whole rest of  *)
(* the page when there is none.                                            *)
InvisibleElement ==
  /\ Reading /\ Invisible(text, i)
  /\ LET close == FirstOf(i + 1, {CloseOf[text[i]]})
         gt    == FirstOf(close, {"gt"})
     IN  Behind(IF close = 0 \/ gt = 0 THEN Len(text) ELSE gt)

Tag ==
  /\ Reading /\ text[i] \in TagStart /\ ~Invisible(text, i)
  /\ Behind(FirstOf(i, {"gt"}))

Returned == done /\ UNCHANGED visibleVars

VisibleNext == Finish \/ PlainText \/ Comment \/ LoneLess \/ InvisibleElement \/ Tag \/ Returned

VisibleSpec == VisibleInit /\ [][VisibleNext]_visibleVars

---------------------------------------------------------------------------
(***************************************************************************)
(* The reference: a reader of markup that takes one token at a time.  Its  *)
(* state is the depth of open elements of one name, or what it is inside.  *)
(* "<svg/>" is an element without content, which "<script/>" is not.       *)
(***************************************************************************)
In(name, depth) == [in |-> name, depth |-> depth]
Outside         == In("text", 0)

SelfClosing(t, n) ==
  /\ t[n] = "<svg"
  /\ \E g \in n..Len(t) : t[g] = "gt" /\ t[g - 1] = "slash" /\ \A m \in n..(g - 1) : t[m] # "gt"

Opens(t, n) == Invisible(t, n) /\ ~SelfClosing(t, n)

After(state, t, n) ==
  CASE state.in = "text" ->
         IF t[n] = "<!--" THEN In("comment", 0)
         ELSE IF Opens(t, n) THEN In(t[n], 1)
         ELSE IF t[n] \in TagStart THEN In("tag", 0)
         ELSE Outside
    [] state.in = "comment" -> IF t[n] = "-->" THEN Outside ELSE state
    [] state.in = "tag"     -> IF t[n] = "gt" THEN Outside ELSE state
    [] OTHER ->
         IF t[n] = CloseOf[state.in]
         THEN IF state.depth = 1 THEN In("tag", 0) ELSE In(state.in, state.depth - 1)
         ELSE IF state.in = "<svg" /\ t[n] = "<svg" /\ Opens(t, n)
         THEN In(state.in, state.depth + 1)
         ELSE state

(* The reader's state before each token.                                   *)
StateAt(t) ==
  LET s[n \in 1..(Len(t) + 1)] == IF n = 1 THEN Outside ELSE After(s[n - 1], t, n - 1)
  IN  s

(* The positions of the words it sees.                                     *)
Seen(t) ==
  LET s == StateAt(t)
  IN  {n \in 1..Len(t) : /\ s[n] = Outside
                         /\ \/ t[n] \in {"word", "slash", "gt", "-->"}
                            \/ t[n] = "<" /\ n # Len(t)}

(* No element inside another of its name, and none without content: behind *)
(* such a one the pass looks for a close tag that is not its own, or the   *)
(* end of the page.                                                        *)
Regular(t) ==
  \A n \in 1..Len(t) :
    /\ StateAt(t)[n].depth <= 1
    /\ StateAt(t)[n] = Outside => ~SelfClosing(t, n)

Written == {out[n] : n \in 1..Len(out)} \ {0}

---------------------------------------------------------------------------
(* In a page whose invisible elements are regular the words are those a    *)
(* reader sees: none of a tag, a comment, a script, and every one outside  *)
(* them (fastre.go 194-204).                                               *)
WordsAreSeen ==
  /\ Regular(text) => Written \subseteq Seen(text)
  /\ done /\ limit = 0 /\ Regular(text) => Written = Seen(text)

(* Words keep their order, and wherever something between two of them was  *)
(* left out or was white space there is one space, never two: vocabulary   *)
(* is matched across tags (fastre.go 240-255, 318-324).                    *)
OneSpaceBetween ==
  \A n \in 1..Len(out) :
    IF out[n] = 0 THEN n > 1 /\ out[n - 1] # 0
    ELSE n > 1 /\ out[n - 1] # 0 => out[n] = out[n - 1] + 1

(* visibleText is what a reader sees, word for word and with one space     *)
(* wherever something was left out (fastre.go 194-204, 240-255).           *)
ExactlyWhatIsSeen == WordsAreSeen /\ OneSpaceBetween

(* At most limit bytes are produced (fastre.go 197-198), whichever of the  *)
(* five places that write reaches the bound.                               *)
WithinLimit == limit > 0 => Len(out) <= limit

=============================================================================
