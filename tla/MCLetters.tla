------------------------------ MODULE MCLetters -----------------------------
(***************************************************************************)
(* Letters with three sorts of trouble, and the expressions, texts, tokens *)
(* and paths made of them: k has a third form that is lowered as it folds  *)
(* (the Kelvin sign), s and the Greek sigma have one that is not, and the  *)
(* dotted I is lowered to a letter it does not fold to.                    *)
(***************************************************************************)
EXTENDS Integers, Sequences, TLC
LOCAL INSTANCE SequencesExt

MCLower ==
  "k" :> "k" @@ "K" :> "k" @@ "kelvin" :> "k" @@ "s" :> "s" @@ "S" :> "s" @@ "long s" :> "long s"
    @@ "sigma" :> "sigma" @@ "Sigma" :> "sigma" @@ "final sigma" :> "final sigma"
    @@ "i" :> "i" @@ "I" :> "i" @@ "dotted I" :> "i"
    @@ "/" :> "/" @@ "." :> "." @@ "ext" :> "ext"

Families == {{"k", "K", "kelvin"}, {"s", "S", "long s"}, {"sigma", "Sigma", "final sigma"}, {"i", "I"}}

MCOrbit ==
  [x \in DOMAIN MCLower |->
     IF \E f \in Families : x \in f THEN CHOOSE f \in Families : x \in f ELSE {x}]

MCLeast ==
  [x \in DOMAIN MCLower |->
     CASE x \in {"k", "kelvin"} -> "K" [] x \in {"s", "long s"} -> "S" [] x = "i" -> "I"
       [] x \in {"sigma", "final sigma"} -> "Sigma" [] OTHER -> x]

MCBytes ==
  [x \in DOMAIN MCLower |->
     CASE x \in {"kelvin", "ext"} -> 3
       [] x \in {"long s", "sigma", "Sigma", "final sigma", "dotted I"} -> 2
       [] OTHER -> 1]

-----------------------------------------------------------------------------
(* Trees: the parser keeps the least form of a letter under (?i).          *)
Leaf(node) == <<node @@ ("sub" :> <<>>)>>
Folded(s)  == Leaf([op |-> "literal", fold |-> TRUE, runes |-> [n \in DOMAIN s |-> MCLeast[s[n]]]])
Exact(s)   == Leaf([op |-> "literal", fold |-> FALSE, runes |-> s])
Class(c)   == Leaf([op |-> "class", class |-> c])

(* A node above one tree, or above two: the second's nodes follow the      *)
(* first's.                                                                *)
Above(node, a)    == Append(a, node @@ ("sub" :> <<Len(a)>>))
Of(op, a)         == Above([op |-> op], a)
Repeat(lo, hi, a) == Above([op |-> "repeat", min |-> lo, max |-> hi], a)

Shifted(a, b) == [n \in DOMAIN b |-> [b[n] EXCEPT !.sub = [k \in DOMAIN @ |-> @[k] + Len(a)]]]

Pair(op, a, b) ==
  a \o Shifted(a, b) \o <<[op |-> op, sub |-> <<Len(a), Len(a) + Len(b)>>]>>

Atoms ==
  {Folded(<<"k">>), Folded(<<"k", "s">>), Folded(<<"sigma">>), Exact(<<"k", "k">>),
   Exact(<<"K", "s">>), Class({"k", "s"})}

Single ==
  {Of(op, a) : op \in {"capture", "plus", "star", "quest"}, a \in Atoms}
    \cup {Repeat(n, m, a) : n \in 0..2, m \in {2, -1}, a \in Atoms}

Binary == {Pair(op, a, b) : op \in {"concat", "alternate"}, a, b \in Atoms}

Deeper ==
  {Pair(op, a, b) : op \in {"concat", "alternate"}, b \in {Folded(<<"k", "s">>), Folded(<<"sigma">>)},
                    a \in Single \cup {Pair("alternate", x, y) : x, y \in Atoms}}
    \cup {Of(op, a) : op \in {"plus", "quest"}, a \in Binary}

MCRegexps == Atoms \cup Single \cup Binary \cup Deeper

MCTexts == BoundedSeq({"k", "K", "s", "long s", "sigma", "final sigma"}, 3) \cup {<<"k", "kelvin">>}

(* A word ending in the final sigma, as it is written and in capitals.     *)
GreekWord  == {Folded(<<"sigma", "final sigma">>)}
GreekTexts == {<<x, y>> : x, y \in {"sigma", "Sigma", "final sigma"}}

-----------------------------------------------------------------------------
MCTokenLists ==
  {[exact |-> {<<"k">>, <<"s", "k">>}, contains |-> {<<"i">>}],
   [exact |-> {<<"s">>, <<"k", ".", "s">>}, contains |-> {<<"k", "k">>, <<"k", "/", "s">>}]}

MCUrlPaths == BoundedSeq({"k", "s", "S", "dotted I", "/", ".", "ext"}, 5)

=============================================================================
