---------------------------- MODULE CompanyName -----------------------------
(***************************************************************************)
(* normalizeLegalName (imprint_normalize.go): a company's name as it was   *)
(* cut from a page still bears what stood around it: a copyright sign, a   *)
(* year, a label, half a sentence, a tagline.  A fixed series of passes    *)
(* takes these off, each once, and the last one refuses what is a heading  *)
(* and no name.  One action per pass, in the order of the code, so that    *)
(* what an early pass leaves no later pass of its kind will find.          *)
(*                                                                         *)
(* A string is a sequence of words and signs; each word below stands for   *)
(* all those of its table, and a sequence of them for a table whose order  *)
(* matters.  A colon is written against the word before it.  Some passes   *)
(* look for the letters of the legal form and find them inside a word, as  *)
(* those of AG in VERLAG and in AGB.                                       *)
(* MCImprintPage reads with it beside other readers; hence the names of    *)
(* Init, Next and Spec.                                                    *)
(***************************************************************************)
EXTENDS Naturals, SequencesExt

leadingSigns       == {"copyright", ":", "-", "&"}
leadingBoilerplate == {"all-rights-reserved"}
leadingYear        == {"2024"}
leadingConnectives == <<"propiedad-de", "la-sociedad">>
functionWords      == {"der"}
pageLabels         == {"impressum"}
connectivePhrases  == <<"pertenece-a", "is-operated-by">>
proseMarkers       == <<"au-capital", "mit-sitz">>
separators         == {"-", "|"}
brackets           == <<[open |-> "(", close |-> ")"], [open |-> "[", close |-> "]"]>>
genericWords       == {"Company", "private", "links"}
numbers            == {"2024", "12345"}
suffixOrder        == <<"Company", "GmbH", "AG">>   \* longest first

Signs  == leadingSigns \cup separators \cup {"(", ")", "[", "]"}
Sorts  == leadingBoilerplate \cup functionWords \cup pageLabels \cup Range(leadingConnectives)
            \cup Range(connectivePhrases) \cup Range(proseMarkers)
            \cup genericWords \cup numbers \cup Range(suffixOrder)

CONSTANTS
  Given,          \* what was cut: the name, its surroundings, the legal form that was seen
  Plain,          \* words of no table
  Inside,         \* the legal forms whose letters each of these has in it,
  Ending,         \* and those in whose letters it ends
  Uneven,         \* those with a letter whose lower case takes more bytes, or fewer
  MaxLabelWords   \* words of a label before a colon (6)

Tokens == Signs \cup Sorts \cup Plain

(* What a name may have been cut as.                                       *)
Cut == [before : Seq(Tokens), name : Seq(Tokens), after : Seq(Tokens),
        form : Range(suffixOrder) \cup {"none"}]

ASSUME NamesAssumption ==
  /\ Given \subseteq Cut
  /\ Plain \cap (Signs \cup Sorts \cup {"none"}) = {}
  /\ Inside \in [Plain -> SUBSET Range(suffixOrder)]
  /\ \A w \in Plain : Ending[w] \subseteq Inside[w]
  /\ MaxLabelWords \in Nat

VARIABLES
  given,    \* what was cut, never changed
  cleaned,  \* the string as far as it is cleaned
  form,     \* its legal form
  pass      \* the pass to come; then "accepted" or "refused"

nameVars == <<given, cleaned, form, pass>>

NameInit ==
  /\ given \in Given
  /\ cleaned = given.before \o given.name \o given.after
  /\ form = given.form
  /\ pass = "front"

-----------------------------------------------------------------------------
PlacesOf(t, words) == {n \in DOMAIN t : t[n] \in words}
Others(t, words) == {n \in DOMAIN t : t[n] \notin words}

From(t, n) == SubSeq(t, n, Len(t))

(* strings.Contains and strings.HasSuffix, of a legal form in a word.      *)
Bears(w, f)  == w = f \/ (w \in Plain /\ f \in Inside[w])
EndsIn(w, f) == w = f \/ (w \in Plain /\ f \in Ending[w])

(* Places in the lower-cased copy are places in the string only if both    *)
(* are of one length.                                                      *)
Even(t) == Range(t) \cap Uneven = {}

(* Signs go in any case, boilerplate and years only if something follows.  *)
stripLeadingBoilerplate(t) ==
  LET front == leadingSigns \cup leadingBoilerplate \cup leadingYear
      rest  == Others(t, front)
  IN  CASE rest # {} -> From(t, Min(rest))
        [] rest = {} /\ t # <<>> /\ Last(t) \notin leadingSigns -> <<Last(t)>>
        [] rest = {} /\ (t = <<>> \/ Last(t) \in leadingSigns) -> <<>>

CutFront ==
  /\ pass = "front" /\ pass' = "connectives"
  /\ cleaned' = stripLeadingBoilerplate(cleaned)
  /\ UNCHANGED <<given, form>>

(* Each connective once, in the order of its table.                        *)
Without(t, c) == IF Len(t) > 1 /\ Head(t) = c THEN Tail(t) ELSE t

withoutConnectives(t) ==
  LET rest[k \in 0..Len(leadingConnectives)] ==
        IF k = 0 THEN t ELSE Without(rest[k - 1], leadingConnectives[k])
  IN  rest[Len(leadingConnectives)]

Connectives ==
  /\ pass = "connectives" /\ pass' = "sign"
  /\ cleaned' = withoutConnectives(cleaned)
  /\ UNCHANGED <<given, form>>

CopyrightSign ==
  /\ pass = "sign" /\ pass' = "words"
  /\ LET signs == PlacesOf(cleaned, {"copyright"})
     IN  cleaned' = IF signs = {} \/ 1 \in signs THEN cleaned
                    ELSE stripLeadingBoilerplate(From(cleaned, Min(signs)))
  /\ UNCHANGED <<given, form>>

(* Articles and page labels, as long as there is one at the front; a label *)
(* takes a colon or a dash with it.                                        *)
AfterLabel(t) ==
  LET rest == Others(Tail(t), {":", "-"})
  IN  IF rest = {} THEN <<>> ELSE From(Tail(t), Min(rest))

Peels ==
  /\ Len(cleaned) > 1
  /\ \/ Head(cleaned) \in functionWords
     \/ Head(cleaned) \in pageLabels /\ Even(cleaned)

PeelWord ==
  /\ pass = "words" /\ Peels
  /\ cleaned' = IF Head(cleaned) \in functionWords THEN Tail(cleaned) ELSE AfterLabel(cleaned)
  /\ UNCHANGED <<given, form, pass>>

NoWordToPeel ==
  /\ pass = "words" /\ ~Peels
  /\ pass' = "phrase"
  /\ UNCHANGED <<given, cleaned, form>>

-----------------------------------------------------------------------------
hasLegalSuffix(t) == form = "none" \/ (t # <<>> /\ EndsIn(Last(t), form))

(* "X is operated by Y": the first phrase of the table, not of the text,   *)
(* whose rest ends in the legal form.                                      *)
Phrase ==
  /\ pass = "phrase" /\ pass' = "prose"
  /\ LET at(k)  == PlacesOf(cleaned, {connectivePhrases[k]})
         Works  == {k \in DOMAIN connectivePhrases :
                      /\ at(k) # {} /\ Min(at(k)) \in 2..(Len(cleaned) - 1)
                      /\ hasLegalSuffix(cleaned) /\ Even(cleaned)}
     IN  cleaned' = IF Works = {} THEN cleaned ELSE From(cleaned, Min(at(Min(Works))) + 1)
  /\ UNCHANGED <<given, form>>

(* A sentence that goes on after the name.  (A name in front of it has     *)
(* more than three letters.)                                               *)
Prose ==
  /\ pass = "prose" /\ pass' = "colon"
  /\ LET at(k) == PlacesOf(cleaned, {proseMarkers[k]})
         Ends  == {k \in DOMAIN proseMarkers : at(k) # {} /\ Min(at(k)) > 1 /\ Even(cleaned)}
     IN  cleaned' = IF Ends = {} THEN cleaned ELSE SubSeq(cleaned, 1, Min(at(Min(Ends))) - 1)
  /\ UNCHANGED <<given, form>>

hasLetter(t) == Others(t, Signs \cup numbers) # {}

lastColon(t) == Max(PlacesOf(t, {":"}))

(* "Label: Name", where the label is short.                                *)
Colon ==
  /\ pass = "colon"
  /\ LET colon  == lastColon(cleaned)
         label  == PlacesOf(cleaned, {":"}) \ {1} # {} /\
                     Cardinality(Others(SubSeq(cleaned, 1, colon - 1), {":"})) <= MaxLabelWords
         after  == From(cleaned, colon + 1)
     IN  \/ ~label /\ pass' = "again" /\ UNCHANGED cleaned
         \/ label /\ hasLetter(after) /\ pass' = "again" /\ cleaned' = after
         \/ label /\ ~hasLetter(after) /\ pass' = "refused" /\ UNCHANGED cleaned
  /\ UNCHANGED <<given, form>>

-----------------------------------------------------------------------------
(* Fault: what a label hid is left.                                        *)
CutFrontAgain_Omitted ==
  /\ pass = "again" /\ pass' = "tagline"
  /\ UNCHANGED <<given, cleaned, form>>

CutFrontAgain ==
  /\ pass = "again" /\ pass' = "tagline"
  /\ cleaned' = stripLeadingBoilerplate(cleaned)
  /\ UNCHANGED <<given, form>>

(* "IRTECH GmbH - App-Entwicklung": from a separator right after the last  *)
(* letters of the form, be they the form or not.                           *)
Tagline ==
  /\ pass = "tagline" /\ pass' = "brackets"
  /\ LET forms == {n \in DOMAIN cleaned : Bears(cleaned[n], form)}
         cut   == /\ forms # {} /\ Max(forms) + 1 < Len(cleaned)
                  /\ EndsIn(cleaned[Max(forms)], form)
                  /\ cleaned[Max(forms) + 1] \in separators
     IN  cleaned' = IF cut THEN SubSeq(cleaned, 1, Max(forms)) ELSE cleaned
  /\ UNCHANGED <<given, form>>

(* A bracket left open, and what follows it.                               *)
CutOpen(t, b) ==
  LET opens == PlacesOf(t, {b.open})
  IN  IF Cardinality(opens) > Cardinality(PlacesOf(t, {b.close})) /\ Max(opens) > 1
      THEN SubSeq(t, 1, Max(opens) - 1) ELSE t

closeOrCutBrackets(t) ==
  LET rest[k \in 0..Len(brackets)] == IF k = 0 THEN t ELSE CutOpen(rest[k - 1], brackets[k])
  IN  rest[Len(brackets)]

Trim(t) ==
  LET kept == Others(t, {":", "-", "|"})
  IN  IF kept = {} THEN <<>> ELSE SubSeq(t, Min(kept), Max(kept))

Brackets ==
  /\ pass = "brackets" /\ pass' = "judge"
  /\ cleaned' = Trim(closeOrCutBrackets(cleaned))
  /\ UNCHANGED <<given, form>>

(* The form that was seen may have been a word of the label: another one,  *)
(* a whole word this time, is then sought, the longest first.              *)
formNow ==
  LET found == {k \in DOMAIN suffixOrder : suffixOrder[k] \in Range(cleaned)}
      kept  == form = "none" \/ \E w \in Range(cleaned) : Bears(w, form)
  IN  CASE kept -> form
        [] ~kept /\ found = {} -> "none"
        [] ~kept /\ found # {} -> suffixOrder[Min(found)]

(* (Of a word that only ends in the form's letters a word is left.)        *)
Stem == IF cleaned # <<>> /\ Last(cleaned) = formNow THEN Front(cleaned) ELSE cleaned

isGenericStem(stem) ==
  stem # <<>> /\ \A n \in DOMAIN stem : stem[n] \in genericWords \cup numbers \cup Signs

(* Digits are counted against letters; a word stands for six of these.     *)
digitsOutnumberLetters(stem) ==
  LET digits == 4 * Cardinality(PlacesOf(stem, {"2024"})) + 5 * Cardinality(PlacesOf(stem, {"12345"}))
  IN  digits >= 5 /\ digits > 6 * Cardinality(Others(stem, Signs \cup numbers))

IsNoName ==
  \/ cleaned = <<>>
  \/ form # "none" /\ (formNow = "none" \/ Stem = <<>>)
  \/ isGenericStem(Stem) \/ digitsOutnumberLetters(Stem)

Judge ==
  /\ pass = "judge"
  /\ \/ IsNoName /\ pass' = "refused" /\ UNCHANGED form
     \/ ~IsNoName /\ pass' = "accepted" /\ form' = formNow
  /\ UNCHANGED <<given, cleaned>>

NameReturned == pass \in {"accepted", "refused"} /\ UNCHANGED nameVars

NameNext ==
  \/ CutFront \/ Connectives \/ CopyrightSign \/ PeelWord \/ NoWordToPeel
  \/ Phrase \/ Prose \/ Colon \/ CutFrontAgain \/ Tagline \/ Brackets \/ Judge \/ NameReturned

NameSpec == NameInit /\ [][NameNext]_nameVars

-----------------------------------------------------------------------------
(* What may stand around a name, pass by pass                              *)
Words == Plain \cup genericWords

IsFront(t) == Range(t) \subseteq leadingSigns \cup leadingBoilerplate \cup leadingYear

IsConnectives(t) ==
  \E at \in [DOMAIN t -> DOMAIN leadingConnectives] : \A k \in DOMAIN t :
    t[k] = leadingConnectives[at[k]] /\ (k > 1 => at[k - 1] < at[k])

(* "Vlasnik autorskih prava", then the copyright sign.                     *)
IsNotice(t) ==
  t = <<>> \/ \E n \in 2..Len(t) :
                /\ Range(SubSeq(t, 1, n - 1)) \subseteq Words
                /\ t[n] = "copyright" /\ IsFront(From(t, n))

IsTitle(t) ==
  \A n \in DOMAIN t :
    \/ t[n] \in functionWords \cup pageLabels
    \/ t[n] \in {":", "-"} /\ n > 1 /\ t[n - 1] \in pageLabels \cup {":", "-"}

IsPhrase(t) ==
  t = <<>> \/ /\ Len(t) > 1 /\ Last(t) \in Range(connectivePhrases)
              /\ Range(Front(t)) \subseteq Words

IsLabel(t) ==
  t = <<>> \/ \E n \in 1..MaxLabelWords :
                /\ n < Len(t) /\ Range(SubSeq(t, 1, n)) \subseteq Words
                /\ t[n + 1] = ":" /\ IsFront(From(t, n + 2)) /\ ":" \notin Range(From(t, n + 2))

(* The passes take off surroundings in one order only: those before the    *)
(* name consist of six parts, any of which may be absent.  A phrase counts *)
(* only where the legal form ends the whole string.                        *)
InOrder(t, ended) ==
  \E a \in 0..Len(t) :
    /\ IsFront(SubSeq(t, 1, a))
    /\ \E b \in a..Len(t) :
         /\ IsConnectives(SubSeq(t, a + 1, b))
         /\ \E c \in b..Len(t) :
              /\ IsNotice(SubSeq(t, b + 1, c))
              /\ \E d \in c..Len(t) :
                   /\ IsTitle(SubSeq(t, c + 1, d))
                   /\ \E e \in d..Len(t) :
                        /\ IsPhrase(SubSeq(t, d + 1, e)) /\ (d < e => ended)
                        /\ IsLabel(From(t, e + 1))

(* After it stands one thing at most: a sentence going on, a tagline after *)
(* the legal form, or an open bracket.  What an earlier pass looks for     *)
(* does not stand in it, nor the form's letters in the tagline.            *)
OneTail(g) ==
  \/ g.after = <<>>
  \/ /\ g.after # <<>> /\ Head(g.after) \in Range(proseMarkers)
     /\ Range(Tail(g.after)) \cap (Range(proseMarkers) \cup Range(connectivePhrases)
                                    \cup {"copyright"}) = {}
  \/ /\ Len(g.after) > 1 /\ Range(Tail(g.after)) \subseteq Words
     /\ \/ Head(g.after) \in {"(", "["}
        \/ /\ Head(g.after) \in separators /\ \A w \in Range(Tail(g.after)) : ~Bears(w, g.form)
           /\ g.form # "none" /\ Last(g.name) = g.form

WholeOf(g) == g.before \o g.name \o g.after

(* What is found in the lower-cased copy is found only where every letter  *)
(* keeps its length.                                                       *)
Comparable(g) ==
  \/ Even(WholeOf(g))
  \/ Range(WholeOf(g)) \cap (pageLabels \cup Range(connectivePhrases) \cup Range(proseMarkers)) = {}

(* A company's name: a word of its own, and its legal form if it has one.  *)
(* No dash follows the last letters of the form.                           *)
IsName(g) ==
  /\ g.name # <<>>
  /\ {Head(g.name), Last(g.name)} \subseteq Plain \cup Range(suffixOrder)
  /\ Range(g.name) \cap Plain # {}
  /\ Range(g.name) \subseteq Plain \cup Range(suffixOrder) \cup {"-"}
  /\ \A n \in 2..Len(g.name) : g.name[n] = "-" =>
       /\ g.name[n - 1] \in Plain
       /\ EndsIn(g.name[n - 1], g.form) => \E m \in n..Len(g.name) : Bears(g.name[m], g.form)
  /\ g.form # "none" => Range(g.name) \cap Range(suffixOrder) # {}

IsHeading(g) == g.name # <<>> /\ Range(g.name) \subseteq genericWords

EndsInForm(g) == g.after = <<>> /\ (g.form = "none" \/ Last(g.name) = g.form)

(* However a name was wrapped, in the order of the passes, it is accepted  *)
(* and comes out as it is, and so two wrappings of one company are one     *)
(* candidate; a heading so wrapped is refused (imprint_normalize.go 11-22, *)
(* 144-145).                                                               *)
NameRecovered ==
  pass \in {"accepted", "refused"} /\ Comparable(given) =>
    /\ IsName(given) /\ OneTail(given) /\ InOrder(given.before, EndsInForm(given))
       => pass = "accepted" /\ cleaned = given.name
    /\ IsHeading(given) /\ given.after = <<>> /\ InOrder(given.before, FALSE)
       => pass = "refused"

(* However disorderly, the name is not cut short: a pass that takes a      *)
(* piece off it leaves a string without the form's letters, unless they    *)
(* are in a word around it, and the last pass refuses that                 *)
(* (imprint_normalize.go 217-224).                                         *)
NameUnharmed ==
  (pass = "accepted" /\ IsName(given) /\ given.form \in Range(given.name)
     /\ \A w \in Range(given.before \o given.after), f \in Range(suffixOrder) : ~Bears(w, f)) =>
    \E n \in 0..Len(cleaned) : IsPrefix(given.name, From(cleaned, n + 1))

(* A wrapped name is recovered, and never cut short                        *)
(* (imprint_normalize.go 144-232).                                         *)
NameSurvives == NameRecovered /\ NameUnharmed

=============================================================================
