----------------------------- MODULE NameOnLine -----------------------------
(***************************************************************************)
(* extractEntityAround (imprint_name.go): a line in which a legal form was *)
(* found is read leftwards from it, up to the sentence's or the list       *)
(* item's beginning; a fixed series of passes then takes off what stands   *)
(* before the name, and cleanCandidateName refuses what is no name.  If    *)
(* there is nothing before the form, the name is sought behind it.         *)
(*                                                                         *)
(* A line is a sequence of words and signs; each word below stands for all *)
(* of its table.  "VERL." and ".B" are the rest of a word in whose letters *)
(* a form occurs ("VERLAG", "AGB"), on either side of it.                  *)
(***************************************************************************)
EXTENDS Naturals, SequencesExt

bounds          == {"|", "bullet"}
bars            == {"|"}
abbreviations   == {"Soc"}
copyrightSigns  == <<"copyright sign", "Copyright">>
years           == {"2024"}
quotes          == {"open quote", "close quote"}
conjunctions    == <<"and", "und">>
hyphenated      == {"Musik-"}
hyphens         == hyphenated \cup {"-"}
titles          == {"CEO"}
tradingNames    == {"is a trading name of"}
numberedParts   == {"Section 3:"}
titledLabels    == {"Impressum"}                      \* with or without a sign
colonLabels     == {"Operator"}
plainLabels     == {"Best", "About"}
contactLabels   == {"Kontakt", "Impressum"}
hostingProse    == {"hosted by"}
sentencePhrases == {"is operated by"}
stopWords       == {"and", "und", "of", "the"}
stopBrands      == {"the"}
registerWords   == {"Handelsregister"}
ambiguousForms  == {"NV"}

openers == {"(", "open quote"}                        \* no space behind
closers == {")", "close quote", ":", ",", "."}        \* no space before
forms   == {"GmbH", "AG", "NV", "Company"}

capitalWords == forms \cup abbreviations \cup hyphenated \cup titles \cup numberedParts
                  \cup titledLabels \cup colonLabels \cup plainLabels \cup contactLabels
                  \cup registerWords \cup {"Copyright", "All rights reserved", "VERL.", ".B"}
smallWords   == stopWords \cup tradingNames \cup hostingProse \cup sentencePhrases
lineSigns    == bounds \cup years \cup quotes \cup openers \cup closers \cup {"copyright sign", "-"}

CONSTANTS
  FormLines,       \* lines on which a legal form was found
  Capital,         \* other words with a capital letter, and without
  Small,
  Window,          \* how many words are read to the left (80 bytes; no word is cut)
  MaxPersonWords   \* words of a person's name (4)

Capitals == Capital \cup capitalWords
Smalls   == Small \cup smallWords

(* A line as written; formFirst says on which side of the name its form is.*)
FormLine ==
  LET Text == Seq(Capitals \cup Smalls \cup lineSigns)
  IN  [before : Text, name : Text, after : Text, form : forms, formFirst : BOOLEAN]

ASSUME LinesAssumption ==
  /\ FormLines \subseteq FormLine
  /\ Capital \cap Small = {}
  /\ (Capital \cup Small) \cap (capitalWords \cup smallWords \cup lineSigns) = {}
  /\ Window \in Nat /\ MaxPersonWords \in Nat

VARIABLES
  written,    \* the line, never changed
  candidate,  \* the candidate as far as it is cleaned
  step        \* the pass to come; then "found" or "none"

lineVars == <<written, candidate, step>>

line ==
  written.before
    \o (IF written.formFirst THEN <<written.form>> \o written.name ELSE written.name \o <<written.form>>)
    \o written.after

LineInit == written \in FormLines /\ candidate = <<>> /\ step = "left"

-----------------------------------------------------------------------------
WordsAt(t, words) == {n \in DOMAIN t : t[n] \in words}
OtherThan(t, words) == {n \in DOMAIN t : t[n] \notin words}

Rest(t, n) == SubSeq(t, n, Len(t))

(* A word with a space on either side, or the end of the string.           *)
Spaced(t, n) ==
  /\ n > 1 => t[n - 1] \notin openers
  /\ n < Len(t) => t[n + 1] \notin closers

(* Words as the code counts them, separated by spaces.                     *)
Width(w) ==
  CASE w \in openers \cup closers -> 0
    [] w \in hostingProse \cup numberedParts -> 2
    [] w \in sentencePhrases \cup {"All rights reserved"} -> 3
    [] w \in tradingNames -> 5
    [] OTHER -> 1

Pass(name, next, result) == step = name /\ step' = next /\ candidate' = result /\ UNCHANGED written

(* The letters of the form, also where they are part of a word.            *)
FormAt == Min(WordsAt(line, {written.form}))

Leftmost == IF FormAt > Window THEN FormAt - Window ELSE 1

(* A full stop before a capital, but not that of an abbreviation.          *)
SentenceEnds(n) ==
  /\ line[n] = "." /\ line[n + 1] \in Capitals
  /\ n > 1 => line[n - 1] \notin abbreviations

ReadLeft ==
  LET ends == {n \in Leftmost..(FormAt - 1) : line[n] \in bounds \/ SentenceEnds(n)}
  IN  Pass("left", "copyright", SubSeq(line, IF ends = {} THEN Leftmost ELSE Max(ends) + 1, FormAt))

-----------------------------------------------------------------------------
(* Each sign once, in the order of the table; then years, commas, dashes;  *)
(* then all that rights are reserved to.                                   *)
WithoutSign(t, c) == IF t # <<>> /\ Head(t) = c THEN Tail(t) ELSE t

WithoutSigns(t) ==
  LET rest[k \in 0..Len(copyrightSigns)] ==
        IF k = 0 THEN t ELSE WithoutSign(rest[k - 1], copyrightSigns[k])
  IN  rest[Len(copyrightSigns)]

stripCopyrightPrefix(t) ==
  LET unsigned == WithoutSigns(t)
      rest     == OtherThan(unsigned, years \cup {",", "-"})
      undated  == IF rest = {} THEN unsigned ELSE Rest(unsigned, Min(rest))
      reserved == {n \in 1..(Len(undated) - 1) :
                     undated[n] = "All rights reserved" /\ undated[n + 1] = "."}
  IN  IF reserved = {} THEN undated ELSE Rest(undated, Max(reserved) + 2)

Copyright == Pass("copyright", "leftover", stripCopyrightPrefix(candidate))

Leftover ==
  Pass("leftover", "conjunction",
       Rest(candidate, Min(OtherThan(candidate, years \cup quotes \cup {"(", "copyright sign"}))))

(* The first conjunction of the table, where the line has it last; but not *)
(* in a compound ("Musik- und Kongresshallen"), for which any hyphen passes.*)
trimAtConjunction(t) ==
  LET at(k) == {n \in 2..(Len(t) - 1) : t[n] = conjunctions[k] /\ Spaced(t, n)}
      Cuts  == {k \in DOMAIN conjunctions :
                  at(k) # {} /\ ~(conjunctions[k] = "und" /\ t[Max(at(k)) - 1] \in hyphens)}
  IN  IF Cuts = {} THEN t ELSE Rest(t, Max(at(Min(Cuts))) + 1)

Conjunction == Pass("conjunction", "person", trimAtConjunction(candidate))

(* "Jane Doe, CEO of "; of each word, with the signs at its end, only the  *)
(* first letter is looked at.                                              *)
stripPersonRolePrefix(t) ==
  LET comma  == Min(WordsAt(t, {","}))
      rest   == Rest(t, comma + 1)
      words  == {n \in 1..(comma - 1) : t[n] \notin closers}
      person == /\ WordsAt(t, {","}) # {} /\ Head(t) \notin closers
                /\ \A n \in words : t[n] \in Capitals /\ Width(t[n]) = 1
                /\ Cardinality(words) <= MaxPersonWords
      titled == rest # <<>> /\ Head(rest) \in titles /\ rest[2] \notin closers \ {","}
      named  == Rest(rest, IF rest[2] = "," THEN 3 ELSE 2)
  IN  IF ~(person /\ titled) THEN t
      ELSE IF Head(named) = "of" /\ Spaced(named, 1) THEN Tail(named) ELSE named

PersonRole == Pass("person", "trading", stripPersonRolePrefix(candidate))

TradingName ==
  LET at == {n \in WordsAt(candidate, tradingNames) : candidate[n + 1] \notin closers}
  IN  Pass("trading", "award", IF at = {} THEN candidate ELSE Rest(candidate, Min(at) + 1))

(* "Best online shop: ".                                                   *)
Award ==
  LET colons == {n \in WordsAt(candidate, {":"}) : candidate[n + 1] \notin closers}
  IN  Pass("award", "label",
           IF Head(candidate) = "Best" /\ Spaced(candidate, 1) /\ colons # {}
           THEN Rest(candidate, Min(colons) + 1) ELSE candidate)

-----------------------------------------------------------------------------
WithoutLabel(t) ==
  LET Signed(signs) == Len(t) > 1 /\ t[2] \in signs
  IN  CASE Head(t) \in titledLabels /\ Signed({":", "-"}) -> Rest(t, 3)
        [] Head(t) \in titledLabels /\ ~Signed({":", "-"}) /\ Spaced(t, 1) -> Tail(t)
        [] Head(t) \in colonLabels /\ Signed({":"}) -> Rest(t, 3)
        [] Head(t) \in plainLabels /\ Spaced(t, 1) -> Tail(t)
        [] OTHER -> t

(* "Kontakt: ", as often as it stands there.                               *)
stripContactLabelPrefix(t) ==
  LET labels == {k \in 0..(Len(t) \div 2) : \A j \in 1..k :
                   t[2 * j - 1] \in contactLabels /\ t[2 * j] \in {":", "-"}}
  IN  Rest(t, 2 * Max(labels) + 1)

stripHostingProsePrefix(t) ==
  IF Head(t) \in hostingProse /\ Spaced(t, 1) THEN Tail(t) ELSE t

(* A numbered part is taken off alone.                                     *)
stripLabelPrefix(t) ==
  IF Head(t) \in numberedParts THEN Tail(t)
  ELSE stripHostingProsePrefix(stripContactLabelPrefix(WithoutLabel(t)))

LabelOff == Pass("label", "conjunction again", stripLabelPrefix(candidate))

(* Fault: of two conjunctions the second remains.                          *)
ConjunctionAgain_Omitted == Pass("conjunction again", "judge", candidate)

ConjunctionAgain == Pass("conjunction again", "judge", trimAtConjunction(candidate))

-----------------------------------------------------------------------------
Fields(t) == FoldLeft(LAMBDA n, w : n + Width(w), 0, t)

StopWordsOf(w) ==
  CASE w \in stopWords -> {w}
    [] w \in hostingProse -> {"by"}
    [] w \in sentencePhrases -> {"is", "by"}
    [] w \in tradingNames -> {"is", "of"}
    [] OTHER -> {}

StopWordsIn(t) == UNION {StopWordsOf(t[n]) : n \in {n \in DOMAIN t : Spaced(t, n)}}

StartsSmall(t) ==
  LET letters == WordsAt(t, Capitals \cup Smalls)
  IN  letters # {} /\ t[Min(letters)] \in Smalls

(* cleanCandidateName, of what stands before the form or is to.            *)
cleanCandidateName(stem) ==
  /\ stem # <<>>
  /\ \A n \in WordsAt(stem, sentencePhrases) : n = 1 \/ ~Spaced(stem, n)
  /\ Head(stem) \notin years \cup {"copyright sign"}
  /\ Cardinality(WordsAt(stem, {"("})) = Cardinality(WordsAt(stem, {")"}))
  /\ WordsAt(stem, bars) = {}
  /\ StartsSmall(stem) => Fields(stem) <= 2
  /\ ~(Head(stem) \in registerWords /\ OtherThan(Tail(stem), {":"}) = {} /\ Len(stem) <= 2)
  /\ Last(stem) \notin years
  /\ ~(written.form \in ambiguousForms /\ Last(stem) = ",")
  /\ written.form = "Company" => Fields(stem) >= 3 \/ ~(Head(stem) \in stopBrands /\ Spaced(stem, 1))
  /\ Cardinality(StopWordsIn(stem)) < 2

(* "SARL Hum!Resto", if nothing or only "Seller - " precedes the form.     *)
FormLeads == Last(<<"-">> \o SubSeq(line, Leftmost, FormAt - 1)) = "-"

AfterForm ==
  LET after  == Rest(line, FormAt + 1)
      stops  == WordsAt(after, bars \cup {",", "."})
      name   == IF stops = {} THEN after ELSE SubSeq(after, 1, Min(stops) - 1)
      opened == IF name # <<>> /\ Head(name) = "open quote" THEN Tail(name) ELSE name
  IN  IF opened # <<>> /\ Last(opened) = "close quote" THEN Front(opened) ELSE opened

Accept == step = "judge" /\ cleanCandidateName(Front(candidate)) /\ Pass("judge", "found", candidate)

AcceptAfterForm ==
  /\ step = "judge" /\ ~cleanCandidateName(Front(candidate))
  /\ FormLeads /\ cleanCandidateName(AfterForm)
  /\ Pass("judge", "found", <<written.form>> \o AfterForm)

Refuse ==
  /\ step = "judge" /\ ~cleanCandidateName(Front(candidate))
  /\ FormLeads => ~cleanCandidateName(AfterForm)
  /\ Pass("judge", "none", <<>>)

LineReturned == step \in {"found", "none"} /\ UNCHANGED lineVars

LineNext ==
  \/ ReadLeft \/ Copyright \/ Leftover \/ Conjunction \/ PersonRole \/ TradingName
  \/ Award \/ LabelOff \/ ConjunctionAgain \/ Accept \/ AcceptAfterForm \/ Refuse \/ LineReturned

LineSpec == LineInit /\ [][LineNext]_lineVars

-----------------------------------------------------------------------------
(* What may stand before a name, part by part, in the order of the passes. *)
EndsWith(t, words) == t # <<>> /\ Last(t) \in words

IsEarlier(t, next) ==
  \/ t = <<>> \/ EndsWith(t, bounds)
  \/ EndsWith(t, {"."}) /\ next \in Capitals /\ (Len(t) > 1 => t[Len(t) - 1] \notin abbreviations)

IsSigns(t) ==
  \E n \in 0..Len(t) :
    LET signs == SubSeq(t, 1, n)
    IN  \/ IsPrefix(signs, copyrightSigns) /\ Range(Rest(t, n + 1)) \subseteq years \cup {",", "-"}
        \/ signs = Reverse(copyrightSigns) /\ Range(Rest(t, n + 1)) \subseteq years

(* Another name, "Shop and "; of two such the second pass takes off one,   *)
(* and by then whatever stands between is past its own pass.               *)
IsJoined(t, conjs, alone) ==
  \/ t = <<>>
  \/ /\ EndsWith(t, conjs) /\ EndsWith(Front(t), Capital \cup Small)
     /\ alone \/ Range(Front(t)) \cap Range(conjunctions) = {}

IsRole(t) ==
  \/ t = <<>>
  \/ \E n \in 1..MaxPersonWords :
       /\ n < Len(t) /\ Range(SubSeq(t, 1, n)) \subseteq Capital /\ t[n + 1] = ","
       /\ \E title \in titles : Rest(t, n + 2) \in {<<title>>, <<title, "of">>, <<title, ",">>}

IsTrading(t) ==
  t = <<>> \/ (EndsWith(t, tradingNames) /\ Range(Front(t)) \subseteq Capital \cup Small)

IsAward(t) ==
  \/ t = <<>>
  \/ /\ Len(t) > 2 /\ Head(t) = "Best" /\ Last(t) = ":"
     /\ Range(SubSeq(t, 2, Len(t) - 1)) \subseteq Capital \cup Small

IsContact(t) ==
  \E k \in 0..(Len(t) \div 2) :
    /\ \A j \in 1..k : t[2 * j - 1] \in contactLabels /\ t[2 * j] \in {":", "-"}
    /\ Rest(t, 2 * k + 1) \in {<<>>} \cup {<<h>> : h \in hostingProse}

IsLabels(t) ==
  \/ t \in {<<w>> : w \in numberedParts}
  \/ \E n \in 0..2 :
       /\ n <= Len(t) /\ IsContact(Rest(t, n + 1))
       /\ CASE n = 0 -> TRUE
            [] n = 1 -> Head(t) \in titledLabels \cup plainLabels
            [] n = 2 -> \/ Head(t) \in titledLabels /\ t[2] \in {":", "-"}
                        \/ Head(t) \in colonLabels /\ t[2] = ":"

(* Of the parts but the first, each may be absent.                         *)
Introduces(t) ==
  \E a \in 0..Len(t) :
    /\ IsEarlier(SubSeq(t, 1, a), Append(t, Head(written.name))[a + 1])
    /\ \E b \in a..Len(t) :
         /\ IsSigns(SubSeq(t, a + 1, b))
         /\ \E c \in b..Len(t) :
              /\ IsJoined(SubSeq(t, b + 1, c), Range(conjunctions) \ Range(written.name), c = Len(t))
              /\ \E d \in c..Len(t) :
                   /\ IsRole(SubSeq(t, c + 1, d))
                   /\ \E e \in d..Len(t) :
                        /\ IsTrading(SubSeq(t, d + 1, e))
                        /\ \E f \in e..Len(t) :
                             /\ IsAward(SubSeq(t, e + 1, f))
                             /\ IsLabels(Rest(t, f + 1))

(* A name: words of its own; "und" only in a compound.                     *)
IsOwnName(t) ==
  /\ t # <<>> /\ Head(t) \in Capital \cup hyphenated /\ Last(t) \in Capital
  /\ Range(t) \subseteq Capital \cup hyphenated \cup {"und"}
  /\ \A n \in 1..(Len(t) - 1) : t[n] \in hyphenated <=> t[n + 1] = "und"
  /\ Cardinality(WordsAt(t, {"und"})) < 2

(* The letters of the form occur nowhere before the form itself.           *)
FormIsItself == written.form \notin Range(written.before \o written.name)

NameFound ==
  /\ IsOwnName(written.name) /\ FormIsItself /\ ~written.formFirst
  /\ Len(written.before \o written.name) <= Window /\ Introduces(written.before)
  => step = "found" /\ candidate = Append(written.name, written.form)

(* A form that comes first has its name behind it, up to the next sign.    *)
NameFoundBehind ==
  /\ IsOwnName(written.name) /\ FormIsItself /\ written.formFirst
  /\ Range(written.before) \subseteq years \cup {"-"}
  /\ written.before # <<>> => Last(written.before) = "-"
  /\ written.after = <<>> \/ Head(written.after) \in bars \cup {",", "."}
  => step = "found" /\ candidate = <<written.form>> \o written.name

(* In whatever disorder, a name is found whole or not at all.              *)
NameWhole ==
  /\ step = "found" /\ Last(candidate) = written.form
  /\ IsOwnName(written.name) /\ FormIsItself /\ ~written.formFirst /\ Len(written.name) <= Window
  => IsSuffix(Append(written.name, written.form), candidate)

(* Of companies joined by a conjunction only the last is taken: no "and"   *)
(* remains, and the last "und" that does stands behind a hyphen.           *)
NoneJoined ==
  step = "found" /\ Head(candidate) # written.form =>
    LET Remaining(conj) == {n \in WordsAt(candidate, {conj}) : n > 1 /\ Spaced(candidate, n)}
    IN  /\ Remaining("and") = {}
        /\ Remaining("und") # {} => candidate[Max(Remaining("und")) - 1] \in hyphens

(* A company named on a line is found under its whole name, whatever       *)
(* introduces it; and no part of the name is lost, nor another company's   *)
(* added (imprint_name.go 680-697, 1240-1252).                             *)
NameOnItsLine ==
  /\ step \in {"found", "none"} => NameFound /\ NameFoundBehind
  /\ NameWhole /\ NoneJoined

=============================================================================
