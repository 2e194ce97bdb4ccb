--------------------------- MODULE ImprintChoice ----------------------------
(***************************************************************************)
(* From the candidates of a page to its entity (imprint.go): candidates of *)
(* one name are merged, the best one wins, and numbers the others found    *)
(* fill its gaps.                                                          *)
(***************************************************************************)
EXTENDS ImprintText

Sources == <<"json_ld", "imprint_text", "imprint_label", "hcard", "copyright_footer",
             "og_site_name">>

candidateSourceRank(source) == CHOOSE r \in 0..5 : Sources[r + 1] = source

candidateConfRank(conf) ==
  CASE conf = "high" -> 0 [] conf = "medium" -> 1 [] conf = "low" -> 2 [] OTHER -> 9

Score(c) == 10 * candidateSourceRank(c.source) + candidateConfRank(c.conf)

OrElse(a, none, b) == IF a = none THEN b ELSE a

(* The first of some candidates, or hits.                                  *)
First(S) == CHOOSE c \in S : \A d \in S : ~Before(d.at, c.at)

(* What the first candidate says of a field that says anything of it.      *)
FirstGiven(group, field, none) ==
  LET given == {c \in group : c[field] # none}
  IN  IF given = {} THEN none ELSE First(given)[field]

LastAmong(S) == {c \in S : \A d \in S : ~Before(c.at, d.at)}

(* The candidates of one name fill each other's gaps; the best of their    *)
(* sources counts, and the confidence in the country that is taken.        *)
Merged(name, group) ==
  LET best  == CHOOSE r \in 0..5 :
                 /\ \E c \in group : candidateSourceRank(c.source) = r
                 /\ \A c \in group : r <= candidateSourceRank(c.source)
      known == {c \in group : c.country # ""}
      ids   == UNION {c.ids : c \in group}
  IN  [name |-> name, idOnly |-> First(group).idOnly, at |-> First(group).at,
       source   |-> Sources[best + 1],
       register |-> FirstGiven(group, "register", NoNumber),
       vat      |-> FirstGiven(group, "vat", ""),
       postal   |-> FirstGiven(group, "postal", ""),
       country  |-> FirstGiven(group, "country", ""),
       form     |-> FirstGiven(group, "form", ""),
       conf     |-> IF known # {} THEN First(known).conf
                    ELSE (CHOOSE c \in LastAmong(group) : TRUE).conf,
       ids      |-> {id \in ids : \A o \in ids : SameHit(o.hit, id.hit) => ~Before(o.at, id.at)}]

mergeImprintCandidates(cands) ==
  {Merged(name, {c \in cands : c.name = name}) : name \in {c.name : c \in cands} \ {""}}

(* Fault: a label is taken at its word.                                    *)
hasProximityCorroboration_LabelTrusted(c) ==
  \/ c.source # "imprint_text"
  \/ c.postal # "" \/ c.register # NoNumber \/ c.vat # ""

hasProximityCorroboration(c) ==
  \/ c.source \notin {"imprint_text", "imprint_label"}
  \/ c.postal # "" \/ c.register # NoNumber \/ c.vat # ""

(* The first of the best, none if there is no candidate.                  *)
Best(S) ==
  {c \in S : \A d \in S : \/ Score(c) < Score(d)
                          \/ Score(c) = Score(d) /\ ~Before(d.at, c.at)}

bestImprintCandidate(cands) ==
  Best({c \in cands : ~c.idOnly /\ hasProximityCorroboration(c)})

(* Hits taken over stand behind the winner's own.                          *)
TakenOver(hits, turn) == {[id EXCEPT !.at[1] = turn] : id \in hits}

(* The winner takes a missing register entry from the best candidate that  *)
(* has one, a nameless one included, with the hits it came from; and so a  *)
(* missing VAT number.                                                     *)
WithRegister(cands, best) ==
  LET donors == Best({c \in cands \ {best} : c.register # NoNumber})
      donor  == CHOOSE d \in donors : TRUE
      hits   == {id \in donor.ids : formatRegister(id.hit) = donor.register}
  IN  IF best.register # NoNumber \/ donors = {} THEN best
      ELSE [best EXCEPT !.register = donor.register, !.ids = @ \cup TakenOver(hits, 1)]

WithVAT(cands, best, winner) ==
  LET donors == Best({c \in cands \ {best} : c.vat # ""})
      donor  == CHOOSE d \in donors : TRUE
      hits   == {id \in donor.ids :
                   isVATLikeIdentifierKind(id.hit.kind) /\ id.hit.value = donor.vat}
  IN  IF winner.vat # "" \/ donors = {} THEN winner
      ELSE [winner EXCEPT !.vat = donor.vat, !.ids = @ \cup TakenOver(hits, 2)]

backfillWinnerIdentifiers(cands, best) == WithVAT(cands, best, WithRegister(cands, best))

=============================================================================
