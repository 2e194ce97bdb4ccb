------------------------------ MODULE Letters -------------------------------
(***************************************************************************)
(* What Unicode says of a letter, as Go's libraries use it: the letter     *)
(* strings.ToLower writes for it, and the letters a case-insensitive       *)
(* regular expression does not tell apart from it.  The two disagree       *)
(* outside ASCII: the long s is an s to the expression, but its own lower  *)
(* case; the dotted capital I is lowered to i, but to the expression it is *)
(* no i.                                                                   *)
(***************************************************************************)
EXTENDS Integers, Sequences

CONSTANTS
  Lower,   \* unicode.ToLower: a letter for each letter
  Orbit,   \* unicode.SimpleFold: the letters (?i) takes for it, itself included
  Least,   \* the one of those with the least code point
  Bytes    \* its length in UTF-8

Letter == DOMAIN Lower

(* What the four tables must have in common.                               *)
TablesAgree ==
  /\ DOMAIN Orbit = Letter /\ DOMAIN Least = Letter /\ DOMAIN Bytes = Letter
  /\ \A x \in Letter :
       /\ x \in Orbit[x] /\ Least[x] \in Orbit[x] /\ Lower[x] \in Letter
       /\ \A y \in Orbit[x] : Orbit[y] = Orbit[x] /\ Least[y] = Least[x]

ToLower(s) == [n \in DOMAIN s |-> Lower[s[n]]]

(* s occurs in t behind position p.                                        *)
OccursAt(s, t, p) == /\ p + Len(s) <= Len(t)
                     /\ \A n \in DOMAIN s : t[p + n] = s[n]

Occurs(s, t) == \E p \in 0..Len(t) : OccursAt(s, t, p)

(* The same under (?i).                                                    *)
FoldsAt(s, t, p) == /\ p + Len(s) <= Len(t)
                    /\ \A n \in DOMAIN s : t[p + n] \in Orbit[s[n]]

=============================================================================
