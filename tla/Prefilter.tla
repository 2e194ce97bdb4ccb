----------------------------- MODULE Prefilter ------------------------------
(***************************************************************************)
(* fastRE (fastre.go): a regular expression behind a cheap necessary       *)
(* condition.  requiredLiterals finds, in the expression's syntax tree,    *)
(* literals of which every match contains at least one; a text in whose    *)
(* lower-case copy none of them occurs is rejected without running the     *)
(* expression.  Beside it, what the expression itself matches.             *)
(*                                                                         *)
(* A tree is the sequence of its nodes in the order the recursion leaves   *)
(* them: each behind its branches, the root last.  A node is a record of   *)
(* its operator, the places of its branches ("sub"), and                   *)
(*   literal   the runes, and whether under (?i) ("fold");                 *)
(*   class     the runes it stands for;                                    *)
(*   repeat    its bounds; max is -1 if there is none.                     *)
(* MCReaders reads with it beside other readers; hence the names of Init,  *)
(* Next and Spec.  A definition named X_Fault is X with a plausible bug.   *)
(***************************************************************************)
EXTENDS Letters
LOCAL INSTANCE FiniteSetsExt

CONSTANTS
  Regexps,         \* the syntax trees
  Samples,         \* the texts
  MinAnchorBytes,  \* the shortest literal worth looking for
  PrefilterAbove   \* texts of more bytes than this go through the filter

Unary == {"capture", "plus", "star", "quest", "repeat"}

IsTree(tree) ==
  /\ Len(tree) \in Nat \ {0} /\ DOMAIN tree = 1..Len(tree)
  /\ \A n \in DOMAIN tree :
       /\ tree[n].op \in {"literal", "class", "concat", "alternate"} \cup Unary
       /\ tree[n].sub \in Seq(1..(n - 1))
       /\ tree[n].op \in Unary => Len(tree[n].sub) = 1
       /\ tree[n].op = "literal" => tree[n].runes \in Seq(Letter) /\ tree[n].fold \in BOOLEAN
       /\ tree[n].op = "class" => tree[n].class \subseteq Letter
       /\ tree[n].op = "repeat" => tree[n].min \in Nat /\ tree[n].max \in Nat \cup {-1}

ASSUME RegexpsAssumption ==
  /\ \A tree \in Regexps : IsTree(tree)
  /\ Samples \subseteq Seq(Letter)

(* What was found for the branches of a node.                              *)
BranchesOf(node, found) == [k \in DOMAIN node.sub |-> found[node.sub[k]]]

VARIABLES
  regexp, sample,
  hit              \* what MatchString says, "" before it is asked

filterVars == <<regexp, sample, hit>>

Length(s) ==
  LET total[n \in 0..Len(s)] == IF n = 0 THEN 0 ELSE total[n - 1] + Bytes[s[n]]
  IN  total[Len(s)]

-----------------------------------------------------------------------------
(* requiredLiterals: a sequence of lower-case literals, empty if no set of *)
(* literals will do.                                                       *)
None == <<>>

(* A case-sensitive literal with an upper-case letter would never occur in *)
(* the lower-case text.                                                    *)
OfLiteral(node) ==
  IF \/ ~node.fold /\ ToLower(node.runes) # node.runes
     \/ Length(ToLower(node.runes)) < MinAnchorBytes
  THEN None ELSE <<ToLower(node.runes)>>

(* The longest, then the fewest; too many literals are worth nothing.      *)
Worth(set) == 16 * Min({Length(set[n]) : n \in DOMAIN set}) - Len(set)

Score(branches, k) == IF k = 0 THEN -1 ELSE Worth(branches[k])

Better(branches, k, best) ==
  IF branches[k] # None /\ Score(branches, k) > Score(branches, best) THEN k ELSE best

(* The first of the branches worth most, 0 if none is worth anything.      *)
Best(branches) ==
  LET best[k \in 0..Len(branches)] ==
        IF k = 0 THEN 0 ELSE Better(branches, k, best[k - 1])
  IN  best[Len(branches)]

(* Every branch is there in every match, so any one's literals will do.    *)
OfConcat(branches) == IF Best(branches) = 0 THEN None ELSE branches[Best(branches)]

Joined(branches) ==
  LET all[k \in 0..Len(branches)] == IF k = 0 THEN <<>> ELSE all[k - 1] \o branches[k]
  IN  all[Len(branches)]

(* Fault: a branch without literals is passed over, as in a concatenation. *)
OfAlternate_SomeBranches(branches) == Joined(branches)

(* A match may go through any branch: each must have literals.             *)
OfAlternate(branches) ==
  IF \E k \in DOMAIN branches : branches[k] = None THEN None ELSE Joined(branches)

(* Of a node, from what was found for its branches.                        *)
LiteralsOf(node, branches) ==
  CASE node.op = "literal" -> OfLiteral(node)
    [] node.op \in {"capture", "plus"} -> branches[1]
    [] node.op = "repeat" -> IF node.min >= 1 THEN branches[1] ELSE None
    [] node.op = "concat" -> OfConcat(branches)
    [] node.op = "alternate" -> OfAlternate(branches)
    [] OTHER -> None

LiteralsIn(tree) ==
  LET set[n \in DOMAIN tree] == LiteralsOf(tree[n], BranchesOf(tree[n], set))
  IN  set

requiredLiterals(tree) == LiteralsIn(tree)[Len(tree)]

-----------------------------------------------------------------------------
(* The expression itself (package regexp): the pairs of positions of a     *)
(* text between which a node matches.                                      *)
Places(t) == 0..Len(t)

Followed(first, second) ==
  {<<ab[1][1], ab[2][2]>> : ab \in {ab \in first \X second : ab[1][2] = ab[2][1]}}

(* One link after the other.                                               *)
Chain(links, t) ==
  LET run[k \in 0..Len(links)] ==
        IF k = 0 THEN {<<p, p>> : p \in Places(t)} ELSE Followed(run[k - 1], links[k])
  IN  run[Len(links)]

Between(lo, hi, link, t) == UNION {Chain([j \in 1..k |-> link], t) : k \in lo..hi}

(* More repetitions than there are letters repeat nothing at all.          *)
SpansOf(node, branches, t) ==
  CASE node.op = "literal" ->
         {<<p, p + Len(node.runes)>> : p \in {p \in Places(t) :
            IF node.fold THEN FoldsAt(node.runes, t, p) ELSE OccursAt(node.runes, t, p)}}
    [] node.op = "class" ->
         {<<p, p + 1>> : p \in {p \in Places(t) : p < Len(t) /\ t[p + 1] \in node.class}}
    [] node.op = "capture" -> branches[1]
    [] node.op = "quest" -> Between(0, 1, branches[1], t)
    [] node.op = "star" -> Between(0, Len(t), branches[1], t)
    [] node.op = "plus" -> Between(1, Len(t) + 1, branches[1], t)
    [] node.op = "repeat" ->
         Between(node.min, IF node.max = -1 THEN node.min + Len(t) ELSE node.max, branches[1], t)
    [] node.op = "concat" -> Chain(branches, t)
    [] node.op = "alternate" -> UNION {branches[k] : k \in DOMAIN branches}

Spans(tree, t) ==
  LET spans[n \in DOMAIN tree] == SpansOf(tree[n], BranchesOf(tree[n], spans), t)
  IN  spans

Matches(tree, t) == Spans(tree, t)[Len(tree)] # {}

-----------------------------------------------------------------------------
FastMatch(tree, t) ==
  LET anchors == requiredLiterals(tree)
  IN  /\ anchors # None => \E k \in DOMAIN anchors : Occurs(anchors[k], ToLower(t))
      /\ Matches(tree, t)

MatchString(tree, t) == IF Length(t) > PrefilterAbove THEN FastMatch(tree, t) ELSE Matches(tree, t)

FilterInit == regexp \in Regexps /\ sample \in Samples /\ hit = ""

Ask ==
  /\ hit = ""
  /\ hit' = IF MatchString(regexp, sample) THEN "yes" ELSE "no"
  /\ UNCHANGED <<regexp, sample>>

Told == hit # "" /\ UNCHANGED filterVars

FilterNext == Ask \/ Told

FilterSpec == FilterInit /\ [][FilterNext]_filterVars

-----------------------------------------------------------------------------
(* The letters of the text that the expression matches are lowered as the  *)
(* expression's own are.                                                   *)
LowersAlike(tree, t) ==
  \A n \in DOMAIN tree : tree[n].op = "literal" /\ tree[n].fold =>
    \A k \in DOMAIN tree[n].runes, p \in DOMAIN t :
      t[p] \in Orbit[tree[n].runes[k]] => Lower[t[p]] = Lower[tree[n].runes[k]]

(* The filter changes nothing where letters are lowered as they fold: no   *)
(* choice of literals, from any nesting of the operators, rejects a text   *)
(* the expression matches (fastre.go 23-27, 51-118).                       *)
FilterLosesNothing == hit # "" /\ LowersAlike(regexp, sample) => (hit = "yes") = Matches(regexp, sample)

(* What fastre.go:23-27 says of every text: a sound necessary condition,   *)
(* the accepted language unchanged.                                        *)
AcceptedLanguageUnchanged == hit # "" => (hit = "yes") = Matches(regexp, sample)

=============================================================================
