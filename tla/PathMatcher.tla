----------------------------- MODULE PathMatcher ----------------------------
(***************************************************************************)
(* pathMatcher.match (patterns_path.go): whether a URL path names a        *)
(* document type, by looking its segments up in a set instead of running a *)
(* hundred regular expressions.  Beside it, the expressions.               *)
(*                                                                         *)
(* A path is a sequence of characters: "/", ".", letters, and "ext", which *)
(* stands for the name of one of the page extensions.  A token is a        *)
(* sequence of such characters, in lower case; a matcher has "exact"       *)
(* tokens, "contains" tokens, and "regs" for the exact tokens a set cannot *)
(* express.  A definition named X_Fault is X with a plausible bug.         *)
(* MCReaders reads with it beside other readers; hence the names of Init,  *)
(* Next and Spec.                                                          *)
(***************************************************************************)
EXTENDS Letters, FiniteSets
LOCAL INSTANCE FiniteSetsExt

CONSTANTS
  TokenLists,  \* what is given to pathRE and pathREContains: [exact, contains]
  UrlPaths

(* A token has a letter at least, and to lower a path neither makes nor    *)
(* takes away a slash, a dot or an extension.                              *)
ASSUME PathsAssumption ==
  /\ \A tokens \in TokenLists : tokens.exact \cup tokens.contains \subseteq Seq(Letter) \ {<<>>}
  /\ UrlPaths \subseteq Seq(Letter)
  /\ \A x \in Letter, c \in {"/", ".", "ext"} : Lower[x] = c <=> x = c

VARIABLES
  matcher, urlPath,
  segment,  \* where the next segment begins, 0 once there is an answer
  matched

pathVars == <<matcher, urlPath, segment, matched>>

Has(s, c) == \E n \in DOMAIN s : s[n] = c

(* newPathMatcher.                                                         *)
newPathMatcher(tokens) ==
  LET regs == {t \in tokens.exact \cup tokens.contains : Has(t, ".") \/ Has(t, "/")}
  IN  [exact |-> tokens.exact \ regs, contains |-> tokens.contains \ regs,
       exactRegs |-> tokens.exact \cap regs, containsRegs |-> tokens.contains \cap regs]

(* The first place at or after n that holds c; the one behind s if there   *)
(* is none.                                                                *)
PlaceOf(c, s, n) == Min({k \in n..Len(s) : s[k] = c} \cup {Len(s) + 1})

(* strings.Split(strings.ToLower(urlPath), "/"), from the piece at n on.   *)
SegmentEnd(path, n) == PlaceOf("/", path, n)

SegmentAt(path, n) == ToLower(SubSeq(path, n, SegmentEnd(path, n) - 1))

-----------------------------------------------------------------------------
(* A segment up to its first dot, and the rest.                            *)
Dot(seg) == PlaceOf(".", seg, 1)

Base(seg) == SubSeq(seg, 1, Dot(seg) - 1)

Rest(seg) == SubSeq(seg, Dot(seg), Len(seg))

(* Fault: the dot may be anything's.                                       *)
Listed_AnyRest(m, seg) == Base(seg) \in m.exact

Listed(m, seg) ==
  Base(seg) \in m.exact /\ (Rest(seg) = <<>> \/ OccursAt(<<".", "ext">>, Rest(seg), 0))

SegmentMatches(m, seg) ==
  /\ seg # <<>>
  /\ Listed(m, seg) \/ \E t \in m.contains : Occurs(t, seg)

-----------------------------------------------------------------------------
(* The expressions, on the path as it is.                                  *)
SegmentStarts(path) == {p \in 0..Len(path) : p = 0 \/ path[p] = "/"}

(* (?i)(^|/)token(/|\.html?|\.php|\.aspx?|\.pdf|$)                         *)
ExactRE(t, path) ==
  \E p \in SegmentStarts(path) :
    /\ FoldsAt(t, path, p)
    /\ LET q == p + Len(t) IN
       q = Len(path) \/ path[q + 1] = "/" \/ OccursAt(<<".", "ext">>, path, q)

(* (?i)(^|/)[^/]*token[^/]*(/|$)                                           *)
ContainsRE(t, path) ==
  \E p \in SegmentStarts(path) : \E q \in p..Len(path) :
    (\A n \in (p + 1)..q : path[n] # "/") /\ FoldsAt(t, path, q)

RegexpsMatch(tokens, path) ==
  \/ \E t \in tokens.exact : ExactRE(t, path)
  \/ \E t \in tokens.contains : ContainsRE(t, path)

-----------------------------------------------------------------------------
PathInit ==
  /\ \E tokens \in TokenLists : matcher = newPathMatcher(tokens)
  /\ urlPath \in UrlPaths
  /\ segment = 1 /\ matched = FALSE

(* The last segment may be empty, and begin behind the path.               *)
AtSegment == segment \in 1..(Len(urlPath) + 1)

FoundSegment ==
  /\ AtSegment /\ SegmentMatches(matcher, SegmentAt(urlPath, segment))
  /\ segment' = 0 /\ matched' = TRUE
  /\ UNCHANGED <<matcher, urlPath>>

NextSegment ==
  /\ AtSegment /\ ~SegmentMatches(matcher, SegmentAt(urlPath, segment))
  /\ segment' = SegmentEnd(urlPath, segment) + 1
  /\ UNCHANGED <<matcher, urlPath, matched>>

(* What no set can express goes through its expression.                    *)
AskRegexps ==
  /\ segment > Len(urlPath) + 1
  /\ segment' = 0
  /\ matched' = RegexpsMatch([exact |-> matcher.exactRegs, contains |-> matcher.containsRegs], urlPath)
  /\ UNCHANGED <<matcher, urlPath>>

Answered == segment = 0 /\ UNCHANGED pathVars

PathNext == FoundSegment \/ NextSegment \/ AskRegexps \/ Answered

PathSpec == PathInit /\ [][PathNext]_pathVars

-----------------------------------------------------------------------------
AllTokens ==
  [exact |-> matcher.exact \cup matcher.exactRegs,
   contains |-> matcher.contains \cup matcher.containsRegs]

(* The letters of the path are the tokens' letters to the expressions      *)
(* exactly if they are in lower case.                                      *)
FoldsAsItLowers ==
  \A t \in AllTokens.exact \cup AllTokens.contains : \A k \in DOMAIN t, n \in DOMAIN urlPath :
    urlPath[n] \in Orbit[t[k]] <=> Lower[urlPath[n]] = t[k]

(* The matcher is the set-based equivalent of the expressions, whatever    *)
(* slashes, dots, extensions and repetitions the path is made of           *)
(* (patterns_path.go 26-31).                                               *)
SetIsEquivalent == segment = 0 /\ FoldsAsItLowers => matched = RegexpsMatch(AllTokens, urlPath)

=============================================================================
