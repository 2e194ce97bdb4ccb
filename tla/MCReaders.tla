------------------------------ MODULE MCReaders -----------------------------
(***************************************************************************)
(* The readers of a page, each on input of its own: scanAnchors and        *)
(* visibleText on up to MaxPieces pieces of markup, linkScan on the pages  *)
(* of MCLinkDiscovery, the prefilter and the path matcher on the           *)
(* expressions and paths of MCLetters.                                     *)
(***************************************************************************)
EXTENDS MCLinkDiscovery, AnchorScan, VisibleText, Prefilter, PathMatcher, MCLetters
LOCAL INSTANCE SequencesExt

CONSTANT MaxPieces

VARIABLE reader  \* who reads

pageVars == <<page, next, hits>>

AnchorPieces ==
  {<<"<a", "space">>, <<"<a", "word">>, <<"href", "=">>, <<"href", "=", "dq">>, <<"dq">>,
   <<"word", "dq", "gt">>, <<"word">>, <<"space">>, <<"gt">>, <<"</a", "gt">>,
   <<"<a", "space", "href", "=", "word", "gt", "word", "</a", "gt">>}

(* A page for the scanner begins with an anchor's tag.                     *)
MCAnchorTexts == {<<"<a", "space">> \o FlattenSeq(s) : s \in BoundedSeq(AnchorPieces, MaxPieces)}

VisiblePieces ==
  {<<"<script", "gt">>, <<"</script", "gt">>, <<"<svg", "gt">>, <<"</svg", "gt">>,
   <<"<svg">>, <<"slash">>, <<"<tag">>, <<"gt">>, <<"word">>, <<"sp">>, <<"<!--">>, <<"-->">>, <<"<">>}

VisibleTexts ==
  {t \in {FlattenSeq(s) : s \in BoundedSeq(VisiblePieces, MaxPieces)} :
     \A n \in 1..(Len(t) - 1) : t[n] = "<" => t[n + 1] \notin {"slash", "word"}}

ASSUME InputAssumption == TablesAgree

NoPage ==
  /\ page = PageOf([footers |-> {}, closes |-> {}], <<>>, <<>>)
  /\ next = 1 /\ hits = [t \in Types |-> NoHit]
NoSource == source = <<>> /\ from = 1 /\ anchors = <<>> /\ over = FALSE
Unread == text = <<>> /\ limit = 0 /\ i = 1 /\ out = <<>> /\ lastSpace = TRUE /\ done = FALSE
NoRegexp == regexp = <<>> /\ sample = <<>> /\ hit = ""
NoPath == matcher = <<>> /\ urlPath = <<>> /\ segment = 1 /\ matched = FALSE

ReadersInit ==
  \/ reader = "links"   /\ Init         /\ NoSource /\ Unread /\ NoRegexp /\ NoPath
  \/ reader = "anchors" /\ AnchorInit   /\ NoPage /\ Unread /\ NoRegexp /\ NoPath
  \/ reader = "visible" /\ VisibleInit  /\ NoPage /\ NoSource /\ NoRegexp /\ NoPath
  \/ reader = "regexps" /\ FilterInit  /\ NoPage /\ NoSource /\ Unread /\ NoPath
  \/ reader = "paths"   /\ PathInit     /\ NoPage /\ NoSource /\ Unread /\ NoRegexp

ReadersNext ==
  /\ \/ /\ reader = "links" /\ Next
        /\ UNCHANGED <<anchorVars, visibleVars, filterVars, pathVars>>
     \/ /\ reader = "anchors" /\ AnchorNext
        /\ UNCHANGED <<pageVars, visibleVars, filterVars, pathVars>>
     \/ /\ reader = "visible" /\ VisibleNext
        /\ UNCHANGED <<pageVars, anchorVars, filterVars, pathVars>>
     \/ /\ reader = "regexps" /\ FilterNext
        /\ UNCHANGED <<pageVars, anchorVars, visibleVars, pathVars>>
     \/ /\ reader = "paths" /\ PathNext
        /\ UNCHANGED <<pageVars, anchorVars, visibleVars, filterVars>>
  /\ UNCHANGED reader

ReadersSpec ==
  /\ ReadersInit
  /\ [][ReadersNext]_<<reader, pageVars, anchorVars, visibleVars, filterVars, pathVars>>

=============================================================================
