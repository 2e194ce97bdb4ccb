---------------------------- MODULE Verification ----------------------------
(***************************************************************************)
(* The decisions taken about one fetched page: what it is worth as a       *)
(* document of a wanted type (verify.go, classifyView), and what becomes   *)
(* of a link whose target answered (handler_helpers.go, verifyLink).       *)
(***************************************************************************)
EXTENDS DocTypes

CONSTANTS
  Pages,     \* the views the site can serve, a subset of Views
  Statuses,  \* the HTTP statuses the site can answer
  HomeFP,    \* fingerprint of the homepage the scan state was built from
  NoView     \* the view of a body that was not read

(* A fetch either fails or answers with a status; only a 2xx or 3xx body   *)
(* is read (probe.go, probeVerify).                                        *)
Success(status) == status \in 200..399

FetchError == [err |-> TRUE, status |-> 0, view |-> NoView]

Answers ==
  {FetchError}
    \cup [err : {FALSE}, status : {s \in Statuses : Success(s)}, view : Pages]
    \cup [err : {FALSE}, status : {s \in Statuses : ~Success(s)}, view : {NoView}]

ASSUME AnswersAssumption ==
  /\ Pages \subseteq Views
  /\ Statuses \subseteq 100..599
  /\ HomeFP \in Fingerprints
  /\ NoView \notin Views

-----------------------------------------------------------------------------
(* Status codes that say the target throttles us (429, 503), and those     *)
(* that say it refused to show the page rather than that it is absent.     *)
LimitStatus(status) == status \in {429, 503}

isChallengeStatus_NoForbidden(status) == status \in {401, 408, 429, 503} \/ status >= 500

isChallengeStatus(status) == status \in {401, 403, 408, 429, 503} \/ status >= 500

-----------------------------------------------------------------------------
Assessment(real, conf, evidence) == [real |-> real, conf |-> conf, evidence |-> evidence]

NotReal == Assessment(FALSE, "none", {})

(* The page announces itself as another unambiguous document type.         *)
otherTitleType(v, want) == v.title \cap (Core \ {want}) # {}

classifyView(v, want) ==
  IF v.pdf THEN Assessment(TRUE, "low", {"pdf_document"})
  ELSE IF v.challenge \/ v.unusable THEN NotReal
  ELSE IF want \in v.title THEN Assessment(TRUE, "high", {"title_matches_type"})
  ELSE IF otherTitleType(v, want) /\ want \notin Hubs THEN NotReal
  ELSE IF want \in v.headings THEN Assessment(TRUE, "medium", {"heading_matches_type"})
  ELSE IF v.vocab THEN Assessment(TRUE, "medium", {"legal_vocabulary"})
  ELSE Assessment(TRUE, "low", {"page_exists_unconfirmed"})

hasTypeSignal(v, want) == want \in v.signal \/ v.vocab

-----------------------------------------------------------------------------
(* What a canonical-path probe makes of the page it got.  A page that is   *)
(* not real, is the homepage again, or merely exists without a word about  *)
(* the type is rejected at once.                                           *)
ProbeRejects(v, want) ==
  LET vr == classifyView(v, want)
  IN  \/ ~vr.real
      \/ v.homeCopy
      \/ confidenceRank(vr.conf) <= confidenceRank("low") /\ ~hasTypeSignal(v, want)

(* The site's generic template answering any path: the same page as the    *)
(* nonexistent control path, or the same title around the requested path.  *)
isTemplateEcho(v, control) ==
  \/ control.fp = v.fp
  \/ v.template # "" /\ v.template = control.template

-----------------------------------------------------------------------------
(* The link target could not be seen: the link itself is the evidence.     *)
Unverified(hit) ==
  [hit EXCEPT !.conf     = IF AtLeast(@, hit.floor) = "" THEN "low" ELSE AtLeast(@, hit.floor),
              !.evidence = @ \cup {"link_unverified"},
              !.status   = 0]

DeadLink(hit, status) ==
  [hit EXCEPT !.conf = "none", !.status = status, !.rejected = TRUE]

SameAsHomepage(hit, v) ==
  v.fp = HomeFP /\ ~v.pdf /\ confidenceRank(hit.floor) < confidenceRank("medium")

VerifiedLink(t, hit, status, v) ==
  LET vr == classifyView(v, t)
  IN  IF ~vr.real \/ SameAsHomepage(hit, v) THEN DeadLink(hit, status)
      ELSE IF v.pdf /\ confidenceRank(hit.floor) < confidenceRank("medium") /\ ~hit.named
      THEN [hit EXCEPT !.conf = "low", !.status = status,
                       !.evidence = @ \cup {"page_exists_unconfirmed"}]
      ELSE [hit EXCEPT !.conf = AtLeast(vr.conf, hit.floor), !.status = status,
                       !.evidence = @ \cup vr.evidence]

(* The target refused to be seen: a transport failure, a challenge status, *)
(* or a bot challenge served with a 2xx.                                   *)
TargetUnseen(a) ==
  \/ a.err \/ a.status = 0
  \/ isChallengeStatus(a.status)
  \/ (Success(a.status) /\ a.view.challenge)

verifyLink(t, hit, a) ==
  IF TargetUnseen(a) THEN Unverified(hit)
  ELSE IF Success(a.status) THEN VerifiedLink(t, hit, a.status, a.view)
  ELSE DeadLink(hit, a.status)

(* The link answers that also switch the remaining probes off.             *)
LinkLimits_AnyChallenge(a) ==
  /\ ~a.err
  /\ isChallengeStatus(a.status) \/ (Success(a.status) /\ a.view.challenge)

LinkLimits(a) ==
  /\ ~a.err
  /\ LimitStatus(a.status) \/ (Success(a.status) /\ a.view.challenge)

=============================================================================
