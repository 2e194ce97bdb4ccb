------------------------------ MODULE Handler -------------------------------
(***************************************************************************)
(* One request from its arrival to its answer (handler_helpers.go, Handler *)
(* and fetchHomepage; handler.go, checkURLRetry and the write* helpers),   *)
(* under the wall-clock budget the request's context carries.              *)
(*                                                                         *)
(* Time is counted in ticks of 100 ms since the context was made.  A step  *)
(* that waits for the network lasts any of the Durations, or exactly until *)
(* its deadline.  The two verification phases are one step here (module    *)
(* ScanPhases is what happens inside it).  A definition named X_Fault is X *)
(* with a plausible bug, used by no specification.                         *)
(***************************************************************************)
EXTENDS Naturals, Sequences, FiniteSets

CONSTANTS
  TotalBudget, SlotWait, CheckTimeout, HomepageTimeout,
  RetryWindow,     \* a failure this fast may be retried
  CheckPause, RetryPause,
  OriginReserve,   \* no other origin is started with less than this left
  JSTimeout, ProbeTimeout,
  Durations

ASSUME TimesAssumption ==
  /\ {TotalBudget, SlotWait, CheckTimeout, HomepageTimeout, RetryWindow,
      CheckPause, RetryPause, OriginReserve, JSTimeout, ProbeTimeout} \subseteq Nat \ {0}
  /\ Durations \subseteq Nat

VARIABLES
  stage,      \* where the Handler is
  clock,      \* ticks spent of the budget
  target,     \* the URL u: its scheme, and whether wwwAlternate(u) exists
  tries,      \* fetchHomepage: the origins to try, by tag
  idx,        \* the one being tried
  retried,    \* whether this attempt is the second one
  firstErr,   \* the first origin's error
  fetchStart, \* history: when fetchHomepage was entered
  page,       \* the homepage in use
  resp        \* the response so far, and the answer once stage = "answered"

vars == <<stage, clock, target, tries, idx, retried, firstErr, fetchStart, page, resp>>

Left == IF clock < TotalBudget THEN TotalBudget - clock ELSE 0

AtMost(a, b) == IF a < b THEN a ELSE b

(* A wait of at most cap ticks that ends by itself before then, or is cut  *)
(* off at its deadline.                                                    *)
EndsInTime(d, cap) == d \in Durations /\ d < cap /\ clock' = clock + d
CutOff(cap)        == clock' = clock + cap

-----------------------------------------------------------------------------
(* Fetch errors, by the two questions the code asks of their text          *)
(* (fetchKind, isTransientFetchError).                                     *)
Error(kind, transient) == [kind |-> kind, transient |-> transient]

Timeout == Error("timeout", TRUE)

FetchErrors ==
  {Timeout, Error("dns", FALSE), Error("tls", FALSE), Error("tls", TRUE),
   Error("refused", FALSE), Error("reset", TRUE), Error("other", TRUE),
   Error("other", FALSE)}

(* Those the resolver can fail with: no handshake, no connection to reset. *)
CheckErrors == {e \in FetchErrors : e.kind \notin {"tls", "reset"}}

NoError == Error("", FALSE)

OtherOriginKinds == {"tls", "refused", "reset", "dns"}

NoPage == [site |-> "none", links |-> 0, shell |-> FALSE, rendered |-> FALSE]

Blank ==
  [http |-> 0, status |-> "", result |-> "", verdict |-> "", fallback |-> "",
   homepageFetched |-> FALSE, offsite |-> FALSE, jsAttempted |-> FALSE,
   budgetExhausted |-> FALSE, found |-> 0]

(* u: https or not; with or without a www. variant.                        *)
Targets == [https : BOOLEAN, www : BOOLEAN]

Init ==
  /\ stage = "parse"
  /\ clock = 0
  /\ target \in Targets
  /\ tries = <<"">> /\ idx = 1 /\ retried = FALSE
  /\ firstErr = NoError /\ fetchStart = 0
  /\ page = NoPage
  /\ resp = Blank

-----------------------------------------------------------------------------
(* writeJSON stamps "ok" on a response nobody gave a status, and the       *)
(* result "ok" only on a 200.                                              *)
Written(r, http) ==
  [r EXCEPT !.http = http,
            !.status = IF @ = "" THEN "ok" ELSE @,
            !.result = IF @ = "" /\ http = 200 THEN "ok" ELSE @]

Answer(r, http) == stage' = "answered" /\ resp' = Written(r, http)

(* meshresult.ClassifyFetchError (external): the outcome of an error and   *)
(* the HTTP code the fleet gives it.                                       *)
OutcomeCode(outcome) ==
  CASE outcome = "timeout" -> 504 [] outcome = "error" -> 502 [] OTHER -> 404

ClassifyFetchError(e) ==
  CASE e.kind = "timeout" -> "timeout"
    [] e.kind = "other"   -> "error"
    [] OTHER              -> "unreachable"

Unreachable(e) ==
  LET outcome == ClassifyFetchError(e)
  IN  Answer([resp EXCEPT !.status = "unreachable", !.result = outcome, !.verdict = "unknown"],
             OutcomeCode(outcome))

-----------------------------------------------------------------------------
(* No target, or one that does not parse: 400.                             *)
BadRequest ==
  /\ stage = "parse"
  /\ Answer(resp, 400)
  /\ UNCHANGED <<clock, target, tries, idx, retried, firstErr, fetchStart, page>>

Acquire ==
  /\ stage = "parse"
  /\ \E d \in Durations : EndsInTime(d, AtMost(SlotWait, Left))
  /\ stage' = "check"
  /\ UNCHANGED <<target, tries, idx, retried, firstErr, fetchStart, page, resp>>

Overloaded ==
  /\ stage = "parse"
  /\ CutOff(AtMost(SlotWait, Left))
  /\ Answer([resp EXCEPT !.status = "unreachable", !.result = "error", !.verdict = "unknown"], 503)
  /\ UNCHANGED <<target, tries, idx, retried, firstErr, fetchStart, page>>

-----------------------------------------------------------------------------
(* checkURLRetry: the resolver and policy check, once more after a pause   *)
(* when the failure looks transient; first for u, then for its www. form.  *)
Checking == stage \in {"check", "checkWWW"}

CheckPasses ==
  /\ Checking
  /\ \E d \in Durations : EndsInTime(d, AtMost(CheckTimeout, Left))
  /\ stage' = "fetch" /\ retried' = FALSE /\ firstErr' = NoError
  /\ fetchStart' = clock'
  /\ IF stage = "checkWWW"
     THEN /\ target' = [https |-> TRUE, www |-> FALSE]
          /\ resp' = [resp EXCEPT !.fallback = "www"]
     ELSE UNCHANGED <<target, resp>>
  /\ UNCHANGED <<tries, idx, page>>

CheckFails(e) ==
  /\ Checking
  /\ \/ \E d \in Durations : EndsInTime(d, AtMost(CheckTimeout, Left))
     \/ e = Timeout /\ CutOff(AtMost(CheckTimeout, Left))
  /\ firstErr' = IF stage = "check" THEN e ELSE firstErr
  /\ \/ /\ e.transient /\ ~retried
        /\ stage' = IF stage = "check" THEN "checkPause" ELSE "checkWWWPause"
        /\ UNCHANGED <<retried, resp>>
     \/ /\ ~(e.transient /\ ~retried)
        /\ stage = "check" /\ e.kind = "dns" /\ target.www
        /\ stage' = "checkWWW" /\ retried' = FALSE
        /\ UNCHANGED resp
     \/ /\ ~(e.transient /\ ~retried)
        /\ ~(stage = "check" /\ e.kind = "dns" /\ target.www)
        /\ Unreachable(firstErr')
        /\ UNCHANGED retried
  /\ UNCHANGED <<target, tries, idx, fetchStart, page>>

(* The pause runs out and the check is repeated, or the budget ends it.    *)
CheckAgain ==
  /\ stage \in {"checkPause", "checkWWWPause"}
  /\ IF CheckPause < Left
     THEN /\ clock' = clock + CheckPause
          /\ stage' = IF stage = "checkPause" THEN "check" ELSE "checkWWW"
          /\ retried' = TRUE
          /\ UNCHANGED resp
     ELSE /\ clock' = TotalBudget
          /\ Unreachable(firstErr)
          /\ UNCHANGED retried
  /\ UNCHANGED <<target, tries, idx, firstErr, fetchStart, page>>

(* A private address or a bad scheme: 400.  For the www. form any failure  *)
(* only means that the original error stands.                              *)
CheckRejects ==
  /\ Checking
  /\ \E d \in Durations : EndsInTime(d, AtMost(CheckTimeout, Left))
  /\ IF stage = "check" THEN Answer([resp EXCEPT !.verdict = "unknown"], 400)
     ELSE Unreachable(firstErr)
  /\ UNCHANGED <<target, tries, idx, retried, firstErr, fetchStart, page>>

-----------------------------------------------------------------------------
(* fetchHomepage.                                                          *)
AttemptCap_Unbounded == HomepageTimeout

AttemptCap == AtMost(HomepageTimeout, Left)

(* The homepage arrives: maybe from another site, with or without legal    *)
(* links, maybe the shell of a script-driven page, maybe a block page.     *)
HomepageArrives ==
  /\ stage = "fetch"
  /\ \E d \in Durations : EndsInTime(d, AttemptCap)
  /\ \E site \in {"own", "other"}, links \in 0..1, shell \in BOOLEAN :
       /\ shell => links = 0
       /\ page' = [site |-> site, links |-> links, shell |-> shell, rendered |-> FALSE]
       /\ resp' = [resp EXCEPT !.homepageFetched = TRUE,
                               !.fallback = IF tries[idx] = "" THEN @ ELSE tries[idx],
                               !.offsite = (site = "other")]
  /\ stage' = "fallback"
  /\ UNCHANGED <<target, tries, idx, retried, firstErr, fetchStart>>

HomepageBlocked ==
  /\ stage = "fetch"
  /\ \E d \in Durations : EndsInTime(d, AttemptCap)
  /\ Answer([resp EXCEPT !.homepageFetched = TRUE,
                         !.fallback = IF tries[idx] = "" THEN @ ELSE tries[idx],
                         !.status = "blocked", !.result = "error", !.verdict = "unknown"], 502)
  /\ UNCHANGED <<target, tries, idx, retried, firstErr, fetchStart, page>>

(* One immediate retry, of a fast failure that is transient and no timeout.*)
Retryable(e, spent) ==
  e.transient /\ e.kind # "timeout" /\ spent < RetryWindow /\ ~retried

(* The origins worth trying once u itself failed with e.                   *)
OtherOrigins(e) ==
  IF idx = 1 /\ e.kind \in OtherOriginKinds
  THEN (IF target.www THEN <<"www">> ELSE <<>>) \o (IF target.https THEN <<"http">> ELSE <<>>)
  ELSE <<>>

(* After an origin failed for good: on to the next one, if there is one    *)
(* and time for it.  left is what remains of the budget then.              *)
NextOrigin_LastError(e, left) ==
  LET more  == IF left > 0 THEN tries \o OtherOrigins(e) ELSE tries
      first == IF firstErr = NoError THEN e ELSE firstErr
  IN  /\ tries' = more
      /\ firstErr' = first
      /\ retried' = FALSE
      /\ IF idx < Len(more) /\ left >= OriginReserve
         THEN stage' = "fetch" /\ idx' = idx + 1 /\ UNCHANGED resp
         ELSE Unreachable(e) /\ UNCHANGED idx

NextOrigin(e, left) ==
  LET more  == IF left > 0 THEN tries \o OtherOrigins(e) ELSE tries
      first == IF firstErr = NoError THEN e ELSE firstErr
  IN  /\ tries' = more
      /\ firstErr' = first
      /\ retried' = FALSE
      /\ IF idx < Len(more) /\ left >= OriginReserve
         THEN stage' = "fetch" /\ idx' = idx + 1 /\ UNCHANGED resp
         ELSE Unreachable(first) /\ UNCHANGED idx

AttemptFails(e, spent) ==
  /\ stage = "fetch"
  /\ \/ spent \in Durations /\ spent < AttemptCap
     \/ e = Timeout /\ spent = AttemptCap
  /\ LET left == Left - spent IN
     \/ /\ ~Retryable(e, spent) \/ left = 0
        /\ clock' = clock + spent
        /\ NextOrigin(e, left)
     \/ /\ Retryable(e, spent) /\ RetryPause < left
        /\ clock' = clock + spent
        /\ stage' = "pause"
        /\ UNCHANGED <<tries, idx, retried, firstErr, resp>>
     \/ /\ Retryable(e, spent) /\ left \in 1..RetryPause   \* the budget ends in the pause
        /\ clock' = TotalBudget
        /\ NextOrigin(e, 0)
  /\ UNCHANGED <<target, fetchStart, page>>

AttemptAgain ==
  /\ stage = "pause"
  /\ clock' = clock + RetryPause
  /\ stage' = "fetch" /\ retried' = TRUE
  /\ UNCHANGED <<target, tries, idx, firstErr, fetchStart, page, resp>>

-----------------------------------------------------------------------------
(* The JS-rendered second look at a page that shows no links; only with    *)
(* time for it AND a whole verification phase.  It replaces the page in    *)
(* use, but not what the response says of the redirect.                    *)
WorthRendering == page.shell /\ Left >= JSTimeout + ProbeTimeout

SkipFallback ==
  /\ stage = "fallback" /\ ~WorthRendering
  /\ stage' = "verify"
  /\ UNCHANGED <<clock, target, tries, idx, retried, firstErr, fetchStart, page, resp>>

(* Accepted only from the target's own site and with links to show.        *)
JSFallback ==
  /\ stage = "fallback" /\ WorthRendering
  /\ \/ CutOff(AtMost(JSTimeout, Left)) /\ UNCHANGED page
     \/ /\ \E d \in Durations : EndsInTime(d, AtMost(JSTimeout, Left))
        /\ \/ UNCHANGED page
           \/ page' = [site |-> "own", links |-> 1, shell |-> TRUE, rendered |-> TRUE]
  /\ resp' = [resp EXCEPT !.jsAttempted = TRUE]
  /\ stage' = "verify"
  /\ UNCHANGED <<target, tries, idx, retried, firstErr, fetchStart>>

-----------------------------------------------------------------------------
(* The answer of a finished scan: no document counts as no data.  Any      *)
(* verdict but "none" is "sparse" here.                                    *)
Conclude(found, exhausted) ==
  LET r == [resp EXCEPT !.found = found, !.budgetExhausted = exhausted]
  IN  IF found = 0
      THEN Answer([r EXCEPT !.status = "no_data", !.result = "no_data", !.verdict = "none"], 404)
      ELSE Answer([r EXCEPT !.verdict = "sparse"], 200)

(* Both verification phases, each with its own deadline under the budget.  *)
VerifyCap == AtMost(ProbeTimeout, Left)

VerifyAndAnswer ==
  /\ stage = "verify"
  /\ \E found \in 0..1, exhausted \in BOOLEAN :
       /\ \/ ~exhausted /\ \E d \in Durations : EndsInTime(d, VerifyCap)
          \/ exhausted /\ CutOff(VerifyCap)
       /\ Conclude(found, exhausted)
  /\ UNCHANGED <<target, tries, idx, retried, firstErr, fetchStart, page>>

Done == stage = "answered" /\ UNCHANGED vars

Next ==
  \/ BadRequest \/ Acquire \/ Overloaded
  \/ CheckPasses \/ CheckRejects \/ CheckAgain
  \/ \E e \in CheckErrors : CheckFails(e)
  \/ HomepageArrives \/ HomepageBlocked \/ AttemptAgain
  \/ \E e \in FetchErrors, spent \in Durations \cup {AttemptCap} : AttemptFails(e, spent)
  \/ SkipFallback \/ JSFallback \/ VerifyAndAnswer
  \/ Done

(* Every wait has a deadline, so the Handler never stops short.            *)
Spec == Init /\ [][Next]_vars /\ WF_vars(Next)

-----------------------------------------------------------------------------
Stages ==
  {"parse", "check", "checkPause", "checkWWW", "checkWWWPause", "fetch", "pause",
   "fallback", "verify", "answered"}

(* The scan answers inside its budget, whatever sequence of slow steps,    *)
(* retries and fallback origins it went through.                           *)
WithinBudget == clock <= TotalBudget

(* An unreachable answer is about the origin that was asked for: a         *)
(* fallback's failure never changes the outcome.                           *)
FirstFailureReported ==
  stage = "answered" /\ resp.status = "unreachable" /\ ~resp.homepageFetched
    /\ firstErr # NoError
      => resp.result = ClassifyFetchError(firstErr)

-----------------------------------------------------------------------------
(* OffsiteRedirect: "Every document is then the redirect target's".        *)
OffsiteDocumentsAreTheTargets == stage = "verify" /\ resp.offsite => page.site = "other"

=============================================================================
