--------------------------- MODULE HandlerProofs ----------------------------
(***************************************************************************)
(* The budget of one request, and the error its answer is about, for any   *)
(* deadlines, pauses and waits.                                            *)
(***************************************************************************)
EXTENDS Handler, TLAPS

Fields ==
  {"http", "status", "result", "verdict", "fallback", "homepageFetched", "offsite",
   "jsAttempted", "budgetExhausted", "found"}

(* Time never runs past the budget: a wait is cut off at what is left of   *)
(* it, and a pause that runs out had more than its length left.            *)
BudgetInv ==
  /\ clock \in Nat /\ clock <= TotalBudget
  /\ stage = "pause" => clock + RetryPause < TotalBudget

(* Whatever homepage came after it, the answer of an unreachable site is   *)
(* about the error kept first.                                             *)
Honest ==
  stage = "answered" /\ resp.status = "unreachable" /\ firstErr # NoError
    => resp.result = ClassifyFetchError(firstErr)

(* A response has no status before it is an answer.                        *)
ErrorInv ==
  /\ DOMAIN resp = Fields
  /\ stage # "answered" => resp.status = ""
  /\ stage = "parse" => firstErr = NoError
  /\ Honest

-----------------------------------------------------------------------------
(* The times are counts of ticks.                                          *)
LEMMA Times ==
  /\ TotalBudget \in Nat /\ SlotWait \in Nat /\ CheckTimeout \in Nat /\ HomepageTimeout \in Nat
  /\ CheckPause \in Nat /\ RetryPause \in Nat /\ JSTimeout \in Nat /\ ProbeTimeout \in Nat
  /\ Durations \subseteq Nat
BY TimesAssumption DEF TimesAssumption

LEMMA LeftBounds ==
  ASSUME clock \in Nat, clock <= TotalBudget
  PROVE  Left \in Nat /\ clock + Left = TotalBudget
BY Times DEF Left

(* A wait ends within the budget, whatever its own limit.                  *)
LEMMA WaitWithinBudget ==
  ASSUME clock \in Nat, clock <= TotalBudget, NEW cap \in Nat,
         CutOff(AtMost(cap, Left)) \/ \E d \in Durations : EndsInTime(d, AtMost(cap, Left))
  PROVE  clock' \in Nat /\ clock' <= TotalBudget
BY LeftBounds, Times DEF CutOff, EndsInTime, AtMost

LEMMA AttemptWithinBudget ==
  ASSUME BudgetInv, NEW e \in FetchErrors, NEW spent \in Durations \cup {AttemptCap},
         AttemptFails(e, spent)
  PROVE  BudgetInv'
<1>1. Left \in Nat /\ clock + Left = TotalBudget
  BY LeftBounds DEF BudgetInv
<1>2. spent \in Nat /\ spent <= Left
  BY <1>1, Times DEF AttemptFails, AttemptCap, AtMost
<1>3. \A left : NextOrigin(e, left) => stage' # "pause"
  BY DEF NextOrigin, Unreachable, Answer
<1>4. CASE (~Retryable(e, spent) \/ Left - spent = 0) /\ clock' = clock + spent
           /\ NextOrigin(e, Left - spent)
  BY <1>1, <1>2, <1>3, <1>4 DEF BudgetInv
<1>5. CASE RetryPause < Left - spent /\ clock' = clock + spent /\ stage' = "pause"
  BY <1>1, <1>2, <1>5, Times DEF BudgetInv
<1>6. CASE clock' = TotalBudget /\ NextOrigin(e, 0)
  BY <1>3, <1>6, Times DEF BudgetInv
<1> QED
  BY <1>4, <1>5, <1>6 DEF AttemptFails

LEMMA BudgetStep == BudgetInv /\ [Next]_vars => BudgetInv'
<1> SUFFICES ASSUME BudgetInv, [Next]_vars PROVE BudgetInv'
  OBVIOUS
<1>0. clock \in Nat /\ clock <= TotalBudget
  BY DEF BudgetInv
<1>1. CASE BadRequest
  BY <1>0, <1>1 DEF BadRequest, Answer, BudgetInv
<1>2. CASE Acquire
  BY <1>0, <1>2, WaitWithinBudget, Times DEF Acquire, BudgetInv
<1>3. CASE Overloaded
  BY <1>0, <1>3, WaitWithinBudget, Times DEF Overloaded, Answer, BudgetInv
<1>4. CASE CheckPasses
  BY <1>0, <1>4, WaitWithinBudget, Times DEF CheckPasses, BudgetInv
<1>5. CASE CheckRejects
  BY <1>0, <1>5, WaitWithinBudget, Times
     DEF CheckRejects, Answer, Unreachable, BudgetInv
<1>6. CASE CheckAgain
  BY <1>0, <1>6, LeftBounds, Times DEF CheckAgain, Answer, Unreachable, BudgetInv
<1>7. ASSUME NEW e \in CheckErrors, CheckFails(e) PROVE BudgetInv'
  BY <1>0, <1>7, WaitWithinBudget, Times
     DEF CheckFails, Answer, Unreachable, BudgetInv
<1>8. CASE HomepageArrives
  BY <1>0, <1>8, WaitWithinBudget, Times DEF HomepageArrives, AttemptCap, BudgetInv
<1>9. CASE HomepageBlocked
  BY <1>0, <1>9, WaitWithinBudget, Times
     DEF HomepageBlocked, AttemptCap, Answer, BudgetInv
<1>10. CASE AttemptAgain
  BY <1>0, <1>10, Times DEF AttemptAgain, BudgetInv
<1>11. CASE SkipFallback
  BY <1>0, <1>11 DEF SkipFallback, BudgetInv
<1>12. CASE JSFallback
  BY <1>0, <1>12, WaitWithinBudget, Times DEF JSFallback, BudgetInv
<1>13. CASE VerifyAndAnswer
  BY <1>0, <1>13, WaitWithinBudget, Times
     DEF VerifyAndAnswer, VerifyCap, Conclude, Answer, BudgetInv
<1>14. CASE Done \/ UNCHANGED vars
  BY <1>14 DEF Done, vars, BudgetInv
<1> QED
  BY <1>1, <1>2, <1>3, <1>4, <1>5, <1>6, <1>7, <1>8, <1>9, <1>10, <1>11, <1>12, <1>13, <1>14,
     AttemptWithinBudget DEF Next

(* Whatever the deadlines, retries and fallbacks, the request ends inside  *)
(* its budget (WithinBudget; handler_helpers.go 180-214).                  *)
THEOREM BudgetKept == Spec => []WithinBudget
<1>1. ASSUME Init PROVE BudgetInv
  <2>1. clock = 0 /\ stage = "parse"
    BY <1>1, Zenon DEF Init
  <2> QED
    BY <2>1, Times DEF BudgetInv
<1>2. BudgetInv => WithinBudget
  BY DEF BudgetInv, WithinBudget
<1> QED
  BY <1>1, <1>2, BudgetStep, PTL DEF Spec

-----------------------------------------------------------------------------
(* An answer keeps what the response says, and gives it a status.          *)
LEMMA WrittenShape ==
  \A r, http : DOMAIN r = Fields =>
    /\ DOMAIN Written(r, http) = Fields
    /\ r.status = "" => Written(r, http).status = "ok"
    /\ r.status # "" => Written(r, http).status = r.status
    /\ r.status # "" /\ r.result # "" => Written(r, http).result = r.result
<1> TAKE r, http
<1> HAVE DOMAIN r = Fields
<1> DEFINE stamp  == IF r.status = "" THEN "ok" ELSE r.status
           result == IF r.result = "" /\ http = 200 THEN "ok" ELSE r.result
           w == [r EXCEPT !.http = http, !.status = stamp, !.result = result]
<1>1. Written(r, http) = w
  BY DEF Written, Fields
<1>2. DOMAIN w = Fields /\ w.status = stamp /\ w.result = result
  BY DEF Fields
<1> HIDE DEF w
<1> QED
  BY <1>1, <1>2

LEMMA OutcomeOfError == \A e : ClassifyFetchError(e) # ""
BY DEF ClassifyFetchError

(* Giving up reports the error it is given.                                *)
LEMMA GivesUpWith ==
  ASSUME DOMAIN resp = Fields, NEW e, Unreachable(e)
  PROVE  /\ DOMAIN resp' = Fields /\ stage' = "answered"
         /\ resp'.result = ClassifyFetchError(e)
<1> DEFINE outcome == ClassifyFetchError(e)
           r == [resp EXCEPT !.status = "unreachable", !.result = outcome, !.verdict = "unknown"]
<1>1. outcome # ""
  BY OutcomeOfError
<1>2. DOMAIN r = Fields /\ r.status = "unreachable" /\ r.result = outcome
  BY DEF Fields
<1>3. stage' = "answered" /\ resp' = Written(r, OutcomeCode(outcome))
  BY DEF Unreachable, Answer
<1> HIDE DEF r, outcome
<1>4. DOMAIN resp' = Fields /\ resp'.result = outcome
  BY <1>1, <1>2, <1>3, WrittenShape
<1> QED
  BY <1>3, <1>4 DEF outcome

LEMMA GivingUpIsHonest ==
  ASSUME DOMAIN resp = Fields, Unreachable(firstErr')
  PROVE  ErrorInv'
<1>1. DOMAIN resp' = Fields /\ stage' = "answered" /\ resp'.result = ClassifyFetchError(firstErr')
  BY GivesUpWith
<1> QED
  BY <1>1 DEF ErrorInv, Honest

(* Any other answer does not speak of an unreachable site.                 *)
LEMMA AnswersOtherwise ==
  ASSUME NEW r, DOMAIN r = Fields, NEW http, Answer(r, http), r.status # "unreachable"
  PROVE  ErrorInv'
<1>1. stage' = "answered" /\ resp' = Written(r, http)
  BY DEF Answer
<1>2. DOMAIN resp' = Fields /\ resp'.status # "unreachable"
  BY <1>1, WrittenShape
<1> QED
  BY <1>1, <1>2 DEF ErrorInv, Honest

(* A step short of the answer leaves the response without a status.        *)
LEMMA GoesOn ==
  ASSUME ErrorInv, DOMAIN resp' = Fields, resp'.status = "", stage' \notin {"parse", "answered"}
  PROVE  ErrorInv'
BY DEF ErrorInv, Honest

LEMMA Unwritten ==
  ASSUME ErrorInv, stage # "answered"
  PROVE  DOMAIN resp = Fields /\ resp.status = ""
BY DEF ErrorInv

LEMMA ErrorAttempt ==
  ASSUME ErrorInv, NEW e \in FetchErrors, NEW spent \in Durations \cup {AttemptCap},
         AttemptFails(e, spent)
  PROVE  ErrorInv'
<1>0. DOMAIN resp = Fields /\ resp.status = ""
  BY Unwritten DEF AttemptFails
<1>1. ASSUME NEW left, NextOrigin(e, left) PROVE ErrorInv'
  <2>1. CASE stage' = "fetch" /\ UNCHANGED resp
    BY <1>0, <2>1, GoesOn
  <2>2. CASE Unreachable(firstErr')
    BY <1>0, <2>2, GivingUpIsHonest
  <2>3. \/ stage' = "fetch" /\ UNCHANGED resp
        \/ Unreachable(firstErr')
    BY <1>1 DEF NextOrigin
  <2> QED
    BY <2>1, <2>2, <2>3
<1>2. CASE stage' = "pause" /\ UNCHANGED resp
  BY <1>0, <1>2, GoesOn
<1> QED
  BY <1>1, <1>2 DEF AttemptFails

LEMMA ErrorStep == ErrorInv /\ [Next]_vars => ErrorInv'
<1> SUFFICES ASSUME ErrorInv, [Next]_vars PROVE ErrorInv'
  OBVIOUS
<1>0. DOMAIN resp = Fields
  BY DEF ErrorInv
<1>1. CASE BadRequest
  BY <1>1, Unwritten, AnswersOtherwise DEF BadRequest
<1>2. CASE Acquire
  BY <1>2, Unwritten, GoesOn DEF Acquire
<1>3. CASE Overloaded
  <2> DEFINE r == [resp EXCEPT !.status = "unreachable", !.result = "error", !.verdict = "unknown"]
             http == 503
  <2>1. DOMAIN r = Fields
    BY <1>0
  <2>2. stage' = "answered" /\ resp' = Written(r, http)
    BY <1>3 DEF Overloaded, Answer
  <2>3. firstErr' = NoError
    BY <1>3 DEF Overloaded, ErrorInv
  <2> HIDE DEF r, http
  <2>4. DOMAIN resp' = Fields
    BY <2>1, <2>2, WrittenShape
  <2> QED
    BY <2>2, <2>3, <2>4 DEF ErrorInv, Honest
<1>4. CASE CheckPasses
  <2>1. DOMAIN resp = Fields /\ resp.status = "" /\ stage' = "fetch"
    BY <1>4, Unwritten DEF CheckPasses, Checking
  <2>2. UNCHANGED resp \/ resp' = [resp EXCEPT !.fallback = "www"]
    BY <1>4 DEF CheckPasses
  <2>3. DOMAIN resp' = Fields /\ resp'.status = ""
    BY <2>1, <2>2 DEF Fields
  <2> QED
    BY <2>1, <2>3, GoesOn
<1>5. CASE CheckRejects
  <2>1. CASE Answer([resp EXCEPT !.verdict = "unknown"], 400)
    <3> DEFINE r == [resp EXCEPT !.verdict = "unknown"]
    <3>1. DOMAIN resp = Fields /\ resp.status = ""
      BY <1>5, Unwritten DEF CheckRejects, Checking
    <3>2. DOMAIN r = Fields /\ r.status = ""
      BY <3>1 DEF Fields
    <3>3. Answer(r, 400)
      BY <2>1
    <3> HIDE DEF r
    <3> QED
      BY <3>2, <3>3, AnswersOtherwise
  <2>2. CASE Unreachable(firstErr) /\ firstErr' = firstErr
    BY <1>0, <2>2, GivingUpIsHonest
  <2> QED
    BY <1>5, <2>1, <2>2 DEF CheckRejects
<1>6. CASE CheckAgain
  <2>1. CASE Unreachable(firstErr) /\ firstErr' = firstErr
    BY <1>0, <2>1, GivingUpIsHonest
  <2>2. CASE stage' \in {"check", "checkWWW"} /\ UNCHANGED resp
    BY <1>6, <2>2, Unwritten, GoesOn DEF CheckAgain
  <2> QED
    BY <1>6, <2>1, <2>2 DEF CheckAgain
<1>7. ASSUME NEW e \in CheckErrors, CheckFails(e) PROVE ErrorInv'
  <2>1. CASE Unreachable(firstErr')
    BY <1>0, <2>1, GivingUpIsHonest
  <2>2. CASE stage' \in {"checkPause", "checkWWWPause", "checkWWW"} /\ UNCHANGED resp
    BY <1>7, <2>2, Unwritten, GoesOn DEF CheckFails, Checking
  <2> QED
    BY <1>7, <2>1, <2>2 DEF CheckFails
<1>8. CASE HomepageArrives
  <2>1. DOMAIN resp = Fields /\ resp.status = "" /\ stage' = "fallback"
    BY <1>8, Unwritten DEF HomepageArrives
  <2>2. PICK f, o : resp' = [resp EXCEPT !.homepageFetched = TRUE, !.fallback = f, !.offsite = o]
    BY <1>8 DEF HomepageArrives
  <2>3. DOMAIN resp' = Fields /\ resp'.status = ""
    BY <2>1, <2>2 DEF Fields
  <2> QED
    BY <2>1, <2>3, GoesOn
<1>9. CASE HomepageBlocked
  <2> DEFINE f == IF tries[idx] = "" THEN resp.fallback ELSE tries[idx]
             r == [resp EXCEPT !.homepageFetched = TRUE, !.fallback = f,
                               !.status = "blocked", !.result = "error", !.verdict = "unknown"]
  <2>1. Answer(r, 502)
    BY <1>9 DEF HomepageBlocked
  <2> HIDE DEF f
  <2>2. DOMAIN r = Fields /\ r.status = "blocked"
    BY <1>0 DEF Fields
  <2> HIDE DEF r
  <2> QED
    BY <2>1, <2>2, AnswersOtherwise
<1>10. CASE AttemptAgain
  BY <1>10, Unwritten, GoesOn DEF AttemptAgain
<1>11. CASE SkipFallback
  BY <1>11, Unwritten, GoesOn DEF SkipFallback
<1>12. CASE JSFallback
  <2>1. DOMAIN resp = Fields /\ resp.status = "" /\ stage' = "verify"
    BY <1>12, Unwritten DEF JSFallback
  <2>2. resp' = [resp EXCEPT !.jsAttempted = TRUE]
    BY <1>12 DEF JSFallback
  <2>3. DOMAIN resp' = Fields /\ resp'.status = ""
    BY <2>1, <2>2 DEF Fields
  <2> QED
    BY <2>1, <2>3, GoesOn
<1>13. CASE VerifyAndAnswer
  <2>1. DOMAIN resp = Fields /\ resp.status = ""
    BY <1>13, Unwritten DEF VerifyAndAnswer
  <2>2. PICK found \in 0..1, exhausted \in BOOLEAN : Conclude(found, exhausted)
    BY <1>13 DEF VerifyAndAnswer
  <2> DEFINE r == [resp EXCEPT !.found = found, !.budgetExhausted = exhausted]
             none == [r EXCEPT !.status = "no_data", !.result = "no_data", !.verdict = "none"]
             some == [r EXCEPT !.verdict = "sparse"]
  <2>3. DOMAIN none = Fields /\ none.status = "no_data" /\ DOMAIN some = Fields /\ some.status = ""
    BY <2>1 DEF Fields
  <2>4. Answer(none, 404) \/ Answer(some, 200)
    BY <2>2 DEF Conclude
  <2> HIDE DEF none, some
  <2> QED
    BY <2>3, <2>4, AnswersOtherwise
<1>14. CASE Done \/ UNCHANGED vars
  BY <1>14 DEF Done, vars, ErrorInv, Honest
<1> QED
  BY <1>1, <1>2, <1>3, <1>4, <1>5, <1>6, <1>7, <1>8, <1>9, <1>10, <1>11, <1>12, <1>13, <1>14,
     ErrorAttempt DEF Next

(* However many origins were tried, the answer of an unreachable site is   *)
(* about the failure of the one asked for (FirstFailureReported;           *)
(* handler_helpers.go 180-214).                                            *)
THEOREM FirstFailureStands == Spec => []FirstFailureReported
<1>1. ASSUME Init PROVE ErrorInv
  <2>1. stage = "parse" /\ firstErr = NoError /\ resp = Blank
    BY <1>1, Zenon DEF Init
  <2>2. DOMAIN Blank = Fields /\ Blank.status = ""
    BY DEF Blank, Fields
  <2> QED
    BY <2>1, <2>2 DEF ErrorInv, Honest
<1>2. ErrorInv => FirstFailureReported
  BY DEF ErrorInv, Honest, FirstFailureReported
<1> QED
  BY <1>1, <1>2, ErrorStep, PTL DEF Spec

=============================================================================
