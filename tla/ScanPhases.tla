----------------------------- MODULE ScanPhases -----------------------------
(***************************************************************************)
(* The concurrent heart of one scan (handler_helpers.go, Handler from      *)
(* "Phase 2/3 run CONCURRENTLY", scanState and verifyLink): canonical-path *)
(* probes for the types the homepage does not link, and the verification   *)
(* of every linked document, run side by side.  Each phase is a launching  *)
(* goroutine and a bounded set of workers; the workers share the           *)
(* scanState (rate-limit flag, fingerprint table, one control page) and    *)
(* the map of probe hits.  The Handler waits for both phases and then      *)
(* wraps the scan up into a response.                                      *)
(*                                                                         *)
(* A definition named X_Fault is X with a plausible bug.  No specification *)
(* uses it; it serves to see that the properties can tell the difference.  *)
(*                                                                         *)
(* A step below stands for the code between two points at which another    *)
(* goroutine can matter: a fetch returning, or one access to shared state. *)
(* What a page answers is chosen when the fetch returns.                   *)
(***************************************************************************)
EXTENDS Report, Sequences

CONSTANTS
  Plan,         \* probePlan unrolled: the type each canonical path is tried for
  MaxProbes,    \* cap on the probes of one scan
  ProbeWorkers, LinkWorkers,
  LinkHits,     \* what linkScan can find for a type: unverified findings
  NoResponse

Ranks == DOMAIN Plan

NoHit == 0      \* probedHits has no entry for the type

ASSUME PlanAssumption ==
  /\ Plan \in Seq(Types \ Hubs)
  /\ MaxProbes \in Nat
  /\ ProbeWorkers \in Nat \ {0} /\ LinkWorkers \in Nat \ {0}
  /\ Ranks \subseteq URLs    \* the URL of a probed path is named by its rank
  /\ LinkHits \subseteq
       [source : {"footer_link", "page_link"}, named : BOOLEAN,
        floor : {"low", "medium"}, url : URLs, conf : {""},
        evidence : {{}}, status : {0}, rejected : {FALSE}]

VARIABLES
  linkHits,       \* linkScan's result: a finding per linked type
  probePc,        \* where the goroutine of each planned probe is
  probePage,      \* the page a probe is holding, or was accepted with
  probedHits,     \* per type, the rank of the hit kept so far, or NoHit
  probedCount, rejectedCount,
  rateLimited,    \* scanState.rateLimited
  fpTypes,        \* scanState.fpTypes
  ctrl, ctrlView, \* scanState.control: the once-only control page
  linkPc, linkResults,
  expired,        \* the phases whose context has ended
  response

probeVars == <<probePc, probePage, probedHits, probedCount, rejectedCount, fpTypes>>
ctrlVars  == <<ctrl, ctrlView>>
linkVars  == <<linkPc, linkResults>>
vars == <<linkHits, probeVars, rateLimited, ctrlVars, linkVars, expired, response>>

-----------------------------------------------------------------------------
Linked == DOMAIN linkHits

(* allCanonicalProbes: the planned paths of the types not linked, capped.  *)
Wanted_EveryType(i, L) == i \in Ranks

Wanted(i, L) == Plan[i] \notin L

Planned(L) ==
  {i \in Ranks : Wanted(i, L) /\ Cardinality({j \in Ranks : j < i /\ Wanted(j, L)}) < MaxProbes}

Init ==
  /\ \E L \in SUBSET Types : linkHits \in [L -> LinkHits]
  /\ \A t \in Linked \cap Hubs : linkHits[t].floor = "low"   \* classifyLinkEvidence
  /\ probePc = [i \in Ranks |-> IF i \in Planned(Linked) THEN "queued" ELSE "unplanned"]
  /\ probePage = [i \in Ranks |-> NoView]
  /\ probedHits = [t \in Types |-> NoHit]
  /\ probedCount = 0 /\ rejectedCount = 0
  /\ rateLimited = FALSE
  /\ fpTypes = [fp \in Fingerprints |-> {}]
  /\ ctrl = "unused" /\ ctrlView = NoView
  /\ linkPc = [t \in Linked |-> "queued"]
  /\ linkResults = linkHits
  /\ expired = {}
  /\ response = NoResponse

-----------------------------------------------------------------------------
(* Probe launcher.  It walks the plan in order, passes over a candidate    *)
(* whose type is already satisfied (or everything, once rate limited or    *)
(* out of time), and otherwise blocks in g.Go until a worker is free.      *)
(* Its three reads (the hits, the flag, the context) are one step, and so  *)
(* are the two of the recheck: all they ask about only ever becomes true,  *)
(* so a check that passes counts as made at its first read and one that    *)
(* fails as made at its last.                                              *)
Satisfied(i) == probedHits[Plan[i]] # NoHit

ActiveProbes == {i \in Ranks : probePc[i] \in {"started", "fetching", "echo"}}

NextInPlan(i) ==
  /\ probePc[i] = "queued"
  /\ \A j \in Ranks : j < i => probePc[j] # "queued"
  /\ \A j \in Ranks : probePc[j] # "blocked"

LaunchSkip_AnyHit(i) ==
  /\ NextInPlan(i)
  /\ (\E t \in Types : probedHits[t] # NoHit) \/ rateLimited \/ "probe" \in expired
  /\ probePc' = [probePc EXCEPT ![i] = "skipped"]
  /\ UNCHANGED <<linkHits, probePage, probedHits, probedCount, rejectedCount, fpTypes,
                 rateLimited, ctrlVars, linkVars, expired, response>>

LaunchSkip(i) ==
  /\ NextInPlan(i)
  /\ Satisfied(i) \/ rateLimited \/ "probe" \in expired
  /\ probePc' = [probePc EXCEPT ![i] = "skipped"]
  /\ UNCHANGED <<linkHits, probePage, probedHits, probedCount, rejectedCount, fpTypes,
                 rateLimited, ctrlVars, linkVars, expired, response>>

LaunchBlock(i) ==
  /\ NextInPlan(i)
  /\ ~(Satisfied(i) \/ rateLimited \/ "probe" \in expired)
  /\ probePc' = [probePc EXCEPT ![i] = "blocked"]
  /\ UNCHANGED <<linkHits, probePage, probedHits, probedCount, rejectedCount, fpTypes,
                 rateLimited, ctrlVars, linkVars, expired, response>>

LaunchGo_NoLimit(i) ==
  /\ probePc[i] = "blocked"
  /\ probePc' = [probePc EXCEPT ![i] = "started"]
  /\ UNCHANGED <<linkHits, probePage, probedHits, probedCount, rejectedCount, fpTypes,
                 rateLimited, ctrlVars, linkVars, expired, response>>

LaunchGo(i) ==
  /\ probePc[i] = "blocked"
  /\ Cardinality(ActiveProbes) < ProbeWorkers
  /\ probePc' = [probePc EXCEPT ![i] = "started"]
  /\ UNCHANGED <<linkHits, probePage, probedHits, probedCount, rejectedCount, fpTypes,
                 rateLimited, ctrlVars, linkVars, expired, response>>

-----------------------------------------------------------------------------
(* Probe worker: recheck, fetch, classify, compare with the control page,  *)
(* keep the better hit.                                                    *)
ProbeRecheck_Omitted(i) ==
  /\ probePc[i] = "started"
  /\ probePc' = [probePc EXCEPT ![i] = "fetching"]
  /\ UNCHANGED <<linkHits, probePage, probedHits, probedCount, rejectedCount, fpTypes,
                 rateLimited, ctrlVars, linkVars, expired, response>>

ProbeRecheck(i) ==
  /\ probePc[i] = "started"
  /\ probePc' = [probePc EXCEPT ![i] = IF Satisfied(i) \/ rateLimited
                                       THEN "skipped" ELSE "fetching"]
  /\ UNCHANGED <<linkHits, probePage, probedHits, probedCount, rejectedCount, fpTypes,
                 rateLimited, ctrlVars, linkVars, expired, response>>

(* The fetch failed, or the answer is not a page.                          *)
ProbeLost_Uncounted(i, a) ==
  /\ probePc[i] = "fetching"
  /\ a.err \/ ~Success(a.status)
  /\ probePc' = [probePc EXCEPT ![i] = "lost"]
  /\ probedCount' = IF a.err THEN probedCount ELSE probedCount + 1
  /\ rateLimited' = (rateLimited \/ (~a.err /\ LimitStatus(a.status)))
  /\ UNCHANGED <<linkHits, probePage, probedHits, rejectedCount, fpTypes,
                 ctrlVars, linkVars, expired, response>>

ProbeLost(i, a) ==
  /\ probePc[i] = "fetching"
  /\ a.err \/ ~Success(a.status)
  /\ probePc' = [probePc EXCEPT ![i] = "lost"]
  /\ probedCount' = probedCount + 1
  /\ rateLimited' = (rateLimited \/ (~a.err /\ LimitStatus(a.status)))
  /\ UNCHANGED <<linkHits, probePage, probedHits, rejectedCount, fpTypes,
                 ctrlVars, linkVars, expired, response>>

(* A page.  A real one leaves its fingerprint in the table even when it is *)
(* then rejected; one that survives goes on to the control comparison.     *)
ProbeClassify(i, a) ==
  LET t == Plan[i] IN
  /\ probePc[i] = "fetching"
  /\ ~a.err /\ Success(a.status)
  /\ probedCount' = probedCount + 1
  /\ fpTypes' = IF classifyView(a.view, t).real
                THEN [fpTypes EXCEPT ![a.view.fp] = @ \cup {t}] ELSE fpTypes
  /\ \/ /\ ProbeRejects(a.view, t)
        /\ probePc' = [probePc EXCEPT ![i] = "rejected"]
        /\ rejectedCount' = rejectedCount + 1
        /\ UNCHANGED probePage
     \/ /\ ~ProbeRejects(a.view, t)
        /\ probePc' = [probePc EXCEPT ![i] = "echo"]
        /\ probePage' = [probePage EXCEPT ![i] = a.view]
        /\ UNCHANGED rejectedCount
  /\ UNCHANGED <<linkHits, probedHits, rateLimited, ctrlVars, linkVars, expired, response>>

(* sync.Once: the first worker to need the control page fetches it, the    *)
(* others wait.  A failed control is remembered as such, never retried,    *)
(* and its status is not looked at for rate limiting.                      *)
ControlFetch ==
  /\ ctrl = "unused"
  /\ \E i \in Ranks : probePc[i] = "echo"
  /\ ctrl' = "fetching"
  /\ UNCHANGED <<linkHits, probeVars, rateLimited, ctrlView, linkVars, expired, response>>

ControlAnswer_RetryOnFailure(a) ==
  /\ ctrl = "fetching"
  /\ \/ /\ a.err \/ ~Success(a.status)
        /\ ctrl' = "unused"
        /\ UNCHANGED ctrlView
     \/ /\ ~a.err /\ Success(a.status)
        /\ ctrl' = "ready"
        /\ ctrlView' = a.view
  /\ UNCHANGED <<linkHits, probeVars, rateLimited, linkVars, expired, response>>

ControlAnswer(a) ==
  /\ ctrl = "fetching"
  /\ \/ /\ a.err \/ ~Success(a.status)
        /\ ctrl' = "failed"
        /\ UNCHANGED ctrlView
     \/ /\ ~a.err /\ Success(a.status)
        /\ ctrl' = "ready"
        /\ ctrlView' = a.view
  /\ UNCHANGED <<linkHits, probeVars, rateLimited, linkVars, expired, response>>

Echoes(i) == ctrl = "ready" /\ isTemplateEcho(probePage[i], ctrlView)

ProbeEcho_Uncounts(i) ==
  /\ probePc[i] = "echo"
  /\ Echoes(i)
  /\ probePc' = [probePc EXCEPT ![i] = "rejected"]
  /\ probePage' = [probePage EXCEPT ![i] = NoView]
  /\ rejectedCount' = rejectedCount - 1
  /\ UNCHANGED <<linkHits, probedHits, probedCount, fpTypes, rateLimited,
                 ctrlVars, linkVars, expired, response>>

ProbeEcho(i) ==
  /\ probePc[i] = "echo"
  /\ Echoes(i)
  /\ probePc' = [probePc EXCEPT ![i] = "rejected"]
  /\ probePage' = [probePage EXCEPT ![i] = NoView]
  /\ rejectedCount' = rejectedCount + 1
  /\ UNCHANGED <<linkHits, probedHits, probedCount, fpTypes, rateLimited,
                 ctrlVars, linkVars, expired, response>>

ConfOf(i) == classifyView(probePage[i], Plan[i]).conf

(* Rank i beats rank j: more confident, or as confident and earlier.       *)
Beats(i, j) ==
  \/ confidenceRank(ConfOf(i)) > confidenceRank(ConfOf(j))
  \/ /\ confidenceRank(ConfOf(i)) = confidenceRank(ConfOf(j))
     /\ i < j

ProbeStore_LastWins(i) ==
  /\ probePc[i] = "echo"
  /\ ctrl \in {"ready", "failed"}
  /\ ~Echoes(i)
  /\ probePc' = [probePc EXCEPT ![i] = "accepted"]
  /\ probedHits' = [probedHits EXCEPT ![Plan[i]] = i]
  /\ UNCHANGED <<linkHits, probePage, probedCount, rejectedCount, fpTypes, rateLimited,
                 ctrlVars, linkVars, expired, response>>

ProbeStore(i) ==
  LET t == Plan[i] IN
  /\ probePc[i] = "echo"
  /\ ctrl \in {"ready", "failed"}
  /\ ~Echoes(i)
  /\ probePc' = [probePc EXCEPT ![i] = "accepted"]
  /\ probedHits' = IF probedHits[t] = NoHit \/ Beats(i, probedHits[t])
                   THEN [probedHits EXCEPT ![t] = i] ELSE probedHits
  /\ UNCHANGED <<linkHits, probePage, probedCount, rejectedCount, fpTypes, rateLimited,
                 ctrlVars, linkVars, expired, response>>

-----------------------------------------------------------------------------
(* Link phase.  The launcher ranges over a map, so in any order; it never  *)
(* skips, and a worker whose context has ended merely fails its fetch.     *)
ActiveLinks == {t \in Linked : linkPc[t] = "fetching"}

LinkGo(t) ==
  /\ linkPc[t] = "queued"
  /\ Cardinality(ActiveLinks) < LinkWorkers
  /\ linkPc' = [linkPc EXCEPT ![t] = "fetching"]
  /\ UNCHANGED <<linkHits, probeVars, rateLimited, ctrlVars, linkResults, expired, response>>

LinkAnswer(t, a) ==
  /\ linkPc[t] = "fetching"
  /\ linkPc' = [linkPc EXCEPT ![t] = "done"]
  /\ linkResults' = [linkResults EXCEPT ![t] = verifyLink(t, linkHits[t], a)]
  /\ rateLimited' = (rateLimited \/ LinkLimits(a))
  /\ UNCHANGED <<linkHits, probeVars, ctrlVars, expired, response>>

-----------------------------------------------------------------------------
(* A phase's deadline passes, or the request's own context ends.           *)
Expire(phase) ==
  /\ response = NoResponse
  /\ phase \notin expired
  /\ expired' = expired \cup {phase}
  /\ UNCHANGED <<linkHits, probeVars, rateLimited, ctrlVars, linkVars, response>>

-----------------------------------------------------------------------------
Finished == {"unplanned", "skipped", "lost", "rejected", "accepted"}

PhasesOver_LinksOnly == \A t \in Linked : linkPc[t] = "done"

PhasesOver ==
  /\ \A i \in Ranks : probePc[i] \in Finished
  /\ \A t \in Linked : linkPc[t] = "done"

(* Of a probe's status only that it was a success matters: 200 stands for  *)
(* any 2xx or 3xx.                                                         *)
ProbeFinding(i) ==
  [source |-> "probed_path", named |-> FALSE, floor |-> "", url |-> i,
   conf |-> ConfOf(i), evidence |-> classifyView(probePage[i], Plan[i]).evidence,
   status |-> 200, rejected |-> FALSE]

HitTypes == {t \in Types : probedHits[t] # NoHit}

CatchAllTypes == {t \in HitTypes : catchAll(probePage[probedHits[t]].fp, fpTypes)}

KeptTypes_NothingDeleted == HitTypes

KeptTypes == HitTypes \ CatchAllTypes

ScanResult ==
  LET probed == [t \in KeptTypes |-> ProbeFinding(probedHits[t])]
  IN  BuildResponse(probed, linkResults, probedCount,
                    rejectedCount + Cardinality(CatchAllTypes), rateLimited, expired # {})

(* wg.Wait has returned: only the Handler's own goroutine runs from here.  *)
WrapUp ==
  /\ response = NoResponse
  /\ PhasesOver
  /\ response' = ScanResult
  /\ UNCHANGED <<linkHits, probeVars, rateLimited, ctrlVars, linkVars, expired>>

Answered == response # NoResponse /\ UNCHANGED vars

-----------------------------------------------------------------------------
ProbeStep(i) ==
  \/ LaunchSkip(i) \/ LaunchBlock(i) \/ LaunchGo(i) \/ ProbeRecheck(i)
  \/ \E a \in Answers : ProbeLost(i, a) \/ ProbeClassify(i, a)
  \/ ProbeEcho(i) \/ ProbeStore(i)

ControlStep == ControlFetch \/ \E a \in Answers : ControlAnswer(a)

LinkStep(t) == LinkGo(t) \/ \E a \in Answers : LinkAnswer(t, a)

Next ==
  \/ \E i \in Ranks : ProbeStep(i)
  \/ ControlStep
  \/ \E t \in Linked : LinkStep(t)
  \/ \E phase \in {"probe", "link"} : Expire(phase)
  \/ WrapUp
  \/ Answered

(* Every fetch returns: each is bounded by its phase's deadline and by the *)
(* client's own timeout.  A deadline need not pass for that.               *)
Fairness ==
  /\ \A i \in Ranks : WF_vars(ProbeStep(i))
  /\ WF_vars(ControlStep)
  /\ \A t \in Types : WF_vars(t \in Linked /\ LinkStep(t))
  /\ WF_vars(WrapUp)

Spec == Init /\ [][Next]_vars /\ Fairness

=============================================================================
