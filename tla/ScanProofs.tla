----------------------------- MODULE ScanProofs -----------------------------
(***************************************************************************)
(* The verification phases, for any plan, any pages and statuses, any      *)
(* number of workers and any links: the hits the workers agree on; then,   *)
(* as seen from the response, how many fetches they hold, what they        *)
(* counted, and what the documents they report rest on.                    *)
(*                                                                         *)
(* From these invariants follows the result of a scan.  The phases and the *)
(* wrap-up implement the abstract search for documents.  The response is   *)
(* held against itself and against what the scan has met: its counts of    *)
(* probes, of rejections and of documents agree with the documents it      *)
(* lists; the flag that stops speculation was raised by a refusal; and a   *)
(* link that could not be seen is not lost.  Last, a scan of a site that   *)
(* does not change finds the types the site has, in any order of the       *)
(* workers.                                                                *)
(***************************************************************************)
EXTENDS ScanHistory, SiteScan, FiniteSetTheorems, SequenceTheorems, TLAPS

-----------------------------------------------------------------------------
(* The helpers return what their callers store.                            *)

(* The plan names types; its ranks are the positive numbers up to its      *)
(* length, none of them NoHit.                                             *)
LEMMA PlanShape ==
  /\ Ranks \subseteq Nat \ {0}
  /\ IsFiniteSet(Ranks)
  /\ \A i \in Ranks : Plan[i] \in Types \ Hubs
<1>0. Plan \in Seq(Types \ Hubs)
  BY PlanAssumption
<1>1. Ranks = 1..Len(Plan) /\ Len(Plan) \in Nat
  BY <1>0, LenProperties DEF Ranks
<1>2. IsFiniteSet(1..Len(Plan))
  BY <1>1, FS_Interval
<1>3. \A i \in Ranks : Plan[i] \in Types \ Hubs
  BY <1>0, <1>1, ElementOfSeq
<1> QED
  BY <1>1, <1>2, <1>3

(* Only a successful answer carries a page.                                *)
LEMMA AnswerShape ==
  ASSUME NEW a \in Answers
  PROVE  /\ a.err \in BOOLEAN /\ a.status \in Nat
         /\ ~a.err /\ Success(a.status) => a.view \in Pages
<1>0. Statuses \subseteq Nat
  BY AnswersAssumption
<1>1. CASE a = FetchError
  BY <1>1 DEF FetchError
<1>2. CASE a \in [err : {FALSE}, status : {s \in Statuses : Success(s)}, view : Pages]
  <2>1. a.status \in Statuses
    BY <1>2
  <2> QED
    BY <1>0, <1>2, <2>1
<1>3. CASE a \in [err : {FALSE}, status : {s \in Statuses : ~Success(s)}, view : {NoView}]
  <2>1. a.status \in Statuses /\ ~Success(a.status) /\ a.err = FALSE
    BY <1>3
  <2> QED
    BY <1>0, <2>1
<1> QED
  BY <1>1, <1>2, <1>3 DEF Answers

(* The classifier's assessment of a page.                                  *)
LEMMA ClassifyShape ==
  ASSUME NEW v, NEW t
  PROVE  /\ classifyView(v, t).real \in BOOLEAN
         /\ classifyView(v, t).conf \in Confidences \ {""}
         /\ classifyView(v, t).evidence \subseteq EvidenceTokens
BY DEF classifyView, NotReal, Assessment, Confidences, EvidenceTokens

(* What linkScan finds is a finding.                                       *)
LEMMA LinkHitsAreFindings == LinkHits \subseteq Findings
<1> SUFFICES ASSUME NEW hit \in LinkHits PROVE hit \in Findings
  OBVIOUS
<1>1. hit \in [source : {"footer_link", "page_link"}, named : BOOLEAN,
               floor : {"low", "medium"}, url : URLs, conf : {""},
               evidence : {{}}, status : {0}, rejected : {FALSE}]
  BY PlanAssumption
<1>2. /\ {{}} \subseteq SUBSET EvidenceTokens
      /\ {"footer_link", "page_link"} \subseteq Sources
      /\ {"low", "medium"} \subseteq Confidences /\ {""} \subseteq Confidences
      /\ {0} \subseteq Nat /\ {FALSE} \subseteq BOOLEAN
  BY DEF Sources, Confidences
<1> QED
  BY <1>1, <1>2 DEF Findings

(* Verifying a link keeps it a finding, from where it was found.           *)
LEMMA VerifyLinkShape ==
  ASSUME NEW t, NEW hit \in LinkHits, NEW a \in Answers
  PROVE  /\ verifyLink(t, hit, a) \in Findings
         /\ verifyLink(t, hit, a).source = hit.source
<1>1. hit \in Findings
  BY LinkHitsAreFindings
<1>2. ASSUME NEW c1 \in Confidences, NEW c2 \in Confidences
      PROVE  AtLeast(c1, c2) \in Confidences
  BY <1>2 DEF AtLeast
<1>3. CASE TargetUnseen(a)
  <2>1. verifyLink(t, hit, a) = Unverified(hit)
    BY <1>3 DEF verifyLink
  <2>2. Unverified(hit) \in Findings /\ Unverified(hit).source = hit.source
    BY <1>1, <1>2 DEF Unverified, Findings, EvidenceTokens, Confidences
  <2> QED
    BY <2>1, <2>2
<1>4. ASSUME NEW n \in Nat
      PROVE  DeadLink(hit, n) \in Findings /\ DeadLink(hit, n).source = hit.source
  BY <1>1 DEF DeadLink, Findings, Confidences
<1>5. CASE ~TargetUnseen(a) /\ Success(a.status)
  <2> DEFINE vr == classifyView(a.view, t)
  <2>1. verifyLink(t, hit, a) = VerifiedLink(t, hit, a.status, a.view)
    BY <1>5 DEF verifyLink
  <2>2. a.status \in Nat
    BY AnswerShape
  <2>3. vr.conf \in Confidences /\ vr.evidence \subseteq EvidenceTokens
    BY ClassifyShape
  <2>4. AtLeast(vr.conf, hit.floor) \in Confidences
    BY <1>1, <1>2, <2>3 DEF Findings
  <2>5. "low" \in Confidences /\ "page_exists_unconfirmed" \in EvidenceTokens
    BY DEF Confidences, EvidenceTokens
  <2> HIDE DEF vr
  <2>6. /\ VerifiedLink(t, hit, a.status, a.view) \in Findings
        /\ VerifiedLink(t, hit, a.status, a.view).source = hit.source
    BY <1>1, <1>4, <2>2, <2>3, <2>4, <2>5 DEF VerifiedLink, Findings, vr
  <2> QED
    BY <2>1, <2>6
<1>6. CASE ~TargetUnseen(a) /\ ~Success(a.status)
  BY <1>4, <1>6, AnswerShape DEF verifyLink
<1> QED
  BY <1>3, <1>5, <1>6

-----------------------------------------------------------------------------
(* Typing                                                                  *)

(* A scan starts well typed.                                               *)
LEMMA InitTyped == Init => TypeOK
<1> SUFFICES ASSUME Init PROVE TypeOK
  OBVIOUS
<1>1. PICK L \in SUBSET Types : linkHits \in [L -> LinkHits]
  BY DEF Init
<1>2. Linked = L
  BY <1>1 DEF Linked
<1>3. linkHits \in [Linked -> LinkHits] /\ Linked \subseteq Types
  BY <1>1, <1>2
<1>4. linkResults \in [Linked -> Findings]
  <2>1. linkResults = linkHits
    BY DEF Init
  <2>2. LinkHits \subseteq Findings
    BY LinkHitsAreFindings
  <2> QED
    BY <1>3, <2>1, <2>2
<1>5. /\ probePc \in [Ranks -> ProbeStates]
      /\ probePage \in [Ranks -> Pages \cup {NoView}]
      /\ probedHits \in [Types -> Ranks \cup {NoHit}]
      /\ fpTypes \in [Fingerprints -> SUBSET Types]
      /\ linkPc \in [Linked -> {"queued", "fetching", "done"}]
  BY DEF Init, ProbeStates
<1> QED
  BY <1>3, <1>4, <1>5 DEF Init, TypeOK

(* Every step keeps the types.                                             *)
LEMMA StepTyped == TypeOK /\ [Next]_vars => TypeOK'
<1> SUFFICES ASSUME TypeOK, [Next]_vars PROVE TypeOK'
  OBVIOUS
<1> USE DEF probeVars, ctrlVars, linkVars, Linked
<1>1. ASSUME NEW i \in Ranks,
             LaunchSkip(i) \/ LaunchBlock(i) \/ LaunchGo(i) \/ ProbeRecheck(i)
      PROVE  TypeOK'
  <2>1. /\ probePc' \in [Ranks -> ProbeStates]
        /\ UNCHANGED <<linkHits, probePage, probedHits, probedCount, rejectedCount, fpTypes,
                       rateLimited, ctrlVars, linkVars, expired>>
    BY <1>1 DEF TypeOK, LaunchSkip, LaunchBlock, LaunchGo, ProbeRecheck, ProbeStates
  <2> QED
    BY <2>1 DEF TypeOK
<1>2. ASSUME NEW i \in Ranks, NEW a \in Answers, ProbeLost(i, a) PROVE TypeOK'
  <2>1. /\ probePc' \in [Ranks -> ProbeStates]
        /\ probedCount' \in Nat
        /\ rateLimited' \in BOOLEAN
        /\ UNCHANGED <<linkHits, probePage, probedHits, rejectedCount, fpTypes,
                       ctrlVars, linkVars, expired>>
    BY <1>2, AnswerShape DEF TypeOK, ProbeLost, ProbeStates, LimitStatus
  <2> QED
    BY <2>1 DEF TypeOK
<1>3. ASSUME NEW i \in Ranks, NEW a \in Answers, ProbeClassify(i, a) PROVE TypeOK'
  <2>0. a.view \in Pages /\ Plan[i] \in Types
    BY <1>3, AnswerShape, PlanShape DEF ProbeClassify
  <2>1. /\ probePc' \in [Ranks -> ProbeStates]
        /\ probePage' \in [Ranks -> Pages \cup {NoView}]
        /\ probedCount' \in Nat /\ rejectedCount' \in Nat
    BY <1>3, <2>0 DEF TypeOK, ProbeClassify, ProbeStates
  <2>2. fpTypes' \in [Fingerprints -> SUBSET Types]
    BY <1>3, <2>0 DEF TypeOK, ProbeClassify
  <2>3. UNCHANGED <<linkHits, probedHits, rateLimited, ctrlVars, linkVars, expired>>
    BY <1>3 DEF ProbeClassify
  <2> QED
    BY <2>1, <2>2, <2>3 DEF TypeOK
<1>4. CASE ControlFetch
  <2>1. ctrl' = "fetching" /\ UNCHANGED <<linkHits, probeVars, rateLimited, ctrlView, linkVars, expired>>
    BY <1>4 DEF ControlFetch
  <2> QED
    BY <2>1 DEF TypeOK
<1>5. ASSUME NEW a \in Answers, ControlAnswer(a) PROVE TypeOK'
  <2>1. /\ ctrl' \in {"ready", "failed"}
        /\ ctrlView' \in Pages \cup {NoView}
        /\ UNCHANGED <<linkHits, probeVars, rateLimited, linkVars, expired>>
    BY <1>5, AnswerShape DEF TypeOK, ControlAnswer
  <2> QED
    BY <2>1 DEF TypeOK
<1>6. ASSUME NEW i \in Ranks, ProbeEcho(i) PROVE TypeOK'
  <2>1. /\ probePc' \in [Ranks -> ProbeStates]
        /\ probePage' \in [Ranks -> Pages \cup {NoView}]
        /\ rejectedCount' \in Nat
        /\ UNCHANGED <<linkHits, probedHits, probedCount, fpTypes, rateLimited,
                       ctrlVars, linkVars, expired>>
    BY <1>6 DEF TypeOK, ProbeEcho, ProbeStates
  <2> QED
    BY <2>1 DEF TypeOK
<1>7. ASSUME NEW i \in Ranks, ProbeStore(i) PROVE TypeOK'
  <2>1. /\ probePc' \in [Ranks -> ProbeStates]
        /\ probedHits' \in [Types -> Ranks \cup {NoHit}]
        /\ UNCHANGED <<linkHits, probePage, probedCount, rejectedCount, fpTypes, rateLimited,
                       ctrlVars, linkVars, expired>>
    BY <1>7, PlanShape DEF TypeOK, ProbeStore, ProbeStates
  <2> QED
    BY <2>1 DEF TypeOK
<1>8. ASSUME NEW t \in Linked, LinkGo(t) PROVE TypeOK'
  <2>1. /\ linkPc' \in [Linked -> {"queued", "fetching", "done"}]
        /\ UNCHANGED <<linkHits, probeVars, rateLimited, ctrlVars, linkResults, expired>>
    BY <1>8 DEF TypeOK, LinkGo
  <2> QED
    BY <2>1 DEF TypeOK
<1>9. ASSUME NEW t \in Linked, NEW a \in Answers, LinkAnswer(t, a) PROVE TypeOK'
  <2>1. linkHits[t] \in LinkHits
    BY DEF TypeOK
  <2>2. verifyLink(t, linkHits[t], a) \in Findings
    BY <2>1, VerifyLinkShape
  <2>3. /\ linkPc' \in [Linked -> {"queued", "fetching", "done"}]
        /\ linkResults' \in [Linked -> Findings]
        /\ UNCHANGED <<linkHits, probeVars, ctrlVars, expired>>
    BY <1>9, <2>2 DEF TypeOK, LinkAnswer
  <2>4. rateLimited' \in BOOLEAN
    BY <1>9 DEF TypeOK, LinkAnswer
  <2> QED
    BY <2>3, <2>4 DEF TypeOK
<1>10. ASSUME NEW phase \in {"probe", "link"}, Expire(phase) PROVE TypeOK'
  BY <1>10 DEF TypeOK, Expire
<1>11. CASE WrapUp
  <2>1. UNCHANGED <<linkHits, probeVars, rateLimited, ctrlVars, linkVars, expired>>
    BY <1>11 DEF WrapUp
  <2> QED
    BY <2>1 DEF TypeOK
<1>12. CASE Answered \/ UNCHANGED vars
  BY <1>12 DEF TypeOK, Answered, vars
<1> QED
  BY <1>1, <1>2, <1>3, <1>4, <1>5, <1>6, <1>7, <1>8, <1>9, <1>10, <1>11, <1>12
     DEF Next, ProbeStep, ControlStep, LinkStep

(* Every variable keeps its shape, in every scan.                          *)
THEOREM ScanTyped == Spec => []TypeOK
BY InitTyped, StepTyped, PTL DEF Spec

-----------------------------------------------------------------------------
(* The hits the workers agree on                                           *)

(* A stored hit belongs to an accepted probe of its type.                  *)
HitsAccepted ==
  \A t \in Types : probedHits[t] # NoHit =>
    /\ probePc[probedHits[t]] = "accepted"
    /\ Plan[probedHits[t]] = t

(* A page that reached the control comparison passed the first checks, and *)
(* its fingerprint was noted for its type.                                 *)
PagesNoted ==
  \A i \in Ranks : probePc[i] \in {"echo", "accepted"} =>
    /\ probePage[i] \in Pages
    /\ ~ProbeRejects(probePage[i], Plan[i])
    /\ Plan[i] \in fpTypes[probePage[i].fp]

(* A candidate is passed over for one of three reasons, which stay true.   *)
SkipExplained ==
  \A i \in Ranks : probePc[i] = "skipped" =>
    Satisfied(i) \/ rateLimited \/ "probe" \in expired

(* Only planned probes ever run.                                           *)
PlanKept == \A i \in Ranks : probePc[i] = "unplanned" <=> i \notin Planned(Linked)

HitsInv == HitsAccepted /\ PagesNoted /\ KeptIsBest /\ SkipExplained /\ PlanKept

(* Beats orders the ranks: any two compare, and it is transitive.          *)
LEMMA BeatsOrders ==
  ASSUME NEW i \in Ranks, NEW j \in Ranks
  PROVE  /\ i # j => Beats(i, j) \/ Beats(j, i)
         /\ \A k \in Ranks : Beats(i, j) /\ Beats(j, k) => Beats(i, k)
<1>1. \A c : confidenceRank(c) \in 0..3
  BY DEF confidenceRank
<1> QED
  BY <1>1, PlanShape DEF Beats

(* Accepted pages stay as they are, and so does what is best of them.      *)
LEMMA KeptStable ==
  ASSUME TypeOK, HitsAccepted, KeptIsBest, UNCHANGED probedHits,
         \A j \in Ranks : probePc[j] = "accepted" => probePage'[j] = probePage[j],
         \A j \in Ranks : probePc'[j] = "accepted" => probePc[j] = "accepted"
  PROVE  KeptIsBest'
<1> SUFFICES ASSUME NEW j \in Ranks, probePc'[j] = "accepted"
             PROVE  LET kept == probedHits[Plan[j]]
                    IN  (kept # NoHit /\ (kept = j \/ Beats(kept, j)))'
  BY DEF KeptIsBest
<1>1. Plan[j] \in Types /\ probePc[j] = "accepted"
  BY PlanShape
<1>2. PICK k \in Ranks : k = probedHits[Plan[j]] /\ k # NoHit /\ (k = j \/ Beats(k, j))
  BY <1>1 DEF KeptIsBest, TypeOK
<1>3. probePc[k] = "accepted"
  BY <1>1, <1>2 DEF HitsAccepted
<1>4. k = j \/ Beats(k, j)'
  BY <1>1, <1>2, <1>3 DEF Beats, ConfOf
<1> QED
  BY <1>2, <1>4

(* The hits are right before the first probe.                              *)
LEMMA InitHits == Init => HitsInv
<1> SUFFICES ASSUME Init PROVE HitsInv
  OBVIOUS
<1>1. /\ \A t \in Types : probedHits[t] = NoHit
      /\ \A i \in Ranks : probePc[i] = IF i \in Planned(Linked) THEN "queued" ELSE "unplanned"
  BY DEF Init
<1> QED
  BY <1>1 DEF HitsInv, HitsAccepted, PagesNoted, KeptIsBest, SkipExplained, PlanKept

(* Every step keeps them right.                                            *)
LEMMA StepHits == TypeOK /\ HitsInv /\ [Next]_vars => HitsInv'
<1> SUFFICES ASSUME TypeOK, HitsInv, [Next]_vars PROVE HitsInv'
  OBVIOUS
<1> USE DEF probeVars, ctrlVars, linkVars, Linked, Planned, Wanted
<1>0. HitsAccepted /\ PagesNoted /\ KeptIsBest /\ SkipExplained /\ PlanKept
  BY DEF HitsInv
<1>1. ASSUME NEW i \in Ranks,
             LaunchSkip(i) \/ LaunchBlock(i) \/ LaunchGo(i) \/ ProbeRecheck(i)
      PROVE  HitsInv'
  <2>1. /\ UNCHANGED <<linkHits, probePage, probedHits, fpTypes, rateLimited, expired>>
        /\ \A j \in Ranks \ {i} : probePc'[j] = probePc[j]
        /\ probePc[i] \in {"queued", "blocked", "started"}
        /\ probePc'[i] \in {"skipped", "blocked", "started", "fetching"}
        /\ probePc'[i] = "skipped" => Satisfied(i) \/ rateLimited \/ "probe" \in expired
    BY <1>1 DEF TypeOK, LaunchSkip, LaunchBlock, LaunchGo, ProbeRecheck, NextInPlan
  <2>2. HitsAccepted' /\ PagesNoted' /\ KeptIsBest'
    BY <1>0, <2>1 DEF TypeOK, HitsAccepted, PagesNoted, KeptIsBest, Beats, ConfOf
  <2>3. SkipExplained' /\ PlanKept'
    BY <1>0, <2>1 DEF SkipExplained, Satisfied, PlanKept
  <2> QED
    BY <2>2, <2>3 DEF HitsInv
<1>2. ASSUME NEW i \in Ranks, NEW a \in Answers, ProbeLost(i, a) PROVE HitsInv'
  <2>1. /\ UNCHANGED <<linkHits, probePage, probedHits, fpTypes, expired>>
        /\ \A j \in Ranks \ {i} : probePc'[j] = probePc[j]
        /\ probePc[i] = "fetching" /\ probePc'[i] = "lost"
        /\ rateLimited => rateLimited'
    BY <1>2 DEF TypeOK, ProbeLost
  <2>2. HitsAccepted' /\ PagesNoted' /\ KeptIsBest'
    BY <1>0, <2>1 DEF TypeOK, HitsAccepted, PagesNoted, KeptIsBest, Beats, ConfOf
  <2>3. SkipExplained' /\ PlanKept'
    BY <1>0, <2>1 DEF SkipExplained, Satisfied, PlanKept
  <2> QED
    BY <2>2, <2>3 DEF HitsInv
<1>3. ASSUME NEW i \in Ranks, NEW a \in Answers, ProbeClassify(i, a) PROVE HitsInv'
  <2>0. a.view \in Pages /\ a.view.fp \in Fingerprints
    BY <1>3, AnswerShape, AnswersAssumption DEF ProbeClassify, Views
  <2>1. /\ UNCHANGED <<linkHits, probedHits, rateLimited, expired>>
        /\ \A j \in Ranks \ {i} : probePc'[j] = probePc[j] /\ probePage'[j] = probePage[j]
        /\ probePc[i] = "fetching" /\ probePc'[i] \in {"rejected", "echo"}
        /\ \A fp \in Fingerprints : fpTypes[fp] \subseteq fpTypes'[fp]
    BY <1>3 DEF TypeOK, ProbeClassify
  <2>2. probePc'[i] = "echo" =>
          /\ probePage'[i] = a.view
          /\ ~ProbeRejects(a.view, Plan[i])
          /\ Plan[i] \in fpTypes'[a.view.fp]
    BY <1>3, <2>0 DEF TypeOK, ProbeClassify, ProbeRejects
  <2>3. \A j \in Ranks : probePc'[j] = "accepted" <=> probePc[j] = "accepted"
    BY <2>1
  <2>4. HitsAccepted' /\ KeptIsBest'
    BY <1>0, <2>1, <2>3, KeptStable DEF TypeOK, HitsAccepted
  <2>5. PagesNoted'
    <3>1. ASSUME NEW j \in Ranks \ {i}, probePc'[j] \in {"echo", "accepted"}
          PROVE  /\ probePage'[j] \in Pages
                 /\ ~ProbeRejects(probePage'[j], Plan[j])
                 /\ Plan[j] \in fpTypes'[probePage'[j].fp]
      <4>1. probePage[j] \in Pages /\ probePage[j].fp \in Fingerprints
        BY <1>0, <2>1, <3>1, AnswersAssumption DEF PagesNoted, Views
      <4> QED
        BY <1>0, <2>1, <3>1, <4>1 DEF PagesNoted
    <3> QED
      BY <2>0, <2>1, <2>2, <3>1 DEF PagesNoted
  <2>6. SkipExplained' /\ PlanKept'
    BY <1>0, <2>1 DEF SkipExplained, Satisfied, PlanKept
  <2> QED
    BY <2>4, <2>5, <2>6 DEF HitsInv
<1>4. ASSUME NEW i \in Ranks, ProbeEcho(i) PROVE HitsInv'
  <2>1. /\ UNCHANGED <<linkHits, probedHits, fpTypes, rateLimited, expired>>
        /\ \A j \in Ranks \ {i} : probePc'[j] = probePc[j] /\ probePage'[j] = probePage[j]
        /\ probePc[i] = "echo" /\ probePc'[i] = "rejected"
    BY <1>4 DEF TypeOK, ProbeEcho
  <2>2. \A j \in Ranks : probePc'[j] = "accepted" <=> probePc[j] = "accepted"
    BY <2>1
  <2>3. HitsAccepted' /\ KeptIsBest'
    BY <1>0, <2>1, <2>2, KeptStable DEF TypeOK, HitsAccepted
  <2>4. PagesNoted' /\ SkipExplained' /\ PlanKept'
    BY <1>0, <2>1 DEF PagesNoted, SkipExplained, Satisfied, PlanKept
  <2> QED
    BY <2>3, <2>4 DEF HitsInv
<1>5. ASSUME NEW i \in Ranks, ProbeStore(i) PROVE HitsInv'
  <2> DEFINE t   == Plan[i]
             old == probedHits[t]
             new == IF old = NoHit \/ Beats(i, old) THEN i ELSE old
  <2>0. t \in Types /\ i # NoHit
    BY PlanShape DEF NoHit
  <2>1. /\ UNCHANGED <<linkHits, probePage, fpTypes, rateLimited, expired>>
        /\ \A j \in Ranks \ {i} : probePc'[j] = probePc[j]
        /\ probePc[i] = "echo" /\ probePc'[i] = "accepted"
    BY <1>5 DEF TypeOK, ProbeStore
  <2>2. probedHits' = [probedHits EXCEPT ![t] = new]
    BY <1>5, <2>0 DEF TypeOK, ProbeStore
  <2>3. old \in Ranks \cup {NoHit}
    BY <2>0 DEF TypeOK
  <2>4. old # NoHit => old \in Ranks \ {i} /\ probePc[old] = "accepted" /\ Plan[old] = t
    BY <1>0, <2>0, <2>1, <2>3 DEF HitsAccepted
  <2>5. probedHits'[t] = new /\ \A u \in Types \ {t} : probedHits'[u] = probedHits[u]
    BY <2>0, <2>2 DEF TypeOK
  <2> HIDE DEF t, old
  <2>6. HitsAccepted'
    <3>1. probePc'[new] = "accepted" /\ Plan[new] = t
      BY <2>1, <2>4 DEF t
    <3>2. ASSUME NEW u \in Types \ {t}, probedHits[u] # NoHit
          PROVE  probePc'[probedHits[u]] = "accepted" /\ Plan[probedHits[u]] = u
      <4>1. probePc[probedHits[u]] = "accepted" /\ Plan[probedHits[u]] = u
        BY <1>0, <3>2 DEF HitsAccepted
      <4>2. probedHits[u] \in Ranks \ {i}
        BY <2>1, <3>2, <4>1 DEF TypeOK
      <4> QED
        BY <2>1, <4>1, <4>2
    <3> QED
      BY <2>5, <3>1, <3>2 DEF HitsAccepted
  <2>7. KeptIsBest'
    <3>0. \A j, k \in Ranks : Beats(j, k)' <=> Beats(j, k)
      BY <2>1 DEF Beats, ConfOf
    <3>1. new \in Ranks /\ new # NoHit /\ (new = i \/ Beats(new, i))
      BY <2>0, <2>3, <2>4, BeatsOrders
    <3>2. ASSUME NEW j \in Ranks \ {i}, probePc[j] = "accepted", Plan[j] = t
          PROVE  new = j \/ Beats(new, j)
      <4>1. old # NoHit /\ (old = j \/ Beats(old, j))
        BY <1>0, <3>2 DEF KeptIsBest, old
      <4>2. CASE new = i
        <5>1. Beats(i, old)
          BY <2>4, <4>1, <4>2
        <5> QED
          BY <2>4, <4>1, <4>2, <5>1, BeatsOrders
      <4>3. CASE new = old
        BY <4>1, <4>3
      <4> QED
        BY <4>2, <4>3
    <3>3. ASSUME NEW j \in Ranks \ {i}, probePc[j] = "accepted", Plan[j] # t
          PROVE  LET kept == probedHits[Plan[j]]
                 IN  kept \in Ranks /\ kept # NoHit /\ (kept = j \/ Beats(kept, j))
      BY <1>0, <3>3, PlanShape DEF KeptIsBest, TypeOK
    <3> SUFFICES ASSUME NEW j \in Ranks, probePc'[j] = "accepted"
                 PROVE  LET kept == probedHits[Plan[j]]
                        IN  (kept # NoHit /\ (kept = j \/ Beats(kept, j)))'
      BY DEF KeptIsBest
    <3>4. PICK k \in Ranks : /\ k = probedHits'[Plan[j]] /\ k # NoHit
                             /\ k = j \/ Beats(k, j)
      <4>1. CASE j = i
        BY <2>5, <3>1, <4>1 DEF t
      <4>2. CASE j # i /\ Plan[j] = t
        BY <2>1, <2>5, <3>1, <3>2, <4>2
      <4>3. CASE j # i /\ Plan[j] # t
        <5>1. probePc[j] = "accepted" /\ Plan[j] \in Types \ {t}
          BY <2>1, <4>3, PlanShape
        <5> QED
          BY <2>5, <3>3, <4>3, <5>1
      <4> QED
        BY <4>1, <4>2, <4>3
    <3> QED
      BY <3>0, <3>4
  <2>8. PagesNoted' /\ PlanKept'
    BY <1>0, <2>1 DEF PagesNoted, PlanKept
  <2>9. SkipExplained'
    <3>1. \A j \in Ranks : Satisfied(j) => Satisfied(j)'
      BY <2>0, <2>3, <2>4, <2>5, PlanShape DEF Satisfied, NoHit
    <3> QED
      BY <1>0, <2>1, <3>1 DEF SkipExplained
  <2> QED
    BY <2>6, <2>7, <2>8, <2>9 DEF HitsInv
<1>6. ASSUME UNCHANGED <<linkHits, probePc, probePage, probedHits, fpTypes>>,
             rateLimited => rateLimited', expired \subseteq expired'
      PROVE  HitsInv'
  BY <1>0, <1>6
     DEF HitsInv, HitsAccepted, PagesNoted, KeptIsBest, Beats, ConfOf, SkipExplained,
         Satisfied, PlanKept
<1>7. CASE ControlStep
  BY <1>6, <1>7 DEF ControlStep, ControlFetch, ControlAnswer
<1>8. ASSUME NEW u \in Linked, LinkStep(u) PROVE HitsInv'
  BY <1>6, <1>8 DEF LinkStep, LinkGo, LinkAnswer, TypeOK
<1>9. CASE \/ \E phase \in {"probe", "link"} : Expire(phase)
           \/ WrapUp \/ Answered \/ UNCHANGED vars
  BY <1>6, <1>9 DEF Expire, WrapUp, Answered, vars
<1> QED
  BY <1>1, <1>2, <1>3, <1>4, <1>5, <1>7, <1>8, <1>9 DEF Next, ProbeStep

(* The hit kept for a type is the best of those accepted, in whatever      *)
(* order the workers finished.                                             *)
THEOREM BestHitIsKept == Spec => []KeptIsBest
<1>1. Spec => []HitsInv
  BY ScanTyped, InitHits, StepHits, PTL DEF Spec
<1> QED
  BY <1>1, PTL DEF HitsInv

-----------------------------------------------------------------------------
(* The phases as seen from the response                                    *)

(* The control page is being fetched on behalf of a worker that waits for  *)
(* it: no fetch without a goroutine.                                       *)
ControlInv == ctrl = "fetching" => ProbesIn({"echo"}) # {}

(* Each launcher's limit holds for its workers, fetching or not.           *)
WorkersInv ==
  /\ Cardinality(ActiveProbes) <= ProbeWorkers
  /\ Cardinality(ActiveLinks) <= LinkWorkers

(* A verified link is still a link.                                        *)
LinksInv == \A t \in Linked : linkResults[t].source # "probed_path"

(* Once there is a response nothing runs, and it is what the final state   *)
(* of the phases gives.                                                    *)
ResponseInv == response # NoResponse => PhasesOver /\ response = ScanResult

ResultInv == ControlInv /\ WorkersInv /\ CountersAgree /\ LinksInv /\ ResponseInv

ScanInv == TypeOK /\ HitsInv /\ ResultInv

-----------------------------------------------------------------------------
(* Sets of probes are finite; one probe entering such a set counts as one. *)
LEMMA ProbeSetsFinite ==
  ASSUME NEW S \in SUBSET Ranks
  PROVE  IsFiniteSet(S) /\ Cardinality(S) \in Nat
BY PlanShape, FS_Subset, FS_CardinalityType

LEMMA ProbeEnters ==
  ASSUME NEW S \in SUBSET Ranks, NEW i, i \notin S
  PROVE  Cardinality(S \cup {i}) = Cardinality(S) + 1
BY ProbeSetsFinite, FS_AddElement

(* Fewer probes count for less.                                            *)
LEMMA FewerProbes ==
  ASSUME NEW S \in SUBSET Ranks, NEW T \in SUBSET S
  PROVE  Cardinality(T) <= Cardinality(S)
BY ProbeSetsFinite, FS_Subset

(* The same for linked types.                                              *)
LEMMA LinkSetsFinite ==
  ASSUME NEW S \in SUBSET Types
  PROVE  IsFiniteSet(S) /\ Cardinality(S) \in Nat
BY TypesAssumption, FS_Subset, FS_CardinalityType

-----------------------------------------------------------------------------
(* Nothing moves once the response is there.                               *)
LEMMA AnsweredIsStill ==
  ASSUME TypeOK, ControlInv, ResponseInv, response # NoResponse, Next
  PROVE  UNCHANGED vars
<1>1. /\ \A i \in Ranks : probePc[i] \in Finished
      /\ \A t \in Linked : linkPc[t] = "done"
  BY DEF ResponseInv, PhasesOver
<1>2. ASSUME NEW i \in Ranks, ProbeStep(i) PROVE FALSE
  BY <1>1, <1>2
     DEF ProbeStep, LaunchSkip, LaunchBlock, NextInPlan, LaunchGo, ProbeRecheck, ProbeLost,
         ProbeClassify, ProbeEcho, ProbeStore, Finished
<1>3. ProbesIn({"echo"}) = {}
  BY <1>1 DEF ProbesIn, Finished
<1>4. CASE ControlStep
  BY <1>3, <1>4 DEF ControlStep, ControlFetch, ControlAnswer, ControlInv, ProbesIn
<1>5. ASSUME NEW t \in Linked, LinkStep(t) PROVE FALSE
  BY <1>1, <1>5 DEF LinkStep, LinkGo, LinkAnswer
<1>6. CASE \/ \E phase \in {"probe", "link"} : Expire(phase)
           \/ WrapUp \/ Answered
  BY <1>6 DEF Expire, WrapUp, Answered
<1> QED
  BY <1>2, <1>4, <1>5, <1>6 DEF Next

-----------------------------------------------------------------------------
(* What each kind of step does to the states of the probes.                *)

(* A step of one probe leaves every other where it was, and moves that one *)
(* along its way: only a launch makes a worker of it, and only an answer   *)
(* or a comparison has it counted.                                         *)
LEMMA ProbeMoves ==
  ASSUME TypeOK, NEW i \in Ranks, ProbeStep(i)
  PROVE  /\ \A j \in Ranks \ {i} : probePc'[j] = probePc[j]
         /\ UNCHANGED <<linkHits, ctrl, linkPc, linkResults, response>>
         /\ \/ /\ LaunchGo(i)
               /\ probePc[i] = "blocked" /\ probePc'[i] = "started"
               /\ UNCHANGED <<probedCount, rejectedCount>>
            \/ /\ probePc[i] = "queued" /\ probePc'[i] \in {"skipped", "blocked"}
               /\ UNCHANGED <<probedCount, rejectedCount>>
            \/ /\ probePc[i] = "started" /\ probePc'[i] \in {"skipped", "fetching"}
               /\ UNCHANGED <<probedCount, rejectedCount>>
            \/ /\ probePc[i] = "fetching" /\ probePc'[i] \in {"lost", "echo"}
               /\ probedCount' = probedCount + 1 /\ UNCHANGED rejectedCount
            \/ /\ probePc[i] = "fetching" /\ probePc'[i] = "rejected"
               /\ probedCount' = probedCount + 1 /\ rejectedCount' = rejectedCount + 1
            \/ /\ ctrl # "fetching"
               /\ probePc[i] = "echo" /\ probePc'[i] = "rejected"
               /\ UNCHANGED probedCount /\ rejectedCount' = rejectedCount + 1
            \/ /\ ctrl # "fetching"
               /\ probePc[i] = "echo" /\ probePc'[i] = "accepted"
               /\ UNCHANGED <<probedCount, rejectedCount>>
<1> USE DEF probeVars, ctrlVars, linkVars
<1>1. ASSUME LaunchSkip(i) \/ LaunchBlock(i)
      PROVE  /\ \A j \in Ranks \ {i} : probePc'[j] = probePc[j]
             /\ UNCHANGED <<linkHits, ctrl, linkPc, linkResults, response>>
             /\ probePc[i] = "queued" /\ probePc'[i] \in {"skipped", "blocked"}
             /\ UNCHANGED <<probedCount, rejectedCount>>
  BY <1>1 DEF TypeOK, LaunchSkip, LaunchBlock, NextInPlan
<1>2. ASSUME LaunchGo(i)
      PROVE  /\ \A j \in Ranks \ {i} : probePc'[j] = probePc[j]
             /\ UNCHANGED <<linkHits, ctrl, linkPc, linkResults, response>>
             /\ probePc[i] = "blocked" /\ probePc'[i] = "started"
             /\ UNCHANGED <<probedCount, rejectedCount>>
  BY <1>2 DEF TypeOK, LaunchGo
<1>3. ASSUME ProbeRecheck(i)
      PROVE  /\ \A j \in Ranks \ {i} : probePc'[j] = probePc[j]
             /\ UNCHANGED <<linkHits, ctrl, linkPc, linkResults, response>>
             /\ probePc[i] = "started" /\ probePc'[i] \in {"skipped", "fetching"}
             /\ UNCHANGED <<probedCount, rejectedCount>>
  BY <1>3 DEF TypeOK, ProbeRecheck
<1>4. ASSUME NEW a \in Answers, ProbeLost(i, a)
      PROVE  /\ \A j \in Ranks \ {i} : probePc'[j] = probePc[j]
             /\ UNCHANGED <<linkHits, ctrl, linkPc, linkResults, response>>
             /\ probePc[i] = "fetching" /\ probePc'[i] = "lost"
             /\ probedCount' = probedCount + 1 /\ UNCHANGED rejectedCount
  BY <1>4 DEF TypeOK, ProbeLost
<1>5. ASSUME NEW a \in Answers, ProbeClassify(i, a)
      PROVE  /\ \A j \in Ranks \ {i} : probePc'[j] = probePc[j]
             /\ UNCHANGED <<linkHits, ctrl, linkPc, linkResults, response>>
             /\ probePc[i] = "fetching" /\ probedCount' = probedCount + 1
             /\ \/ probePc'[i] = "rejected" /\ rejectedCount' = rejectedCount + 1
                \/ probePc'[i] = "echo" /\ UNCHANGED rejectedCount
  BY <1>5 DEF TypeOK, ProbeClassify
<1>6. ASSUME ProbeEcho(i)
      PROVE  /\ \A j \in Ranks \ {i} : probePc'[j] = probePc[j]
             /\ UNCHANGED <<linkHits, ctrl, linkPc, linkResults, response>>
             /\ ctrl # "fetching"
             /\ probePc[i] = "echo" /\ probePc'[i] = "rejected"
             /\ UNCHANGED probedCount /\ rejectedCount' = rejectedCount + 1
  BY <1>6 DEF TypeOK, ProbeEcho, Echoes
<1>7. ASSUME ProbeStore(i)
      PROVE  /\ \A j \in Ranks \ {i} : probePc'[j] = probePc[j]
             /\ UNCHANGED <<linkHits, ctrl, linkPc, linkResults, response>>
             /\ ctrl # "fetching"
             /\ probePc[i] = "echo" /\ probePc'[i] = "accepted"
             /\ UNCHANGED <<probedCount, rejectedCount>>
  BY <1>7 DEF TypeOK, ProbeStore
<1> QED
  BY <1>1, <1>2, <1>3, <1>4, <1>5, <1>6, <1>7 DEF ProbeStep

(* Every other step leaves the probes and their counters alone.            *)
LEMMA OtherMoves ==
  ASSUME [Next]_vars
  PROVE  \/ \E i \in Ranks : ProbeStep(i)
         \/ UNCHANGED <<linkHits, probePc, probedCount, rejectedCount>>
BY DEF Next, ControlStep, ControlFetch, ControlAnswer, LinkStep, LinkGo, LinkAnswer, Expire,
       WrapUp, Answered, vars, probeVars

-----------------------------------------------------------------------------
(* The parts of the invariant, one by one.                                 *)

(* A worker fetching the control page does not leave the comparison.       *)
LEMMA StepControl == TypeOK /\ ControlInv /\ [Next]_vars => ControlInv'
<1> SUFFICES ASSUME TypeOK, ControlInv, [Next]_vars PROVE ControlInv'
  OBVIOUS
<1>1. ASSUME NEW i \in Ranks, ProbeStep(i) PROVE ControlInv'
  BY <1>1, ProbeMoves DEF ControlInv, ProbesIn
<1>2. CASE ControlStep
  BY <1>2 DEF ControlStep, ControlFetch, ControlAnswer, ControlInv, ProbesIn, probeVars
<1>3. CASE UNCHANGED <<probePc, ctrl>>
  BY <1>3 DEF ControlInv, ProbesIn
<1> QED
  BY <1>1, <1>2, <1>3
     DEF Next, LinkStep, LinkGo, LinkAnswer, Expire, WrapUp, Answered, vars, probeVars, ctrlVars

(* Only a launch that found a free slot adds a worker.                     *)
LEMMA StepWorkers == TypeOK /\ WorkersInv /\ [Next]_vars => WorkersInv'
<1> SUFFICES ASSUME TypeOK, WorkersInv, [Next]_vars PROVE WorkersInv'
  OBVIOUS
<1>0. ProbeWorkers \in Nat /\ LinkWorkers \in Nat
  BY PlanAssumption
<1>1. Cardinality(ActiveProbes') <= ProbeWorkers
  <2>1. ASSUME NEW i \in Ranks, LaunchGo(i), ProbeStep(i)
        PROVE  Cardinality(ActiveProbes') <= ProbeWorkers
    <3>1. ActiveProbes' = ActiveProbes \cup {i} /\ i \notin ActiveProbes
      BY <2>1 DEF TypeOK, LaunchGo, ActiveProbes
    <3>2. Cardinality(ActiveProbes) < ProbeWorkers
      BY <2>1 DEF LaunchGo
    <3>3. ActiveProbes \in SUBSET Ranks
      BY DEF ActiveProbes
    <3> QED
      BY <1>0, <3>1, <3>2, <3>3, ProbeEnters, ProbeSetsFinite
  <2>2. ASSUME ActiveProbes' \subseteq ActiveProbes
        PROVE  Cardinality(ActiveProbes') <= ProbeWorkers
    <3>1. ActiveProbes \in SUBSET Ranks /\ ActiveProbes' \in SUBSET ActiveProbes
      BY <2>2 DEF ActiveProbes
    <3>2. Cardinality(ActiveProbes') <= Cardinality(ActiveProbes)
      BY <3>1, FewerProbes
    <3>3. Cardinality(ActiveProbes) \in Nat /\ Cardinality(ActiveProbes') \in Nat
      BY <3>1, ProbeSetsFinite
    <3> QED
      BY <1>0, <3>2, <3>3 DEF WorkersInv
  <2>3. ASSUME NEW i \in Ranks, ProbeStep(i), ~LaunchGo(i)
        PROVE  ActiveProbes' \subseteq ActiveProbes
    BY <2>3, ProbeMoves DEF ActiveProbes
  <2>4. CASE UNCHANGED probePc
    BY <2>2, <2>4 DEF ActiveProbes
  <2> QED
    BY <2>1, <2>2, <2>3, <2>4, OtherMoves
<1>2. Cardinality(ActiveLinks') <= LinkWorkers
  <2>0. ActiveLinks \in SUBSET Types
    BY DEF TypeOK, ActiveLinks
  <2>1. ASSUME NEW t \in Linked, LinkGo(t) PROVE Cardinality(ActiveLinks') <= LinkWorkers
    <3>1. ActiveLinks' = ActiveLinks \cup {t} /\ Cardinality(ActiveLinks) < LinkWorkers
      BY <2>1 DEF TypeOK, LinkGo, ActiveLinks, Linked
    <3>2. IsFiniteSet(ActiveLinks) /\ Cardinality(ActiveLinks) \in Nat
      BY <2>0, LinkSetsFinite
    <3> QED
      BY <1>0, <3>1, <3>2, FS_AddElement
  <2>2. ASSUME ActiveLinks' \in SUBSET ActiveLinks
        PROVE  Cardinality(ActiveLinks') <= LinkWorkers
    <3>1. IsFiniteSet(ActiveLinks) /\ Cardinality(ActiveLinks) \in Nat
      BY <2>0, LinkSetsFinite
    <3>2. Cardinality(ActiveLinks') <= Cardinality(ActiveLinks) /\ Cardinality(ActiveLinks') \in Nat
      BY <2>2, <3>1, FS_Subset, FS_CardinalityType
    <3> QED
      BY <1>0, <3>1, <3>2 DEF WorkersInv
  <2>3. ASSUME NEW t \in Linked, NEW a \in Answers, LinkAnswer(t, a)
        PROVE  ActiveLinks' \in SUBSET ActiveLinks
    BY <2>3 DEF TypeOK, LinkAnswer, ActiveLinks, Linked
  <2>4. CASE UNCHANGED <<linkHits, linkPc>>
    BY <2>2, <2>4 DEF ActiveLinks, Linked
  <2>5. ASSUME NEW i \in Ranks, ProbeStep(i) PROVE UNCHANGED <<linkHits, linkPc>>
    BY <2>5, ProbeMoves
  <2> QED
    BY <2>1, <2>2, <2>3, <2>4, <2>5
       DEF Next, ControlStep, ControlFetch, ControlAnswer, LinkStep, Expire, WrapUp, Answered,
           vars, linkVars
<1> QED
  BY <1>1, <1>2 DEF WorkersInv

(* Each counter moves with the set of probes it counts.                    *)
LEMMA StepCounters == TypeOK /\ CountersAgree /\ [Next]_vars => CountersAgree'
<1> SUFFICES ASSUME TypeOK, CountersAgree, [Next]_vars PROVE CountersAgree'
  OBVIOUS
<1> DEFINE Counted  == ProbesIn({"lost", "rejected", "echo", "accepted"})
           Rejected == ProbesIn({"rejected"})
<1>0. /\ Counted \in SUBSET Ranks /\ Rejected \in SUBSET Ranks
      /\ probedCount = Cardinality(Counted) /\ rejectedCount = Cardinality(Rejected)
  BY DEF ProbesIn, CountersAgree
<1>1. CASE UNCHANGED <<probePc, probedCount, rejectedCount>>
  BY <1>1 DEF CountersAgree, ProbesIn
<1>2. ASSUME NEW i \in Ranks, ProbeStep(i) PROVE CountersAgree'
  <2>1. probedCount' = Cardinality(Counted')
    <3>1. \/ UNCHANGED probedCount /\ Counted' = Counted
          \/ probedCount' = probedCount + 1 /\ i \notin Counted /\ Counted' = Counted \cup {i}
      BY <1>2, ProbeMoves DEF ProbesIn
    <3> QED
      BY <1>0, <3>1, ProbeEnters
  <2>2. rejectedCount' = Cardinality(Rejected')
    <3>1. \/ UNCHANGED rejectedCount /\ Rejected' = Rejected
          \/ /\ rejectedCount' = rejectedCount + 1
             /\ i \notin Rejected /\ Rejected' = Rejected \cup {i}
      BY <1>2, ProbeMoves DEF ProbesIn
    <3> QED
      BY <1>0, <3>1, ProbeEnters
  <2> QED
    BY <2>1, <2>2 DEF CountersAgree
<1> QED
  BY <1>1, <1>2, OtherMoves

(* Verifying a link does not change where it was found.                    *)
LEMMA StepLinks == TypeOK /\ LinksInv /\ [Next]_vars => LinksInv'
<1> SUFFICES ASSUME TypeOK, LinksInv, [Next]_vars PROVE LinksInv'
  OBVIOUS
<1>1. ASSUME NEW t \in Linked, NEW a \in Answers, LinkAnswer(t, a) PROVE LinksInv'
  <2>1. linkHits[t] \in LinkHits
    BY DEF TypeOK
  <2>2. linkHits[t].source \in {"footer_link", "page_link"}
    BY <2>1, PlanAssumption
  <2>3. verifyLink(t, linkHits[t], a).source # "probed_path"
    BY <2>1, <2>2, VerifyLinkShape
  <2> QED
    BY <1>1, <2>3 DEF TypeOK, LinksInv, LinkAnswer, Linked
<1>2. CASE UNCHANGED <<linkHits, linkResults>>
  BY <1>2 DEF LinksInv, Linked
<1>3. ASSUME NEW i \in Ranks, ProbeStep(i) PROVE UNCHANGED <<linkHits, linkResults>>
  BY <1>3, ProbeMoves
<1> QED
  BY <1>1, <1>2, <1>3
     DEF Next, ControlStep, ControlFetch, ControlAnswer, LinkStep, LinkGo, Expire, WrapUp,
         Answered, vars, linkVars

(* The response is written once, from the final state of both phases.      *)
LEMMA StepResponse ==
  TypeOK /\ ControlInv /\ ResponseInv /\ [Next]_vars => ResponseInv'
<1> SUFFICES ASSUME TypeOK, ControlInv, ResponseInv, [Next]_vars PROVE ResponseInv'
  OBVIOUS
<1>1. CASE UNCHANGED vars
  BY <1>1
     DEF vars, probeVars, ctrlVars, linkVars, ResponseInv, PhasesOver, Linked, ScanResult,
         KeptTypes, HitTypes, CatchAllTypes, ProbeFinding, ConfOf
<1>2. CASE response # NoResponse
  BY <1>1, <1>2, AnsweredIsStill
<1>3. CASE response = NoResponse /\ WrapUp
  BY <1>3
     DEF WrapUp, probeVars, ctrlVars, linkVars, ResponseInv, PhasesOver, Linked, ScanResult,
         KeptTypes, HitTypes, CatchAllTypes, ProbeFinding, ConfOf
<1>4. CASE response = NoResponse /\ UNCHANGED response
  BY <1>4 DEF ResponseInv
<1>5. ASSUME NEW i \in Ranks, ProbeStep(i) PROVE UNCHANGED response
  BY <1>5, ProbeMoves
<1> QED
  BY <1>1, <1>2, <1>3, <1>4, <1>5
     DEF Next, ControlStep, ControlFetch, ControlAnswer, LinkStep, LinkGo, LinkAnswer, Expire,
         Answered, vars

(* All of it holds before the first step.                                  *)
LEMMA InitResult == Init => ResultInv
<1> SUFFICES ASSUME Init PROVE ResultInv
  OBVIOUS
<1>1. \A i \in Ranks : probePc[i] \in {"queued", "unplanned"}
  BY DEF Init
<1>2. /\ ProbesIn({"lost", "rejected", "echo", "accepted"}) = {}
      /\ ProbesIn({"rejected"}) = {} /\ ActiveProbes = {}
  BY <1>1 DEF ProbesIn, ActiveProbes
<1>3. ActiveLinks = {}
  BY DEF Init, ActiveLinks
<1>4. ControlInv /\ ResponseInv
  BY DEF Init, ControlInv, ResponseInv
<1>5. WorkersInv /\ CountersAgree
  <2>1. Cardinality({}) = 0 /\ ProbeWorkers \in Nat /\ LinkWorkers \in Nat
    BY FS_EmptySet, PlanAssumption
  <2>2. WorkersInv
    BY <1>2, <1>3, <2>1 DEF WorkersInv
  <2>3. probedCount = 0 /\ rejectedCount = 0
    BY DEF Init
  <2> QED
    BY <1>2, <2>1, <2>2, <2>3 DEF CountersAgree
<1>6. LinksInv
  <2>1. linkResults = linkHits /\ linkHits \in [Linked -> LinkHits]
    BY InitTyped DEF Init, TypeOK
  <2>2. ASSUME NEW hit \in LinkHits PROVE hit.source # "probed_path"
    <3>1. hit.source \in {"footer_link", "page_link"}
      BY PlanAssumption
    <3> QED
      BY <3>1
  <2> QED
    BY <2>1, <2>2 DEF LinksInv
<1> QED
  BY <1>4, <1>5, <1>6 DEF ResultInv

(* The whole inductive invariant of a scan.                                *)
THEOREM ScanInvariance == Spec => []ScanInv
<1>1. Init => ScanInv
  BY InitTyped, InitHits, InitResult DEF ScanInv
<1>2. ScanInv /\ [Next]_vars => ScanInv'
  BY StepTyped, StepHits, StepControl, StepWorkers, StepCounters, StepLinks, StepResponse
     DEF ScanInv, ResultInv
<1> QED
  BY <1>1, <1>2, PTL DEF Spec

-----------------------------------------------------------------------------
(* No fetch, worker or launcher outlives the scan (NoOrphanWorkers): what  *)
(* wg.Wait and the two errgroups promise.                                  *)
THEOREM NobodyOutlivesTheScan == Spec => []NoOrphanWorkers
<1>1. ASSUME ScanInv PROVE NoOrphanWorkers
  <2> SUFFICES ASSUME response # NoResponse
               PROVE  /\ ActiveProbes = {} /\ ActiveLinks = {} /\ ctrl # "fetching"
                      /\ \A i \in Ranks : probePc[i] \notin {"queued", "blocked"}
    BY DEF NoOrphanWorkers
  <2>1. /\ \A i \in Ranks : probePc[i] \in Finished
        /\ \A t \in Linked : linkPc[t] = "done"
    BY <1>1 DEF ScanInv, ResultInv, ResponseInv, PhasesOver
  <2>2. ProbesIn({"echo"}) = {}
    BY <2>1 DEF ProbesIn, Finished
  <2> QED
    BY <1>1, <2>1, <2>2 DEF ActiveProbes, ActiveLinks, Finished, ScanInv, ResultInv, ControlInv
<1> QED
  BY <1>1, ScanInvariance, PTL

(* A scan holds at most ProbeWorkers + LinkWorkers fetches, the control    *)
(* page included (InFlightBound): a comparing worker pays for the control  *)
(* page with the fetch it is not making.                                   *)
THEOREM FetchesAreBounded == Spec => []InFlightBound
<1>1. ASSUME ScanInv PROVE InFlightBound
  <2> DEFINE F == ProbesIn({"fetching"})
  <2>0. /\ F \in SUBSET Ranks /\ ActiveProbes \in SUBSET Ranks /\ F \in SUBSET ActiveProbes
        /\ Cardinality(ActiveProbes) <= ProbeWorkers /\ Cardinality(ActiveLinks) <= LinkWorkers
        /\ ProbeWorkers \in Nat
    BY <1>1, PlanAssumption DEF ProbesIn, ActiveProbes, ScanInv, ResultInv, WorkersInv
  <2>1. Cardinality(F) \in Nat /\ Cardinality(ActiveProbes) \in Nat
    BY <2>0, ProbeSetsFinite
  <2>2. CASE ctrl # "fetching"
    BY <2>0, <2>1, <2>2, FewerProbes DEF InFlightBound
  <2>3. CASE ctrl = "fetching"
    <3>1. PICK i \in Ranks : probePc[i] = "echo"
      BY <1>1, <2>3 DEF ScanInv, ResultInv, ControlInv, ProbesIn
    <3>2. i \notin F /\ F \cup {i} \in SUBSET ActiveProbes
      BY <3>1 DEF ProbesIn, ActiveProbes
    <3>3. Cardinality(F \cup {i}) <= Cardinality(ActiveProbes)
      BY <2>0, <3>2, FewerProbes
    <3>4. Cardinality(F \cup {i}) = Cardinality(F) + 1
      BY <2>0, <3>2, ProbeEnters
    <3> QED
      BY <2>0, <2>1, <2>3, <3>3, <3>4 DEF InFlightBound
  <2> QED
    BY <2>2, <2>3
<1> QED
  BY <1>1, ScanInvariance, PTL

(* Every probe is counted once, and once more if rejected (CountersAgree), *)
(* whatever the workers' interleaving.                                     *)
THEOREM ProbesAreCounted == Spec => []CountersAgree
BY ScanInvariance, PTL DEF ScanInv, ResultInv

(* When the response admits neither throttling nor a spent budget, every   *)
(* planned probe was answered or made unnecessary (CompleteUnlessFlagged). *)
THEOREM SilenceIsExplained == Spec => []CompleteUnlessFlagged
<1>1. ASSUME ScanInv PROVE CompleteUnlessFlagged
  <2> SUFFICES ASSUME response # NoResponse, ~response.rateLimited, ~response.budgetExhausted,
                      NEW i \in Planned(Linked), probePc[i] \notin {"lost", "rejected", "accepted"}
               PROVE  \E j \in Ranks : Plan[j] = Plan[i] /\ probePc[j] = "accepted"
    BY DEF CompleteUnlessFlagged
  <2>1. ~rateLimited /\ expired = {}
    <3>1. response = ScanResult
      BY <1>1 DEF ScanInv, ResultInv, ResponseInv
    <3>2. ScanResult.rateLimited = rateLimited /\ ScanResult.budgetExhausted = (expired # {})
      BY Zenon DEF ScanResult, BuildResponse
    <3> QED
      BY <3>1, <3>2
  <2>2. i \in Ranks /\ probePc[i] \in Finished /\ probePc[i] # "unplanned"
    BY <1>1 DEF ScanInv, ResultInv, ResponseInv, PhasesOver, HitsInv, PlanKept, Planned
  <2>3. Satisfied(i)
    BY <1>1, <2>1, <2>2 DEF Finished, ScanInv, HitsInv, SkipExplained
  <2>4. Plan[i] \in Types /\ probedHits[Plan[i]] \in Ranks
    BY <1>1, <2>2, <2>3, PlanShape DEF Satisfied, ScanInv, TypeOK
  <2> QED
    BY <1>1, <2>3, <2>4 DEF Satisfied, ScanInv, HitsInv, HitsAccepted
<1> QED
  BY <1>1, ScanInvariance, PTL

-----------------------------------------------------------------------------
(* The documents of the response                                           *)

(* Merging, filtering and the disclaimer rule invent nothing: a document   *)
(* is a probe finding or a live link finding of its type.                  *)
LEMMA DocumentsShape ==
  ASSUME NEW probed, NEW links, NEW t \in DOMAIN Documents(probed, links)
  PROVE  \/ t \in DOMAIN probed /\ Documents(probed, links)[t] = probed[t]
         \/ /\ t \in DOMAIN links \ DeadLinks(links)
            /\ Documents(probed, links)[t] = links[t]
<1> DEFINE live   == LiveLinks(links)
           merged == MergeHits(probed, live)
           strong == DropWeak(merged)
<1>1. t \in DOMAIN strong /\ Documents(probed, links)[t] = strong[t]
  BY DEF Documents, discardStandaloneDisclaimer, Restrict
<1>2. t \in DOMAIN merged /\ strong[t] = merged[t]
  BY <1>1 DEF DropWeak, Restrict
<1>3. DOMAIN merged = DOMAIN probed \cup DOMAIN live
  BY DEF MergeHits
<1>4. \/ t \in DOMAIN probed /\ merged[t] = probed[t]
      \/ t \in DOMAIN live /\ merged[t] = live[t]
  BY <1>2, <1>3 DEF MergeHits
<1>5. t \in DOMAIN live => t \in DOMAIN links \ DeadLinks(links) /\ live[t] = links[t]
  BY DEF LiveLinks, Restrict
<1> QED
  BY <1>1, <1>2, <1>4, <1>5

(* The finding of a probe names the probe and where it comes from.         *)
LEMMA ProbeFindingShape ==
  \A i : ProbeFinding(i).source = "probed_path" /\ ProbeFinding(i).url = i
BY DEF ProbeFinding

(* A document of the response that a probe found is the hit kept for its   *)
(* type, and no catch-all; any other is the verified link of its type.     *)
LEMMA ResponseDocuments ==
  ASSUME ScanInv, response # NoResponse, NEW t \in DOMAIN Docs
  PROVE  \/ t \in KeptTypes /\ Docs[t] = ProbeFinding(probedHits[t]) /\ t \in ProbedDocs
         \/ t \in Linked \ DeadLinks(linkResults) /\ Docs[t] = linkResults[t] /\ t \notin ProbedDocs
<1> DEFINE probed == [u \in KeptTypes |-> ProbeFinding(probedHits[u])]
<1>1. response = ScanResult /\ linkResults \in [Linked -> Findings]
  BY DEF ScanInv, TypeOK, ResultInv, ResponseInv
<1>2. Docs = Documents(probed, linkResults)
  BY <1>1 DEF Docs, ScanResult, BuildResponse
<1>3. \/ t \in DOMAIN probed /\ Docs[t] = probed[t]
      \/ t \in DOMAIN linkResults \ DeadLinks(linkResults) /\ Docs[t] = linkResults[t]
  BY <1>2, DocumentsShape
<1>4. CASE t \in DOMAIN probed /\ Docs[t] = probed[t]
  BY <1>4, ProbeFindingShape DEF ProbedDocs
<1>5. CASE t \in DOMAIN linkResults \ DeadLinks(linkResults) /\ Docs[t] = linkResults[t]
  BY <1>1, <1>5 DEF ProbedDocs, ScanInv, ResultInv, LinksInv
<1> QED
  BY <1>3, <1>4, <1>5

(* A type that got a hit is not a linked one.                              *)
LEMMA HitsAreUnlinked ==
  ASSUME ScanInv, NEW t \in HitTypes
  PROVE  /\ probedHits[t] \in Ranks /\ probePc[probedHits[t]] = "accepted"
         /\ Plan[probedHits[t]] = t /\ t \notin Linked
<1>1. /\ t \in Types /\ probedHits[t] \in Ranks
      /\ probePc[probedHits[t]] = "accepted" /\ Plan[probedHits[t]] = t
  BY DEF HitTypes, ScanInv, TypeOK, HitsInv, HitsAccepted
<1>2. probedHits[t] \in Planned(Linked)
  BY <1>1 DEF ScanInv, HitsInv, PlanKept
<1> QED
  BY <1>1, <1>2 DEF Planned, Wanted

(* A type with a dead link is not a document by any other road             *)
(* (DeadLinkNotDocument): no probe runs for a linked type.                 *)
THEOREM DeadLinksStayDead == Spec => []DeadLinkNotDocument
<1>1. ASSUME ScanInv PROVE DeadLinkNotDocument
  <2> SUFFICES ASSUME response # NoResponse
               PROVE  /\ response.rejectedLinks \cap DOMAIN Docs = {}
                      /\ ProbedDocs \cap Linked = {}
    BY DEF DeadLinkNotDocument
  <2>1. response.rejectedLinks = DeadLinks(linkResults)
    BY <1>1 DEF ScanInv, ResultInv, ResponseInv, ScanResult, BuildResponse
  <2>2. DeadLinks(linkResults) \subseteq Linked
    BY <1>1 DEF DeadLinks, ScanInv, TypeOK
  <2>3. ASSUME NEW t \in DOMAIN Docs
        PROVE  t \notin DeadLinks(linkResults) /\ (t \in ProbedDocs => t \notin Linked)
    BY <1>1, <2>2, ResponseDocuments, HitsAreUnlinked DEF KeptTypes
  <2> QED
    BY <2>1, <2>3 DEF ProbedDocs
<1> QED
  BY <1>1, ScanInvariance, PTL

-----------------------------------------------------------------------------
(* What the scan found, as the abstract search and the response have it    *)

(* A finding that was verified: it has one of the three confidences the    *)
(* response tallies, and its page was seen or could not be looked at.      *)
IsVerified(d) ==
  /\ d.conf \in {"low", "medium", "high"}
  /\ d.status = 0 \/ Success(d.status)

(* A link whose verification is over and that is not dead was verified.    *)
VerifiedInv ==
  \A t \in Linked :
    linkPc[t] = "done" /\ ~linkResults[t].rejected => IsVerified(linkResults[t])

StandingNow == [t \in Types |-> Standing(t)]

ReportNow == IF response = NoResponse THEN NoResponse ELSE [t \in DOMAIN Docs |-> Docs[t].conf]

-----------------------------------------------------------------------------
(* A confidence and the floor of a link yield a confidence that counts.    *)
LEMMA AtLeastShape ==
  ASSUME NEW c \in Confidences, NEW f \in {"low", "medium"}
  PROVE  AtLeast(c, f) \in {"low", "medium", "high"}
<1>1. CASE c \in {"low", "medium", "high"}
  BY <1>1 DEF AtLeast
<1>2. CASE c \in {"", "none"}
  <2>1. confidenceRank(c) < confidenceRank(f)
    <3>1. confidenceRank("") = 0 /\ confidenceRank("none") = 0
      BY DEF confidenceRank
    <3>2. confidenceRank("low") = 1 /\ confidenceRank("medium") = 2
      BY DEF confidenceRank
    <3>3. confidenceRank(c) = 0
      BY <1>2, <3>1, Zenon
    <3>4. confidenceRank(f) = 1 \/ confidenceRank(f) = 2
      BY <3>2, Zenon
    <3> QED
      BY <3>3, <3>4
  <2> QED
    BY <2>1 DEF AtLeast
<1> QED
  BY <1>1, <1>2 DEF Confidences

(* A real page has a confidence that counts.                               *)
LEMMA RealPagesCount ==
  ASSUME NEW v, NEW t, classifyView(v, t).real
  PROVE  classifyView(v, t).conf \in {"low", "medium", "high"}
BY DEF classifyView, NotReal, Assessment

(* verifyLink leaves a live link verified.                                 *)
LEMMA VerifiedConf ==
  ASSUME NEW t, NEW hit \in LinkHits, NEW a \in Answers, ~verifyLink(t, hit, a).rejected
  PROVE  IsVerified(verifyLink(t, hit, a))
<1>1. /\ hit \in Findings /\ hit.floor \in {"low", "medium"} /\ hit.conf \in Confidences
      /\ hit.conf = ""
  <2>1. hit \in [source : {"footer_link", "page_link"}, named : BOOLEAN,
                 floor : {"low", "medium"}, url : URLs, conf : {""},
                 evidence : {{}}, status : {0}, rejected : {FALSE}]
    BY PlanAssumption
  <2> QED
    BY <2>1, LinkHitsAreFindings DEF Confidences
<1>2. AtLeast(hit.conf, hit.floor) \in {"low", "medium", "high"}
  BY <1>1, AtLeastShape
<1>3. ASSUME NEW n PROVE DeadLink(hit, n).rejected
  BY <1>1 DEF DeadLink, Findings
<1>4. CASE TargetUnseen(a)
  <2>1. verifyLink(t, hit, a) = Unverified(hit)
    BY <1>4 DEF verifyLink
  <2>2. /\ Unverified(hit).conf = AtLeast(hit.conf, hit.floor)
        /\ Unverified(hit).status = 0
    BY <1>1, <1>2 DEF Unverified, Findings
  <2> QED
    BY <1>2, <2>1, <2>2 DEF IsVerified
<1>5. CASE ~TargetUnseen(a) /\ Success(a.status)
  <2> DEFINE vr == classifyView(a.view, t)
             n  == a.status
             d  == VerifiedLink(t, hit, n, a.view)
  <2>1. verifyLink(t, hit, a) = d
    BY <1>5 DEF verifyLink
  <2>2. AtLeast(vr.conf, hit.floor) \in {"low", "medium", "high"}
    BY <1>1, ClassifyShape, AtLeastShape
  <2>3. Success(n)
    BY <1>5
  <2> HIDE DEF vr, n
  <2>4. ~d.rejected => d.conf \in {"low", "medium", "high"} /\ d.status = n
    BY <1>1, <1>3, <2>2 DEF VerifiedLink, Findings, vr
  <2> HIDE DEF d
  <2> QED
    BY <2>1, <2>3, <2>4 DEF IsVerified
<1>6. CASE ~TargetUnseen(a) /\ ~Success(a.status)
  BY <1>3, <1>6 DEF verifyLink
<1> QED
  BY <1>4, <1>5, <1>6

(* The links are as they were found until their answer arrives.            *)
LEMMA InitVerified == Init => VerifiedInv
BY DEF Init, VerifiedInv

LEMMA StepVerified == TypeOK /\ VerifiedInv /\ [Next]_vars => VerifiedInv'
<1> SUFFICES ASSUME TypeOK, VerifiedInv, [Next]_vars PROVE VerifiedInv'
  OBVIOUS
<1>1. ASSUME NEW t \in Linked, NEW a \in Answers, LinkAnswer(t, a) PROVE VerifiedInv'
  <2>1. linkHits[t] \in LinkHits
    BY DEF TypeOK
  <2>2. ~verifyLink(t, linkHits[t], a).rejected => IsVerified(verifyLink(t, linkHits[t], a))
    BY <2>1, VerifiedConf
  <2> QED
    BY <1>1, <2>2 DEF TypeOK, VerifiedInv, LinkAnswer, Linked
<1>2. ASSUME NEW t \in Linked, LinkGo(t) PROVE VerifiedInv'
  BY <1>2 DEF TypeOK, VerifiedInv, LinkGo, Linked
<1>3. CASE UNCHANGED <<linkHits, linkPc, linkResults>>
  BY <1>3 DEF VerifiedInv, Linked
<1>4. ASSUME NEW i \in Ranks, ProbeStep(i) PROVE UNCHANGED <<linkHits, linkPc, linkResults>>
  BY <1>4, ProbeMoves
<1> QED
  BY <1>1, <1>2, <1>3, <1>4
     DEF Next, ControlStep, ControlFetch, ControlAnswer, LinkStep, Expire, WrapUp, Answered,
         vars, linkVars

(* Every live link was verified, once its answer is there.                 *)
LEMMA LinksVerified == Spec => []VerifiedInv
BY InitVerified, StepVerified, ScanTyped, PTL DEF Spec

-----------------------------------------------------------------------------
(* What stands                                                             *)

(* What stands for a type is a kept hit, a verified live link, or nothing. *)
LEMMA StandingShape ==
  ASSUME ScanInv, VerifiedInv, NEW t \in Types
  PROVE  /\ Standing(t) \in Confidences
         /\ t \in HitTypes => Standing(t) = ConfOf(probedHits[t]) /\ Standing(t) # ""
         /\ t \in Linked /\ linkPc[t] = "done" /\ ~linkResults[t].rejected =>
              t \notin HitTypes /\ Standing(t) = linkResults[t].conf /\ Standing(t) # ""
         /\ t \in Linked /\ linkPc[t] # "done" => Standing(t) = ""
<1>1. t \in HitTypes => t \notin Linked /\ ConfOf(probedHits[t]) \in Confidences \ {""}
  BY HitsAreUnlinked, ClassifyShape DEF ConfOf
<1>2. "" \in Confidences
  BY DEF Confidences
<1>3. t \in Linked /\ linkPc[t] = "done" /\ ~linkResults[t].rejected
        => linkResults[t].conf \in Confidences \ {""}
  BY DEF VerifiedInv, IsVerified, Confidences
<1> QED
  BY <1>1, <1>2, <1>3 DEF Standing

(* It rests on the kept hits, their pages and the links alone.             *)
LEMMA StandingStill ==
  ASSUME TypeOK, HitsAccepted,
         UNCHANGED <<linkHits, linkPc, linkResults, probedHits>>,
         \A j \in Ranks : probePc[j] = "accepted" => probePage'[j] = probePage[j]
  PROVE  UNCHANGED StandingNow
<1> SUFFICES ASSUME NEW t \in Types PROVE UNCHANGED Standing(t)
  BY DEF StandingNow
<1>1. HitTypes' = HitTypes /\ Linked' = Linked
  BY DEF HitTypes, Linked
<1>2. ASSUME t \in HitTypes PROVE ConfOf(probedHits[t])' = ConfOf(probedHits[t])
  <2>1. probedHits[t] \in Ranks /\ probePc[probedHits[t]] = "accepted"
    BY <1>2 DEF HitTypes, HitsAccepted, TypeOK
  <2> QED
    BY <2>1 DEF ConfOf
<1> QED
  BY <1>1, <1>2 DEF Standing

(* A probe that ends or goes on without a hit.                             *)
LEMMA OpenProbes ==
  ASSUME TypeOK, NEW i \in Ranks, UNCHANGED <<linkHits, linkPc>>,
         \A j \in Ranks \ {i} : probePc'[j] = probePc[j],
         probePc[i] \notin Finished
  PROVE  /\ <<Plan[i], i>> \in OpenSearches
         /\ probePc'[i] \in Finished => OpenSearches' = OpenSearches \ {<<Plan[i], i>>}
         /\ probePc'[i] \notin Finished => OpenSearches' = OpenSearches
<1>1. Linked' = Linked
  BY DEF Linked
<1>2. i # NoHit
  BY PlanShape DEF NoHit
<1> QED
  BY <1>1, <1>2 DEF OpenSearches

(* An answer to a link closes its search.                                  *)
LEMMA OpenLinks ==
  ASSUME TypeOK, NEW t \in Linked, UNCHANGED <<linkHits, probePc>>,
         linkPc[t] # "done", linkPc'[t] = "done",
         \A u \in Linked \ {t} : linkPc'[u] = linkPc[u]
  PROVE  /\ <<t, NoHit>> \in OpenSearches
         /\ OpenSearches' = OpenSearches \ {<<t, NoHit>>}
<1>1. Linked' = Linked
  BY DEF Linked
<1>2. \A i \in Ranks : i # NoHit
  BY PlanShape DEF NoHit
<1> QED
  BY <1>1, <1>2 DEF OpenSearches

(* A search that ends with a find that is the first or better.             *)
LEMMA Bettered ==
  ASSUME NEW t \in Types, NEW n, NEW c \in Confidences \ {""},
         <<t, n>> \in OpenSearches, OpenSearches' = OpenSearches \ {<<t, n>>},
         Standing(t) = "" \/ confidenceRank(c) > confidenceRank(Standing(t)),
         StandingNow' = [StandingNow EXCEPT ![t] = c],
         UNCHANGED ReportNow
  PROVE  [Search!Next]_Search!vars
<1>1. Search!Betters(c, t)
  BY DEF Search!Betters, Search!confidenceRank, confidenceRank
<1>2. c \in Search!Confidences \ {""}
  BY DEF Search!Confidences, Confidences
<1>3. Search!Close(<<t, n>>)
  BY <1>1, <1>2 DEF Search!Close, StandingNow, ReportNow
<1> QED
  BY <1>3 DEF Search!Next

-----------------------------------------------------------------------------
(* One step of a probe                                                     *)

(* A search that ends without a find, or does not end.                     *)
LEMMA ProbeWithoutHit ==
  ASSUME ScanInv, NEW i \in Ranks, ProbeStep(i), ~ProbeStore(i)
  PROVE  [Search!Next]_Search!vars
<1>1. TypeOK /\ HitsAccepted
  BY DEF ScanInv, HitsInv
<1>2. /\ \A j \in Ranks \ {i} : probePc'[j] = probePc[j]
      /\ UNCHANGED <<linkHits, linkPc, linkResults, response>>
  BY <1>1, ProbeMoves
<1>3. /\ probePc[i] \notin Finished
      /\ UNCHANGED probedHits
      /\ \A j \in Ranks : probePc[j] = "accepted" => probePage'[j] = probePage[j]
  BY <1>1
     DEF ProbeStep, LaunchSkip, LaunchBlock, NextInPlan, LaunchGo, ProbeRecheck, ProbeLost,
         ProbeClassify, ProbeEcho, Finished, TypeOK
<1>4. UNCHANGED StandingNow
  BY <1>1, <1>2, <1>3, StandingStill
<1>5. UNCHANGED ReportNow
  BY <1>2 DEF ReportNow, Docs
<1>6. /\ <<Plan[i], i>> \in OpenSearches
      /\ \/ OpenSearches' = OpenSearches \ {<<Plan[i], i>>}
         \/ OpenSearches' = OpenSearches
  BY <1>1, <1>2, <1>3, OpenProbes
<1>7. CASE OpenSearches' = OpenSearches \ {<<Plan[i], i>>}
  BY <1>4, <1>5, <1>6, <1>7 DEF Search!Next, Search!Close, StandingNow, ReportNow
<1>8. CASE OpenSearches' = OpenSearches
  BY <1>4, <1>5, <1>8 DEF Search!vars, StandingNow, ReportNow
<1> QED
  BY <1>6, <1>7, <1>8

(* A search that ends with a find: it stands if it is the first for its    *)
(* type or beats the kept one; a find as confident as the kept one changes *)
(* nothing that stands.                                                    *)
LEMMA ProbeWithHit ==
  ASSUME ScanInv, VerifiedInv, NEW i \in Ranks, ProbeStore(i)
  PROVE  [Search!Next]_Search!vars
<1> DEFINE t == Plan[i]
<1>0. t \in Types
  BY PlanShape
<1>1. TypeOK /\ HitsAccepted
  BY DEF ScanInv, HitsInv
<1>2. /\ probePc[i] = "echo" /\ probePc'[i] = "accepted"
      /\ \A j \in Ranks \ {i} : probePc'[j] = probePc[j]
      /\ UNCHANGED <<linkHits, linkPc, linkResults, response, probePage>>
      /\ probedHits' = IF probedHits[t] = NoHit \/ Beats(i, probedHits[t])
                       THEN [probedHits EXCEPT ![t] = i] ELSE probedHits
  BY <1>1 DEF ProbeStore, TypeOK, linkVars
<1>3. UNCHANGED ReportNow
  BY <1>2 DEF ReportNow, Docs
<1>4. <<t, i>> \in OpenSearches /\ OpenSearches' = OpenSearches \ {<<t, i>>}
  BY <1>1, <1>2, OpenProbes DEF Finished
<1>5. CASE UNCHANGED StandingNow
  BY <1>3, <1>4, <1>5 DEF Search!Next, Search!Close, StandingNow, ReportNow
<1>6. CASE ~(probedHits[t] = NoHit \/ Beats(i, probedHits[t]))
  <2>1. UNCHANGED StandingNow
    BY <1>1, <1>2, <1>6, StandingStill
  <2> QED
    BY <1>5, <2>1
<1>7. CASE probedHits[t] = NoHit \/ Beats(i, probedHits[t])
  <2> DEFINE c == ConfOf(i)
  <2>0. c \in Confidences \ {""}
    BY ClassifyShape DEF ConfOf
  <2>1. i # NoHit /\ t \notin Linked
    <3>1. i \in Planned(Linked)
      BY <1>1, <1>2 DEF ScanInv, HitsInv, PlanKept
    <3> QED
      BY <3>1, PlanShape DEF NoHit, Planned, Wanted
  <2>2. probedHits' = [probedHits EXCEPT ![t] = i]
    BY <1>2, <1>7
  <2>3. /\ HitTypes' = HitTypes \cup {t} /\ Linked' = Linked
        /\ probedHits'[t] = i /\ \A u \in Types \ {t} : probedHits'[u] = probedHits[u]
    BY <1>0, <1>1, <1>2, <2>1, <2>2 DEF HitTypes, Linked, TypeOK
  <2>4. \A j : ConfOf(j)' = ConfOf(j)
    BY <1>2 DEF ConfOf
  <2>5. StandingNow' = [StandingNow EXCEPT ![t] = c]
    <3>1. Standing(t)' = c
      BY <1>0, <2>3, <2>4 DEF Standing
    <3>2. ASSUME NEW u \in Types \ {t} PROVE Standing(u)' = Standing(u)
      <4>1. /\ u \in HitTypes' <=> u \in HitTypes
            /\ ConfOf(probedHits[u])' = ConfOf(probedHits[u])
        BY <1>2, <2>3 DEF ConfOf
      <4>2. CASE u \in HitTypes
        BY <4>1, <4>2 DEF Standing
      <4>3. CASE u \notin HitTypes
        <5>1. UNCHANGED <<linkPc, linkResults, Linked>>
          BY <1>2, <2>3
        <5> QED
          BY <4>1, <4>3, <5>1 DEF Standing
      <4> QED
        BY <4>2, <4>3
    <3> QED
      BY <1>0, <3>1, <3>2 DEF StandingNow
  <2>6. CASE probedHits[t] = NoHit
    <3>1. Standing(t) = ""
      BY <2>1, <2>6 DEF Standing, HitTypes
    <3> QED
      BY <1>0, <1>3, <1>4, <2>0, <2>5, <3>1, Bettered
  <2>7. CASE probedHits[t] # NoHit
    <3>1. /\ t \in HitTypes /\ Standing(t) = ConfOf(probedHits[t])
      BY <1>0, <2>7, StandingShape DEF HitTypes
    <3>2. confidenceRank(c) > confidenceRank(Standing(t)) \/ confidenceRank(c) = confidenceRank(Standing(t))
      BY <1>7, <2>7, <3>1 DEF Beats
    <3>3. CASE confidenceRank(c) > confidenceRank(Standing(t))
      BY <1>0, <1>3, <1>4, <2>0, <2>5, <3>3, Bettered
    <3>4. CASE confidenceRank(c) = confidenceRank(Standing(t))
      <4>1. c \in Confidences \ {"", "none"} \/ c = "none"
        BY <2>0
      <4>2. c = Standing(t)
        <5>1. \A v : classifyView(v, t).real => classifyView(v, t).conf \in {"low", "medium", "high"}
          BY RealPagesCount
        <5>2. \A j \in Ranks : Plan[j] = t /\ probePc[j] \in {"echo", "accepted"}
                => ConfOf(j) \in {"low", "medium", "high"}
          BY <5>1 DEF ConfOf, ScanInv, HitsInv, PagesNoted, ProbeRejects
        <5>3. Standing(t) \in {"low", "medium", "high"}
          BY <1>1, <2>7, <3>1, <5>2, HitsAreUnlinked
        <5> QED
          BY <1>2, <3>4, <5>2, <5>3 DEF confidenceRank
      <4>3. UNCHANGED StandingNow
        BY <1>0, <2>5, <4>2 DEF StandingNow
      <4> QED
        BY <1>5, <4>3
    <3> QED
      BY <3>2, <3>3, <3>4
  <2> QED
    BY <2>6, <2>7
<1> QED
  BY <1>6, <1>7

-----------------------------------------------------------------------------
(* The links and the wrap-up                                               *)

(* An answer to a link ends its search, with a find unless it is dead.     *)
LEMMA LinkEnds ==
  ASSUME ScanInv, VerifiedInv, VerifiedInv', NEW t \in Linked, NEW a \in Answers,
         LinkAnswer(t, a)
  PROVE  [Search!Next]_Search!vars
<1>1. TypeOK /\ t \in Types /\ t \notin HitTypes
  BY HitsAreUnlinked DEF ScanInv, TypeOK
<1>2. /\ linkPc[t] = "fetching" /\ linkPc'[t] = "done"
      /\ \A u \in Linked \ {t} : linkPc'[u] = linkPc[u] /\ linkResults'[u] = linkResults[u]
      /\ UNCHANGED <<linkHits, probePc, probePage, probedHits, response>>
  BY <1>1 DEF LinkAnswer, TypeOK, Linked, probeVars
<1>3. HitTypes' = HitTypes /\ Linked' = Linked
  BY <1>2 DEF HitTypes, Linked
<1>4. UNCHANGED ReportNow
  BY <1>2 DEF ReportNow, Docs
<1>5. <<t, NoHit>> \in OpenSearches /\ OpenSearches' = OpenSearches \ {<<t, NoHit>>}
  BY <1>1, <1>2, OpenLinks
<1>6. \A u \in Types \ {t} : Standing(u)' = Standing(u)
  BY <1>2, <1>3 DEF Standing, ConfOf
<1>7. Standing(t) = ""
  BY <1>1, <1>2, StandingShape
<1>8. CASE linkResults'[t].rejected
  <2>1. Standing(t)' = ""
    BY <1>1, <1>3, <1>8 DEF Standing
  <2>2. UNCHANGED StandingNow
    BY <1>6, <1>7, <2>1 DEF StandingNow
  <2> QED
    BY <1>4, <1>5, <2>2 DEF Search!Next, Search!Close, StandingNow, ReportNow
<1>9. CASE ~linkResults'[t].rejected
  <2>1. Standing(t)' = linkResults'[t].conf
    BY <1>1, <1>2, <1>3, <1>9 DEF Standing
  <2>2. linkResults'[t].conf \in Confidences \ {""}
    BY <1>2, <1>3, <1>9 DEF VerifiedInv, IsVerified, Confidences
  <2>3. StandingNow' = [StandingNow EXCEPT ![t] = linkResults'[t].conf]
    BY <1>1, <1>6, <2>1 DEF StandingNow
  <2> QED
    BY <1>1, <1>4, <1>5, <1>7, <2>2, <2>3, Bettered
<1> QED
  BY <1>8, <1>9

(* The report comes after the last search and says what stands.            *)
LEMMA WrapUpReports ==
  ASSUME ScanInv, VerifiedInv, WrapUp
  PROVE  [Search!Next]_Search!vars
<1> DEFINE docs == Documents([u \in KeptTypes |-> ProbeFinding(probedHits[u])], linkResults)
<1>1. /\ response = NoResponse /\ response' = ScanResult /\ PhasesOver
      /\ UNCHANGED <<linkHits, probePc, probePage, probedHits, linkPc, linkResults>>
  BY DEF WrapUp, probeVars, linkVars
<1>2. OpenSearches = {} /\ UNCHANGED OpenSearches
  BY <1>1 DEF OpenSearches, PhasesOver, Linked
<1>3. UNCHANGED StandingNow
  BY <1>1, StandingStill DEF ScanInv, HitsInv
<1>4. Docs' = docs
  BY <1>1 DEF Docs, ScanResult, BuildResponse
<1>5. ASSUME NEW t \in DOMAIN docs
      PROVE  t \in Types /\ docs[t].conf = Standing(t) /\ Standing(t) # ""
  <2> DEFINE probed == [u \in KeptTypes |-> ProbeFinding(probedHits[u])]
  <2>1. \/ t \in DOMAIN probed /\ docs[t] = probed[t]
        \/ t \in DOMAIN linkResults \ DeadLinks(linkResults) /\ docs[t] = linkResults[t]
    BY DocumentsShape
  <2>2. DOMAIN linkResults = Linked /\ Linked \subseteq Types
    BY DEF ScanInv, TypeOK
  <2>3. CASE t \in DOMAIN probed /\ docs[t] = probed[t]
    <3>1. t \in HitTypes /\ t \in Types
      BY <2>3 DEF KeptTypes, HitTypes
    <3>2. probed[t] = ProbeFinding(probedHits[t])
      BY <2>3
    <3>3. docs[t] = ProbeFinding(probedHits[t])
      BY <2>3, <3>2
    <3>4. ProbeFinding(probedHits[t]).conf = ConfOf(probedHits[t])
      BY DEF ProbeFinding
    <3> QED
      BY <3>1, <3>3, <3>4, StandingShape
  <2>4. CASE t \in DOMAIN linkResults \ DeadLinks(linkResults) /\ docs[t] = linkResults[t]
    <3>1. t \in Linked /\ t \in Types /\ linkPc[t] = "done" /\ ~linkResults[t].rejected
      BY <1>1, <2>2, <2>4 DEF PhasesOver, DeadLinks
    <3> QED
      BY <2>4, <3>1, StandingShape
  <2> QED
    BY <2>1, <2>3, <2>4
<1>6. CASE response' = NoResponse
  BY <1>1, <1>2, <1>3, <1>6 DEF Search!vars, StandingNow
<1>7. CASE response' # NoResponse
  <2> DEFINE reported == DOMAIN docs
  <2>1. reported \in SUBSET {t \in Types : StandingNow[t] # ""}
    BY <1>5 DEF StandingNow
  <2>2. ReportNow' = [t \in reported |-> StandingNow[t]]
    BY <1>4, <1>5, <1>7 DEF ReportNow, StandingNow
  <2> QED
    BY <1>1, <1>2, <1>3, <2>1, <2>2 DEF Search!Next, Search!DrawUp, StandingNow, ReportNow
<1> QED
  BY <1>6, <1>7

-----------------------------------------------------------------------------
(* Nothing stands before the first answer.                                 *)
LEMMA SearchStarts == Init => Search!Init
<1> SUFFICES ASSUME Init PROVE Search!Init
  OBVIOUS
<1>1. TypeOK
  BY InitTyped
<1>2. OpenSearches \subseteq Types \X (Ranks \cup {NoHit})
  BY <1>1, PlanShape DEF OpenSearches, TypeOK
<1>3. ASSUME NEW t \in Types PROVE Standing(t) = ""
  BY DEF Init, Standing, HitTypes
<1> QED
  BY <1>2, <1>3 DEF Init, Search!Init

(* Every step of a scan is a step of the search, or none.                  *)
LEMMA SearchSteps ==
  ScanInv /\ VerifiedInv /\ VerifiedInv' /\ [Next]_vars => [Search!Next]_Search!vars
<1> SUFFICES ASSUME ScanInv, VerifiedInv, VerifiedInv', [Next]_vars
             PROVE  [Search!Next]_Search!vars
  OBVIOUS
<1>0. TypeOK /\ HitsAccepted
  BY DEF ScanInv, HitsInv
<1>1. ASSUME NEW i \in Ranks, ProbeStep(i) PROVE [Search!Next]_Search!vars
  BY <1>1, ProbeWithHit, ProbeWithoutHit
<1>2. ASSUME NEW t \in Linked, NEW a \in Answers, LinkAnswer(t, a)
      PROVE  [Search!Next]_Search!vars
  BY <1>2, LinkEnds
<1>3. CASE WrapUp
  BY <1>3, WrapUpReports
<1>4. ASSUME UNCHANGED <<linkHits, probePc, probePage, probedHits, linkResults, response>>,
             \A t \in Linked : linkPc'[t] = "done" <=> linkPc[t] = "done"
      PROVE  [Search!Next]_Search!vars
  <2>1. Linked' = Linked /\ HitTypes' = HitTypes
    BY <1>4 DEF Linked, HitTypes
  <2>2. UNCHANGED OpenSearches
    BY <1>4, <2>1 DEF OpenSearches
  <2>3. \A t \in Types : Standing(t)' = Standing(t)
    BY <1>4, <2>1 DEF Standing, ConfOf
  <2>4. UNCHANGED StandingNow /\ UNCHANGED ReportNow
    BY <1>4, <2>3 DEF StandingNow, ReportNow, Docs
  <2> QED
    BY <2>2, <2>4 DEF Search!vars, StandingNow, ReportNow
<1>5. ASSUME NEW t \in Linked, LinkGo(t) PROVE [Search!Next]_Search!vars
  BY <1>0, <1>4, <1>5 DEF LinkGo, TypeOK, probeVars
<1>6. CASE \/ ControlStep \/ Answered \/ UNCHANGED vars
           \/ \E phase \in {"probe", "link"} : Expire(phase)
  BY <1>4, <1>6
     DEF ControlStep, ControlFetch, ControlAnswer, Expire, Answered, vars, probeVars, linkVars
<1> QED
  BY <1>1, <1>2, <1>3, <1>5, <1>6 DEF Next, LinkStep

(* The scan implements the abstract search for documents                   *)
(* (ImplementsSearch): in every interleaving of any number of workers what *)
(* stands for a type only gets better, and the response reports, after the *)
(* last of them, only what stands (handler_helpers.go 380-556).            *)
THEOREM ScanImplementsSearch == Spec => ImplementsSearch
<1>1. Init => Search!Init
  BY SearchStarts
<1>2. ScanInv /\ VerifiedInv /\ VerifiedInv' /\ [Next]_vars => [Search!Next]_Search!vars
  BY SearchSteps
<1> QED
  BY <1>1, <1>2, ScanInvariance, LinksVerified, PTL DEF Spec, ImplementsSearch, Search!Spec


-----------------------------------------------------------------------------
(* The cap of the plan                                                     *)

(* How many wanted candidates the plan tries before rank i.                *)
Before(i, L) == Cardinality({j \in Ranks : j < i /\ Wanted(j, L)})

(* Two planned candidates have different numbers of candidates before      *)
(* them.                                                                   *)
LEMMA BeforeIncreases ==
  ASSUME NEW L, NEW i \in Planned(L), NEW k \in Planned(L), i < k
  PROVE  Before(i, L) < Before(k, L)
<1> DEFINE S == {j \in Ranks : j < i /\ Wanted(j, L)}
           T == {j \in Ranks : j < k /\ Wanted(j, L)}
<1>1. /\ i \in Ranks /\ k \in Ranks /\ Wanted(i, L)
      /\ i \in Nat /\ k \in Nat /\ \A j \in Ranks : j \in Nat
  BY PlanShape DEF Planned
<1>2. S \in SUBSET Ranks /\ T \in SUBSET Ranks /\ i \notin S
  BY <1>1
<1>3. S \cup {i} \in SUBSET T
  <2>1. i \in T
    BY <1>1
  <2>2. \A j \in S : j \in T
    BY <1>1
  <2> HIDE DEF S, T
  <2> QED
    BY <2>1, <2>2
<1> HIDE DEF S, T
<1>4. Cardinality(S \cup {i}) = Cardinality(S) + 1
  BY <1>2, ProbeEnters
<1>5. Cardinality(S \cup {i}) <= Cardinality(T)
  BY <1>2, <1>3, FewerProbes
<1>6. Cardinality(S) \in Nat /\ Cardinality(T) \in Nat
  BY <1>2, ProbeSetsFinite
<1> QED
  BY <1>4, <1>5, <1>6 DEF Before, S, T

(* The plan never exceeds its cap, whatever the homepage links             *)
(* (allCanonicalProbes).                                                   *)
LEMMA PlanIsCapped ==
  ASSUME NEW L
  PROVE  /\ IsFiniteSet(Planned(L))
         /\ Cardinality(Planned(L)) \in Nat
         /\ Cardinality(Planned(L)) <= MaxProbes
<1> DEFINE P == Planned(L)
           f == [i \in P |-> Before(i, L)]
<1>0. MaxProbes \in Nat
  BY PlanAssumption
<1>1. P \in SUBSET Ranks
  BY DEF Planned
<1>2. \A i \in P : Before(i, L) \in 0..(MaxProbes - 1)
  <2> SUFFICES ASSUME NEW i \in P PROVE Before(i, L) \in 0..(MaxProbes - 1)
    OBVIOUS
  <2>1. {j \in Ranks : j < i /\ Wanted(j, L)} \in SUBSET Ranks
    OBVIOUS
  <2>2. Before(i, L) \in Nat
    BY <2>1, ProbeSetsFinite DEF Before
  <2>3. Before(i, L) < MaxProbes
    BY DEF Planned, Before
  <2> QED
    BY <1>0, <2>2, <2>3
<1>3. \A i, k \in P : Before(i, L) = Before(k, L) => i = k
  <2> SUFFICES ASSUME NEW i \in P, NEW k \in P, i # k
               PROVE  Before(i, L) # Before(k, L)
    OBVIOUS
  <2>1. i \in Nat /\ k \in Nat
    BY <1>1, PlanShape
  <2>2. i < k \/ k < i
    BY <2>1
  <2>3. Before(i, L) \in Nat /\ Before(k, L) \in Nat
    BY <1>0, <1>2
  <2> QED
    BY <2>2, <2>3, BeforeIncreases
<1>4. f \in Injection(P, 0..(MaxProbes - 1))
  <2> HIDE DEF P
  <2>1. f \in [P -> 0..(MaxProbes - 1)]
    BY <1>2
  <2>2. \A i, k \in P : f[i] = f[k] => i = k
    BY <1>3
  <2> QED
    BY <2>1, <2>2 DEF Injection, IsInjective
<1>5. /\ IsFiniteSet(0..(MaxProbes - 1))
      /\ Cardinality(0..(MaxProbes - 1)) = MaxProbes
  BY <1>0, FS_Interval
<1>6. IsFiniteSet(P) /\ Cardinality(P) <= MaxProbes
  <2> HIDE DEF P, f
  <2> QED
    BY <1>4, <1>5, FS_Injection
<1> QED
  BY <1>6, FS_CardinalityType

-----------------------------------------------------------------------------
(* The figures of the probes                                               *)

(* Two types do not share the probe of their hit, and that probe was       *)
(* accepted: no more hits than accepted probes.                            *)
LEMMA HitsAreAccepted ==
  ASSUME ScanInv
  PROVE  Cardinality(HitTypes) <= Cardinality(ProbesIn({"accepted"}))
<1> DEFINE A == ProbesIn({"accepted"})
           f == [t \in HitTypes |-> probedHits[t]]
<1>1. A \in SUBSET Ranks
  BY DEF ProbesIn
<1>2. \A t \in HitTypes : f[t] \in A /\ Plan[f[t]] = t
  BY HitsAreUnlinked DEF ProbesIn
<1>3. f \in Injection(HitTypes, A)
  <2> HIDE DEF A
  <2>1. f \in [HitTypes -> A]
    BY <1>2
  <2>2. \A t, u \in HitTypes : f[t] = f[u] => t = u
    BY <1>2, Zenon
  <2> QED
    BY <2>1, <2>2 DEF Injection, IsInjective
<1>4. IsFiniteSet(A)
  BY <1>1, ProbeSetsFinite
<1> QED
  <2> HIDE DEF A, f
  <2> QED
    BY <1>3, <1>4, FS_Injection DEF A

(* The figures the response takes over from the phases.                    *)
LEMMA ProbeFigures ==
  ScanResult.pathsProbed = probedCount
    /\ ScanResult.probesRejected = rejectedCount + Cardinality(CatchAllTypes)
BY Zenon DEF ScanResult, BuildResponse

(* Rejected probes and probe documents are disjoint parts of the probes    *)
(* made, and those never exceed the plan, nor the plan its cap             *)
(* (ProbeFiguresAddUp): a catch-all, first accepted and then rejected, is  *)
(* counted on one side only.                                               *)
THEOREM ProbeFiguresAgree == Spec => []ProbeFiguresAddUp
<1>1. ASSUME ScanInv PROVE ProbeFiguresAddUp
  <2> SUFFICES ASSUME response # NoResponse
               PROVE  /\ response.probesRejected + Cardinality(ProbedDocs) <= response.pathsProbed
                      /\ response.pathsProbed <= Cardinality(Planned(Linked))
                      /\ response.pathsProbed <= MaxProbes
    BY DEF ProbeFiguresAddUp
  <2> DEFINE Counted  == ProbesIn({"lost", "rejected", "echo", "accepted"})
             Rejected == ProbesIn({"rejected"})
             Accepted == ProbesIn({"accepted"})
  <2>1. /\ response.pathsProbed = Cardinality(Counted)
        /\ response.probesRejected = Cardinality(Rejected) + Cardinality(CatchAllTypes)
    BY <1>1, ProbeFigures DEF ScanInv, ResultInv, ResponseInv, CountersAgree
  <2>2. /\ Counted \in SUBSET Ranks /\ Rejected \in SUBSET Ranks /\ Accepted \in SUBSET Ranks
        /\ Rejected \cap Accepted = {} /\ Rejected \cup Accepted \in SUBSET Counted
    BY DEF ProbesIn
  <2>3. /\ HitTypes \in SUBSET Types /\ CatchAllTypes \in SUBSET HitTypes
        /\ KeptTypes = HitTypes \ CatchAllTypes
    BY DEF HitTypes, CatchAllTypes, KeptTypes
  <2>4. ProbedDocs \in SUBSET KeptTypes
    BY <1>1, ResponseDocuments DEF ProbedDocs
  <2>5. Counted \in SUBSET Planned(Linked)
    BY <1>1 DEF ProbesIn, ScanInv, HitsInv, PlanKept
  <2>6. Cardinality(HitTypes) <= Cardinality(Accepted)
    BY <1>1, HitsAreAccepted
  <2> HIDE DEF Counted, Rejected, Accepted
  <2>7. /\ IsFiniteSet(Rejected) /\ Cardinality(Rejected) \in Nat
        /\ IsFiniteSet(Accepted) /\ Cardinality(Accepted) \in Nat
        /\ Cardinality(Counted) \in Nat
    BY <2>2, ProbeSetsFinite
  <2>8. Cardinality(Rejected) + Cardinality(Accepted) <= Cardinality(Counted)
    <3>1. Cardinality(Rejected \cup Accepted)
            = Cardinality(Rejected) + Cardinality(Accepted) - Cardinality(Rejected \cap Accepted)
      BY <2>7, FS_Union
    <3>2. Cardinality(Rejected \cap Accepted) = 0
      BY <2>2, FS_EmptySet
    <3>3. Cardinality(Rejected \cup Accepted) <= Cardinality(Counted)
      BY <2>2, FewerProbes
    <3> QED
      BY <2>7, <3>1, <3>2, <3>3
  <2>9. Cardinality(CatchAllTypes) + Cardinality(KeptTypes) = Cardinality(HitTypes)
    <3>1. IsFiniteSet(HitTypes) /\ Cardinality(HitTypes) \in Nat
      BY <2>3, LinkSetsFinite
    <3>2. Cardinality(HitTypes \ CatchAllTypes)
            = Cardinality(HitTypes) - Cardinality(HitTypes \cap CatchAllTypes)
      BY <3>1, FS_Difference
    <3>3. HitTypes \cap CatchAllTypes = CatchAllTypes
      BY <2>3
    <3>4. Cardinality(CatchAllTypes) \in Nat
      BY <2>3, LinkSetsFinite
    <3>5. Cardinality(KeptTypes) = Cardinality(HitTypes) - Cardinality(CatchAllTypes)
      BY <2>3, <3>2, <3>3, Zenon
    <3> QED
      BY <3>1, <3>4, <3>5
  <2>10. /\ IsFiniteSet(KeptTypes) /\ Cardinality(KeptTypes) \in Nat
         /\ Cardinality(CatchAllTypes) \in Nat /\ Cardinality(HitTypes) \in Nat
    BY <2>3, LinkSetsFinite
  <2>11. Cardinality(ProbedDocs) <= Cardinality(KeptTypes) /\ Cardinality(ProbedDocs) \in Nat
    BY <2>4, <2>10, FS_Subset, FS_CardinalityType
  <2>12. /\ Cardinality(Counted) <= Cardinality(Planned(Linked))
         /\ Cardinality(Planned(Linked)) \in Nat
         /\ Cardinality(Planned(Linked)) <= MaxProbes
    BY <2>5, PlanIsCapped, FS_Subset
  <2>13. MaxProbes \in Nat
    BY PlanAssumption
  <2> QED
    BY <2>1, <2>6, <2>7, <2>8, <2>9, <2>10, <2>11, <2>12, <2>13
<1> QED
  BY <1>1, ScanInvariance, PTL

-----------------------------------------------------------------------------
(* The documents and their tallies                                         *)

(* The weak findings are gone, hub pages apart.                            *)
LEMMA NoWeakDocument ==
  ASSUME NEW probed, NEW links, NEW t \in DOMAIN Documents(probed, links), t \notin Hubs
  PROVE  ~isWeakUnconfirmed(Documents(probed, links)[t])
<1> DEFINE merged == MergeHits(probed, LiveLinks(links))
           strong == DropWeak(merged)
<1>1. t \in DOMAIN strong /\ Documents(probed, links)[t] = strong[t]
  BY DEF Documents, discardStandaloneDisclaimer, Restrict
<1>2. t \in DOMAIN merged /\ strong[t] = merged[t] /\ ~isWeakUnconfirmed(merged[t])
  BY <1>1 DEF DropWeak, Restrict
<1> QED
  BY <1>1, <1>2

(* Every document of the response was verified, and is neither rejected    *)
(* nor weak: it counts unless it is a hub page.                            *)
LEMMA DocumentsCount ==
  ASSUME ScanInv, VerifiedInv, response # NoResponse, NEW t \in DOMAIN Docs
  PROVE  t \in Types /\ IsVerified(Docs[t]) /\ (countsAsDoc(t, Docs[t]) <=> t \notin Hubs)
<1> DEFINE probed == [u \in KeptTypes |-> ProbeFinding(probedHits[u])]
<1>1. response = ScanResult /\ PhasesOver /\ TypeOK
  BY DEF ScanInv, ResultInv, ResponseInv
<1>2. Docs = Documents(probed, linkResults)
  BY <1>1 DEF Docs, ScanResult, BuildResponse
<1>3. t \notin Hubs => ~isWeakUnconfirmed(Docs[t])
  <2> HIDE DEF probed
  <2> QED
    BY <1>2, NoWeakDocument
<1>4. t \in Types /\ IsVerified(Docs[t]) /\ ~Docs[t].rejected
  <2>1. CASE t \in KeptTypes /\ Docs[t] = ProbeFinding(probedHits[t])
    <3> DEFINE i == probedHits[t]
    <3>1. i \in Ranks /\ probePc[i] = "accepted" /\ Plan[i] = t
      BY <2>1, HitsAreUnlinked DEF KeptTypes
    <3>2. classifyView(probePage[i], t).real
      BY <3>1 DEF ScanInv, HitsInv, PagesNoted, ProbeRejects
    <3>3. ConfOf(i) \in {"low", "medium", "high"}
      BY <3>1, <3>2, RealPagesCount DEF ConfOf
    <3>4. t \in Types
      BY <2>1 DEF KeptTypes, HitTypes
    <3>5. /\ ProbeFinding(i).conf = ConfOf(i) /\ ProbeFinding(i).status = 200
          /\ ~ProbeFinding(i).rejected
      BY DEF ProbeFinding
    <3> HIDE DEF i
    <3> QED
      BY <2>1, <3>3, <3>4, <3>5 DEF IsVerified, Success, i
  <2>2. CASE t \in Linked \ DeadLinks(linkResults) /\ Docs[t] = linkResults[t]
    <3>1. t \in Types /\ DOMAIN linkResults = Linked
      BY <1>1, <2>2 DEF TypeOK
    <3>2. ~linkResults[t].rejected /\ linkPc[t] = "done"
      BY <1>1, <2>2, <3>1 DEF DeadLinks, PhasesOver
    <3> QED
      BY <2>2, <3>1, <3>2 DEF VerifiedInv
  <2> QED
    BY <2>1, <2>2, ResponseDocuments
<1> QED
  BY <1>3, <1>4 DEF countsAsDoc, IsVerified

(* The disjoint parts of a finite set have together as many elements.      *)
LEMMA ThreeParts ==
  ASSUME NEW A, NEW B, NEW C, IsFiniteSet(A), IsFiniteSet(B), IsFiniteSet(C),
         A \cap B = {}, A \cap C = {}, B \cap C = {}
  PROVE  Cardinality(A) + Cardinality(B) + Cardinality(C) = Cardinality(A \cup B \cup C)
<1>1. Cardinality({}) = 0
  BY FS_EmptySet
<1>2. /\ IsFiniteSet(A \cup B)
      /\ Cardinality(A \cup B) = Cardinality(A) + Cardinality(B) - Cardinality(A \cap B)
  BY FS_Union
<1>3. Cardinality((A \cup B) \cup C)
        = Cardinality(A \cup B) + Cardinality(C) - Cardinality((A \cup B) \cap C)
  BY <1>2, FS_Union
<1>4. (A \cup B) \cap C = {}
  OBVIOUS
<1>5. Cardinality(A) \in Nat /\ Cardinality(B) \in Nat /\ Cardinality(C) \in Nat
  BY FS_CardinalityType
<1>6. Cardinality(A \cap B) = 0 /\ Cardinality((A \cup B) \cap C) = 0
  BY <1>1, <1>4, Zenon
<1> DEFINE ab == A \cup B
<1>7. Cardinality(ab) = Cardinality(A) + Cardinality(B)
  BY <1>2, <1>5, <1>6
<1>8. Cardinality(ab \cup C) = Cardinality(ab) + Cardinality(C)
  <2>1. Cardinality(ab) \in Nat
    BY <1>2, FS_CardinalityType
  <2> QED
    BY <1>3, <1>5, <1>6, <2>1
<1> QED
  BY <1>5, <1>7, <1>8

(* Documents under several names are as many as their pages, or more; and  *)
(* none are none.                                                          *)
LEMMA DistinctPages ==
  ASSUME NEW docs, IsFiniteSet(CountedTypes(docs))
  PROVE  LET distinct == {docs[t].url : t \in CountedTypes(docs)}
         IN  /\ Cardinality(distinct) \in Nat
             /\ Cardinality(distinct) = 0 <=> CountedTypes(docs) = {}
<1> DEFINE S == CountedTypes(docs)
           D == {docs[t].url : t \in S}
           f == [t \in S |-> docs[t].url]
<1>1. f \in Surjection(S, D)
  <2>1. f \in [S -> D]
    OBVIOUS
  <2>2. \A u \in D : \E t \in S : f[t] = u
    OBVIOUS
  <2> HIDE DEF f, D, S
  <2> QED
    BY <2>1, <2>2 DEF Surjection
<1>2. IsFiniteSet(D)
  <2> HIDE DEF f, D
  <2> QED
    BY <1>1, FS_Surjection
<1>3. Cardinality(D) \in Nat
  BY <1>2, FS_CardinalityType
<1>4. Cardinality(D) = 0 <=> D = {}
  BY <1>2, FS_EmptySet
<1>5. D = {} <=> S = {}
  OBVIOUS
<1> QED
  BY <1>3, <1>4, <1>5

(* The verdict is "none" exactly when nothing counts.                      *)
LEMMA VerdictNone ==
  ASSUME NEW docs, IsFiniteSet(CountedTypes(docs))
  PROVE  verdictOfDocs(docs) = "none" <=> CountedTypes(docs) = {}
<1> DEFINE counted  == CountedTypes(docs)
           distinct == {docs[t].url : t \in counted}
           n        == Cardinality(distinct)
           v        == verdictOf(n, counted)
<1>1. n \in Nat /\ (n = 0 <=> counted = {})
  BY DistinctPages
<1> HIDE DEF n, counted
<1>2. v = "none" <=> n = 0
  BY <1>1 DEF verdictOf
<1> HIDE DEF v
<1>3. verdictOfDocs(docs) = IF v = "sparse" /\ {ToS, Privacy} \subseteq counted THEN "partial" ELSE v
  BY DEF verdictOfDocs, v, n, counted
<1> QED
  BY <1>1, <1>2, <1>3 DEF counted

(* The figures of the response, one by one.                                *)
LEMMA DocumentFigures ==
  LET docs  == ScanResult.documents
      found == countSuccess(docs)
  IN  /\ ScanResult.documentsFound = found
      /\ ScanResult.missing = Expected \ DOMAIN docs
      /\ ScanResult.high = Tally(docs, "high")
      /\ ScanResult.medium = Tally(docs, "medium")
      /\ ScanResult.low = Tally(docs, "low")
      /\ ScanResult.verdict = verdictOfDocs(docs)
      /\ ScanResult.httpStatus = IF found = 0 THEN 404 ELSE 200
BY Zenon DEF ScanResult, BuildResponse

(* The response agrees with itself (ResponseConsistent): its tallies cover *)
(* the documents, its count is that of the documents that are no hubs,     *)
(* and nothing found, "none" and 404 are one and the same.                 *)
THEOREM ResponseAgreesWithItself == Spec => []ResponseConsistent
<1>1. ASSUME ScanInv, VerifiedInv PROVE ResponseConsistent
  <2> SUFFICES ASSUME response # NoResponse PROVE ResponseConsistent
    BY DEF ResponseConsistent
  <2> DEFINE D == DOMAIN Docs
             Having(c) == {t \in D : Docs[t].conf = c}
  <2>1. response = ScanResult
    BY <1>1 DEF ScanInv, ResultInv, ResponseInv
  <2>2. \A t \in D : /\ t \in Types /\ IsVerified(Docs[t])
                     /\ countsAsDoc(t, Docs[t]) <=> t \notin Hubs
    BY <1>1, DocumentsCount
  <2>3. CountedTypes(Docs) = D \ Hubs
    BY <2>2 DEF CountedTypes
  <2>4. D \in SUBSET Types /\ IsFiniteSet(D \ Hubs)
    BY <2>2, LinkSetsFinite
  <2>5. response.high + response.medium + response.low = Cardinality(D)
    <3>1. /\ Having("high") \in SUBSET Types /\ Having("medium") \in SUBSET Types
          /\ Having("low") \in SUBSET Types
          /\ Having("high") \cap Having("medium") = {}
          /\ Having("high") \cap Having("low") = {}
          /\ Having("medium") \cap Having("low") = {}
      BY <2>4
    <3>2. Having("high") \cup Having("medium") \cup Having("low") = D
      BY <2>2 DEF IsVerified
    <3>3. /\ response.high = Cardinality(Having("high"))
          /\ response.medium = Cardinality(Having("medium"))
          /\ response.low = Cardinality(Having("low"))
      BY <2>1, DocumentFigures DEF Tally, Docs
    <3> HIDE DEF Having
    <3> QED
      BY <3>1, <3>2, <3>3, LinkSetsFinite, ThreeParts
  <2>6. response.documentsFound = Cardinality(D \ Hubs)
    BY <2>1, <2>3, DocumentFigures DEF countSuccess, Docs
  <2>7. response.missing = Expected \ D
    BY <2>1, DocumentFigures DEF Docs
  <2>8. (response.documentsFound = 0) <=> (D \ Hubs = {})
    BY <2>4, <2>6, FS_EmptySet
  <2>9. (response.verdict = "none") <=> (D \ Hubs = {})
    BY <2>1, <2>3, <2>4, DocumentFigures, VerdictNone DEF Docs
  <2>10. (response.documentsFound = 0) <=> (response.httpStatus = 404)
    <3>1. response.httpStatus = IF response.documentsFound = 0 THEN 404 ELSE 200
      BY <2>1, DocumentFigures
    <3> QED
      BY <3>1
  <2> QED
    BY <2>5, <2>6, <2>7, <2>8, <2>9, <2>10 DEF ResponseConsistent
<1> QED
  BY <1>1, ScanInvariance, LinksVerified, PTL

-----------------------------------------------------------------------------
(* The answers the targets gave                                            *)

(* What was never seen is a link whose verification is over and that kept  *)
(* what the homepage says of it.                                           *)
UnseenInv ==
  \A t \in unseen :
    /\ t \in Linked
    /\ linkPc[t] = "done" /\ linkResults[t] = Unverified(linkHits[t])

(* A probe that came in under throttling is not in flight any more, and    *)
(* since the flag went up nothing has joined those that were.              *)
ThrottledInv ==
  /\ throttled \subseteq Ranks
  /\ ~rateLimited => throttled = {}
  /\ rateLimited => Cardinality(throttled \cup ProbesIn({"fetching"})) <= ProbeWorkers

(* The fingerprint table is what the probes have met.                      *)
MetInv == \A t \in Types, fp \in Fingerprints : <<t, fp>> \in met <=> t \in fpTypes[fp]

(* History watches the phases and leaves their steps as they are.          *)
LEMMA HistoryWatches == [HNext]_hvars => [Next]_vars
<1> SUFFICES ASSUME [HNext]_hvars PROVE [Next]_vars
  OBVIOUS
<1>1. CASE ProbeHears
  BY <1>1 DEF ProbeHears, Next, ProbeStep
<1>2. CASE LinkHears
  BY <1>2 DEF LinkHears, Next, LinkStep
<1>3. CASE OtherStep
  BY <1>3 DEF OtherStep, Next, ProbeStep, LinkStep
<1>4. CASE UNCHANGED hvars
  BY <1>4 DEF hvars
<1> QED
  BY <1>1, <1>2, <1>3, <1>4 DEF HNext

(* The invariant of the phases holds under history too.                    *)
LEMMA HistoryInvariance == HSpec => [](ScanInv /\ VerifiedInv)
<1>1. Init => ScanInv /\ VerifiedInv
  BY InitTyped, InitHits, InitResult, InitVerified DEF ScanInv
<1>2. ScanInv /\ VerifiedInv /\ [Next]_vars => ScanInv' /\ VerifiedInv'
  BY StepTyped, StepHits, StepControl, StepWorkers, StepCounters, StepLinks, StepResponse,
     StepVerified
     DEF ScanInv, ResultInv
<1> QED
  BY <1>1, <1>2, HistoryWatches, PTL DEF HSpec, HInit

(* The flag that switches the probes off is raised only by a refusal the   *)
(* target gave (LimitIsReal): a 429 or 503 to either phase, or a bot       *)
(* challenge served to a link.                                             *)
THEOREM LimitsAreReal == HSpec => []LimitIsReal
<1>1. HInit => LimitIsReal
  BY DEF HInit, Init, LimitIsReal
<1>2. LimitIsReal /\ [HNext]_hvars => LimitIsReal'
  <2> SUFFICES ASSUME LimitIsReal, [HNext]_hvars PROVE LimitIsReal'
    OBVIOUS
  <2>1. CASE ProbeHears
    <3>1. PICK i \in Ranks, a \in Answers :
                 (ProbeLost(i, a) \/ ProbeClassify(i, a)) /\ Heard(a)
      BY <2>1 DEF ProbeHears
    <3>2. rateLimited' => rateLimited \/ LimitStatus(a.status)
      BY <3>1 DEF ProbeLost, ProbeClassify
    <3> QED
      BY <3>1, <3>2 DEF Heard, Refuses, LimitStatus, LimitIsReal
  <2>2. CASE LinkHears
    <3>1. PICK t \in Linked, a \in Answers : LinkAnswer(t, a) /\ Heard(a)
      BY <2>2 DEF LinkHears
    <3>2. LinkLimits(a) => Refuses(a)
      BY DEF LinkLimits, LimitStatus, Refuses, BotChallenge, Success
    <3> QED
      BY <3>1, <3>2 DEF LinkAnswer, Heard, LimitIsReal
  <2>3. CASE OtherStep
    <3>1. UNCHANGED <<rateLimited, refused>>
      BY <2>3
         DEF OtherStep, LaunchSkip, LaunchBlock, LaunchGo, ProbeRecheck, ProbeEcho, ProbeStore,
             ControlStep, ControlFetch, ControlAnswer, LinkGo, Expire, WrapUp, Answered, vars
    <3> QED
      BY <3>1 DEF LimitIsReal
  <2>4. CASE UNCHANGED hvars
    BY <2>4 DEF hvars, vars, LimitIsReal
  <2> QED
    BY <2>1, <2>2, <2>3, <2>4 DEF HNext
<1> QED
  BY <1>1, <1>2, PTL DEF HSpec

(* Once throttled, a worker that rechecks fetches nothing, and no launch    *)
(* makes a fetch of a probe: those that come in were in flight.            *)
LEMMA StepThrottled == TypeOK /\ WorkersInv /\ ThrottledInv /\ [HNext]_hvars => ThrottledInv'
<1> SUFFICES ASSUME TypeOK, WorkersInv, ThrottledInv, [HNext]_hvars PROVE ThrottledInv'
  OBVIOUS
<1> DEFINE F == ProbesIn({"fetching"})
<1>0. /\ F \in SUBSET Ranks /\ F' \in SUBSET Ranks /\ throttled \in SUBSET Ranks
      /\ ActiveProbes \in SUBSET Ranks /\ F \subseteq ActiveProbes
      /\ ProbeWorkers \in Nat
  BY PlanAssumption DEF ProbesIn, ActiveProbes, ThrottledInv
<1>1. Cardinality(F) <= ProbeWorkers
  <2>1. Cardinality(F) <= Cardinality(ActiveProbes)
    BY <1>0, FewerProbes
  <2> QED
    BY <1>0, <2>1, ProbeSetsFinite DEF WorkersInv
<1>2. ASSUME rateLimited' => (throttled \cup F)' \subseteq throttled \cup F,
             ~rateLimited' => throttled' = {},
             throttled' \subseteq Ranks
      PROVE  ThrottledInv'
  <2> SUFFICES ASSUME rateLimited'
               PROVE  Cardinality((throttled \cup F)') <= ProbeWorkers
    BY <1>2 DEF ThrottledInv
  <2>1. throttled \cup F \in SUBSET Ranks /\ (throttled \cup F)' \in SUBSET (throttled \cup F)
    BY <1>0, <1>2
  <2>2. Cardinality((throttled \cup F)') <= Cardinality(throttled \cup F)
    BY <2>1, FewerProbes
  <2>3. Cardinality(throttled \cup F) <= ProbeWorkers
    BY <1>1 DEF ThrottledInv, TypeOK
  <2>4. Cardinality((throttled \cup F)') \in Nat /\ Cardinality(throttled \cup F) \in Nat
    BY <1>0, <2>1, ProbeSetsFinite
  <2> QED
    BY <1>0, <2>2, <2>3, <2>4
<1>3. CASE ProbeHears
  <2>1. PICK i \in Ranks, a \in Answers :
               /\ ProbeLost(i, a) \/ ProbeClassify(i, a)
               /\ throttled' = IF rateLimited' THEN throttled \cup {i} ELSE throttled
    BY <1>3 DEF ProbeHears
  <2>2. /\ probePc[i] = "fetching" /\ probePc'[i] # "fetching"
        /\ \A j \in Ranks \ {i} : probePc'[j] = probePc[j]
        /\ rateLimited => rateLimited'
    BY <2>1 DEF ProbeLost, ProbeClassify, TypeOK
  <2>3. F' \subseteq F /\ i \in F
    BY <2>2 DEF ProbesIn
  <2> HIDE DEF F
  <2>4. ~rateLimited' => throttled' = {}
    BY <2>1, <2>2 DEF ThrottledInv
  <2>5. (throttled \cup F)' \subseteq throttled \cup F /\ throttled' \subseteq Ranks
    BY <1>0, <2>1, <2>3
  <2> QED
    BY <1>2, <2>4, <2>5
<1>4. CASE LinkHears
  <2>1. PICK t \in Linked, a \in Answers : LinkAnswer(t, a) /\ UNCHANGED throttled
    BY <1>4 DEF LinkHears
  <2>2. UNCHANGED probePc /\ (rateLimited => rateLimited')
    BY <2>1 DEF LinkAnswer, probeVars
  <2>3. F' = F
    BY <2>2 DEF ProbesIn
  <2> HIDE DEF F
  <2> QED
    BY <1>0, <1>2, <2>1, <2>2, <2>3 DEF ThrottledInv
<1>5. CASE OtherStep
  <2>1. UNCHANGED <<rateLimited, throttled>>
    BY <1>5
       DEF OtherStep, LaunchSkip, LaunchBlock, LaunchGo, ProbeRecheck, ProbeEcho, ProbeStore,
           ControlStep, ControlFetch, ControlAnswer, LinkGo, Expire, WrapUp, Answered, vars
  <2>2. ASSUME rateLimited PROVE F' \subseteq F
    <3>1. CASE \E i \in Ranks : \/ LaunchSkip(i) \/ LaunchBlock(i) \/ LaunchGo(i)
                                 \/ ProbeRecheck(i) \/ ProbeEcho(i) \/ ProbeStore(i)
      <4>1. PICK i \in Ranks : \/ LaunchSkip(i) \/ LaunchBlock(i) \/ LaunchGo(i)
                               \/ ProbeRecheck(i) \/ ProbeEcho(i) \/ ProbeStore(i)
        BY <3>1
      <4>2. probePc'[i] # "fetching" /\ \A j \in Ranks \ {i} : probePc'[j] = probePc[j]
        BY <2>2, <4>1
           DEF LaunchSkip, LaunchBlock, LaunchGo, ProbeRecheck, ProbeEcho, ProbeStore, TypeOK
      <4> QED
        BY <4>2 DEF ProbesIn
    <3>2. CASE UNCHANGED probePc
      BY <3>2 DEF ProbesIn
    <3> QED
      BY <1>5, <3>1, <3>2
         DEF OtherStep, ControlStep, ControlFetch, ControlAnswer, LinkGo, Expire, WrapUp,
             Answered, vars, probeVars
  <2> HIDE DEF F
  <2> QED
    BY <1>0, <1>2, <2>1, <2>2 DEF ThrottledInv
<1>6. CASE UNCHANGED hvars
  BY <1>6 DEF hvars, vars, probeVars, ThrottledInv, ProbesIn
<1> QED
  BY <1>3, <1>4, <1>5, <1>6 DEF HNext

(* Once the target throttles us, at most one probe per worker comes in     *)
(* (SpeculationStops), however many were launched or left waiting.         *)
THEOREM ThrottlingStopsSpeculation == HSpec => []SpeculationStops
<1>1. HInit => ThrottledInv
  BY DEF HInit, Init, ThrottledInv
<1>2. HSpec => [](ScanInv /\ ThrottledInv)
  BY <1>1, StepThrottled, HistoryInvariance, PTL DEF HSpec, ScanInv, ResultInv
<1>3. ASSUME ScanInv, ThrottledInv PROVE SpeculationStops
  <2> DEFINE T == throttled
             F == ProbesIn({"fetching"})
  <2>1. ProbeWorkers \in Nat /\ T \cup F \in SUBSET Ranks /\ T \in SUBSET (T \cup F)
    BY <1>3, PlanAssumption DEF ProbesIn, ThrottledInv
  <2>2. Cardinality(T) <= Cardinality(T \cup F)
    BY <2>1, FewerProbes
  <2>3. Cardinality(T) \in Nat /\ Cardinality(T \cup F) \in Nat
    BY <2>1, ProbeSetsFinite
  <2>4. CASE rateLimited
    BY <1>3, <2>1, <2>2, <2>3, <2>4 DEF ThrottledInv, SpeculationStops
  <2>5. CASE ~rateLimited
    BY <1>3, <2>1, <2>5, FS_EmptySet DEF ThrottledInv, SpeculationStops
  <2> QED
    BY <2>4, <2>5
<1> QED
  BY <1>2, <1>3, PTL

(* A page is noted for the type of the probe that met it, in the same step.*)
LEMMA StepMet == TypeOK /\ MetInv /\ [HNext]_hvars => MetInv'
<1> SUFFICES ASSUME TypeOK, MetInv, [HNext]_hvars,
                    NEW t \in Types, NEW fp \in Fingerprints
             PROVE  (<<t, fp>> \in met <=> t \in fpTypes[fp])'
  BY DEF MetInv
<1>1. CASE UNCHANGED <<fpTypes, met>>
  BY <1>1 DEF MetInv
<1>2. CASE ProbeHears
  <2>1. PICK i \in Ranks, a \in Answers :
               /\ ProbeLost(i, a) \/ ProbeClassify(i, a)
               /\ met' = IF probePc'[i] # "lost" /\ classifyView(a.view, Plan[i]).real
                         THEN met \cup {<<Plan[i], a.view.fp>>} ELSE met
    BY <1>2 DEF ProbeHears
  <2>2. CASE ProbeLost(i, a)
    <3>1. UNCHANGED <<fpTypes, met>>
      BY <2>1, <2>2 DEF ProbeLost, TypeOK
    <3> QED
      BY <1>1, <3>1
  <2>3. CASE ProbeClassify(i, a)
    <3>1. a.view \in Pages
      BY <2>3, AnswerShape DEF ProbeClassify
    <3>2. a.view.fp \in Fingerprints
      BY <3>1, AnswersAssumption DEF Views
    <3>3. probePc'[i] # "lost"
      BY <2>3 DEF ProbeClassify, TypeOK
    <3>4. fpTypes' = IF classifyView(a.view, Plan[i]).real
                     THEN [fpTypes EXCEPT ![a.view.fp] = @ \cup {Plan[i]}] ELSE fpTypes
      BY <2>3 DEF ProbeClassify
    <3>5. <<t, fp>> \in met <=> t \in fpTypes[fp]
      BY DEF MetInv
    <3>6. CASE ~classifyView(a.view, Plan[i]).real
      BY <2>1, <3>4, <3>5, <3>6
    <3>7. CASE classifyView(a.view, Plan[i]).real
      <4>1. met' = met \cup {<<Plan[i], a.view.fp>>}
        BY <2>1, <3>3, <3>7
      <4>2. fpTypes'[fp] = IF fp = a.view.fp THEN fpTypes[fp] \cup {Plan[i]} ELSE fpTypes[fp]
        BY <3>2, <3>4, <3>7 DEF TypeOK
      <4> QED
        BY <3>5, <4>1, <4>2
    <3> QED
      BY <3>6, <3>7
  <2> QED
    BY <2>1, <2>2, <2>3
<1>3. CASE LinkHears
  BY <1>1, <1>3 DEF LinkHears, LinkAnswer, probeVars
<1>4. CASE OtherStep
  BY <1>1, <1>4
     DEF OtherStep, LaunchSkip, LaunchBlock, LaunchGo, ProbeRecheck, ProbeEcho, ProbeStore,
         ControlStep, ControlFetch, ControlAnswer, LinkGo, Expire, WrapUp, Answered, vars,
         probeVars
<1>5. CASE UNCHANGED hvars
  BY <1>1, <1>5 DEF hvars, vars, probeVars
<1> QED
  BY <1>2, <1>3, <1>4, <1>5 DEF HNext

(* A page that answered the probes of two types is a document of neither,  *)
(* nor is the homepage (NoCatchAllDocument): the second type to get the    *)
(* page is in the table by the time both phases are over, whether its own  *)
(* probe was accepted or not, and whichever came first.                    *)
THEOREM WildcardPagesAreNoDocuments == HSpec => []NoCatchAllDocument
<1>1. HInit => MetInv
  BY DEF HInit, Init, MetInv
<1>2. HSpec => [](ScanInv /\ MetInv)
  BY <1>1, StepMet, HistoryInvariance, PTL DEF HSpec, ScanInv
<1>3. ASSUME ScanInv, MetInv PROVE NoCatchAllDocument
  <2> SUFFICES ASSUME response # NoResponse, NEW t \in ProbedDocs
               PROVE  /\ PageOf(t).fp # HomeFP
                      /\ \A u \in Types \ {t} : <<u, PageOf(t).fp>> \notin met
    BY DEF NoCatchAllDocument
  <2> DEFINE fp == PageOf(t).fp
             S  == fpTypes[fp]
  <2>1. t \in KeptTypes /\ Docs[t] = ProbeFinding(probedHits[t])
    BY <1>3, ResponseDocuments DEF ProbedDocs
  <2>2. PageOf(t) = probePage[probedHits[t]]
    BY <2>1, ProbeFindingShape DEF PageOf
  <2>3. /\ probedHits[t] \in Ranks /\ probePc[probedHits[t]] = "accepted"
        /\ Plan[probedHits[t]] = t
    BY <1>3, <2>1, HitsAreUnlinked DEF KeptTypes
  <2>4. PageOf(t) \in Pages /\ t \in S
    BY <1>3, <2>2, <2>3 DEF ScanInv, HitsInv, PagesNoted
  <2>5. fp \in Fingerprints
    BY <2>4, AnswersAssumption DEF Views
  <2>6. S \in SUBSET Types
    BY <1>3, <2>5 DEF ScanInv, TypeOK
  <2>7. ~catchAll(fp, fpTypes)
    BY <2>1, <2>2 DEF KeptTypes, CatchAllTypes
  <2>8. fp # HomeFP /\ ~(Cardinality(S) >= 2)
    BY <2>4, <2>7 DEF catchAll
  <2>9. ASSUME NEW u \in Types \ {t}, <<u, fp>> \in met PROVE FALSE
    <3>1. t \in S /\ u \in S
      BY <1>3, <2>4, <2>5, <2>9 DEF MetInv
    <3>2. IsFiniteSet(S) /\ Cardinality(S) \in Nat
      BY <2>6, LinkSetsFinite
    <3>3. Cardinality({t, u}) = 2
      <4>1. IsFiniteSet({t}) /\ Cardinality({t}) = 1
        BY FS_Singleton
      <4>2. u \notin {t}
        BY <2>9
      <4>3. Cardinality({t} \cup {u}) = Cardinality({t}) + 1
        BY <4>1, <4>2, FS_AddElement
      <4>4. {t, u} = {t} \cup {u}
        OBVIOUS
      <4> QED
        BY <4>1, <4>4, <4>3
    <3>4. Cardinality({t, u}) <= Cardinality(S)
      BY <3>1, <3>2, FS_Subset
    <3> QED
      BY <2>8, <3>2, <3>3, <3>4
  <2> QED
    BY <2>8, <2>9
<1> QED
  BY <1>2, <1>3, PTL

(* An answer that shows nothing of the target is what verifyLink calls     *)
(* unseen.                                                                 *)
LEMMA UnseenAnswers ==
  ASSUME NEW a \in Answers, NeverSeen(a)
  PROVE  TargetUnseen(a)
<1>1. a.status \in Nat
  BY AnswerShape
<1> QED
  BY <1>1 DEF NeverSeen, BotChallenge, TargetUnseen, isChallengeStatus, Success

(* Only an answer makes a target unseen, and no answer comes twice.        *)
LEMMA StepUnseen == TypeOK /\ UnseenInv /\ [HNext]_hvars => UnseenInv'
<1> SUFFICES ASSUME TypeOK, UnseenInv, [HNext]_hvars PROVE UnseenInv'
  OBVIOUS
<1>1. ASSUME UNCHANGED <<linkHits, linkResults, unseen>>,
             \A t \in Linked : linkPc[t] = "done" => linkPc'[t] = "done"
      PROVE  UnseenInv'
  BY <1>1 DEF UnseenInv, Linked
<1>2. CASE ProbeHears
  <2>1. PICK i \in Ranks : ProbeStep(i) /\ UNCHANGED unseen
    BY <1>2 DEF ProbeHears, ProbeStep
  <2>2. UNCHANGED <<linkHits, linkPc, linkResults, unseen>>
    BY <2>1, ProbeMoves
  <2> QED
    BY <1>1, <2>2
<1>3. CASE LinkHears
  <2>1. PICK t \in Linked, a \in Answers :
               /\ LinkAnswer(t, a)
               /\ unseen' = IF NeverSeen(a) THEN unseen \cup {t} ELSE unseen
    BY <1>3 DEF LinkHears
  <2>2. /\ Linked' = Linked /\ UNCHANGED linkHits
        /\ linkPc[t] # "done" /\ linkPc' = [linkPc EXCEPT ![t] = "done"]
        /\ linkResults' = [linkResults EXCEPT ![t] = verifyLink(t, linkHits[t], a)]
    BY <2>1 DEF LinkAnswer, Linked
  <2>3. \A u \in unseen :
          /\ u \in Linked \ {t}
          /\ linkPc'[u] = "done" /\ linkResults'[u] = Unverified(linkHits'[u])
    BY <2>2 DEF UnseenInv, TypeOK
  <2>4. NeverSeen(a) => linkPc'[t] = "done" /\ linkResults'[t] = Unverified(linkHits'[t])
    <3>1. NeverSeen(a) => verifyLink(t, linkHits[t], a) = Unverified(linkHits[t])
      BY UnseenAnswers DEF verifyLink
    <3> QED
      BY <2>2, <3>1 DEF TypeOK
  <2> QED
    BY <2>1, <2>2, <2>3, <2>4 DEF UnseenInv
<1>4. CASE OtherStep
  <2>1. CASE \E i \in Ranks : \/ LaunchSkip(i) \/ LaunchBlock(i) \/ LaunchGo(i)
                               \/ ProbeRecheck(i) \/ ProbeEcho(i) \/ ProbeStore(i)
    <3>1. \E i \in Ranks : ProbeStep(i)
      BY <2>1 DEF ProbeStep
    <3>2. UNCHANGED <<linkHits, linkPc, linkResults>>
      BY <3>1, ProbeMoves
    <3> QED
      BY <1>1, <1>4, <3>2 DEF OtherStep
  <2>2. CASE \E t \in Linked : LinkGo(t)
    BY <1>1, <1>4, <2>2 DEF OtherStep, LinkGo, TypeOK
  <2>3. CASE UNCHANGED <<linkHits, linkPc, linkResults>>
    BY <1>1, <1>4, <2>3 DEF OtherStep
  <2> QED
    BY <1>4, <2>1, <2>2, <2>3
       DEF OtherStep, ControlStep, ControlFetch, ControlAnswer, Expire, WrapUp, Answered, vars,
           linkVars
<1>5. CASE UNCHANGED hvars
  BY <1>1, <1>5 DEF hvars, vars, linkVars
<1> QED
  BY <1>2, <1>3, <1>4, <1>5 DEF HNext

(* A finding that is not weak, or is a hub page, survives the filters      *)
(* unless a probe has found its type or it is the disclaimer.              *)
LEMMA LiveLinkSurvives ==
  ASSUME NEW probed, NEW links, NEW t \in DOMAIN links, ~links[t].rejected,
         t \notin DOMAIN probed, t # Disclaimer, ~isWeakUnconfirmed(links[t])
  PROVE  t \in DOMAIN Documents(probed, links) /\ Documents(probed, links)[t] = links[t]
<1> DEFINE live   == LiveLinks(links)
           merged == MergeHits(probed, live)
           strong == DropWeak(merged)
<1>1. t \in DOMAIN live /\ live[t] = links[t]
  BY DEF LiveLinks, DeadLinks, Restrict
<1>2. t \in DOMAIN merged /\ merged[t] = links[t]
  BY <1>1 DEF MergeHits
<1>3. t \in DOMAIN strong /\ strong[t] = links[t]
  BY <1>2 DEF DropWeak, Restrict
<1> HIDE DEF strong
<1>4. Documents(probed, links) = discardStandaloneDisclaimer(strong)
  BY DEF Documents, strong
<1> QED
  BY <1>3, <1>4 DEF discardStandaloneDisclaimer, Restrict

(* A link whose target could not be seen is no dead link, and if its path  *)
(* and text both name its type it is a document of unknown status          *)
(* (UnseenLinkSurvives), in every interleaving and under any budget.       *)
THEOREM UnseenLinksSurvive == HSpec => []UnseenLinkSurvives
<1>1. HInit => UnseenInv
  BY DEF HInit, UnseenInv
<1>2. HSpec => []UnseenInv
  BY <1>1, StepUnseen, HistoryInvariance, PTL DEF HSpec, ScanInv
<1>3. ASSUME ScanInv, UnseenInv PROVE UnseenLinkSurvives
  <2> SUFFICES ASSUME response # NoResponse, NEW t \in unseen
               PROVE  /\ t \notin response.rejectedLinks
                      /\ linkHits[t].floor = "medium" /\ t # Disclaimer =>
                           t \in DOMAIN Docs /\ Docs[t].status = 0
    BY DEF UnseenLinkSurvives
  <2> DEFINE probed == [u \in KeptTypes |-> ProbeFinding(probedHits[u])]
             hit    == linkHits[t]
             d      == linkResults[t]
  <2>1. /\ t \in Linked /\ d = Unverified(hit) /\ DOMAIN linkResults = Linked
        /\ hit \in LinkHits
    BY <1>3 DEF UnseenInv, ScanInv, TypeOK
  <2>2. /\ response.rejectedLinks = DeadLinks(linkResults)
        /\ Docs = Documents(probed, linkResults)
    BY <1>3 DEF ScanInv, ResultInv, ResponseInv, ScanResult, BuildResponse, Docs
  <2>3. hit \in Findings /\ hit.conf = "" /\ ~hit.rejected
    <3>1. hit \in [source : {"footer_link", "page_link"}, named : BOOLEAN,
                   floor : {"low", "medium"}, url : URLs, conf : {""},
                   evidence : {{}}, status : {0}, rejected : {FALSE}]
      BY <2>1, PlanAssumption
    <3> QED
      BY <2>1, <3>1, LinkHitsAreFindings
  <2>4. ~d.rejected /\ d.status = 0
    BY <2>1, <2>3 DEF Unverified, Findings
  <2>5. ASSUME hit.floor = "medium" PROVE ~isWeakUnconfirmed(d)
    <3>1. confidenceRank("medium") = 2
      BY DEF confidenceRank
    <3>2. d.floor = "medium"
      BY <2>1, <2>3, <2>5 DEF Unverified, Findings
    <3> QED
      BY <3>1, <3>2 DEF isWeakUnconfirmed
  <2>6. t \notin DOMAIN probed
    BY <1>3, <2>1, HitsAreUnlinked DEF KeptTypes
  <2>7. ASSUME hit.floor = "medium", t # Disclaimer
        PROVE  t \in DOMAIN Docs /\ Docs[t] = d
    <3> HIDE DEF probed
    <3> QED
      BY <2>1, <2>2, <2>4, <2>5, <2>6, <2>7, LiveLinkSurvives
  <2> QED
    BY <2>2, <2>4, <2>7 DEF DeadLinks
<1> QED
  BY <1>2, <1>3, HistoryInvariance, PTL

-----------------------------------------------------------------------------
(* A site that does not change                                             *)

(* The control page is the one the site has.                               *)
ControlAtSite ==
  /\ ctrl = "ready" => IsPage(site.control) /\ ctrlView = site.control.view
  /\ ctrl = "failed" => ~IsPage(site.control)

(* So are the pages held by probes; accepted is what is acceptable.        *)
ProbesAtSite ==
  \A i \in Ranks :
    /\ probePc[i] \in {"echo", "accepted"} => IsPage(site.paths[i]) /\ probePage[i] = PageAt(i)
    /\ probePc[i] = "accepted" => Acceptable(i)
    /\ probePc[i] \in {"lost", "rejected"} => ~Acceptable(i)

(* What the table of fingerprints says of a type, a path of the type says. *)
TableAtSite ==
  \A fp \in Fingerprints, t \in Types :
    t \in fpTypes[fp] =>
      \E j \in Ranks : /\ Plan[j] = t /\ IsPage(site.paths[j])
                       /\ classifyView(PageAt(j), t).real /\ PageAt(j).fp = fp

LinksAtSite ==
  \A t \in Linked :
    linkPc[t] = "done" => linkResults[t] = verifyLink(t, linkHits[t], site.links[t])

(* Nothing ends the phases before their time but the site.                 *)
NotCutShort == expired = {} /\ (rateLimited => Throttles)

SiteInv ==
  site \in Sites /\ ControlAtSite /\ ProbesAtSite /\ TableAtSite /\ LinksAtSite /\ NotCutShort

-----------------------------------------------------------------------------
(* Everything holds before the first step.                                 *)
LEMMA SiteStarts == SiteInit => ScanInv /\ SiteInv
<1> SUFFICES ASSUME SiteInit PROVE ScanInv /\ SiteInv
  OBVIOUS
<1>1. site \in Sites /\ Init
  BY DEF SiteInit
<1>2. ScanInv
  BY <1>1, InitTyped, InitHits, InitResult DEF ScanInv
<1>3. \A i \in Ranks : probePc[i] \in {"queued", "unplanned"}
  BY <1>1 DEF Init
<1>4. /\ ctrl = "unused" /\ expired = {} /\ rateLimited = FALSE
      /\ \A fp \in Fingerprints : fpTypes[fp] = {}
      /\ \A t \in Linked : linkPc[t] = "queued"
  BY <1>1 DEF Init
<1>5. ControlAtSite /\ ProbesAtSite /\ TableAtSite /\ LinksAtSite /\ NotCutShort
  BY <1>3, <1>4 DEF ControlAtSite, ProbesAtSite, TableAtSite, LinksAtSite, NotCutShort
<1> QED
  BY <1>1, <1>2, <1>5 DEF SiteInv

(* What a site answers is an answer.                                       *)
LEMMA SiteShape ==
  ASSUME site \in Sites
  PROVE  /\ \A i \in Ranks : site.paths[i] \in Answers
         /\ site.control \in Answers
         /\ \A t \in Types : site.links[t] \in Answers
<1>1. site \in [paths : [Ranks -> Answers], control : Answers, links : [Types -> Answers]]
  BY SitesAssumption
<1> QED
  BY <1>1

(* A scan of a site is a scan.                                             *)
LEMMA SiteScans == TypeOK /\ SiteInv /\ [SiteNext]_<<site, vars>> => [Next]_vars
<1> SUFFICES ASSUME TypeOK, SiteInv, [SiteNext]_<<site, vars>> PROVE [Next]_vars
  OBVIOUS
<1>1. /\ \A i \in Ranks : site.paths[i] \in Answers
      /\ site.control \in Answers
      /\ \A t \in Linked : site.links[t] \in Answers
  BY SiteShape DEF SiteInv, TypeOK
<1>2. CASE SiteStep
  BY <1>1, <1>2 DEF SiteStep, Next, ProbeStep, ControlStep, LinkStep
<1>3. CASE SiteAnswered \/ UNCHANGED <<site, vars>>
  BY <1>3 DEF SiteAnswered, Next
<1> QED
  BY <1>2, <1>3 DEF SiteNext

(* Each step keeps the scan's view of the site right.                      *)
LEMMA SiteSteps == TypeOK /\ HitsInv /\ SiteInv /\ [SiteNext]_<<site, vars>> => SiteInv'
<1> SUFFICES ASSUME TypeOK, HitsInv, SiteInv, [SiteNext]_<<site, vars>> PROVE SiteInv'
  OBVIOUS
<1> USE DEF probeVars, ctrlVars, linkVars
<1>0. /\ site \in Sites /\ ControlAtSite /\ ProbesAtSite /\ TableAtSite /\ LinksAtSite
      /\ NotCutShort
  BY DEF SiteInv
<1>a. UNCHANGED site
  BY DEF SiteNext, SiteStep, SiteAnswered
<1>b. \A i \in Ranks : Acceptable(i)' = Acceptable(i) /\ PageAt(i)' = PageAt(i)
  BY <1>a DEF Acceptable, PageAt
<1>1. ASSUME NEW i \in Ranks,
             LaunchSkip(i) \/ LaunchBlock(i) \/ LaunchGo(i) \/ ProbeRecheck(i)
      PROVE  SiteInv'
  <2>1. /\ UNCHANGED <<linkHits, probePage, fpTypes, rateLimited, ctrl, ctrlView, linkPc,
                       linkResults, expired>>
        /\ \A j \in Ranks \ {i} : probePc'[j] = probePc[j]
        /\ probePc'[i] \in {"skipped", "blocked", "started", "fetching"}
    BY <1>1 DEF TypeOK, LaunchSkip, LaunchBlock, LaunchGo, ProbeRecheck, NextInPlan
  <2>2. ProbesAtSite'
    BY <1>0, <1>a, <1>b, <2>1 DEF ProbesAtSite
  <2>3. ControlAtSite' /\ TableAtSite' /\ LinksAtSite' /\ NotCutShort'
    BY <1>0, <1>a, <2>1
       DEF ControlAtSite, TableAtSite, LinksAtSite, NotCutShort, Linked, PageAt, Throttles
  <2> QED
    BY <1>0, <1>a, <2>2, <2>3 DEF SiteInv
<1>2. ASSUME NEW i \in Ranks, ProbeLost(i, site.paths[i]) PROVE SiteInv'
  <2>1. /\ UNCHANGED <<linkHits, probePage, fpTypes, ctrl, ctrlView, linkPc, linkResults,
                       expired>>
        /\ \A j \in Ranks \ {i} : probePc'[j] = probePc[j]
        /\ probePc'[i] = "lost" /\ ~IsPage(site.paths[i])
        /\ rateLimited' => rateLimited \/ LimitStatus(site.paths[i].status)
    BY <1>2 DEF TypeOK, ProbeLost, IsPage
  <2>2. ProbesAtSite'
    BY <1>0, <1>a, <1>b, <2>1 DEF ProbesAtSite, Acceptable
  <2>3. ControlAtSite' /\ TableAtSite' /\ LinksAtSite'
    BY <1>0, <1>a, <2>1 DEF ControlAtSite, TableAtSite, LinksAtSite, Linked, PageAt
  <2>4. NotCutShort'
    BY <1>0, <1>a, <2>1 DEF NotCutShort, Throttles, Linked
  <2> QED
    BY <1>0, <1>a, <2>2, <2>3, <2>4 DEF SiteInv
<1>3. ASSUME NEW i \in Ranks, ProbeClassify(i, site.paths[i]) PROVE SiteInv'
  <2> DEFINE v == PageAt(i)
             t == Plan[i]
  <2>0. t \in Types /\ v \in Pages /\ v.fp \in Fingerprints /\ IsPage(site.paths[i])
    <3>1. site.paths[i] \in Answers /\ IsPage(site.paths[i])
      BY <1>0, <1>3, SiteShape DEF ProbeClassify, IsPage
    <3>2. v \in Pages
      BY <3>1, AnswerShape DEF IsPage, PageAt
    <3> QED
      BY <3>1, <3>2, PlanShape, AnswersAssumption DEF Views
  <2>1. /\ UNCHANGED <<linkHits, rateLimited, ctrl, ctrlView, linkPc, linkResults, expired>>
        /\ \A j \in Ranks \ {i} : probePc'[j] = probePc[j] /\ probePage'[j] = probePage[j]
        /\ \/ probePc'[i] = "rejected" /\ ProbeRejects(v, t)
           \/ probePc'[i] = "echo" /\ probePage'[i] = v
        /\ fpTypes' = IF classifyView(v, t).real
                      THEN [fpTypes EXCEPT ![v.fp] = @ \cup {t}] ELSE fpTypes
    BY <1>3 DEF TypeOK, ProbeClassify, PageAt
  <2>2. ProbesAtSite'
    BY <1>0, <1>a, <1>b, <2>0, <2>1 DEF ProbesAtSite, Acceptable
  <2>3. TableAtSite'
    <3> SUFFICES ASSUME NEW fp \in Fingerprints, NEW u \in Types, u \in fpTypes'[fp]
                 PROVE  \E j \in Ranks : /\ Plan[j] = u /\ IsPage(site.paths[j])
                                         /\ classifyView(PageAt(j), u).real /\ PageAt(j).fp = fp
      BY <1>a DEF TableAtSite, PageAt
    <3>1. CASE u \in fpTypes[fp]
      BY <1>0, <3>1 DEF TableAtSite
    <3>2. CASE u \notin fpTypes[fp]
      <4>1. u = t /\ fp = v.fp /\ classifyView(v, t).real
        BY <2>0, <2>1, <3>2 DEF TypeOK
      <4> QED
        BY <2>0, <4>1
    <3> QED
      BY <3>1, <3>2
  <2>4. ControlAtSite' /\ LinksAtSite' /\ NotCutShort'
    BY <1>0, <1>a, <2>1 DEF ControlAtSite, LinksAtSite, NotCutShort, Throttles, Linked
  <2> QED
    BY <1>0, <1>a, <2>2, <2>3, <2>4 DEF SiteInv
<1>4. ASSUME NEW i \in Ranks, ProbeEcho(i) PROVE SiteInv'
  <2>1. /\ UNCHANGED <<linkHits, fpTypes, rateLimited, ctrl, ctrlView, linkPc, linkResults,
                       expired>>
        /\ \A j \in Ranks \ {i} : probePc'[j] = probePc[j] /\ probePage'[j] = probePage[j]
        /\ probePc[i] = "echo" /\ probePc'[i] = "rejected"
        /\ ctrl = "ready" /\ isTemplateEcho(probePage[i], ctrlView)
    BY <1>4 DEF TypeOK, ProbeEcho, Echoes
  <2>2. ~Acceptable(i)
    BY <1>0, <2>1 DEF Acceptable, ControlAtSite, ProbesAtSite
  <2>3. ProbesAtSite'
    BY <1>0, <1>a, <1>b, <2>1, <2>2 DEF ProbesAtSite
  <2>4. ControlAtSite' /\ TableAtSite' /\ LinksAtSite' /\ NotCutShort'
    BY <1>0, <1>a, <2>1
       DEF ControlAtSite, TableAtSite, LinksAtSite, NotCutShort, Linked, PageAt, Throttles
  <2> QED
    BY <1>0, <1>a, <2>3, <2>4 DEF SiteInv
<1>5. ASSUME NEW i \in Ranks, ProbeStore(i) PROVE SiteInv'
  <2>1. /\ UNCHANGED <<linkHits, probePage, fpTypes, rateLimited, ctrl, ctrlView, linkPc,
                       linkResults, expired>>
        /\ \A j \in Ranks \ {i} : probePc'[j] = probePc[j]
        /\ probePc[i] = "echo" /\ probePc'[i] = "accepted"
        /\ ctrl = "failed" \/ (ctrl = "ready" /\ ~isTemplateEcho(probePage[i], ctrlView))
    BY <1>5 DEF TypeOK, ProbeStore, Echoes
  <2>2. ~ProbeRejects(PageAt(i), Plan[i]) /\ IsPage(site.paths[i]) /\ probePage[i] = PageAt(i)
    BY <1>0, <2>1 DEF HitsInv, PagesNoted, ProbesAtSite
  <2>3. Acceptable(i)
    BY <1>0, <2>1, <2>2 DEF Acceptable, ControlAtSite
  <2>4. ProbesAtSite'
    BY <1>0, <1>a, <1>b, <2>1, <2>2, <2>3 DEF ProbesAtSite
  <2>5. ControlAtSite' /\ TableAtSite' /\ LinksAtSite' /\ NotCutShort'
    BY <1>0, <1>a, <2>1
       DEF ControlAtSite, TableAtSite, LinksAtSite, NotCutShort, Linked, PageAt, Throttles
  <2> QED
    BY <1>0, <1>a, <2>4, <2>5 DEF SiteInv
<1>6. CASE ControlFetch \/ ControlAnswer(site.control)
  <2>1. /\ UNCHANGED <<linkHits, probePc, probePage, fpTypes, rateLimited, linkPc, linkResults,
                       expired>>
        /\ \/ ctrl' = "fetching"
           \/ ctrl' = "failed" /\ ~IsPage(site.control)
           \/ ctrl' = "ready" /\ IsPage(site.control) /\ ctrlView' = site.control.view
    BY <1>6 DEF ControlFetch, ControlAnswer, IsPage
  <2>2. ProbesAtSite'
    BY <1>0, <1>a, <1>b, <2>1 DEF ProbesAtSite
  <2>3. ControlAtSite' /\ TableAtSite' /\ LinksAtSite' /\ NotCutShort'
    BY <1>0, <1>a, <2>1
       DEF ControlAtSite, TableAtSite, LinksAtSite, NotCutShort, Linked, PageAt, Throttles
  <2> QED
    BY <1>0, <1>a, <2>2, <2>3 DEF SiteInv
<1>7. ASSUME NEW t \in Linked, LinkGo(t) \/ LinkAnswer(t, site.links[t]) PROVE SiteInv'
  <2>1. /\ UNCHANGED <<linkHits, probePc, probePage, fpTypes, ctrl, ctrlView, expired>>
        /\ \A u \in Linked \ {t} : linkPc'[u] = linkPc[u] /\ linkResults'[u] = linkResults[u]
        /\ \/ linkPc'[t] = "fetching"
           \/ linkResults'[t] = verifyLink(t, linkHits[t], site.links[t])
        /\ rateLimited' => rateLimited \/ LinkLimits(site.links[t])
    BY <1>7 DEF TypeOK, LinkGo, LinkAnswer
  <2>2. ProbesAtSite'
    BY <1>0, <1>a, <1>b, <2>1 DEF ProbesAtSite
  <2>3. ControlAtSite' /\ TableAtSite' /\ LinksAtSite'
    BY <1>0, <1>a, <2>1 DEF ControlAtSite, TableAtSite, LinksAtSite, Linked, PageAt
  <2>4. NotCutShort'
    BY <1>0, <1>a, <2>1 DEF NotCutShort, Throttles, Linked
  <2> QED
    BY <1>0, <1>a, <2>2, <2>3, <2>4 DEF SiteInv
<1>8. CASE WrapUp \/ Answered \/ UNCHANGED vars
  <2>1. UNCHANGED <<linkHits, probePc, probePage, fpTypes, rateLimited, ctrl, ctrlView, linkPc,
                    linkResults, expired>>
    BY <1>8 DEF WrapUp, Answered, vars
  <2>2. ProbesAtSite'
    BY <1>0, <1>a, <1>b, <2>1 DEF ProbesAtSite
  <2>3. ControlAtSite' /\ TableAtSite' /\ LinksAtSite' /\ NotCutShort'
    BY <1>0, <1>a, <2>1
       DEF ControlAtSite, TableAtSite, LinksAtSite, NotCutShort, Linked, PageAt, Throttles
  <2> QED
    BY <1>0, <1>a, <2>2, <2>3 DEF SiteInv
<1> QED
  BY <1>1, <1>2, <1>3, <1>4, <1>5, <1>6, <1>7, <1>8 DEF SiteNext, SiteStep, SiteAnswered

-----------------------------------------------------------------------------
(* The types of the documents                                              *)

(* Probe findings that are not weak, of types that are not linked, all     *)
(* stand; so do live links that are not weak; then the lone disclaimer.    *)
LEMMA DocumentTypes ==
  ASSUME NEW probed, NEW links,
         \A t \in DOMAIN probed : t \notin DOMAIN links /\ ~isWeakUnconfirmed(probed[t])
  PROVE  LET there == DOMAIN probed
                        \cup {t \in DOMAIN links :
                                ~links[t].rejected /\ (t \in Hubs \/ ~isWeakUnconfirmed(links[t]))}
         IN  DOMAIN Documents(probed, links) =
               IF there \subseteq Hubs \cup {Disclaimer} THEN there \ {Disclaimer} ELSE there
<1> DEFINE live   == LiveLinks(links)
           merged == MergeHits(probed, live)
           strong == DropWeak(merged)
           there  == DOMAIN probed
                        \cup {t \in DOMAIN links :
                                ~links[t].rejected /\ (t \in Hubs \/ ~isWeakUnconfirmed(links[t]))}
<1>1. /\ DOMAIN live = {t \in DOMAIN links : ~links[t].rejected}
      /\ \A t \in DOMAIN live : live[t] = links[t]
  BY DEF LiveLinks, DeadLinks, Restrict
<1> HIDE DEF live
<1>2. /\ DOMAIN merged = DOMAIN probed \cup DOMAIN live
      /\ \A t \in DOMAIN probed : merged[t] = probed[t]
      /\ \A t \in DOMAIN live : merged[t] = links[t]
  BY <1>1 DEF MergeHits
<1> HIDE DEF merged
<1>3. DOMAIN strong = {t \in DOMAIN merged : t \in Hubs \/ ~isWeakUnconfirmed(merged[t])}
  BY DEF DropWeak, Restrict
<1> HIDE DEF strong
<1>4. DOMAIN strong = there
  BY <1>1, <1>2, <1>3
<1>5. Documents(probed, links) = discardStandaloneDisclaimer(strong)
  BY DEF Documents, strong, merged, live
<1>6. DOMAIN discardStandaloneDisclaimer(strong) =
        IF DOMAIN strong \subseteq Hubs \cup {Disclaimer}
        THEN DOMAIN strong \ {Disclaimer} ELSE DOMAIN strong
  BY DEF discardStandaloneDisclaimer, Restrict
<1> QED
  BY <1>4, <1>5, <1>6

(* When the phases are over, the types with a hit are those with a planned *)
(* path that answers an acceptable page: no candidate was passed over but  *)
(* for a hit of its type.                                                  *)
LEMMA HitsAtSite ==
  ASSUME ScanInv, SiteInv, PhasesOver, ~Throttles
  PROVE  HitTypes = {Plan[i] : i \in {i \in Planned(Linked) : Acceptable(i)}}
<1>1. ASSUME NEW t \in HitTypes
      PROVE  \E i \in Planned(Linked) : Acceptable(i) /\ Plan[i] = t
  <2>1. /\ probedHits[t] \in Ranks /\ probePc[probedHits[t]] = "accepted"
        /\ Plan[probedHits[t]] = t
    BY HitsAreUnlinked
  <2>2. probedHits[t] \in Planned(Linked) /\ Acceptable(probedHits[t])
    BY <2>1 DEF ScanInv, HitsInv, PlanKept, SiteInv, ProbesAtSite
  <2> QED
    BY <2>1, <2>2
<1>2. ASSUME NEW i \in Planned(Linked), Acceptable(i) PROVE Plan[i] \in HitTypes
  <2>1. i \in Ranks /\ Plan[i] \in Types
    BY PlanShape DEF Planned
  <2>2. probePc[i] \in {"skipped", "accepted"}
    BY <1>2, <2>1 DEF PhasesOver, Finished, ScanInv, HitsInv, PlanKept, SiteInv, ProbesAtSite
  <2>3. CASE probePc[i] = "skipped"
    BY <2>1, <2>3 DEF ScanInv, HitsInv, SkipExplained, SiteInv, NotCutShort, Satisfied, HitTypes
  <2>4. CASE probePc[i] = "accepted"
    BY <2>1, <2>4 DEF ScanInv, HitsInv, KeptIsBest, HitTypes
  <2> QED
    BY <2>2, <2>3, <2>4
<1> QED
  BY <1>1, <1>2

(* A lasting page is no catch-all and its finding is not weak.             *)
LEMMA LastingHits ==
  ASSUME ScanInv, SiteInv, Clear, NEW t \in HitTypes
  PROVE  t \notin CatchAllTypes /\ ~isWeakUnconfirmed(ProbeFinding(probedHits[t]))
<1> DEFINE k == probedHits[t]
           v == PageAt(k)
<1>1. k \in Ranks /\ probePc[k] = "accepted" /\ Plan[k] = t /\ t \in Types
  BY HitsAreUnlinked DEF HitTypes
<1>2. Acceptable(k) /\ probePage[k] = v /\ v \in Pages /\ ~ProbeRejects(v, t)
  BY <1>1 DEF SiteInv, ProbesAtSite, ScanInv, HitsInv, PagesNoted
<1>3. Lasting(k)
  <2>1. k \in Planned(Linked)
    BY <1>1 DEF ScanInv, HitsInv, PlanKept
  <2> QED
    BY <1>2, <2>1 DEF Clear
<1>4. v.fp \in Fingerprints /\ v.fp # HomeFP
  BY <1>2, <1>3, AnswersAssumption DEF Lasting, Views
<1> HIDE DEF k, v
<1>5. fpTypes[v.fp] \subseteq {t}
  <2>1. fpTypes[v.fp] \in SUBSET Types
    BY <1>4 DEF ScanInv, TypeOK
  <2>2. ASSUME NEW u \in fpTypes[v.fp] PROVE u = t
    <3>1. PICK j \in Ranks : /\ Plan[j] = u /\ IsPage(site.paths[j])
                             /\ classifyView(PageAt(j), u).real /\ PageAt(j).fp = v.fp
      BY <1>4, <2>1, <2>2 DEF SiteInv, TableAtSite
    <3> QED
      BY <1>1, <1>3, <3>1 DEF Lasting, v
  <2> QED
    BY <2>2
<1>6. ~(Cardinality(fpTypes[v.fp]) >= 2)
  <2>1. IsFiniteSet({t}) /\ Cardinality({t}) = 1
    BY FS_Singleton
  <2>2. Cardinality(fpTypes[v.fp]) <= 1 /\ Cardinality(fpTypes[v.fp]) \in Nat
    BY <1>5, <2>1, FS_Subset, FS_CardinalityType
  <2> QED
    BY <2>2
<1>7. t \notin CatchAllTypes
  BY <1>2, <1>4, <1>6 DEF CatchAllTypes, catchAll, k
<1>8. ~isWeakUnconfirmed(ProbeFinding(k))
  <2>1. ProbeFinding(k).evidence = classifyView(v, t).evidence
    BY <1>1, <1>2 DEF ProbeFinding
  <2>2. classifyView(v, t).real /\ classifyView(v, t).evidence # {"page_exists_unconfirmed"}
    BY <1>1, <1>2, <1>3 DEF ProbeRejects, Lasting, v
  <2>3. classifyView(v, t).evidence
          \in {{"pdf_document"}, {"title_matches_type"}, {"heading_matches_type"},
               {"legal_vocabulary"}}
    BY <2>2 DEF classifyView, NotReal, Assessment
  <2> QED
    BY <2>1, <2>3 DEF isWeakUnconfirmed
<1> QED
  BY <1>7, <1>8 DEF k

(* The types a scan finds are those of the site, however its workers are   *)
(* scheduled (TypesAreTheSites): which of the parallel probes answers      *)
(* first decides which path of a type is reported, not whether it is.      *)
THEOREM SiteDecidesTheTypes == SiteSpec => []TypesAreTheSites
<1>1. SiteSpec => [](ScanInv /\ SiteInv)
  <2>1. ScanInv /\ SiteInv /\ [SiteNext]_<<site, vars>> => ScanInv' /\ SiteInv'
    BY SiteScans, SiteSteps, StepTyped, StepHits, StepControl, StepWorkers, StepCounters,
       StepLinks, StepResponse
       DEF ScanInv, ResultInv
  <2> QED
    BY <2>1, SiteStarts, PTL DEF SiteSpec
<1>2. ASSUME ScanInv, SiteInv PROVE TypesAreTheSites
  <2> SUFFICES ASSUME response # NoResponse, Clear PROVE DOMAIN Docs = TypesAtSite
    BY DEF TypesAreTheSites
  <2> DEFINE probed == [t \in KeptTypes |-> ProbeFinding(probedHits[t])]
             paths  == {Plan[i] : i \in {i \in Planned(Linked) : Acceptable(i)}}
             upheld == {t \in Linked : Upheld(t)}
  <2>1. PhasesOver /\ Docs = Documents(probed, linkResults) /\ DOMAIN linkResults = Linked
    BY <1>2 DEF ScanInv, TypeOK, ResultInv, ResponseInv, ScanResult, BuildResponse, Docs
  <2>2. HitTypes = paths
    BY <1>2, <2>1, HitsAtSite DEF Clear
  <2>3. KeptTypes = HitTypes
    BY <1>2, LastingHits DEF KeptTypes
  <2>4. \A t \in KeptTypes : t \notin Linked /\ ~isWeakUnconfirmed(probed[t])
    BY <1>2, <2>3, LastingHits, HitsAreUnlinked
  <2>5. \A t \in Linked : Upheld(t) <=>
          ~linkResults[t].rejected /\ (t \in Hubs \/ ~isWeakUnconfirmed(linkResults[t]))
    BY <1>2, <2>1 DEF PhasesOver, SiteInv, LinksAtSite, Upheld
  <2>6. DOMAIN probed = KeptTypes
    OBVIOUS
  <2> HIDE DEF probed
  <2>7. LET there == DOMAIN probed
                       \cup {t \in DOMAIN linkResults :
                               /\ ~linkResults[t].rejected
                               /\ t \in Hubs \/ ~isWeakUnconfirmed(linkResults[t])}
        IN  DOMAIN Docs =
              IF there \subseteq Hubs \cup {Disclaimer} THEN there \ {Disclaimer} ELSE there
    BY <2>1, <2>4, <2>6, DocumentTypes
  <2>8. {t \in DOMAIN linkResults :
           /\ ~linkResults[t].rejected
           /\ t \in Hubs \/ ~isWeakUnconfirmed(linkResults[t])} = upheld
    BY <2>1, <2>5
  <2>9. TypesAtSite =
          IF paths \cup upheld \subseteq Hubs \cup {Disclaimer}
          THEN (paths \cup upheld) \ {Disclaimer} ELSE paths \cup upheld
    BY Zenon DEF TypesAtSite
  <2> HIDE DEF paths, upheld
  <2> QED
    BY <2>2, <2>3, <2>6, <2>7, <2>8, <2>9
<1> QED
  BY <1>1, <1>2, PTL

=============================================================================
