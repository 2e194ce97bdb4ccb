--------------------------- MODULE ScanProperties ---------------------------
(***************************************************************************)
(* What the two verification phases and their wrap-up guarantee.           *)
(***************************************************************************)
EXTENDS ScanPhases

ProbeStates ==
  {"unplanned", "queued", "blocked", "started", "fetching", "echo",
   "skipped", "lost", "rejected", "accepted"}

(* Every variable keeps its shape: a finding per linked type, a rank or    *)
(* NoHit per type, pages only where a probe holds one.                     *)
TypeOK ==
  /\ Linked \subseteq Types
  /\ linkHits \in [Linked -> LinkHits]
  /\ probePc \in [Ranks -> ProbeStates]
  /\ probePage \in [Ranks -> Pages \cup {NoView}]
  /\ probedHits \in [Types -> Ranks \cup {NoHit}]
  /\ probedCount \in Nat /\ rejectedCount \in Nat
  /\ rateLimited \in BOOLEAN
  /\ fpTypes \in [Fingerprints -> SUBSET Types]
  /\ ctrl \in {"unused", "fetching", "ready", "failed"}
  /\ ctrlView \in Pages \cup {NoView}
  /\ linkPc \in [Linked -> {"queued", "fetching", "done"}]
  /\ linkResults \in [Linked -> Findings]
  /\ expired \subseteq {"probe", "link"}

-----------------------------------------------------------------------------
(* Bounds                                                                  *)

ProbesIn(states) == {i \in Ranks : probePc[i] \in states}

(* "A single request holds at most probeWorkers+linkWorkers fetches in     *)
(* flight", the control page included: the worker that fetches it is not   *)
(* fetching its own page, so each phase keeps to its own share.            *)
InFlightBound ==
  /\ Cardinality(ProbesIn({"fetching"})) + (IF ctrl = "fetching" THEN 1 ELSE 0) <= ProbeWorkers
  /\ Cardinality(ActiveLinks) <= LinkWorkers

(* No goroutine outlives the scan it works for: once the response exists   *)
(* no worker is between its launch and its end, no fetch is in flight, and *)
(* no launcher is still blocked.                                           *)
NoOrphanWorkers ==
  response # NoResponse =>
    /\ ActiveProbes = {} /\ ActiveLinks = {}
    /\ ctrl # "fetching"
    /\ \A i \in Ranks : probePc[i] \notin {"queued", "blocked"}

-----------------------------------------------------------------------------
(* The hits the workers agree on                                           *)

(* Whatever order the workers finish in, the hit kept for a type is the    *)
(* best of the accepted ones: more confident, or as confident and earlier  *)
(* in the plan.                                                            *)
KeptIsBest ==
  \A i \in Ranks : probePc[i] = "accepted" =>
    LET kept == probedHits[Plan[i]]
    IN  kept # NoHit /\ (kept = i \/ Beats(kept, i))

(* The counters the workers bump agree with what happened to the probes:   *)
(* every fetch that returned is counted once, every rejection once.        *)
CountersAgree ==
  /\ probedCount = Cardinality(ProbesIn({"lost", "rejected", "echo", "accepted"}))
  /\ rejectedCount = Cardinality(ProbesIn({"rejected"}))

-----------------------------------------------------------------------------
(* The response                                                            *)

Docs == response.documents

ProbedDocs == {t \in DOMAIN Docs : Docs[t].source = "probed_path"}

PageOf(t) == probePage[Docs[t].url]

(* A type with a dead link is not a document by any other road: probes     *)
(* only go to unlinked types, so nothing can bring it back.                *)
DeadLinkNotDocument ==
  response # NoResponse =>
    /\ response.rejectedLinks \cap DOMAIN Docs = {}
    /\ ProbedDocs \cap Linked = {}

(* Silence is explained: when the response admits neither throttling nor a *)
(* spent budget, every planned probe was answered, or was unnecessary      *)
(* because a probe of its type had been accepted.                          *)
CompleteUnlessFlagged ==
  response # NoResponse /\ ~response.rateLimited /\ ~response.budgetExhausted =>
    \A i \in Planned(Linked) :
      \/ probePc[i] \in {"lost", "rejected", "accepted"}
      \/ \E j \in Ranks : Plan[j] = Plan[i] /\ probePc[j] = "accepted"

(* The response agrees with itself: the tallies cover the documents, the   *)
(* count is that of the non-hub documents, missing complements them, and   *)
(* "none", 404 and an empty count are one and the same.                    *)
ResponseConsistent ==
  response # NoResponse =>
    /\ response.high + response.medium + response.low = Cardinality(DOMAIN Docs)
    /\ response.documentsFound = Cardinality(DOMAIN Docs \ Hubs)
    /\ response.missing \cap DOMAIN Docs = {} /\ Expected \subseteq response.missing \cup DOMAIN Docs
    /\ (response.documentsFound = 0) <=> (response.verdict = "none")
    /\ (response.documentsFound = 0) <=> (response.httpStatus = 404)

(* The probe figures add up: rejected probes and reported probe documents  *)
(* are disjoint parts of the probes made, and those never exceed the plan. *)
ProbeFiguresAddUp ==
  response # NoResponse =>
    /\ response.probesRejected + Cardinality(ProbedDocs) <= response.pathsProbed
    /\ response.pathsProbed <= Cardinality(Planned(Linked))
    /\ response.pathsProbed <= MaxProbes

-----------------------------------------------------------------------------
(* The scan as a search for documents: each probe and each link is one, of *)
(* its type; what stands is the kept hit, or the verified live link.       *)
OpenSearches ==
  {<<Plan[i], i>> : i \in {i \in Ranks : probePc[i] \notin Finished}}
    \cup {<<t, NoHit>> : t \in {t \in Linked : linkPc[t] # "done"}}

Standing(t) ==
  CASE t \in HitTypes -> ConfOf(probedHits[t])
    [] t \in Linked \ HitTypes /\ linkPc[t] = "done" /\ ~linkResults[t].rejected ->
         linkResults[t].conf
    [] OTHER -> ""

Search ==
  INSTANCE DocumentSearch
    WITH Attempts <- Ranks \cup {NoHit}, NoReport <- NoResponse,
         open <- OpenSearches, standing <- [t \in Types |-> Standing(t)],
         report <- IF response = NoResponse THEN NoResponse
                   ELSE [t \in DOMAIN Docs |-> Docs[t].conf]

(* The workers, the shared hit map, the verification of links and the five *)
(* filters of the wrap-up implement the abstract search: whatever their    *)
(* interleaving, what stands for a type only gets better, and the response *)
(* comes after every search and reports nothing that does not stand        *)
(* (handler_helpers.go 380-521, 522-556).                                  *)
ImplementsSearch == Search!Spec

-----------------------------------------------------------------------------
(* Every scan is answered: no worker waits forever on a worker slot, on    *)
(* the control page, or on the other phase.                                *)
ScanAnswers == <>(response # NoResponse)

=============================================================================
