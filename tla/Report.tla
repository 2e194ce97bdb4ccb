------------------------------- MODULE Report -------------------------------
(***************************************************************************)
(* The sequential wrap-up of a scan: everything the Handler does after     *)
(* both verification phases have been waited for (handler_helpers.go,      *)
(* from the catch-all pass to the response), and the document counting     *)
(* and verdict rules it uses (handler.go).                                 *)
(*                                                                         *)
(* Findings are held in functions from document types: the domain is the   *)
(* set of types present, as the keys of the Go maps are.                   *)
(***************************************************************************)
EXTENDS Verification, Functions

(* A low-confidence hit whose page was seen and says nothing about the     *)
(* type, or a link nothing but an in-page word vouches for.                *)
isWeakUnconfirmed(d) ==
  /\ confidenceRank(d.conf) < confidenceRank("medium")
  /\ confidenceRank(d.floor) < confidenceRank("medium")
  /\ d.evidence \cap {"title_matches_type", "legal_vocabulary",
                      "heading_matches_type", "pdf_document"} = {}
  /\ "link_unverified" \in d.evidence => d.source # "footer_link" /\ ~d.named
  /\ d.evidence \cap {"link_unverified", "page_exists_unconfirmed"} # {}

countsAsDoc(t, d) ==
  /\ t \notin Hubs
  /\ ~d.rejected
  /\ ~isWeakUnconfirmed(d)
  /\ d.status = 0 \/ Success(d.status)

CountedTypes(docs) == {t \in DOMAIN docs : countsAsDoc(t, docs[t])}

countSuccess(docs) == Cardinality(CountedTypes(docs))

-----------------------------------------------------------------------------
(* Verdict over the DISTINCT documents: one page linked under several      *)
(* names is one document.                                                  *)
verdictOf(found, counted) ==
  CASE found = 0 -> "none"
    [] found = 1 -> "sparse"
    [] found >= 5 \/ (found >= 2 /\ {ToS, Privacy} \subseteq counted) -> "comprehensive"
    [] OTHER -> "partial"

verdictOfDocs(docs) ==
  LET counted  == CountedTypes(docs)
      distinct == {docs[t].url : t \in counted}
      v        == verdictOf(Cardinality(distinct), counted)
  IN  IF v = "sparse" /\ {ToS, Privacy} \subseteq counted THEN "partial" ELSE v

-----------------------------------------------------------------------------
(* A fingerprint that answered the probes of two or more types, or the     *)
(* homepage's own, is a wildcard route.  seenFor maps a fingerprint to the *)
(* types whose probes got a real-looking page with it (fpTypes).           *)
catchAll_MoreThanTwo(fp, seenFor) == fp = HomeFP \/ Cardinality(seenFor[fp]) > 2

catchAll(fp, seenFor) == fp = HomeFP \/ Cardinality(seenFor[fp]) >= 2

(* A link hit wins over a probe hit unless the probe is more confident.    *)
MergeHits(probed, links) ==
  [t \in DOMAIN probed \cup DOMAIN links |->
     IF \/ t \notin DOMAIN links
        \/ t \in DOMAIN probed /\ confidenceRank(probed[t].conf) > confidenceRank(links[t].conf)
     THEN probed[t] ELSE links[t]]

DropWeak_Omitted(merged) == merged

DropWeak(merged) ==
  Restrict(merged, {t \in DOMAIN merged : t \in Hubs \/ ~isWeakUnconfirmed(merged[t])})

(* A disclaimer with no other document beside it is not a legal surface.   *)
discardStandaloneDisclaimer(merged) ==
  IF DOMAIN merged \subseteq Hubs \cup {Disclaimer}
  THEN Restrict(merged, DOMAIN merged \ {Disclaimer})
  ELSE merged

DeadLinks(links) == {t \in DOMAIN links : links[t].rejected}

LiveLinks(links) == Restrict(links, DOMAIN links \ DeadLinks(links))

(* documents[], keyed by type.                                             *)
Documents(probed, links) ==
  discardStandaloneDisclaimer(DropWeak(MergeHits(probed, LiveLinks(links))))

Tally(docs, conf) == Cardinality({t \in DOMAIN docs : docs[t].conf = conf})

(* The part of the response the wrap-up computes.  httpStatus is 404 when  *)
(* no document counts (writeNoData) and 200 otherwise.                     *)
BuildResponse(probed, links, probes, rejections, limited, exhausted) ==
  LET docs  == Documents(probed, links)
      found == countSuccess(docs)
  IN  [documents       |-> docs,
       documentsFound  |-> found,
       missing         |-> Expected \ DOMAIN docs,
       rejectedLinks   |-> DeadLinks(links),
       high            |-> Tally(docs, "high"),
       medium          |-> Tally(docs, "medium"),
       low             |-> Tally(docs, "low"),
       pathsProbed     |-> probes,
       probesRejected  |-> rejections,
       rateLimited     |-> limited,
       budgetExhausted |-> exhausted,
       verdict         |-> verdictOfDocs(docs),
       status          |-> IF found = 0 THEN "no_data" ELSE "ok",
       httpStatus      |-> IF found = 0 THEN 404 ELSE 200]

=============================================================================
