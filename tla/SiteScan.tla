------------------------------ MODULE SiteScan ------------------------------
(***************************************************************************)
(* A scan of a site that does not change: each path, the path that cannot  *)
(* exist, and each linked document always answer the same, and no deadline *)
(* passes.  What is left to chance is the order in which workers run.      *)
(***************************************************************************)
EXTENDS ScanProperties

CONSTANT Sites

ASSUME SitesAssumption ==
  Sites \subseteq [paths : [Ranks -> Answers], control : Answers, links : [Types -> Answers]]

VARIABLE site

SiteInit == site \in Sites /\ Init

SiteStep ==
  /\ \/ \E i \in Ranks : \/ LaunchSkip(i) \/ LaunchBlock(i) \/ LaunchGo(i) \/ ProbeRecheck(i)
                         \/ ProbeLost(i, site.paths[i]) \/ ProbeClassify(i, site.paths[i])
                         \/ ProbeEcho(i) \/ ProbeStore(i)
     \/ ControlFetch \/ ControlAnswer(site.control)
     \/ \E t \in Linked : LinkGo(t) \/ LinkAnswer(t, site.links[t])
     \/ WrapUp
  /\ UNCHANGED site

SiteAnswered == Answered /\ UNCHANGED site

SiteNext == SiteStep \/ SiteAnswered

SiteSpec == SiteInit /\ [][SiteNext]_<<site, vars>>

-----------------------------------------------------------------------------
IsPage(a) == ~a.err /\ Success(a.status)

PageAt(i) == site.paths[i].view

(* The page at a path is taken for a document of the path's type.          *)
Acceptable(i) ==
  /\ IsPage(site.paths[i]) /\ ~ProbeRejects(PageAt(i), Plan[i])
  /\ IsPage(site.control) => ~isTemplateEcho(PageAt(i), site.control.view)

(* And the wrap-up will not take it back.                                  *)
Lasting(i) ==
  /\ PageAt(i).fp # HomeFP
  /\ classifyView(PageAt(i), Plan[i]).evidence # {"page_exists_unconfirmed"}
  /\ \A j \in Ranks :
       /\ IsPage(site.paths[j]) /\ classifyView(PageAt(j), Plan[j]).real
       /\ PageAt(j).fp = PageAt(i).fp
       => Plan[j] = Plan[i]

Throttles ==
  \/ \E i \in Ranks : LimitStatus(site.paths[i].status)
  \/ \E t \in Linked : LinkLimits(site.links[t])

Clear == ~Throttles /\ \A i \in Planned(Linked) : Acceptable(i) => Lasting(i)

Upheld(t) ==
  LET d == verifyLink(t, linkHits[t], site.links[t])
  IN  ~d.rejected /\ (t \in Hubs \/ ~isWeakUnconfirmed(d))

TypesAtSite ==
  LET there == {Plan[i] : i \in {i \in Planned(Linked) : Acceptable(i)}}
                 \cup {t \in Linked : Upheld(t)}
  IN  IF there \subseteq Hubs \cup {Disclaimer} THEN there \ {Disclaimer} ELSE there

(* Which of the parallel probes answers first decides which path of a type *)
(* is reported, but not whether the type is: the types found are those the *)
(* site has, however the workers are scheduled (handler.go 98).  That is   *)
(* so where no accepted page is withdrawn in the end, as a catch-all or as *)
(* weak, since it keeps its type's other paths from being tried; and where *)
(* nothing throttles the scan.                                             *)
TypesAreTheSites == response # NoResponse /\ Clear => DOMAIN Docs = TypesAtSite

=============================================================================
