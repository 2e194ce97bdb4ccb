----------------------------- MODULE ScanTwice ------------------------------
(***************************************************************************)
(* Two scans of one unchanging site, stepping independently: the second    *)
(* copy of every variable has a 2.  The two can differ in nothing but the  *)
(* order in which their workers ran.                                       *)
(***************************************************************************)
EXTENDS SiteScan

VARIABLES linkHits2, probePc2, probePage2, probedHits2, probedCount2, rejectedCount2,
          rateLimited2, fpTypes2, ctrl2, ctrlView2, linkPc2, linkResults2, expired2,
          response2

Second == INSTANCE SiteScan WITH
  linkHits <- linkHits2, probePc <- probePc2, probePage <- probePage2,
  probedHits <- probedHits2, probedCount <- probedCount2, rejectedCount <- rejectedCount2,
  rateLimited <- rateLimited2, fpTypes <- fpTypes2, ctrl <- ctrl2, ctrlView <- ctrlView2,
  linkPc <- linkPc2, linkResults <- linkResults2, expired <- expired2,
  response <- response2

vars2 == <<linkHits2, probePc2, probePage2, probedHits2, probedCount2, rejectedCount2,
           rateLimited2, fpTypes2, ctrl2, ctrlView2, linkPc2, linkResults2, expired2,
           response2>>

TwiceInit == SiteInit /\ Second!SiteInit

TwiceNext ==
  \/ SiteStep /\ UNCHANGED vars2
  \/ Second!SiteStep /\ UNCHANGED vars
  \/ SiteAnswered /\ Second!SiteAnswered

TwiceSpec == TwiceInit /\ [][TwiceNext]_<<site, vars, vars2>>

(* DocFinding.probeRank: "ties between equally-confident probes go to the  *)
(* lower rank so the result does not depend on which of the parallel       *)
(* probes answered first".                                                 *)
SameDocuments ==
  response # NoResponse /\ response2 # NoResponse => response.documents = response2.documents

=============================================================================
