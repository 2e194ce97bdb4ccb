------------------------------ MODULE DocTypes ------------------------------
(***************************************************************************)
(* The vocabulary shared by every module: document types, confidence       *)
(* bands, and the two records the scan passes around.                      *)
(*                                                                         *)
(* A *view* is the analysis of one fetched body (verify.go, bodyView).     *)
(* Its texts are abstracted to what the classifier asks of them: the set   *)
(* of types its title or h1 names, the set its other headings name, and so *)
(* on.  A *finding* is one DocFinding (handler.go); the document type is   *)
(* the key it is stored under.                                             *)
(***************************************************************************)
EXTENDS Naturals, FiniteSets

CONSTANTS
  Types,        \* document types (documentTypeOrder)
  Hubs,         \* directory pages: legal hub, trust center
  Expected,     \* types a reasonably complete site is expected to have
  Core,         \* types the cross-type title guard consults
  ToS, Privacy, Disclaimer,
  Fingerprints, \* possible hashes of title and visible text
  Templates,    \* titles with the requested path replaced; "" when absent
  URLs          \* document identities (docIdentity)

ASSUME TypesAssumption ==
  /\ IsFiniteSet(Types)
  /\ Hubs \subseteq Types
  /\ Expected \subseteq Types \ Hubs
  /\ Core \subseteq Types \ Hubs
  /\ {ToS, Privacy} \subseteq Expected \cap Core
  /\ ToS # Privacy
  /\ Disclaimer \in Types \ (Hubs \cup Expected)
  /\ IsFiniteSet(Fingerprints)
  /\ "" \in Templates

-----------------------------------------------------------------------------
(* Confidence bands; "" is a link hit no verification has looked at yet.   *)
Confidences == {"", "none", "low", "medium", "high"}

confidenceRank(c) ==
  CASE c = "high"   -> 3
    [] c = "medium" -> 2
    [] c = "low"    -> 1
    [] OTHER        -> 0

(* The stronger of a confidence and a floor; ties keep the confidence.     *)
AtLeast(c, floor) == IF confidenceRank(c) < confidenceRank(floor) THEN floor ELSE c

-----------------------------------------------------------------------------
Views ==
  [fp        : Fingerprints,   \* hash of title and visible text
   pdf       : BOOLEAN,
   challenge : BOOLEAN,        \* bot or WAF interstitial served with a 2xx
   unusable  : BOOLEAN,        \* redirect stub, soft 404, or empty without a title
   title     : SUBSET Types,   \* types named by the title or the h1
   headings  : SUBSET Types,   \* types named by a later heading
   vocab     : BOOLEAN,        \* generic legal vocabulary
   signal    : SUBSET Types,   \* types whose own vocabulary the text carries
   template  : Templates,      \* the title with the requested path cut out
   homeCopy  : BOOLEAN]        \* byte-identical to the homepage

EvidenceTokens ==
  {"title_matches_type", "heading_matches_type", "legal_vocabulary",
   "pdf_document", "page_exists_unconfirmed", "link_unverified"}

Sources == {"footer_link", "page_link", "probed_path"}

Findings ==
  [source   : Sources,
   named    : BOOLEAN,         \* the anchor text is a strict phrase for the type
   floor    : Confidences,     \* LinkConfidence
   url      : URLs,
   conf     : Confidences,
   evidence : SUBSET EvidenceTokens,
   status   : Nat,             \* 0: never seen
   rejected : BOOLEAN]

=============================================================================
