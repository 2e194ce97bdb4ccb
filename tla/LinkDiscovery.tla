---------------------------- MODULE LinkDiscovery ---------------------------
(***************************************************************************)
(* linkScan (discover.go): the anchors of a homepage, in order, become at  *)
(* most one link hit per document type.  What an anchor is says            *)
(* AnchorScan; the hits are what ScanPhases calls LinkHits.                *)
(*                                                                         *)
(* The patterns are abstracted to what they answer: which types' path      *)
(* patterns a path matches, which types' text patterns a link text.        *)
(* Patterns is the order of the table in patterns.go, in which the first   *)
(* match counts.                                                           *)
(***************************************************************************)
EXTENDS Naturals, Sequences
LOCAL INSTANCE FiniteSetsExt

CONSTANTS
  Patterns,         \* the document types, in the order of the table
  Hubs,             \* directory pages (hubDocTypes)
  LegalHub, Disclaimer,
  Hosts, BaseHost,  \* host names; the homepage's own
  SubdomainOf,      \* <<h, g>> when h ends in "." and g
  Registrable,      \* the registrable domain of a host; "" when it has none
  Paths, Root, BarePaths,
                    \* URL paths; "" and "/"; those isBareHubPath accepts
  PathTypes,        \* the types whose path patterns a path matches
  LinkTexts, NoText,\* anchor texts, cut to 80 bytes; the empty one
  TextTypes,        \* the types whose text or script pattern a text matches
  LatinTypes,       \* those whose text pattern alone does
  Pages             \* the pages to scan

Types == {Patterns[n] : n \in 1..Len(Patterns)}

ASSUME LinkAssumption ==
  /\ Patterns \in Seq(Types) /\ "" \notin Types
  /\ Hubs \subseteq Types /\ LegalHub \in Hubs /\ Disclaimer \in Types \ Hubs
  /\ BaseHost \in Hosts /\ Root \in Paths /\ NoText \in LinkTexts
  /\ SubdomainOf \subseteq Hosts \X Hosts
  /\ PathTypes \in [Paths -> SUBSET Types] /\ PathTypes[Root] = {}
  /\ TextTypes \in [LinkTexts -> SUBSET Types] /\ TextTypes[NoText] = {}
  /\ \A x \in LinkTexts : LatinTypes[x] \subseteq TextTypes[x]

URLs   == [host : Hosts, path : Paths, query : BOOLEAN]
NoURL  == [host |-> "", path |-> "", query |-> FALSE]

(* What the expressions take from a page: its anchors, each with a URL, a  *)
(* call of a page function or neither for a destination, and the URLs in   *)
(* each of its functions.                                                  *)
Destinations ==
  [kind : {"url"}, url : URLs] \cup [kind : {"call"}, fn : STRING] \cup [kind : {"none"}]

ASSUME PagesAssumption ==
  \A p \in Pages :
    /\ p.anchors \in Seq([href : Destinations, text : LinkTexts, offset : Nat])
    /\ p.functions \in Seq([name : STRING, literals : SUBSET URLs])

VARIABLES
  page,      \* the homepage
  next,      \* the anchor to look at next
  hits       \* the hit of each type found so far

vars == <<page, next, hits>>

NoHit == [url |-> NoURL, source |-> "", match |-> "", floor |-> "none"]

---------------------------------------------------------------------------
(* Which type a path and a text name, by which of them, and how sure that  *)
(* makes the location.                                                     *)
Verdict(t, how, floor) == [type |-> t, how |-> how, floor |-> floor]
Unclassified           == Verdict("", "", "none")

FirstIn(set) ==
  Patterns[Min({n \in 1..Len(Patterns) : Patterns[n] \in set})]

(* The hub patterns that speak for a link.  A path that merely contains    *)
(* the legal hub's name silences that pattern, its text included.          *)
HubByPath(path) ==
  {t \in Hubs : t \in PathTypes[path] /\ (t = LegalHub => path \in BarePaths)}
HubByText(path, text) == {t \in Hubs : t \notin PathTypes[path] /\ t \in LatinTypes[text]}

classifyLinkEvidence(path, text) ==
  LET byPath == PathTypes[path] \ Hubs
      byText == TextTypes[text] \ (Hubs \cup {Disclaimer})
      hubs   == HubByPath(path) \cup HubByText(path, text)
  IN  IF byPath # {}
      THEN Verdict(FirstIn(byPath), "url_path",
                   IF FirstIn(byPath) \in TextTypes[text] THEN "medium" ELSE "low")
      ELSE IF byText # {} THEN Verdict(FirstIn(byText), "link_text", "low")
      ELSE IF hubs # {}
      THEN Verdict(FirstIn(hubs),
                   IF FirstIn(hubs) \in HubByPath(path) THEN "url_path" ELSE "link_text", "low")
      ELSE Unclassified

---------------------------------------------------------------------------
(* The registrable domain decides, and a subdomain of the homepage's host  *)
(* is its own even where that host is a public suffix.                     *)
sameSiteHost(host) ==
  \/ host = BaseHost
  \/ <<host, BaseHost>> \in SubdomainOf
  \/ Registrable[host] # "" /\ Registrable[host] = Registrable[BaseHost]

(* The URL each zero-argument function of the page stands for: that of its *)
(* last definition with exactly one URL literal.                           *)
staticScriptLegalURLs(p, fn) ==
  LET fs == p.functions
      ds == {n \in 1..Len(fs) : fs[n].name = fn /\ \E u \in fs[n].literals : fs[n].literals = {u}}
  IN  IF ds = {} THEN NoURL ELSE CHOOSE u \in fs[Max(ds)].literals : TRUE

(* Fault: the text need not name the type of the destination.              *)
staticScriptLegalTarget_PathAlone(p, fn, text) ==
  LET u == staticScriptLegalURLs(p, fn)
  IN  IF u # NoURL /\ classifyLinkEvidence(u.path, NoText).type \notin Hubs \cup {""}
      THEN u ELSE NoURL

(* The destination's path and the link's text must name the same specific  *)
(* type, each on its own.                                                  *)
staticScriptLegalTarget(p, fn, text) ==
  LET u        == staticScriptLegalURLs(p, fn)
      pathType == classifyLinkEvidence(u.path, NoText).type
      textType == classifyLinkEvidence(Root, text).type
  IN  IF u # NoURL /\ pathType # "" /\ pathType = textType /\ pathType \notin Hubs
      THEN u ELSE NoURL

Scripted(a) == a.href.kind = "call"

(* Where an anchor leads: the URL its href resolves to, that of the page   *)
(* function it calls, or nowhere (fragments, mailto:, other schemes, other *)
(* scripts).                                                               *)
Target(p, a) ==
  CASE a.href.kind = "call" -> staticScriptLegalTarget(p, a.href.fn, a.text)
    [] a.href.kind = "url"  -> a.href.url
    [] OTHER                -> NoURL

(* The last <footer>, else the last three tenths of the page.              *)
footerBounds(p) ==
  IF p.footers = {} THEN <<(p.length * 7) \div 10, p.length>>
  ELSE LET start == Max(p.footers)
           ends  == {c \in p.closes : c >= start}
       IN  <<start, IF ends = {} THEN p.length ELSE Min(ends)>>

Source(p, a) ==
  IF a.offset >= footerBounds(p)[1] /\ a.offset <= footerBounds(p)[2]
  THEN "footer_link" ELSE "page_link"

(* What an anchor is evidence of: nothing for another site's page or for   *)
(* the site root.                                                          *)
Evidence(p, a) ==
  LET u == Target(p, a)
  IN  IF \/ u = NoURL
         \/ ~(sameSiteHost(u.host) \/ Scripted(a))
         \/ u.path = Root /\ ~u.query
      THEN Unclassified
      ELSE classifyLinkEvidence(u.path, a.text)

Hit(p, a) == [url |-> Target(p, a), source |-> Source(p, a),
           match |-> Evidence(p, a).how, floor |-> Evidence(p, a).floor]

---------------------------------------------------------------------------
Init ==
  /\ page \in Pages
  /\ next = 1
  /\ hits = [t \in Types |-> NoHit]

Looking == next <= Len(page.anchors)
Current == page.anchors[next]

Advance == next' = next + 1 /\ UNCHANGED page

Skip == Looking /\ Evidence(page, Current).type = "" /\ Advance /\ UNCHANGED hits

Store(a) == hits' = [hits EXCEPT ![Evidence(page, a).type] = Hit(page, a)]

Found ==
  /\ Looking /\ Evidence(page, Current).type # ""
  /\ hits[Evidence(page, Current).type] = NoHit
  /\ Store(Current) /\ Advance

(* Fault: the last footer link replaces the one before it.                 *)
Again_LastFooter ==
  /\ Looking /\ Evidence(page, Current).type # ""
  /\ hits[Evidence(page, Current).type] # NoHit
  /\ IF Source(page, Current) = "footer_link" THEN Store(Current) ELSE UNCHANGED hits
  /\ Advance

(* A type found before: a footer link replaces one that is not.            *)
Again ==
  /\ Looking /\ Evidence(page, Current).type # ""
  /\ LET cur == hits[Evidence(page, Current).type]
     IN  /\ cur # NoHit
         /\ IF cur.source # "footer_link" /\ Source(page, Current) = "footer_link"
            THEN Store(Current) ELSE UNCHANGED hits
  /\ Advance

Scanned == ~Looking /\ UNCHANGED vars

Next == Skip \/ Found \/ Again \/ Scanned

Spec == Init /\ [][Next]_vars

---------------------------------------------------------------------------
(* The anchors looked at that are evidence of a type.                      *)
Naming(t) == {n \in 1..(next - 1) : Evidence(page, page.anchors[n]).type = t}

(* Per type the scan keeps the first footer link, else the first link,     *)
(* wherever in the page the footer stands (discover.go 12-14, 76-82).      *)
FirstFooterLinkElseFirst ==
  \A t \in Types :
    LET named  == Naming(t)
        footer == {n \in named : Source(page, page.anchors[n]) = "footer_link"}
    IN  hits[t] = IF named = {} THEN NoHit
                  ELSE Hit(page, page.anchors[Min(IF footer = {} THEN named ELSE footer)])

(* A document off the site is reported only when the page calls it by name *)
(* and its path agrees; then the floor is medium (discover.go 104-131).    *)
OffsiteOnlyByAgreement ==
  \A t \in Types :
    hits[t] # NoHit /\ ~sameSiteHost(hits[t].url.host)
      => /\ t \notin Hubs /\ hits[t].floor = "medium"
         /\ t \in PathTypes[hits[t].url.path]
         /\ \E n \in Naming(t) : t \in TextTypes[page.anchors[n].text]

=============================================================================
