--------------------------- MODULE MCLinkDiscovery --------------------------
(***************************************************************************)
(* A site www.shop.example with pages that name a type in their path, in   *)
(* the text of their link, in both, in neither, or differently.            *)
(***************************************************************************)
EXTENDS LinkDiscovery, TLC

MCPatterns == <<"tos", "privacy", "legal_hub", "trust_center", "disclaimer">>
MCHubs     == {"legal_hub", "trust_center"}

(* shop.host is a public suffix with tenants.                              *)
MCHosts       == {"www.shop.example", "shop.example", "my.www.shop.example",
                  "a.shop.host", "b.shop.host", "shop.host"}
MCSubdomainOf ==
  {<<"www.shop.example", "shop.example">>, <<"my.www.shop.example", "www.shop.example">>,
   <<"my.www.shop.example", "shop.example">>,
   <<"a.shop.host", "shop.host">>, <<"b.shop.host", "shop.host">>}
MCRegistrable ==
  [h \in MCHosts |-> IF h \in {"a.shop.host", "b.shop.host"} THEN h
                     ELSE IF h = "shop.host" THEN "" ELSE "shop.example"]

MCPathTypes ==
  "/" :> {} @@ "/privacy" :> {"privacy"} @@ "/terms/privacy" :> {"tos", "privacy"} @@
  "/legal" :> {"legal_hub"} @@ "/legal/privacy" :> {"legal_hub", "privacy"} @@
  "/legal/info" :> {"legal_hub"} @@ "/trust" :> {"trust_center"} @@ "/17" :> {}
MCPaths     == DOMAIN MCPathTypes
MCBarePaths == {"/legal"}

MCTextTypes ==
  "" :> {} @@ "Privacy" :> {"privacy"} @@ "Terms and Privacy" :> {"tos", "privacy"} @@
  "Legal" :> {"legal_hub"} @@ "Yinsi" :> {"privacy"} @@ "Disclaimer" :> {"disclaimer"}
MCLinkTexts  == DOMAIN MCTextTypes
MCLatinTypes == [x \in MCLinkTexts |-> IF x = "Yinsi" THEN {} ELSE MCTextTypes[x]]

On(host, path) == [kind |-> "url", url |-> [host |-> host, path |-> path, query |-> FALSE]]
Call(fn)       == [kind |-> "call", fn |-> fn]
Junk           == [kind |-> "none"]

Hrefs ==
  {On("www.shop.example", p) : p \in MCPaths}
    \cup {On(h, "/privacy") : h \in MCHosts}
    \cup {[On("www.shop.example", "/") EXCEPT !.url.query = TRUE]}
    \cup {Call("f"), Call("g"), Junk}

Away(path) == [host |-> "a.shop.host", path |-> path, query |-> FALSE]

(* f is defined twice, g with one or two URLs.                             *)
FunctionTables ==
  {<<[name |-> "f", literals |-> {Away("/17")}],
     [name |-> "f", literals |-> {Away(p)}],
     [name |-> "g", literals |-> ls]>> :
     p \in {"/privacy", "/legal"}, ls \in {{Away("/terms/privacy")}, {Away("/privacy"), Away("/17")}}}

Anchor(h, x) == [href |-> h, text |-> x]
AllAnchors   == {Anchor(h, x) : h \in Hrefs, x \in MCLinkTexts}

(* Links that compete for the privacy policy.                              *)
Rivals ==
  {Anchor(On("www.shop.example", p), "Privacy") : p \in {"/privacy", "/17", "/legal/privacy"}}
    \cup {Anchor(On("shop.example", "/privacy"), ""), Anchor(Call("f"), "Privacy"),
          Anchor(Junk, "Privacy")}

(* Anchors stand at 2, 5 and 8; the footer of a page begins at 7 where it  *)
(* has none.                                                               *)
Layouts == {[footers |-> {}, closes |-> {}], [footers |-> {1, 4}, closes |-> {6}],
            [footers |-> {1}, closes |-> {}]}

Placed(as) == [n \in DOMAIN as |-> [href |-> as[n].href, text |-> as[n].text,
                                    offset |-> 3 * n - 1]]

PageOf(layout, functions, as) ==
  [length |-> 10, footers |-> layout.footers, closes |-> layout.closes,
   functions |-> functions, anchors |-> Placed(as)]

MCPages ==
  {PageOf(l, f, as) : l \in Layouts, f \in FunctionTables, as \in [1..3 -> Rivals]}
    \cup {PageOf([footers |-> {4}, closes |-> {}], f, as) :
            f \in FunctionTables, as \in [1..2 -> AllAnchors]}

=============================================================================
