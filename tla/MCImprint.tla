------------------------------ MODULE MCImprint -----------------------------
(***************************************************************************)
(* Imprints of a German company, and what else such pages carry.           *)
(***************************************************************************)
EXTENDS Imprint, TLC
LOCAL INSTANCE SequencesExt

MCLegalName ==
  "" :> "" @@ "Acme GmbH" :> "Acme GmbH" @@ "Website: Acme GmbH" :> "Acme GmbH" @@
  "Rival Ltd" :> "Rival Ltd" @@ "Inc Name: Rival Ltd" :> "Rival Ltd" @@ "Company ID" :> "" @@ "OVH SAS" :> "OVH SAS" @@
  "Rose Franz Holzmann" :> "Rose Franz Holzmann" @@ "Rakko" :> "Rakko" @@ "Verein" :> "Verein"
DetectedForm(form, country, conf, letters) ==
  [form |-> form, country |-> country, conf |-> conf, letters |-> letters]
MCFormIn ==
  [name \in {MCLegalName[n] : n \in DOMAIN MCLegalName} |->
     CASE name = "Acme GmbH" -> DetectedForm("GmbH", "DE", "medium", {"GmbH"})
       [] name = "Rival Ltd" -> DetectedForm("Ltd", "GB", "low", {"Ltd"})
       [] name = "OVH SAS"   -> DetectedForm("SAS", "FR", "medium", {"SAS"})
       [] OTHER              -> DetectedForm("", "", "", {})]
MCEponyms   == {"Rose Franz Holzmann"}
MCProviders == {"OVH SAS"}

(* B1 is Spanish, written with its prefix and without; I1 is Italian, N1   *)
(* nobody's.                                                               *)
MCPrefixOf ==
  "DE1" :> "DE" @@ "DE 1" :> "DE" @@ "B1" :> "" @@ "B-1" :> "" @@ "I1" :> "" @@ "T1" :> "" @@
  "T2" :> "" @@ "EL1" :> "EL"
Genuine ==
  "DE1" :> "DE" @@ "DE 1" :> "DE" @@ "B1" :> "ES" @@ "B-1" :> "ES" @@ "I1" :> "IT" @@
  "T1" :> "" @@ "T2" :> "" @@ "EL1" :> "EL"
MCCheckOf ==
  [v \in DOMAIN Genuine |->
     [cc \in knownVATPrefixes |->
        CASE cc \in {"CY", "LT", "LV"} -> "format_valid"
          [] cc = Genuine[v] -> "checksum_valid"
          [] OTHER -> "checksum_invalid"]]

Hit(kind, raw, value, country, verdict) ==
  [kind |-> kind, raw |-> raw, value |-> value, country |-> country, validation |-> verdict]

DE1 == Hit("VAT", "DE1", "DE1", "DE", "checksum_valid")
EL1 == Hit("VAT", "EL1", "EL1", "EL", "checksum_invalid")
B1  == Hit("CIF", "CIF: B-1", "B1", "ES", "checksum_valid")
I1  == Hit("PartitaIVA", "P.IVA I1", "I1", "IT", "checksum_valid")
T1  == Hit("InvoiceIssuerRegistration", "T1", "T1", "JP", "format_valid")
T2  == Hit("InvoiceIssuerRegistration", "T2", "T2", "JP", "format_valid")
HRB == Hit("HRB", "HRB 7", "7", "DE", "format_valid")
FN  == Hit("FN", "FN 7z", "7z", "AT", "format_valid")
C1  == Hit("CorporateNumber", "No 1", "1", "JP", "checksum_valid")
C2  == Hit("CorporateNumber", "No 2", "2", "JP", "checksum_valid")
UID == Hit("UID", "CHE-1", "CHE1", "CH", "checksum_valid")

(* Numbers stand in the second byte of a line; a second one stands at its  *)
(* end, which is then far from the line's start, as in running text.       *)
Line(sort, name, form, country, conf, postal, copyright, hits) ==
  [sort |-> sort, name |-> name, form |-> form, country |-> country, conf |-> conf,
   postal |-> postal, copyright |-> copyright, hits |-> hits,
   start |-> IF sort \in {"form", "operator"} THEN 1 ELSE 0,
   at |-> [n \in DOMAIN hits |-> IF n = 1 THEN 1 ELSE 5]]

LineWidth(line) == IF Len(line.hits) > 1 THEN 6 ELSE 3

Placed(lines) ==
  LET begin[i \in DOMAIN lines] == IF i = 1 THEN 0 ELSE begin[i - 1] + LineWidth(lines[i - 1])
  IN  [i \in DOMAIN lines |->
         [lines[i] EXCEPT !.start = begin[i] + @, !.at = [n \in DOMAIN @ |-> begin[i] + @[n]]]]

Acme(postal, c, hits) == Line("company", "Acme GmbH", "GmbH", "DE", "medium", postal, c, hits)
Rival(postal, hits)   == Line("company", "Rival Ltd", "Ltd", "GB", "low", postal, FALSE, hits)
Glued     == Line("company", "Website: Acme GmbH", "GmbH", "DE", "medium", "", FALSE, <<>>)
Renaming  == Line("company", "Inc Name: Rival Ltd", "Inc", "US", "low", "other", FALSE, <<>>)
Caption   == Line("company", "Company ID", "Inc", "US", "low", "", FALSE, <<>>)
Host      == Line("company", "OVH SAS", "SAS", "FR", "medium", "other", FALSE, <<>>)
Label     == Line("label", "Rose Franz Holzmann", "", "", "", "AT", FALSE, <<>>)
Form      == Line("form", "Rose Franz Holzmann", "", "", "", "", FALSE, <<>>)
Operator  == Line("operator", "Rakko", "", "JP", "high", "other", FALSE, <<>>)
Text(hits) == Line("other", "", "", "", "", "", FALSE, hits)

Markup(name, form, source, country, postal, vat, ids) ==
  [name |-> name, form |-> form, country |-> country, conf |-> "medium", source |-> source,
   register |-> NoNumber, vat |-> vat, postal |-> postal, ids |-> ids]

Organization(vat, ids) == Markup("Acme GmbH", "GmbH", "json_ld", "DE", "DE", vat, ids)
Card  == Markup("Acme GmbH", "GmbH", "hcard", "DE", "", "", <<>>)
Title == Markup("Rose Franz Holzmann", "", "og_site_name", "", "", "", <<>>)

Page(markup, lines, legalURL) ==
  [blank |-> FALSE, markup |-> markup, lines |-> Placed(lines), legalURL |-> legalURL, credits |-> {},
   host |-> "", court |-> "", script |-> "", phone |-> "", publisher |-> "", address |-> "",
   person |-> "", contact |-> TRUE]

(* Every text of three lines, beside each kind of markup.                  *)
AnyLine ==
  {Acme("", FALSE, <<>>), Acme("DE", FALSE, <<DE1, HRB>>), Acme("", TRUE, <<>>), Rival("", <<>>),
   Rival("other", <<EL1>>), Glued, Caption, Host, Label, Form, Operator, Text(<<>>),
   Text(<<DE1>>), Text(<<HRB>>), Text(<<C1>>), Text(<<C2, T1>>), Text(<<T2>>), Text(<<UID, B1>>)}

MarkupFor ==
  {<<>>, <<Card>>, <<Title>>,
   <<Organization("DE 1", <<Hit("VAT", "DE 1", "DE1", "DE", "checksum_valid")>>)>>}

ThreeLines == {Placed(l) : l \in [1..3 -> AnyLine]}

PagesOf(markup, legalURL) ==
  [blank : {FALSE}, markup : markup, lines : ThreeLines, legalURL : legalURL, credits : {{}},
   host : {""}, court : {""}, script : {""}, phone : {""}, publisher : {""}, address : {""},
   person : {""}, contact : {TRUE}]

Texts == PagesOf(MarkupFor, {TRUE}) \cup PagesOf({<<>>}, {FALSE})

(* Signals about the country, beside a few texts.                          *)
Signals ==
  {[Page(<<>>, l, TRUE) EXCEPT !.host = h, !.court = c, !.script = s, !.phone = p,
                               !.publisher = "Verein", !.address = "AT"] :
     l \in {<<>>, <<Acme("DE", FALSE, <<>>)>>, <<Acme("AT", FALSE, <<FN>>)>>,
            <<Acme("", FALSE, <<HRB>>)>>, <<Acme("", FALSE, <<DE1>>)>>,
            <<Acme("other", FALSE, <<I1>>)>>, <<Rival("other", <<>>)>>, <<Renaming>>, <<Text(<<C1>>)>>,
            <<Label>>},
     h \in {"", "AT", "DE", "CH", "LI", "JP"}, c \in {"", "AT", "DE"}, s \in {"", "JP"},
     p \in {"", "CH", "AT"}}

Odd ==
  {[Page(<<>>, <<>>, TRUE) EXCEPT !.blank = TRUE]}
    \cup {[Page(<<>>, l, TRUE) EXCEPT !.credits = {"Acme GmbH"}] : l \in [1..2 -> AnyLine]}
    \cup {Page(<<Organization(v, <<>>)>>, <<Text(<<B1>>)>>, u) : v \in {"B-1", "B1"}, u \in BOOLEAN}

MCPages == Texts \cup Signals \cup Odd

=============================================================================
