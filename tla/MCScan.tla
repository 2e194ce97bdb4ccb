------------------------------- MODULE MCScan -------------------------------
(***************************************************************************)
(* Small instances of the verification phases for TLC.                     *)
(***************************************************************************)
EXTENDS ScanProperties

MCTypes        == {"tos", "privacy", "disclaimer", "hub"}
MCHubs         == {"hub"}
ThreeTypes     == MCTypes \ MCHubs
MCExpected     == {"tos", "privacy"}
MCFingerprints == {"home", "t", "w", "x", "c"}
MCURLs         == 1..8

(* Pages: each differs from the others in what some decision asks.         *)
Page(fp) ==
  [fp |-> fp, pdf |-> FALSE, challenge |-> FALSE, unusable |-> FALSE,
   title |-> {}, headings |-> {}, vocab |-> FALSE, signal |-> {},
   template |-> "", homeCopy |-> FALSE]

TermsPage    == [Page("t") EXCEPT !.title = {"tos"}, !.vocab = TRUE]
WildcardPage == [Page("w") EXCEPT !.vocab = TRUE]             \* legal words, any path
HomePage     == [Page("home") EXCEPT !.vocab = TRUE]          \* the homepage, fresh nonce
ThinPage     == Page("x")                                     \* exists, says nothing
Challenge    == [Page("x") EXCEPT !.challenge = TRUE]
SoftNotFound == [Page("x") EXCEPT !.unusable = TRUE]
EchoPage     == [Page("x") EXCEPT !.vocab = TRUE, !.template = "about {path}"]
EchoAgain    == [EchoPage EXCEPT !.fp = "c"]                  \* same title, other text

MCTemplates == {"", "about {path}"}

ProbePages == {TermsPage, WildcardPage, HomePage, SoftNotFound, ThinPage, EchoPage, EchoAgain}
LinkPages  == {TermsPage, ThinPage, HomePage, Challenge}
WildcardPages == {WildcardPage}

(* Links: what linkScan can hand over.                                     *)
Link(source, named, floor, url) ==
  [source |-> source, named |-> named, floor |-> floor, url |-> url, conf |-> "",
   evidence |-> {}, status |-> 0, rejected |-> FALSE]

NoLinks    == {}
OneLink    == {Link("footer_link", TRUE, "low", 7)}
SomeLinks  == {Link("footer_link", TRUE, "medium", 7), Link("page_link", FALSE, "low", 8)}

TwoTermsOnePrivacy == <<"tos", "tos", "privacy">>
TwoOfEach          == <<"tos", "tos", "privacy", "privacy">>
OneEach            == <<"tos", "privacy">>

=============================================================================
