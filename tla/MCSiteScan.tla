----------------------------- MODULE MCSiteScan -----------------------------
(***************************************************************************)
(* Small sites that do not change.  Each of three paths is gone or answers *)
(* a page: its own, confirmed by its title or by legal vocabulary, or with *)
(* nothing but a word of its type; or one that other paths answer too.     *)
(***************************************************************************)
EXTENDS MCScan, SiteScan

OK(page) == [err |-> FALSE, status |-> 200, view |-> page]
Refused(status) == [err |-> FALSE, status |-> status, view |-> NoView]
Gone == Refused(404)

OwnFP(i) == <<"fp1", "fp2", "fp3">>[i]

VocabularyAt(i) == [Page(OwnFP(i)) EXCEPT !.vocab = TRUE]
TitledAt(i)     == [VocabularyAt(i) EXCEPT !.title = {Plan[i]}]
MentionedAt(i)  == [Page(OwnFP(i)) EXCEPT !.signal = {Plan[i]}]

SiteFingerprints == {"home", "fp1", "fp2", "fp3", "w", "x"}
SitePages ==
  UNION {{VocabularyAt(i), TitledAt(i), MentionedAt(i)} : i \in 1..3} \cup {WildcardPage, ThinPage}

Everywhere(a) == [t \in Types |-> a]

PathAnswers(i) ==
  {Gone, OK(VocabularyAt(i)), OK(TitledAt(i)), OK(MentionedAt(i)), OK(WildcardPage)}

AllSites ==
  {[paths |-> <<a, b, c>>, control |-> control, links |-> Everywhere(link)] :
     a \in PathAnswers(1), b \in PathAnswers(2), c \in PathAnswers(3),
     control \in {Gone, OK(WildcardPage)}, link \in {Gone, Refused(403), OK(ThinPage)}}

(* A page that only mentions the terms at the first path, the terms at the *)
(* third.                                                                  *)
TermsSite ==
  {[paths |-> <<OK(MentionedAt(1)), Gone, OK(TitledAt(3))>>, control |-> Gone,
    links |-> Everywhere(Gone)]}

ThreeTerms == <<"tos", "tos", "tos">>

=============================================================================
