--------------------------- MODULE MCImprintPage ----------------------------
(***************************************************************************)
(* The parts of an imprint page, each read on input of its own: the fields *)
(* on the pages of MCImprint, numbers of every scheme (MCIdentifiers), the *)
(* address under a mention of the company, a line on which it is named,    *)
(* and the name as it was cut from the page.                               *)
(***************************************************************************)
EXTENDS MCImprint, EntityAddress, Identifiers, CompanyName, NameOnLine

CONSTANT MaxLines

VARIABLE reader   \* what is read

fieldVars == vars

-----------------------------------------------------------------------------
AddressLine(names, inline, marks) ==
  [names |-> names, inline |-> inline, blank |-> FALSE, marks |-> marks]

AddressLines ==
  {[AddressLine("not", {}, {}) EXCEPT !.blank = TRUE],
   AddressLine("exactly", {}, {}), AddressLine("exactly", {"of", "office"}, {}),
   AddressLine("exactly", {"office"}, {"field", "postal"}), AddressLine("loosely", {}, {"postal"}),
   AddressLine("not", {}, {}), AddressLine("not", {}, {"postal"}),
   AddressLine("not", {}, {"aside", "postal"}), AddressLine("not", {}, {"field", "postal"}),
   AddressLine("not", {}, {"aside", "field"})}

MCAddressPages == BoundedSeq(AddressLines, MaxLines)

-----------------------------------------------------------------------------
(* What stands before a name: any two words, or a part of each kind in the *)
(* order in which the passes take them off.                                *)
AnyWords ==
  BoundedSeq({"copyright", ":", "-", "2024", "all-rights-reserved", "propiedad-de",
              "la-sociedad", "der", "impressum", "is-operated-by", "pertenece-a", "Owner",
              "Company", "AGB", "mit-sitz", "("}, 2)

Ordered ==
  {FlattenSeq(<<front, connectives, notice, title, phrase, label>>) :
     front \in {<<>>, <<"all-rights-reserved", "copyright", "2024">>},
     connectives \in {<<>>, <<"la-sociedad">>, <<"propiedad-de", "la-sociedad">>},
     notice \in {<<>>, <<"Owner", "copyright", "2024">>},
     title \in {<<>>, <<"impressum", "-", "der">>},
     phrase \in {<<>>, <<"Shop", "is-operated-by">>},
     label \in {<<>>, <<"Owner", ":", "copyright">>, <<"Company", "Owner", ":">>}}

Named ==
  {[name |-> <<"Acme", "GmbH">>, form |-> "GmbH"], [name |-> <<"GmbH", "Acme">>, form |-> "GmbH"],
   [name |-> <<"Acme", "-", "Shop", "GmbH">>, form |-> "GmbH"],
   [name |-> <<"Acme">>, form |-> "none"], [name |-> <<"Acme", "AG">>, form |-> "Company"],
   [name |-> <<"Acme", "-", "VERLAG", "AG">>, form |-> "AG"],
   [name |-> <<"Istanbul", "GmbH">>, form |-> "GmbH"],
   [name |-> <<"Company", "links">>, form |-> "Company"],
   [name |-> <<"private", "Company">>, form |-> "none"]}

Tails ==
  {<<>>, <<"-", "Shop">>, <<"-", "AGB">>, <<"au-capital", ":", "12345">>, <<"mit-sitz", "Shop", "au-capital">>,
   <<"(", "Shop">>, <<":", "Shop">>, <<":", "12345", "2024">>, <<"is-operated-by", "Shop">>}

Wrapped ==
  {[before |-> b, name |-> n.name, after |-> t, form |-> n.form] :
     b \in AnyWords \cup Ordered, n \in Named, t \in Tails}

(* Istanbul with its dotted capital.                                       *)
MCPlain  == {"Acme", "Shop", "Owner", "AGB", "VERLAG", "Istanbul"}
MCEnding == [w \in MCPlain |-> IF w = "VERLAG" THEN {"AG"} ELSE {}]
MCInside == [w \in MCPlain |-> IF w \in {"AGB", "VERLAG"} THEN {"AG"} ELSE {}]
MCUneven == {"Istanbul"}

-----------------------------------------------------------------------------
(* What introduces a name on its line: any two words, or parts in order.   *)
Introductions ==
  BoundedSeq({"|", "bullet", ".", "Soc", "Copyright", "2024", "open quote", "(", "und", "Musik-", "CEO", ",",
              "is a trading name of", "Best", ":", "Impressum", "-", "hosted by", "Shop",
              "is operated by", "of", "AG", "the"}, 2)
    \cup {FlattenSeq(<<earlier, signs, joined, role, trading, label>>) :
            earlier \in {<<>>, <<"Shop", "Soc", ".">>, <<"Shop", ".">>},
            signs \in {<<>>, <<"Copyright", "copyright sign", "2024">>},
            joined \in {<<>>, <<"Shop", "and">>, <<"Shop", "-", "und">>, <<"Shop", "and", "Shop", "und">>},
            role \in {<<>>, <<"Shop", ",", "CEO", "of">>, <<"Kontakt", ":", "Shop", ",", "CEO", ",">>},
            trading \in {<<>>, <<"Shop", "is a trading name of">>},
            label \in {<<>>, <<"Best", "online", ":">>, <<"Section 3:">>, <<"Operator", ":">>,
                       <<"Impressum", "-", "Kontakt", ":", "hosted by">>}}

Companies ==
  {[name |-> <<"Acme", "Shop">>, form |-> "GmbH", formFirst |-> FALSE],
   [name |-> <<"Acme">>, form |-> "AG", formFirst |-> FALSE],
   [name |-> <<"Acme">>, form |-> "Company", formFirst |-> FALSE],
   [name |-> <<"Musik-", "und", "Acme">>, form |-> "GmbH", formFirst |-> FALSE],
   [name |-> <<"VERL.">>, form |-> "AG", formFirst |-> FALSE],
   [name |-> <<"Acme", ",">>, form |-> "NV", formFirst |-> FALSE],
   [name |-> <<"Acme">>, form |-> "AG", formFirst |-> TRUE]}

CompanyLines ==
  {[before |-> b, name |-> c.name, after |-> a, form |-> c.form, formFirst |-> c.formFirst] :
     b \in Introductions, c \in Companies, a \in {<<>>, <<",", "Shop">>, <<".B", "Shop">>, <<"bullet", "Shop">>}}

-----------------------------------------------------------------------------
Samples == INSTANCE MCIdentifiers

MCSchemes == Samples!MCSchemes

MCCapital == {"Acme", "Shop"}
MCSmall   == {"online"}

NoFields ==
  /\ page = Page(<<>>, <<>>, TRUE) /\ pc = "unread"
  /\ cands = {} /\ best = {} /\ im = Empty /\ fixed = FALSE /\ prefixed = FALSE
NoNumberRead == scheme = [kind |-> "", country |-> ""] /\ issued = <<>> /\ copied = <<>> /\ verdict = ""
NoAddress == lines = <<>> /\ mention = 0 /\ below = 0 /\ parts = <<>> /\ state = "unread"
NoLine == written = <<>> /\ candidate = <<>> /\ step = "unread"
NoName == given = <<>> /\ cleaned = <<>> /\ form = "" /\ pass = "unread"

PageInit ==
  \/ reader = "fields"  /\ Init         /\ NoNumberRead /\ NoAddress /\ NoName /\ NoLine
  \/ reader = "number"  /\ NumberInit   /\ NoFields /\ NoAddress /\ NoName /\ NoLine
  \/ reader = "address" /\ AddressInit  /\ NoFields /\ NoNumberRead /\ NoName /\ NoLine
  \/ reader = "name"    /\ NameInit     /\ NoFields /\ NoNumberRead /\ NoAddress /\ NoLine
  \/ reader = "line"    /\ LineInit  /\ NoFields /\ NoNumberRead /\ NoAddress /\ NoName

PageNext ==
  /\ \/ reader = "fields"  /\ Next
        /\ UNCHANGED <<numberVars, addressVars, nameVars, lineVars>>
     \/ reader = "number"  /\ NumberNext
        /\ UNCHANGED <<fieldVars, addressVars, nameVars, lineVars>>
     \/ reader = "address" /\ AddressNext
        /\ UNCHANGED <<fieldVars, numberVars, nameVars, lineVars>>
     \/ reader = "name"    /\ NameNext
        /\ UNCHANGED <<fieldVars, numberVars, addressVars, lineVars>>
     \/ reader = "line"    /\ LineNext
        /\ UNCHANGED <<fieldVars, numberVars, addressVars, nameVars>>
  /\ UNCHANGED reader

PageSpec ==
  PageInit /\ [][PageNext]_<<reader, fieldVars, numberVars, addressVars, nameVars, lineVars>>

=============================================================================
