--------------------------- MODULE EntityAddress ----------------------------
(***************************************************************************)
(* extractAddressNearEntity (imprint_name.go): the postal address of a     *)
(* company is read off the lines below one that names it.  A page names    *)
(* its company many times, so the reader has to find the mention that an   *)
(* address belongs to, to pass over the numbers and phones in between, and *)
(* to stop before it reads on into the next mention or the next field.     *)
(*                                                                         *)
(* Of a line matters how it names the company, what part of an address it  *)
(* states itself, and for what its words are taken:                        *)
(*   names   "exactly", "loosely" (other case, other spacing), or "not"    *)
(*   inline  the address clauses after the name that look like an address  *)
(*   marks   "aside" a label or phone to pass over, "field" one to stop    *)
(*           at, "postal" a run of four digits or an address word          *)
(* Labels are sought anywhere in a line: one may bear several marks.       *)
(* MCImprintPage reads with it beside other readers; hence the names of    *)
(* Init, Next and Spec.                                                    *)
(***************************************************************************)
EXTENDS Naturals, Sequences, FiniteSetsExt

CONSTANTS
  AddressPages,  \* the texts, each a sequence of TextLines
  Reach,         \* how many lines below a mention are read (20)
  MaxParts       \* how many lines an address has at most (4)

TextLines ==
  [names : {"exactly", "loosely", "not"}, inline : SUBSET {"of", "office"}, blank : BOOLEAN,
   marks : SUBSET {"aside", "field", "postal"}]

ASSUME AddressAssumption ==
  AddressPages \subseteq Seq(TextLines) /\ Reach \in Nat /\ MaxParts \in Nat \ {0}

VARIABLES
  lines,    \* the text, never changed
  mention,  \* the line that names the company, 0 before the first
  below,    \* the next line below it, 0 while a mention is sought
  parts,    \* what has been collected: pairs of a line and a clause of it
  state     \* "reading", then "done"

addressVars == <<lines, mention, below, parts, state>>

AddressInit ==
  /\ lines \in AddressPages
  /\ mention = 0 /\ below = 0
  /\ parts = <<>>
  /\ state = "reading"

-----------------------------------------------------------------------------
NamesCompany(n) == lines[n].names = "exactly"

RepeatsName_Exactly(n) == lines[n].names = "exactly"   \* fault: in the same case

RepeatsName(n) == lines[n].names # "not"

Aside(n) == "aside" \in lines[n].marks

StopsHere(n) == "field" \in lines[n].marks /\ ~Aside(n)

looksAddressLine(n) == "postal" \in lines[n].marks

(* "(C 71943) of 'Ridge View', ..." right after the name, else             *)
(* "Registered Office is ..." further on.                                  *)
InlineParts(n) ==
  CASE "of" \in lines[n].inline -> <<<<n, "of">>>>
    [] lines[n].inline = {"office"} -> <<<<n, "office">>>>
    [] lines[n].inline = {} -> <<>>

-----------------------------------------------------------------------------
(* The next line that names the company, if there is one.                  *)
NextMention ==
  /\ state = "reading" /\ below = 0
  /\ LET later == {n \in DOMAIN lines : n > mention /\ NamesCompany(n)}
     IN  \/ /\ later # {}
            /\ mention' = Min(later) /\ below' = Min(later) + 1
            /\ parts' = InlineParts(Min(later))
            /\ UNCHANGED state
         \/ /\ later = {}
            /\ state' = "done"
            /\ UNCHANGED <<mention, below, parts>>
  /\ UNCHANGED lines

InReach == below <= Len(lines) /\ below <= mention + Reach /\ Len(parts) < MaxParts

(* A line below the mention that neither repeats the name nor starts       *)
(* another field.                                                          *)
ReadLine ==
  /\ state = "reading" /\ below # 0 /\ InReach
  /\ lines[below].blank \/ ~(RepeatsName(below) \/ StopsHere(below))
  /\ parts' = IF lines[below].blank \/ Aside(below) \/ ~looksAddressLine(below) THEN parts
              ELSE Append(parts, <<below, "line">>)
  /\ below' = below + 1
  /\ UNCHANGED <<lines, mention, state>>

(* The mention's lines are at an end.  What they gave is the address; a    *)
(* mention without one leaves the search to the next.                      *)
EndOfMention ==
  /\ state = "reading" /\ below # 0
  /\ InReach => ~lines[below].blank /\ (RepeatsName(below) \/ StopsHere(below))
  /\ below' = 0
  /\ state' = IF parts = <<>> THEN "reading" ELSE "done"
  /\ UNCHANGED <<lines, mention, parts>>

Returned == state = "done" /\ UNCHANGED addressVars

AddressNext == NextMention \/ ReadLine \/ EndOfMention \/ Returned

AddressSpec == AddressInit /\ [][AddressNext]_addressVars

-----------------------------------------------------------------------------
(* The lines that stand under a mention: within reach, and none of another *)
(* mention or another field between.  A line with both kinds of label is   *)
(* passed over, and so does not cut off what follows.                      *)
Under(m) ==
  {n \in DOMAIN lines :
     /\ m < n /\ n <= m + Reach
     /\ \A k \in (m + 1)..n :
          \/ lines[k].blank
          \/ lines[k].names = "not" /\ ("field" \in lines[k].marks => Aside(k))}

(* All a mention states of an address: its own clause, and the lines under *)
(* it.                                                                     *)
Stated(m) ==
  {InlineParts(m)[k] : k \in DOMAIN InlineParts(m)}
    \cup {<<n, "line">> : n \in {n \in Under(m) : /\ ~lines[n].blank /\ ~Aside(n)
                                                  /\ looksAddressLine(n)}}

(* These are, in the order of the page, the first of the parts a mention   *)
(* states, as many as an address may have.                                 *)
AddressOf(ps, m) ==
  /\ Len(ps) <= MaxParts
  /\ \A j \in DOMAIN ps : ps[j] \in Stated(m) /\ \A k \in DOMAIN ps : j < k => ps[j][1] < ps[k][1]
  /\ \A a \in Stated(m) :
       \/ \E k \in DOMAIN ps : ps[k] = a
       \/ Len(ps) = MaxParts /\ ps[MaxParts][1] < a[1]

(* An address is all of what one mention states, in the order of the page, *)
(* and never put together from two mentions of the company or with the     *)
(* next field's numbers; the first mention that states any gives it; and   *)
(* there is none only if no mention states any (imprint_name.go 303-306,   *)
(* 381-395, 586-592).                                                      *)
OneMentionsAddress ==
  state = "done" =>
    LET stating == {m \in DOMAIN lines : NamesCompany(m) /\ Stated(m) # {}}
    IN  IF stating = {} THEN parts = <<>>
        ELSE \E m \in stating : (\A o \in stating : m <= o) /\ AddressOf(parts, m)

=============================================================================
