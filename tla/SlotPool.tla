------------------------------ MODULE SlotPool ------------------------------
(***************************************************************************)
(* What the admission control promises: at most Max requests hold a slot;  *)
(* a slot given back goes to the line if there is one, and a newcomer gets *)
(* one only if there is none; nobody is turned away but for its own end    *)
(* (its client gone, its time up), and out of the line only while every    *)
(* slot is held.                                                           *)
(***************************************************************************)
EXTENDS Naturals, FiniteSets

CONSTANTS Requests, Max

VARIABLES
  asking,    \* newcomers
  line,      \* requests that wait for a slot
  holders,   \* requests that hold one
  refused,   \* requests turned away
  ended      \* of those who ask or wait: whose client has gone, or whose time is up

poolVars == <<asking, line, holders, refused, ended>>

PoolInit == asking = {} /\ line = {} /\ holders = {} /\ refused = {} /\ ended = {}

Ask(r) ==
  /\ r \notin asking \cup line \cup holders \cup refused
  /\ asking' = asking \cup {r}
  /\ UNCHANGED <<line, holders, refused, ended>>

Take(r) ==
  /\ r \in asking
  /\ Cardinality(holders) < Max /\ line = {}
  /\ asking' = asking \ {r}
  /\ holders' = holders \cup {r}
  /\ ended' = ended \ {r}
  /\ UNCHANGED <<line, refused>>

Join(r) ==
  /\ r \in asking \ ended
  /\ Cardinality(holders) = Max
  /\ asking' = asking \ {r}
  /\ line' = line \cup {r}
  /\ UNCHANGED <<holders, refused, ended>>

Give(r) ==
  /\ r \in holders /\ line = {}
  /\ holders' = holders \ {r}
  /\ UNCHANGED <<asking, line, refused, ended>>

(* A holder's slot passes straight to a request in line.                   *)
HandOver(r, s) ==
  /\ r \in holders /\ s \in line
  /\ line' = line \ {s}
  /\ holders' = (holders \ {r}) \cup {s}
  /\ ended' = ended \ {s}
  /\ UNCHANGED <<asking, refused>>

Refuse(r) ==
  /\ r \in ended
  /\ r \in line => Cardinality(holders) = Max
  /\ asking' = asking \ {r}
  /\ line' = line \ {r}
  /\ refused' = refused \cup {r}
  /\ ended' = ended \ {r}
  /\ UNCHANGED holders

End(S) ==
  /\ ended' = ended \cup S
  /\ UNCHANGED <<asking, line, holders, refused>>

Leave(r) ==
  /\ r \in refused
  /\ refused' = refused \ {r}
  /\ UNCHANGED <<asking, line, holders, ended>>

PoolNext ==
  \/ \E r \in Requests : Ask(r) \/ Take(r) \/ Join(r) \/ Give(r) \/ Refuse(r) \/ Leave(r)
  \/ \E r, s \in Requests : HandOver(r, s)
  \/ \E S \in SUBSET (asking \cup line) : End(S)

PoolSpec == PoolInit /\ [][PoolNext]_poolVars

=============================================================================
