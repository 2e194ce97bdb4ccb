----------------------------- MODULE Admission ------------------------------
(***************************************************************************)
(* Admission of scans (handler_helpers.go: inflightSem, acquireSlot,       *)
(* releaseSlot and the Handler's use of them).  inflightSem is a buffered  *)
(* channel: a send takes a slot, a receive gives one back.  acquireSlot    *)
(* first tries without blocking, then waits for a slot, for its timer or   *)
(* for the request's context, whichever comes first; of several that are   *)
(* there already the select picks any.                                     *)
(*                                                                         *)
(* A blocked sender on a Go channel waits in line: a receive on the full   *)
(* channel moves the longest waiting sender's value into the buffer in the *)
(* same step, so the freed slot never becomes visible to a newcomer.       *)
(*                                                                         *)
(* Requests stand for the clients' connections; each may come back.        *)
(* A definition named X_Fault is X with a plausible bug, used by no        *)
(* specification.                                                          *)
(***************************************************************************)
EXTENDS Naturals, FiniteSets

CONSTANTS
  Requests,
  MaxInflight,   \* capacity of inflightSem
  SlotWait       \* the queueing timer, in ticks

ASSUME AdmissionAssumption ==
  /\ IsFiniteSet(Requests)
  /\ MaxInflight \in Nat \ {0}
  /\ SlotWait \in Nat \ {0}

VARIABLES
  pc,       \* per request: where its handler is
  slots,    \* len(inflightSem)
  ahead,    \* per waiting request: those in line before it when it joined
  waited,   \* per request: ticks spent waiting
  gone      \* requests whose client hung up: their context is done

vars == <<pc, slots, ahead, waited, gone>>

Init ==
  /\ pc = [r \in Requests |-> "idle"]
  /\ slots = 0
  /\ ahead = [r \in Requests |-> {}]
  /\ waited = [r \in Requests |-> 0]
  /\ gone = {}

In(state) == {r \in Requests : pc[r] = state}

(* The timer fired, or the context is done.                                *)
Ended(r) == waited[r] = SlotWait \/ r \in gone

(* The sender the next receive will serve.                                 *)
FirstInLine(s) == s \in In("waiting") /\ ahead[s] \cap In("waiting") = {}

-----------------------------------------------------------------------------
Arrive(r) ==
  /\ pc[r] = "idle"
  /\ pc' = [pc EXCEPT ![r] = "admitting"]
  /\ UNCHANGED <<slots, ahead, waited, gone>>

(* The non-blocking attempt, which does not look at the context.           *)
TryAcquire(r) ==
  /\ pc[r] = "admitting"
  /\ slots < MaxInflight
  /\ pc' = [pc EXCEPT ![r] = "scanning"]
  /\ slots' = slots + 1
  /\ UNCHANGED <<ahead, waited, gone>>

FindFull(r) ==
  /\ pc[r] = "admitting"
  /\ slots = MaxInflight
  /\ pc' = [pc EXCEPT ![r] = "selecting"]
  /\ UNCHANGED <<slots, ahead, waited, gone>>

(* The second select.  Slots may have been freed since the first, and the  *)
(* client may have gone: if both, either can be what it sees.              *)
SelectSlot(r) ==
  /\ pc[r] = "selecting"
  /\ slots < MaxInflight
  /\ pc' = [pc EXCEPT ![r] = "scanning"]
  /\ slots' = slots + 1
  /\ UNCHANGED <<ahead, waited, gone>>

SelectEnd(r) ==
  /\ pc[r] = "selecting"
  /\ Ended(r)
  /\ pc' = [pc EXCEPT ![r] = "overloaded"]
  /\ UNCHANGED <<slots, ahead, waited, gone>>

(* With nothing to see it blocks.                                          *)
JoinLine_Late(r) ==
  /\ pc[r] = "selecting"
  /\ ~Ended(r)
  /\ pc' = [pc EXCEPT ![r] = "waiting"]
  /\ ahead' = [s \in Requests |-> IF s = r THEN In("waiting") ELSE ahead[s] \ {r}]
  /\ UNCHANGED <<slots, waited, gone>>

JoinLine(r) ==
  /\ pc[r] = "selecting"
  /\ slots = MaxInflight /\ ~Ended(r)
  /\ pc' = [pc EXCEPT ![r] = "waiting"]
  /\ ahead' = [s \in Requests |-> IF s = r THEN In("waiting") ELSE ahead[s] \ {r}]
  /\ UNCHANGED <<slots, waited, gone>>

(* 503, overloaded.                                                        *)
GiveUp_Releases(r) ==
  /\ pc[r] = "waiting"
  /\ Ended(r)
  /\ pc' = [pc EXCEPT ![r] = "overloaded"]
  /\ slots' = slots - 1
  /\ UNCHANGED <<ahead, waited, gone>>

GiveUp(r) ==
  /\ pc[r] = "waiting"
  /\ Ended(r)
  /\ pc' = [pc EXCEPT ![r] = "overloaded"]
  /\ UNCHANGED <<slots, ahead, waited, gone>>

(* The deferred releaseSlot, on every way out of the Handler.              *)
Release_NobodyWoken(r) ==
  /\ pc[r] = "scanning"
  /\ pc' = [pc EXCEPT ![r] = "answered"]
  /\ slots' = slots - 1
  /\ UNCHANGED <<ahead, waited, gone>>

Release_OnlyWhenConnected(r) ==
  /\ pc[r] = "scanning" /\ r \notin gone
  /\ \/ /\ In("waiting") = {}
        /\ pc' = [pc EXCEPT ![r] = "answered"]
        /\ slots' = slots - 1
     \/ \E s \in In("waiting") :
          /\ FirstInLine(s)
          /\ pc' = [pc EXCEPT ![r] = "answered", ![s] = "scanning"]
          /\ UNCHANGED slots
  /\ UNCHANGED <<ahead, waited, gone>>

Release(r) ==
  /\ pc[r] = "scanning"
  /\ \/ /\ In("waiting") = {}
        /\ pc' = [pc EXCEPT ![r] = "answered"]
        /\ slots' = slots - 1
     \/ \E s \in In("waiting") :
          /\ FirstInLine(s)
          /\ pc' = [pc EXCEPT ![r] = "answered", ![s] = "scanning"]
          /\ UNCHANGED slots
  /\ UNCHANGED <<ahead, waited, gone>>

(* The client hangs up while its request is in the service.                *)
HangUp(r) ==
  /\ pc[r] \in {"admitting", "selecting", "waiting", "scanning"}
  /\ r \notin gone
  /\ gone' = gone \cup {r}
  /\ UNCHANGED <<pc, slots, ahead, waited>>

(* Time passes; no timer overshoots.                                       *)
Timed == In("selecting") \cup In("waiting")

Tick ==
  /\ Timed # {}
  /\ \A r \in Timed : waited[r] < SlotWait
  /\ waited' = [r \in Requests |-> IF r \in Timed THEN waited[r] + 1 ELSE waited[r]]
  /\ UNCHANGED <<pc, slots, ahead, gone>>

(* The next request of the same client.                                    *)
ComeBack(r) ==
  /\ pc[r] \in {"answered", "overloaded"}
  /\ pc' = [pc EXCEPT ![r] = "idle"]
  /\ waited' = [waited EXCEPT ![r] = 0]
  /\ gone' = gone \ {r}
  /\ UNCHANGED <<slots, ahead>>

Next ==
  \/ \E r \in Requests :
       \/ Arrive(r) \/ TryAcquire(r) \/ FindFull(r)
       \/ SelectSlot(r) \/ SelectEnd(r) \/ JoinLine(r)
       \/ GiveUp(r) \/ Release(r) \/ HangUp(r) \/ ComeBack(r)
  \/ Tick

(* A handler that can run does; a scan ends (it has a wall-clock budget);  *)
(* time passes.  Nobody is forced to arrive or to hang up.                 *)
Fairness ==
  /\ \A r \in Requests :
       WF_vars(\/ TryAcquire(r) \/ FindFull(r) \/ SelectSlot(r) \/ SelectEnd(r) \/ JoinLine(r)
               \/ GiveUp(r) \/ Release(r))
  /\ WF_vars(Tick)

Spec == Init /\ [][Next]_vars /\ Fairness

-----------------------------------------------------------------------------
TypeOK ==
  /\ pc \in [Requests -> {"idle", "admitting", "selecting", "waiting", "scanning", "answered",
                       "overloaded"}]
  /\ slots \in Nat
  /\ ahead \in [Requests -> SUBSET Requests]
  /\ waited \in [Requests -> 0..SlotWait]
  /\ gone \subseteq Requests

(* No slot leaks and none is used twice: the channel holds one value per   *)
(* scan in progress, never more than maxInflight.                          *)
SlotsMatchScans == slots = Cardinality(In("scanning")) /\ slots <= MaxInflight

(* Nobody waits beside a free slot: as long as there is a line, every slot *)
(* is taken, so a newcomer's non-blocking attempt cannot overtake it.      *)
LineOnlyWhenFull == In("waiting") # {} => slots = MaxInflight

(* A request is answered "overloaded" only after the full wait, or once    *)
(* its client has gone.                                                    *)
RefusedForCause == \A r \in Requests : pc[r] = "overloaded" => Ended(r)

(* Every request that arrives is answered, one way or the other.           *)
EveryoneAnswered ==
  \A r \in Requests : pc[r] = "admitting" ~> pc[r] \in {"answered", "overloaded"}

-----------------------------------------------------------------------------
Pool == INSTANCE SlotPool WITH
  Max <- MaxInflight,
  asking <- In("admitting") \cup In("selecting"),
  line <- In("waiting"),
  holders <- In("scanning"),
  refused <- In("overloaded"),
  ended <- {r \in In("admitting") \cup In("selecting") \cup In("waiting") : Ended(r)}

(* The channel implements the abstract pool, although the timer, the       *)
(* context and the channel race in one select and newcomers race with the  *)
(* line: nobody leaves the line for want of a slot while one is free, and  *)
(* no newcomer takes a slot past the line (handler_helpers.go 90-108).     *)
ImplementsPool == Pool!PoolSpec

=============================================================================
