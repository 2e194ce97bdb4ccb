-------------------------- MODULE AdmissionProofs ---------------------------
(***************************************************************************)
(* Admission, for any number of requests, slots and ticks.  The four state *)
(* properties are inductive only together: a slot can be given back        *)
(* because the scan giving it back is counted, and the count is exact      *)
(* because a line forms only beside full slots.                            *)
(***************************************************************************)
EXTENDS Admission, FiniteSetTheorems, TLAPS

IInv == TypeOK /\ SlotsMatchScans /\ LineOnlyWhenFull /\ RefusedForCause

-----------------------------------------------------------------------------
(* The requests in any state are finitely many.                            *)
LEMMA InFinite ==
  ASSUME NEW x
  PROVE  IsFiniteSet(In(x)) /\ Cardinality(In(x)) \in Nat
<1>1. In(x) \in SUBSET Requests
  BY DEF In
<1>2. IsFiniteSet(In(x))
  BY <1>1, AdmissionAssumption, FS_Subset
<1> QED
  BY <1>2, FS_CardinalityType

(* A step of the scanning set by one element counts as one.                *)
LEMMA ScanStarts ==
  ASSUME NEW r, r \notin In("scanning"), In("scanning")' = In("scanning") \cup {r}
  PROVE  Cardinality(In("scanning")') = Cardinality(In("scanning")) + 1
BY InFinite, FS_AddElement

LEMMA ScanEnds ==
  ASSUME NEW r, r \in In("scanning"), In("scanning")' = In("scanning") \ {r}
  PROVE  Cardinality(In("scanning")') = Cardinality(In("scanning")) - 1
BY InFinite, FS_RemoveElement

(* A hand-over replaces one scanning request by another.                   *)
LEMMA HandOverKeepsCount ==
  ASSUME NEW r, NEW s, r \in In("scanning"), s \notin In("scanning"),
         In("scanning")' = (In("scanning") \ {r}) \cup {s}
  PROVE  Cardinality(In("scanning")') = Cardinality(In("scanning"))
<1> DEFINE Rest == In("scanning") \ {r}
<1>1. IsFiniteSet(Rest) /\ Cardinality(Rest) = Cardinality(In("scanning")) - 1
  BY InFinite, FS_RemoveElement
<1>2. Cardinality(Rest \cup {s}) = Cardinality(Rest) + 1
  BY <1>1, FS_AddElement
<1>3. s \notin Rest /\ In("scanning")' = Rest \cup {s}
  OBVIOUS
<1>4. Cardinality(In("scanning")) \in Nat
  BY InFinite
<1> HIDE DEF Rest
<1> QED
  BY <1>1, <1>2, <1>3, <1>4

-----------------------------------------------------------------------------
(* The invariant holds before the first request.                           *)
LEMMA InitIInv == Init => IInv
<1> SUFFICES ASSUME Init PROVE IInv
  OBVIOUS
<1>1. TypeOK
  BY AdmissionAssumption DEF Init, TypeOK
<1>2. In("scanning") = {} /\ In("waiting") = {}
  BY DEF Init, In
<1>3. SlotsMatchScans
  BY <1>2, FS_EmptySet, AdmissionAssumption DEF SlotsMatchScans, Init
<1>4. LineOnlyWhenFull /\ RefusedForCause
  BY <1>2 DEF LineOnlyWhenFull, RefusedForCause, Ended, Init
<1> QED
  BY <1>1, <1>3, <1>4 DEF IInv

(* Every step keeps it: one step of the proof per action.                  *)
LEMMA StepIInv == IInv /\ [Next]_vars => IInv'
<1> SUFFICES ASSUME IInv, [Next]_vars PROVE IInv'
  OBVIOUS
<1> USE AdmissionAssumption
<1>0. TypeOK /\ SlotsMatchScans /\ LineOnlyWhenFull /\ RefusedForCause
  BY DEF IInv
<1>1. ASSUME NEW r \in Requests, Arrive(r) PROVE IInv'
  <2>1. TypeOK'
    BY <1>0, <1>1 DEF TypeOK, Arrive
  <2>2. In("scanning")' = In("scanning") /\ In("waiting")' = In("waiting")
    BY <1>0, <1>1 DEF TypeOK, Arrive, In
  <2>3. (SlotsMatchScans /\ LineOnlyWhenFull)'
    BY <1>0, <1>1, <2>2 DEF SlotsMatchScans, LineOnlyWhenFull, Arrive
  <2>4. RefusedForCause'
    BY <1>0, <1>1 DEF TypeOK, RefusedForCause, Ended, Arrive
  <2> QED
    BY <2>1, <2>3, <2>4 DEF IInv
<1>2. ASSUME NEW r \in Requests, TryAcquire(r) \/ SelectSlot(r) PROVE IInv'
  <2>1. TypeOK'
    BY <1>0, <1>2 DEF TypeOK, TryAcquire, SelectSlot
  <2>2. In("scanning")' = In("scanning") \cup {r} /\ r \notin In("scanning")
    BY <1>0, <1>2 DEF TypeOK, TryAcquire, SelectSlot, In
  <2>3. SlotsMatchScans'
    BY <1>0, <1>2, <2>2, ScanStarts DEF SlotsMatchScans, TryAcquire, SelectSlot, TypeOK
  <2>4. In("waiting") = {}
    BY <1>0, <1>2 DEF LineOnlyWhenFull, TryAcquire, SelectSlot, TypeOK
  <2>5. LineOnlyWhenFull'
    BY <1>0, <1>2, <2>4 DEF TypeOK, LineOnlyWhenFull, TryAcquire, SelectSlot, In
  <2>6. RefusedForCause'
    BY <1>0, <1>2 DEF TypeOK, RefusedForCause, Ended, TryAcquire, SelectSlot
  <2> QED
    BY <2>1, <2>3, <2>5, <2>6 DEF IInv
<1>3. ASSUME NEW r \in Requests, JoinLine(r) PROVE IInv'
  <2>1. TypeOK'
    BY <1>0, <1>3 DEF TypeOK, JoinLine, In
  <2>2. In("scanning")' = In("scanning")
    BY <1>0, <1>3 DEF TypeOK, JoinLine, In
  <2>3. (SlotsMatchScans /\ LineOnlyWhenFull)'
    BY <1>0, <1>3, <2>2 DEF SlotsMatchScans, LineOnlyWhenFull, JoinLine
  <2>4. RefusedForCause'
    BY <1>0, <1>3 DEF TypeOK, RefusedForCause, Ended, JoinLine
  <2> QED
    BY <2>1, <2>3, <2>4 DEF IInv
<1>4. ASSUME NEW r \in Requests, GiveUp(r) \/ SelectEnd(r) PROVE IInv'
  <2>1. TypeOK'
    BY <1>0, <1>4 DEF TypeOK, GiveUp, SelectEnd
  <2>2. In("scanning")' = In("scanning") /\ In("waiting")' \subseteq In("waiting")
    BY <1>0, <1>4 DEF TypeOK, GiveUp, SelectEnd, In
  <2>3. (SlotsMatchScans /\ LineOnlyWhenFull)'
    BY <1>0, <1>4, <2>2 DEF SlotsMatchScans, LineOnlyWhenFull, GiveUp, SelectEnd
  <2>4. RefusedForCause'
    BY <1>0, <1>4 DEF TypeOK, RefusedForCause, Ended, GiveUp, SelectEnd
  <2> QED
    BY <2>1, <2>3, <2>4 DEF IInv
<1>5. ASSUME NEW r \in Requests, Release(r) PROVE IInv'
  <2>0. r \in In("scanning") /\ UNCHANGED <<ahead, waited, gone>>
    BY <1>5 DEF Release, In
  <2>1. CASE /\ In("waiting") = {}
             /\ pc' = [pc EXCEPT ![r] = "answered"]
             /\ slots' = slots - 1
    <3>1. In("scanning")' = In("scanning") \ {r} /\ In("waiting")' = {}
      BY <1>0, <2>1 DEF TypeOK, In
    <3>2. Cardinality(In("scanning")') = Cardinality(In("scanning")) - 1
      BY <2>0, <3>1, ScanEnds
    <3>3. SlotsMatchScans' /\ slots' \in Nat
      <4>1. Cardinality(In("scanning")') \in Nat
        <5>1. IsFiniteSet(In("scanning")')
          BY <3>1, InFinite, FS_RemoveElement
        <5> QED
          BY <5>1, FS_CardinalityType
      <4> QED
        BY <1>0, <2>1, <3>2, <4>1 DEF SlotsMatchScans, TypeOK
    <3>4. LineOnlyWhenFull'
      BY <3>1 DEF LineOnlyWhenFull
    <3>5. TypeOK'
      BY <1>0, <2>0, <2>1, <3>3 DEF TypeOK
    <3>6. RefusedForCause'
      BY <1>0, <2>0, <2>1 DEF TypeOK, RefusedForCause, Ended
    <3> QED
      BY <3>3, <3>4, <3>5, <3>6 DEF IInv
  <2>2. ASSUME NEW s \in In("waiting"), FirstInLine(s),
               pc' = [pc EXCEPT ![r] = "answered", ![s] = "scanning"],
               UNCHANGED slots
        PROVE  IInv'
    <3>0. s \in Requests /\ pc[s] = "waiting"
      BY <2>2 DEF In
    <3>1. In("scanning")' = (In("scanning") \ {r}) \cup {s} /\ s \notin In("scanning")
      BY <1>0, <2>0, <2>2, <3>0 DEF TypeOK, In
    <3>2. SlotsMatchScans'
      BY <1>0, <2>0, <2>2, <3>1, HandOverKeepsCount DEF SlotsMatchScans
    <3>3. LineOnlyWhenFull'
      BY <1>0, <2>2 DEF LineOnlyWhenFull
    <3>4. TypeOK'
      BY <1>0, <2>0, <2>2, <3>0 DEF TypeOK
    <3>5. RefusedForCause'
      BY <1>0, <2>0, <2>2, <3>0 DEF TypeOK, RefusedForCause, Ended
    <3> QED
      BY <3>2, <3>3, <3>4, <3>5 DEF IInv
  <2> QED
    BY <1>5, <2>1, <2>2 DEF Release
<1>6. ASSUME NEW r \in Requests, HangUp(r) PROVE IInv'
  <2>1. TypeOK'
    BY <1>0, <1>6 DEF TypeOK, HangUp
  <2>2. (SlotsMatchScans /\ LineOnlyWhenFull)'
    BY <1>0, <1>6 DEF SlotsMatchScans, LineOnlyWhenFull, HangUp, In
  <2>3. RefusedForCause'
    BY <1>0, <1>6 DEF RefusedForCause, Ended, HangUp
  <2> QED
    BY <2>1, <2>2, <2>3 DEF IInv
<1>7. ASSUME NEW r \in Requests, ComeBack(r) PROVE IInv'
  <2>1. TypeOK'
    BY <1>0, <1>7 DEF TypeOK, ComeBack
  <2>2. In("scanning")' = In("scanning") /\ In("waiting")' = In("waiting")
    BY <1>0, <1>7 DEF TypeOK, ComeBack, In
  <2>3. (SlotsMatchScans /\ LineOnlyWhenFull)'
    BY <1>0, <1>7, <2>2 DEF SlotsMatchScans, LineOnlyWhenFull, ComeBack
  <2>4. RefusedForCause'
    BY <1>0, <1>7 DEF TypeOK, RefusedForCause, Ended, ComeBack
  <2> QED
    BY <2>1, <2>3, <2>4 DEF IInv
<1>10. ASSUME NEW r \in Requests, FindFull(r) PROVE IInv'
  <2>1. TypeOK'
    BY <1>0, <1>10 DEF TypeOK, FindFull
  <2>2. In("scanning")' = In("scanning") /\ In("waiting")' = In("waiting")
    BY <1>0, <1>10 DEF TypeOK, FindFull, In
  <2>3. (SlotsMatchScans /\ LineOnlyWhenFull)'
    BY <1>0, <1>10, <2>2 DEF SlotsMatchScans, LineOnlyWhenFull, FindFull
  <2>4. RefusedForCause'
    BY <1>0, <1>10 DEF TypeOK, RefusedForCause, Ended, FindFull
  <2> QED
    BY <2>1, <2>3, <2>4 DEF IInv
<1>8. CASE Tick
  <2>1. TypeOK'
    BY <1>0, <1>8 DEF TypeOK, Tick, Timed, In
  <2>2. (SlotsMatchScans /\ LineOnlyWhenFull)'
    BY <1>0, <1>8 DEF SlotsMatchScans, LineOnlyWhenFull, Tick, In
  <2>3. RefusedForCause'
    BY <1>0, <1>8 DEF TypeOK, RefusedForCause, Ended, Tick, Timed, In
  <2> QED
    BY <2>1, <2>2, <2>3 DEF IInv
<1>9. CASE UNCHANGED vars
  BY <1>0, <1>9 DEF IInv, vars, TypeOK, SlotsMatchScans, LineOnlyWhenFull, RefusedForCause, Ended, In
<1> QED
  BY <1>1, <1>2, <1>3, <1>4, <1>5, <1>6, <1>7, <1>8, <1>9, <1>10 DEF Next

(* The inductive invariant.                                                *)
THEOREM Invariance == Spec => []IInv
BY InitIInv, StepIInv, PTL DEF Spec

(* The variables keep their types; in particular the channel never holds   *)
(* fewer than no values: no slot is given back that was not taken.         *)
THEOREM AdmissionTyped == Spec => []TypeOK
BY Invariance, PTL DEF IInv

(* No slot leaks and none is used twice, whatever order timers, hang-ups   *)
(* and releases come in.                                                   *)
THEOREM SlotsAreExact == Spec => []SlotsMatchScans
BY Invariance, PTL DEF IInv

(* Nobody waits beside a free slot.                                        *)
THEOREM LineFormsOnlyWhenFull == Spec => []LineOnlyWhenFull
BY Invariance, PTL DEF IInv

(* A refusal always has its cause: the whole wait, or the client gone.     *)
THEOREM RefusalsHaveCause == Spec => []RefusedForCause
BY Invariance, PTL DEF IInv

-----------------------------------------------------------------------------
(* The pool counts as Admission does (it is an instance of its own).       *)
LEMMA SameCardinality == \A S : Pool!Cardinality(S) = Cardinality(S)
BY DEF Pool!Cardinality, Cardinality

(* The pool starts empty.                                                  *)
LEMMA PoolStarts == Init => Pool!PoolInit
BY DEF Init, Pool!PoolInit, In

(* A client's next request starts with its whole wait before it.           *)
NewcomersFresh == \A r \in Requests : pc[r] = "idle" => waited[r] = 0 /\ r \notin gone

LEMMA StepFresh == IInv /\ NewcomersFresh /\ [Next]_vars => NewcomersFresh'
<1> SUFFICES ASSUME TypeOK, NewcomersFresh, [Next]_vars, NEW q \in Requests, pc'[q] = "idle"
             PROVE  waited'[q] = 0 /\ q \notin gone'
  BY DEF IInv, NewcomersFresh
<1>1. ASSUME NEW r \in Requests, ComeBack(r) PROVE waited'[q] = 0 /\ q \notin gone'
  BY <1>1 DEF NewcomersFresh, TypeOK, ComeBack
<1>2. ASSUME NEW r \in Requests, HangUp(r) PROVE waited'[q] = 0 /\ q \notin gone'
  BY <1>2 DEF NewcomersFresh, TypeOK, HangUp
<1>3. CASE Tick
  BY <1>3 DEF NewcomersFresh, TypeOK, Tick, Timed, In
<1>4. ASSUME NEW r \in Requests,
             \/ Arrive(r) \/ TryAcquire(r) \/ FindFull(r) \/ SelectSlot(r)
             \/ SelectEnd(r) \/ JoinLine(r) \/ GiveUp(r)
      PROVE  waited'[q] = 0 /\ q \notin gone'
  BY <1>4 DEF NewcomersFresh, TypeOK, Arrive, TryAcquire, FindFull, SelectSlot, SelectEnd,
              JoinLine, GiveUp
<1>5. ASSUME NEW r \in Requests, Release(r) PROVE waited'[q] = 0 /\ q \notin gone'
  BY <1>5 DEF NewcomersFresh, TypeOK, Release, In
<1>6. CASE UNCHANGED vars
  BY <1>6 DEF NewcomersFresh, vars
<1> QED
  BY <1>1, <1>2, <1>3, <1>4, <1>5, <1>6 DEF Next

(* Every step is a step of the pool or changes nothing the pool can see.   *)
(* That the line is turned away only while every slot is held, and that no *)
(* newcomer takes a slot past it, rest on LineOnlyWhenFull and             *)
(* SlotsMatchScans.                                                        *)
LEMMA PoolSteps == IInv /\ NewcomersFresh /\ [Next]_vars => [Pool!PoolNext]_(Pool!poolVars)
<1> SUFFICES ASSUME IInv, NewcomersFresh, [Next]_vars
             PROVE  Pool!PoolNext \/ UNCHANGED Pool!poolVars
  OBVIOUS
<1>0. /\ TypeOK
      /\ slots = Cardinality(In("scanning"))
      /\ In("waiting") # {} => slots = MaxInflight
  BY DEF IInv, SlotsMatchScans, LineOnlyWhenFull
<1>1. ASSUME NEW r \in Requests, Arrive(r) PROVE Pool!Ask(r)
  <2>1. /\ \A state : state \notin {"idle", "admitting"} => In(state)' = In(state)
        /\ In("admitting")' = In("admitting") \cup {r}
        /\ \A state : state # "idle" => r \notin In(state)
    BY <1>0, <1>1 DEF TypeOK, Arrive, In
  <2>2. ~Ended(r)
    BY <1>1, AdmissionAssumption DEF NewcomersFresh, Arrive, Ended
  <2> QED
    BY <1>0, <1>1, <2>1, <2>2 DEF Arrive, Ended, Pool!Ask
<1>2. ASSUME NEW r \in Requests, TryAcquire(r) \/ SelectSlot(r) PROVE Pool!Take(r)
  BY <1>0, <1>2, SameCardinality DEF TypeOK, TryAcquire, SelectSlot, In, Ended, Pool!Take
<1>3. ASSUME NEW r \in Requests, JoinLine(r) PROVE Pool!Join(r)
  BY <1>0, <1>3, SameCardinality DEF TypeOK, JoinLine, In, Ended, Pool!Join
<1>4. ASSUME NEW r \in Requests, GiveUp(r) \/ SelectEnd(r) PROVE Pool!Refuse(r)
  <2>1. r \in In("waiting") => Cardinality(In("scanning")) = MaxInflight
    BY <1>0
  <2> QED
    BY <1>0, <1>4, <2>1, SameCardinality DEF TypeOK, GiveUp, SelectEnd, In, Ended, Pool!Refuse
<1>5. ASSUME NEW r \in Requests, Release(r)
      PROVE  Pool!Give(r) \/ \E s \in Requests : Pool!HandOver(r, s)
  <2>1. CASE /\ In("waiting") = {}
             /\ pc' = [pc EXCEPT ![r] = "answered"]
    BY <1>0, <1>5, <2>1 DEF Release, TypeOK, In, Ended, Pool!Give
  <2>2. ASSUME NEW s \in In("waiting"),
               pc' = [pc EXCEPT ![r] = "answered", ![s] = "scanning"]
        PROVE  s \in Requests /\ Pool!HandOver(r, s)
    BY <1>0, <1>5, <2>2 DEF Release, TypeOK, In, Ended, Pool!HandOver
  <2> QED
    BY <1>5, <2>1, <2>2 DEF Release
<1>6. ASSUME NEW r \in Requests, FindFull(r) PROVE UNCHANGED Pool!poolVars
  BY <1>0, <1>6 DEF TypeOK, FindFull, In, Ended, Pool!poolVars
<1>7. ASSUME NEW r \in Requests, ComeBack(r)
      PROVE  Pool!Leave(r) \/ UNCHANGED Pool!poolVars
  <2>1. CASE pc[r] = "overloaded"
    BY <1>0, <1>7, <2>1 DEF ComeBack, TypeOK, In, Ended, Pool!Leave
  <2>2. CASE pc[r] = "answered"
    BY <1>0, <1>7, <2>2 DEF ComeBack, TypeOK, In, Ended, Pool!poolVars
  <2> QED
    BY <1>7, <2>1, <2>2 DEF ComeBack
(* A client hangs up or time passes: some who ask or wait have ended.      *)
<1>8. ASSUME (\E r \in Requests : HangUp(r)) \/ Tick
      PROVE  \E S \in SUBSET (In("admitting") \cup In("selecting") \cup In("waiting")) : Pool!End(S)
  <2> DEFINE asks == In("admitting") \cup In("selecting") \cup In("waiting")
             over == {r \in asks : Ended(r)}
             now == {r \in asks : Ended(r)'}
  <2>1. UNCHANGED pc /\ asks' = asks
    BY <1>8 DEF HangUp, Tick, In
  <2>2. \A r \in asks : Ended(r) => Ended(r)'
    BY <1>0, <1>8 DEF TypeOK, HangUp, Tick, Timed, Ended, In
  <2>3. over' = over \cup now
    BY <2>1, <2>2
  <2>4. Pool!End(now)
    BY <2>1, <2>3 DEF Pool!End, In
  <2> QED
    BY <2>4
<1>9. CASE UNCHANGED vars
  BY <1>9 DEF vars, In, Ended, Pool!poolVars
<1> QED
  BY <1>1, <1>2, <1>3, <1>4, <1>5, <1>6, <1>7, <1>8, <1>9 DEF Next, Pool!PoolNext

(* The channel, its timer and its line implement the abstract pool: at     *)
(* most MaxInflight requests hold a slot, a slot given back goes to the    *)
(* line, no newcomer gets one past it, and nobody is turned away from it   *)
(* while one is free.                                                      *)
THEOREM AdmissionImplementsPool == Spec => ImplementsPool
<1>1. Init => NewcomersFresh
  BY DEF Init, NewcomersFresh
<1>2. Spec => []NewcomersFresh
  BY <1>1, Invariance, StepFresh, PTL DEF Spec
<1> QED
  BY <1>2, Invariance, PoolStarts, PoolSteps, PTL DEF Spec, ImplementsPool, Pool!PoolSpec

=============================================================================
