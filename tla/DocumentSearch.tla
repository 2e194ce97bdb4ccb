--------------------------- MODULE DocumentSearch ---------------------------
(***************************************************************************)
(* What a scan promises, without goroutines, counters and pages: searches  *)
(* for documents run side by side, several of them perhaps for one type.   *)
(* A search ends once, and may then better what stands for its own type;   *)
(* when all have ended, a report is drawn up from what stands, and never   *)
(* changed.                                                                *)
(***************************************************************************)
EXTENDS DocTypes

CONSTANTS
  Attempts,  \* tells searches for one type apart
  NoReport

VARIABLES
  open,      \* the searches still running, each a type and an attempt
  standing,  \* per type, the confidence of the best find so far, "" for none
  report     \* NoReport, or the confidence of each type reported

vars == <<open, standing, report>>

Init ==
  /\ open \subseteq Types \X Attempts
  /\ standing = [t \in Types |-> ""]
  /\ report = NoReport

(* A find stands if it is the first for its type or better than the last.  *)
Betters(conf, t) ==
  standing[t] = "" \/ confidenceRank(conf) > confidenceRank(standing[t])

Close(s) ==
  /\ s \in open
  /\ open' = open \ {s}
  /\ \/ UNCHANGED standing
     \/ \E conf \in Confidences \ {""} :
          Betters(conf, s[1]) /\ standing' = [standing EXCEPT ![s[1]] = conf]
  /\ UNCHANGED report

(* A find may be left out of the report, but none is made up or upgraded.  *)
DrawUp ==
  /\ open = {} /\ report = NoReport
  /\ \E reported \in SUBSET {t \in Types : standing[t] # ""} :
       report' = [t \in reported |-> standing[t]]
  /\ UNCHANGED <<open, standing>>

Next == (\E s \in open : Close(s)) \/ DrawUp

Spec == Init /\ [][Next]_vars

=============================================================================
