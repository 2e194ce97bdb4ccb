----------------------------- MODULE MCHistory ------------------------------
(***************************************************************************)
(* The pages and links of MCScan, for the specification with history.      *)
(***************************************************************************)
EXTENDS MCScan, ScanHistory

=============================================================================
