------------------------------ MODULE MCTwice -------------------------------
(***************************************************************************)
(* Small sites for the two scans.                                          *)
(***************************************************************************)
EXTENDS MCSiteScan, ScanTwice

=============================================================================
