----------------------------- MODULE MCPrefilter ----------------------------
(***************************************************************************)
(* The letters and expressions of MCLetters, for the prefilter alone.      *)
(***************************************************************************)
EXTENDS Prefilter, MCLetters

=============================================================================
