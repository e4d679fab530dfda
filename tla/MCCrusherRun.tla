---------------------------- MODULE MCCrusherRun ----------------------------
(***************************************************************************)
(* CrusherRun with few enough categories and tests to enumerate every run. *)
(***************************************************************************)
EXTENDS CrusherRun, TLC

=============================================================================
