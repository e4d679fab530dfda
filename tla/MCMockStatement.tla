-------------------------- MODULE MCMockStatement --------------------------
(* Instances of MockStatement for TLC.                                     *)
EXTENDS MockStatement, TLC

CONSTANTS s1, s2, c1, c2, query, update, invalid, none

OneStmt == s1 :> c1
=============================================================================
