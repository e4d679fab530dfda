--------------------------- MODULE MCMockHandles ---------------------------
(***************************************************************************)
(* MockHandles on a few handles of each kind.                              *)
(***************************************************************************)
EXTENDS MockHandles, TLC

CONSTANTS e1, c1, c2, s1, s2, d1

=============================================================================
