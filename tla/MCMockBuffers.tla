---------------------------- MODULE MCMockBuffers ----------------------------
(***************************************************************************)
(* MockBuffers on all short texts over characters of one, two and four     *)
(* bytes.                                                                  *)
(***************************************************************************)
EXTENDS MockBuffers, SequencesExt

CONSTANTS a, e, s

Width == a :> 1 @@ e :> 2 @@ s :> 4

ByteLength(t) == FoldLeft(LAMBDA n, c : n + Width[c], 0, t)

Texts == UNION {[1..n -> Char] : n \in 0..3}

=============================================================================
