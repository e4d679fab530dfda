-------------------------- MODULE MCMockConnection --------------------------
(***************************************************************************)
(* MockConnection on two connections and two tables.  A configuration has  *)
(* one thing that matters to the run it is used in.                        *)
(***************************************************************************)
EXTENDS MockConnection, TLC

CONSTANTS c1, c2, static, user, r1, r2, nobody

Plain == [mode |-> "Success", failOn |-> {}, catalog |-> "Default", size |-> 2,
          maxConnections |-> 0, transaction |-> "Autocommit"]

Sparse   == [Plain EXCEPT !.mode = "Partial", !.failOn = {"SQLEndTran", "SQLExecute"},
                         !.catalog = "Empty", !.size = 1]
Limited  == [Plain EXCEPT !.maxConnections = 1]
Twofold  == [Plain EXCEPT !.mode = "Random", !.maxConnections = 2,
                          !.transaction = "Manual"]

Configs == {Sparse, Limited, Twofold}

\* Nothing distinguishes one connection, or one row, from another.
Symmetry == Permutations({c1, c2}) \cup Permutations({r1, r2})

=============================================================================
