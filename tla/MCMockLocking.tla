---------------------------- MODULE MCMockLocking ----------------------------
(***************************************************************************)
(* MockLocking with two threads on two statements of one connection.       *)
(***************************************************************************)
EXTENDS MockLocking

CONSTANTS t1, t2, s1, s2

\* Everything happens to the first statement; the second makes the table
\* they share, and fills and removes it.
Workload == [s \in Stmt |-> IF s = s1 THEN Call \ {"CREATE", "DROP"}
                           ELSE {"INSERT", "CREATE", "DROP", "SQLPrepare"}]

\* The least an application has to keep apart.
Discipline == [m \in Modes |-> Unlocked \cup Changing \cup (IF m = "Random" THEN Drawing ELSE {})]

\* Applications that trust the driver with one thing more; as the value of Exclusive,
\* each makes FetchReadsARow or NoDataRace fail.
RollbackAtAnyTime == [m \in Modes |-> Discipline[m] \ {"SQLEndTran"}]
ChangesAtAnyTime  == [Discipline EXCEPT !["Steady"] = @ \ Changing]
DrawsAtAnyTime    == [Discipline EXCEPT !["Random"] = Discipline["Steady"]]

=============================================================================
