---------------------------- MODULE TransactionSuite ----------------------------
(***************************************************************************)
(* The transaction tests of odbc-crusher against a driver that is not the  *)
(* mock: TransactionTests::run with create_test_table, drop_test_table and *)
(* the OdbcStatement they use, in one run of the program after the other   *)
(* on the same database.                                                   *)
(*                                                                         *)
(* Each call into the driver is a step, and each may fail, or crash; what  *)
(* the tests conclude from that, and what they leave to the tests and the  *)
(* runs that follow, is what the module is about.  The driver is external: *)
(* a table that commits and rolls back as ODBC has it, but for its defect. *)
(* The fifth test reads the isolation level and changes nothing.           *)
(***************************************************************************)
EXTENDS Integers, FiniteSets

CONSTANTS Runs,     \* bound: runs of the program
          MaxFaults \* bound: kinds of calls that fail in one history

Kind == {"SQLGetConnectAttr", "SQLSetConnectAttr", "SQLEndTran", "SQL", "DROP",
         "SQLFetch", "SQLGetData", "crash"}

ASSUME SuiteAssumption == Runs \in Nat \ {0} /\ MaxFaults \in Nat

Defect == {"none", "commit lost", "rollback ignored", "never manual"}

Verdict == {"none", "PASS", "FAIL: data", "FAIL: call", "SKIP", "ERR"}

VARIABLES driver,     \* its defect; whether cursors survive a commit ("hold"),
                      \* which keeps their table from being dropped
          db,         \* ODBC_TEST_TXN as committed: its rows, or Absent
          work,       \* the same as the connection sees it
          autocommit, \* SQL_ATTR_AUTOCOMMIT of the shared connection
          cursor,     \* of the statement of the test
          test, pc,   \* the test, and the driver call that comes next
          tries,      \* CREATE TABLE statements create_test_table has tried
          old,        \* old_ac
          verdict,    \* [Test -> result.status, FAIL split by its reason]
          failed,     \* history: the kinds of calls that have failed
          run

database == <<db, work, autocommit, cursor>>
vars == <<driver, db, work, autocommit, cursor, test, pc, tries, old, verdict, failed, run>>

Absent == -1

Switch == {"ON", "OFF"}

Tests == {"on", "off", "commit", "rollback"}

PC == {"start", "check off", "back on", "save", "enter", "probe", "create", "undo create",
       "drop first", "undo drop", "restore", "give up", "fallback", "commit create", "insert", "end",
       "count", "cleanup on", "cleanup drop", "cleanup undo", "final on", "over"}

TypeOK ==
  /\ driver \in [defect : Defect, cursors : {"close", "hold"}]
  /\ db \in Nat \cup {Absent} /\ work \in Nat \cup {Absent}
  /\ autocommit \in Switch /\ cursor \in {"open", "closed"}
  /\ test \in Tests /\ pc \in PC
  /\ tries \in 1..4 /\ old \in Switch
  /\ verdict \in [Tests -> Verdict]
  /\ failed \subseteq Kind
  /\ run \in 1..Runs

Init ==
  /\ driver \in [defect : Defect, cursors : {"close", "hold"}]
  /\ db = Absent /\ work = Absent /\ autocommit = "ON" /\ cursor = "closed"
  /\ test = "on" /\ pc = "start" /\ tries = 1 /\ old = "OFF"
  /\ verdict = [t \in Tests |-> "none"]
  /\ failed = {} /\ run = 1

-----------------------------------------------------------------------------
(* The driver                                                              *)

Manual == autocommit = "OFF" /\ driver.defect # "never manual"

\* A statement leaves the table with n rows, or without a table.
Writes(n) ==
  /\ work' = n
  /\ db' = IF Manual THEN db ELSE n
  /\ UNCHANGED <<autocommit, cursor>>

AtCommit == IF Manual /\ driver.cursors = "close" THEN "closed" ELSE cursor

\* Turning autocommit on commits.
SetsAutocommit(v) ==
  /\ autocommit' = v
  /\ db' = IF v = "ON" THEN work ELSE db
  /\ cursor' = IF v = "ON" THEN AtCommit ELSE cursor
  /\ UNCHANGED work

Commits ==
  /\ IF driver.defect = "commit lost" /\ Manual
     THEN work' = db /\ UNCHANGED db
     ELSE db' = (IF Manual THEN work ELSE db) /\ UNCHANGED work
  /\ cursor' = AtCommit
  /\ UNCHANGED autocommit

RollsBack ==
  /\ work' = IF Manual /\ driver.defect # "rollback ignored" THEN db ELSE work
  /\ cursor' = AtCommit
  /\ UNCHANGED <<db, autocommit>>

Failure(kind) ==
  /\ Cardinality(failed \cup {kind}) <= MaxFaults  \* bound
  /\ failed' = failed \cup {kind}

\* A call of a kind fails, and changes nothing.
Fails(kind) == Failure(kind) /\ UNCHANGED database

\* A call whose return code nobody looks at.
Try(kind, Effect) == \/ Effect /\ UNCHANGED failed
                     \/ Fails(kind)

-----------------------------------------------------------------------------
(* Moving through the tests                                                *)

GoTo(p)    == pc' = p /\ UNCHANGED <<test, verdict>>
Rule(v)    == verdict' = [verdict EXCEPT ![test] = v]
Conclude(v, p) == pc' = p /\ Rule(v) /\ UNCHANGED test
frame      == <<driver, tries, old, run>>

\* The test returns its result; what it held in locals is destroyed.
NextTest ==
  /\ test' = CASE test = "on" -> "off" [] test = "off" -> "commit" [] OTHER -> "rollback"
  /\ pc' = IF test = "rollback" THEN "over" ELSE "start"

-----------------------------------------------------------------------------
(* test_autocommit_on, test_autocommit_off                                 *)

AutocommitOn ==
  /\ pc = "start" /\ test = "on"
  /\ \/ /\ Rule(IF autocommit = "ON" THEN "PASS" ELSE "FAIL: call")
        /\ UNCHANGED <<database, failed>>
     \/ Rule("SKIP") /\ Fails("SQLGetConnectAttr")
  /\ NextTest
  /\ UNCHANGED frame

AutocommitOff ==
  /\ pc = "start" /\ test = "off"
  /\ \/ SetsAutocommit("OFF") /\ GoTo("check off") /\ UNCHANGED failed
     \/ Fails("SQLSetConnectAttr") /\ Rule("SKIP") /\ NextTest
  /\ UNCHANGED frame

\* It is turned on again only where it was seen to be off.
CheckOff ==
  /\ pc = "check off"
  /\ \/ Conclude("PASS", "back on") /\ UNCHANGED <<database, failed>>
     \/ Fails("SQLGetConnectAttr") /\ Rule("FAIL: call") /\ NextTest
  /\ UNCHANGED frame

BackOn ==
  /\ pc = "back on"
  /\ Try("SQLSetConnectAttr", SetsAutocommit("ON"))
  /\ NextTest
  /\ UNCHANGED <<driver, tries, old, run, verdict>>

-----------------------------------------------------------------------------
(* create_test_table                                                       *)

\* The first call of the two manual tests.
Begin ==
  /\ pc = "start" /\ test \in {"commit", "rollback"}
  /\ \/ SetsAutocommit("OFF") /\ GoTo("save") /\ UNCHANGED failed
     \/ Fails("SQLSetConnectAttr") /\ Rule("SKIP") /\ NextTest
  /\ UNCHANGED frame

\* old_ac stays 0, which is SQL_AUTOCOMMIT_OFF, when nobody answers.
Save ==
  /\ pc = "save"
  /\ \/ old' = autocommit /\ UNCHANGED <<database, failed>>
     \/ old' = "OFF" /\ Fails("SQLGetConnectAttr")
  /\ GoTo("enter")
  /\ UNCHANGED <<driver, tries, run>>

Enter ==
  /\ pc = "enter"
  /\ Try("SQLSetConnectAttr", SetsAutocommit("ON"))
  /\ GoTo("probe")
  /\ UNCHANGED frame

\* A table is there from an earlier test or run: it is taken as it is.
Probe ==
  /\ pc = "probe"
  /\ \/ /\ work # Absent /\ GoTo("restore")
        /\ UNCHANGED <<database, failed, tries>>
     \/ /\ work = Absent /\ tries' = 1 /\ GoTo("create")
        /\ UNCHANGED <<database, failed>>
     \/ Fails("SQL") /\ tries' = 1 /\ GoTo("create")
  /\ UNCHANGED <<driver, old, run>>

Create ==
  /\ pc = "create"
  /\ \/ work = Absent /\ Writes(0) /\ GoTo("restore") /\ UNCHANGED failed
     \/ work # Absent /\ GoTo("undo create") /\ UNCHANGED <<database, failed>>
     \/ Fails("SQL") /\ GoTo("undo create")
  /\ UNCHANGED <<driver, tries, old, run>>

\* Two statements are tried, the table is dropped, and they are tried again.
UndoCreate ==
  /\ pc = "undo create"
  /\ Try("SQLEndTran", RollsBack)
  /\ tries' = IF tries < 4 THEN tries + 1 ELSE tries
  /\ GoTo(CASE tries = 2 -> "drop first" [] tries = 4 -> "give up" [] OTHER -> "create")
  /\ UNCHANGED <<driver, old, run>>

\* A table that a cursor of this connection reads is not dropped.
InUse == cursor = "open" /\ driver.cursors = "hold"

Drops == work # Absent /\ ~InUse /\ Writes(Absent)

NotDropped == (work = Absent \/ InUse) /\ UNCHANGED <<database, failed>>

DropFirst ==
  /\ pc = "drop first"
  /\ \/ Drops /\ GoTo("create") /\ UNCHANGED failed
     \/ (NotDropped \/ Fails("DROP")) /\ GoTo("undo drop")
  /\ UNCHANGED frame

UndoDrop ==
  /\ pc = "undo drop"
  /\ Try("SQLEndTran", RollsBack)
  /\ GoTo("create")
  /\ UNCHANGED frame

\* It returns true.
Restore ==
  /\ pc = "restore"
  /\ Try("SQLSetConnectAttr", SetsAutocommit(old))
  /\ GoTo(IF test = "commit" THEN "insert" ELSE "commit create")
  /\ UNCHANGED frame

\* It returns false.
GiveUp ==
  /\ pc = "give up"
  /\ Try("SQLSetConnectAttr", SetsAutocommit(old))
  /\ GoTo("fallback")
  /\ UNCHANGED frame

-----------------------------------------------------------------------------
(* test_manual_commit, test_manual_rollback                                *)

EndsTransaction == IF test = "commit" THEN Commits ELSE RollsBack

\* Without a table: does SQLEndTran succeed at all?
Fallback ==
  /\ pc = "fallback"
  /\ \/ EndsTransaction /\ Conclude("PASS", "final on") /\ UNCHANGED failed
     \/ Fails("SQLEndTran") /\ Conclude("SKIP", "final on")
  /\ UNCHANGED frame

CommitCreate ==
  /\ pc = "commit create"
  /\ Try("SQLEndTran", Commits)
  /\ GoTo("insert")
  /\ UNCHANGED frame

\* An OdbcError ends in the catch clause: ERR, and the clean-up.
Insert ==
  /\ pc = "insert"
  /\ \/ work # Absent /\ Writes(work + 1) /\ GoTo("end") /\ UNCHANGED failed
     \/ /\ work = Absent /\ Conclude("ERR", "cleanup on")
        /\ UNCHANGED <<database, failed>>
     \/ Fails("SQL") /\ Conclude("ERR", "cleanup on")
  /\ UNCHANGED frame

EndTransaction ==
  /\ pc = "end"
  /\ \/ EndsTransaction /\ GoTo("count") /\ UNCHANGED failed
     \/ Fails("SQLEndTran") /\ Conclude("FAIL: call", "cleanup on")
  /\ UNCHANGED frame

\* Faulty: both tests look for the row.
ExpectedRow == 1

\* The count that passes.
Expected == IF test = "commit" THEN 1 ELSE 0

Judged(n) == IF n = Expected THEN "PASS" ELSE "FAIL: data"

\* SELECT COUNT(*), SQLFetch and SQLGetData, whose return code is ignored:
\* count stays 0.  PASS is what the status was to begin with.
Count ==
  /\ pc = "count"
  /\ \/ /\ work # Absent /\ cursor' = "open" /\ Conclude(Judged(work), "cleanup on")
        /\ UNCHANGED <<db, work, autocommit, failed>>
     \/ /\ work # Absent /\ cursor' = "open" /\ Conclude(Judged(0), "cleanup on")
        /\ Failure("SQLGetData") /\ UNCHANGED <<db, work, autocommit>>
     \/ /\ work # Absent /\ cursor' = "open" /\ Conclude("PASS", "cleanup on")
        /\ driver.defect # "none" /\ Failure("SQLFetch")
        /\ UNCHANGED <<db, work, autocommit>>
     \/ /\ work = Absent /\ Conclude("ERR", "cleanup on")
        /\ UNCHANGED <<database, failed>>
     \/ Fails("SQL") /\ Conclude("ERR", "cleanup on")
  /\ UNCHANGED frame

-----------------------------------------------------------------------------
(* drop_test_table, and the last call of a manual test                     *)

CleanupOn ==
  /\ pc = "cleanup on"
  /\ Try("SQLSetConnectAttr", SetsAutocommit("ON"))
  /\ GoTo("cleanup drop")
  /\ UNCHANGED frame

\* Faulty: the test table is kept for the next test.
CleanupDropKept ==
  /\ pc = "cleanup drop"
  /\ GoTo("final on")
  /\ UNCHANGED <<database, failed, driver, tries, old, run>>

CleanupDrop ==
  /\ pc = "cleanup drop"
  /\ \/ Drops /\ GoTo("final on") /\ UNCHANGED failed
     \/ (NotDropped \/ Fails("DROP")) /\ GoTo("cleanup undo")
  /\ UNCHANGED frame

CleanupUndo ==
  /\ pc = "cleanup undo"
  /\ Try("SQLEndTran", RollsBack)
  /\ GoTo("final on")
  /\ UNCHANGED frame

\* Faulty: autocommit is set to what it was when the table was created.
FinalOnOld ==
  /\ pc = "final on"
  /\ Try("SQLSetConnectAttr", SetsAutocommit(old))
  /\ NextTest
  /\ UNCHANGED <<driver, tries, old, run, verdict>>

\* The destructor of OdbcStatement frees the statement and its cursor.
FinalOn ==
  /\ pc = "final on"
  /\ \/ /\ autocommit' = "ON" /\ db' = work /\ UNCHANGED <<work, failed>>
     \/ Failure("SQLSetConnectAttr") /\ UNCHANGED <<db, work, autocommit>>
  /\ cursor' = "closed"
  /\ NextTest
  /\ UNCHANGED <<driver, tries, old, run, verdict>>

-----------------------------------------------------------------------------
(* Crashes and runs                                                        *)

\* The crash guard takes over: the rest of the suite is skipped.
Crash ==
  /\ pc # "over" /\ Fails("crash")
  /\ pc' = "over"
  /\ UNCHANGED <<driver, tries, old, run, test, verdict>>

\* The connection goes, and an open transaction with it.
NextRun ==
  /\ pc = "over" /\ run < Runs
  /\ run' = run + 1
  /\ work' = db /\ autocommit' = "ON" /\ cursor' = "closed"
  /\ test' = "on" /\ pc' = "start" /\ tries' = 1 /\ old' = "OFF"
  /\ verdict' = [t \in Tests |-> "none"]
  /\ UNCHANGED <<driver, db, failed>>

Done == pc = "over" /\ run = Runs /\ UNCHANGED vars

Next == \/ AutocommitOn \/ AutocommitOff \/ CheckOff \/ BackOn
        \/ Begin \/ Save \/ Enter \/ Probe \/ Create \/ UndoCreate
        \/ DropFirst \/ UndoDrop \/ Restore \/ GiveUp
        \/ Fallback \/ CommitCreate \/ Insert \/ EndTransaction \/ Count
        \/ CleanupOn \/ CleanupDrop \/ CleanupUndo \/ FinalOn
        \/ Crash \/ NextRun \/ Done

Spec == Init /\ [][Next]_vars

-----------------------------------------------------------------------------
(* Properties                                                              *)

Held == driver.cursors = "hold"

Never(kinds) == failed \cap kinds = {}

\* A driver without a defect is accused of losing or keeping a row only
\* where a call the tests rely on without looking has failed, in this run
\* or in an earlier one, or where its cursors outlive a commit
\* (transaction_tests.cpp:319 and 438).
AccusationHasCause ==
  \A t \in Tests :
    verdict[t] = "FAIL: data" /\ driver.defect = "none"
      => Held \/ ~Never({"SQLSetConnectAttr", "DROP", "SQLGetData", "crash"})

\* When every call does what it says, each defect is found by the test made
\* for it, and by no other.
DefectIsFound ==
  pc = "over" /\ failed = {} /\ ~Held
    => /\ (verdict["commit"] = "FAIL: data") <=> (driver.defect = "commit lost")
       /\ (verdict["rollback"] = "FAIL: data")
            <=> (driver.defect \in {"rollback ignored", "never manual"})

\* A suite leaves the shared connection in manual mode only after the driver
\* has refused to set the attribute or has crashed; a test leaves it so to the
\* next one only where the attribute could not be set or read back
\* (transaction_tests.cpp:196-204).
AutocommitLossHasCause ==
  autocommit = "OFF" =>
    /\ pc = "over"  => failed \cap {"SQLSetConnectAttr", "crash"} # {}
    /\ pc = "start" => failed \cap {"SQLSetConnectAttr", "SQLGetConnectAttr"} # {}

\* A suite leaves its table in the database only where the driver refused to
\* drop it or to set autocommit, has crashed, or keeps cursors over a commit
\* (drop_test_table, transaction_tests.cpp:96-115).
LeftoverTableHasCause ==
  pc = "over" /\ db # Absent =>
    Held \/ failed \cap {"SQLSetConnectAttr", "DROP", "crash"} # {}

\* README.md:280: FAIL says that the driver returned an unexpected result.
\* A driver whose every call succeeds as ODBC allows is never accused.
FailMeansDefect ==
  failed = {} /\ driver.defect = "none" => \A t \in Tests : verdict[t] # "FAIL: data"

=============================================================================
