------------------------- MODULE TransactionSuiteProofs -------------------------
(***************************************************************************)
(* Theorems about TransactionSuite, for any number of runs and of faults.  *)
(*                                                                         *)
(* The invariant says, for each driver call of the tests, in which mode    *)
(* the connection is (Mode) and what the table holds (Table), as long as   *)
(* the calls that the tests rely on have not failed; Fair adds what a      *)
(* driver without a defect has by then been told, Found what becomes of a  *)
(* defect when nothing fails.                                              *)
(***************************************************************************)
EXTENDS TransactionSuite, TLAPS

InDdl == {"probe", "create", "undo create", "drop first", "undo drop", "restore", "give up"}

\* A manual test after create_test_table has put the mode back.
InTransaction == {"commit create", "insert", "end", "count", "fallback"}

\* From here to the end of the test autocommit is on.
InCleanup == {"cleanup drop", "cleanup undo"}

\* Which test a driver call belongs to.
Place ==
  /\ pc \in {"check off", "back on"} => test = "off"
  /\ pc \notin {"check off", "back on", "start", "over"} => test \in {"commit", "rollback"}

Mode ==
  Never({"SQLSetConnectAttr"}) =>
    /\ pc \in {"save", "enter"} \cup InTransaction => autocommit = "OFF"
    /\ pc \in InDdl \cup InCleanup => autocommit = "ON"
    /\ pc \in {"enter"} \cup InDdl => old = "OFF"
    /\ pc = "start" /\ test # "commit" => autocommit = "ON"
    /\ pc = "start" /\ Never({"SQLGetConnectAttr"}) => autocommit = "ON"
    /\ pc = "over" /\ Never({"crash"}) => autocommit = "ON"

\* Nothing the clean-up needs has failed so far.
Clean == ~Held /\ Never({"SQLSetConnectAttr", "DROP", "crash"})

NoTable == db = Absent /\ work = Absent
NoRows  == db = 0 /\ work = 0

Table ==
  Clean =>
    /\ pc \in {"start", "check off", "back on", "save", "enter", "probe", "create", "undo create",
               "drop first", "undo drop", "give up", "fallback", "cleanup undo", "final on", "over"} => NoTable
    /\ pc \in {"restore", "commit create", "insert"} => NoRows
    /\ pc = "cleanup drop" => db = work

Fair ==
  Clean /\ driver.defect = "none" /\ Never({"SQLGetData"}) =>
    /\ pc = "end" => db = 0 /\ work = 1
    /\ pc = "count" => work = Expected
    /\ \A t \in Tests : verdict[t] # "FAIL: data"

\* The defects that the test is made for.
Guilty(t) == IF t = "commit" THEN {"commit lost"} ELSE {"rollback ignored", "never manual"}

Exposed(t) == verdict[t] = "FAIL: data" <=> driver.defect \in Guilty(t)

\* The rows that SELECT COUNT(*) sees.
Outcome == IF test = "commit" THEN IF driver.defect = "commit lost" THEN 0 ELSE 1
           ELSE IF driver.defect \in {"rollback ignored", "never manual"} THEN 1 ELSE 0

Judgement == {"cleanup on", "cleanup drop", "final on"}

Found ==
  failed = {} /\ ~Held =>
    /\ pc \notin {"undo create", "drop first", "undo drop", "give up", "fallback", "cleanup undo"}
    /\ pc = "end" => work = 1 /\ (db = IF driver.defect = "never manual" THEN 1 ELSE 0)
    /\ pc = "count" => work = Outcome
    /\ pc \in {"cleanup on", "cleanup drop"} => work # Absent
    /\ pc \in Judgement => Exposed(test)
    /\ pc = "over" => test = "rollback" /\ Exposed("rollback")
    /\ test = "rollback" => Exposed("commit")

Inv == TypeOK /\ Place /\ Mode /\ Table /\ Fair /\ Found

-----------------------------------------------------------------------------
(* Steps of the tests, grouped as in the module                            *)

Opening  == AutocommitOn \/ AutocommitOff \/ CheckOff \/ BackOn
Creation == Begin \/ Save \/ Enter \/ Probe \/ Create \/ UndoCreate \/ DropFirst \/ UndoDrop
            \/ Restore \/ GiveUp
Work     == Fallback \/ CommitCreate \/ Insert \/ EndTransaction \/ Count
Cleanup  == CleanupOn \/ CleanupDrop \/ CleanupUndo \/ FinalOn
Ending   == Crash \/ NextRun \/ Done

LEMMA NextSplits == Next => Opening \/ Creation \/ Work \/ Cleanup \/ Ending
BY DEF Next, Opening, Creation, Work, Cleanup, Ending

LEMMA InitInv == Init => Inv
<1> SUFFICES ASSUME Init PROVE Inv
  OBVIOUS
<1>1. TypeOK
  BY SuiteAssumption DEF Init, TypeOK, Absent, PC, Tests, Verdict, Switch
<1>2. Place /\ Mode /\ Table /\ Fair
  BY DEF Init, Place, Mode, Table, Fair, NoTable, InDdl, InTransaction, InCleanup, Tests
<1>3. Found
  BY DEF Init, Found, InDdl, InTransaction, Judgement
<1> QED BY <1>1, <1>2, <1>3 DEF Inv

-----------------------------------------------------------------------------
(* Types                                                                   *)

DatabaseOK ==
  /\ db \in Nat \cup {Absent} /\ work \in Nat \cup {Absent}
  /\ autocommit \in Switch /\ cursor \in {"open", "closed"}

ControlOK ==
  /\ driver \in [defect : Defect, cursors : {"close", "hold"}]
  /\ test \in Tests /\ pc \in PC /\ tries \in 1..4 /\ old \in Switch
  /\ failed \subseteq Kind /\ run \in 1..Runs

VerdictsOK == verdict \in [Tests -> Verdict]

\* Each effect a driver call can have keeps the types of the database.
LEMMA DriverTypes ==
  TypeOK => /\ \A n \in Nat \cup {Absent} : Writes(n) => DatabaseOK'
            /\ \A v \in Switch : SetsAutocommit(v) => DatabaseOK'
            /\ Commits => DatabaseOK'
            /\ RollsBack => DatabaseOK'
            /\ UNCHANGED database => DatabaseOK'
            /\ \A k : Fails(k) => DatabaseOK'
<1>1. TypeOK => \A n \in Nat \cup {Absent} : Writes(n) => DatabaseOK'
  BY DEF TypeOK, Writes, DatabaseOK
<1>2. TypeOK => \A v \in Switch : SetsAutocommit(v) => DatabaseOK'
  BY DEF TypeOK, SetsAutocommit, DatabaseOK, AtCommit
<1>3. TypeOK /\ Commits => DatabaseOK'
  BY DEF TypeOK, Commits, DatabaseOK, AtCommit
<1>4. TypeOK /\ RollsBack => DatabaseOK'
  BY DEF TypeOK, RollsBack, DatabaseOK, AtCommit
<1>5. TypeOK /\ UNCHANGED database => DatabaseOK'
  BY DEF TypeOK, database, DatabaseOK
<1> QED BY <1>1, <1>2, <1>3, <1>4, <1>5 DEF Fails

LEMMA DatabaseTyped == TypeOK /\ Next => DatabaseOK'
<1> SUFFICES ASSUME TypeOK, Next PROVE DatabaseOK'
  OBVIOUS
<1> USE DEF Switch, Absent
<1>1. CASE Opening
  BY <1>1, DriverTypes DEF Opening, AutocommitOn, AutocommitOff, CheckOff, BackOn, Try
<1>2. CASE Creation
  <2>1. old \in Switch
    BY DEF TypeOK
  <2>2. CASE Begin \/ Save \/ Enter \/ Restore \/ GiveUp
    BY <2>1, <2>2, DriverTypes DEF Begin, Save, Enter, Restore, GiveUp, Try
  <2>3. CASE Probe \/ Create \/ UndoCreate \/ DropFirst \/ UndoDrop
    BY <2>3, DriverTypes DEF Probe, Create, UndoCreate, DropFirst, UndoDrop, Drops, NotDropped, Try
  <2> QED BY <1>2, <2>2, <2>3 DEF Creation
<1>3. CASE Work
  <2>1. CASE Insert
    <3>1. work # Absent => work + 1 \in Nat \cup {Absent}
      BY DEF TypeOK
    <3> QED BY <2>1, <3>1, DriverTypes DEF Insert
  <2>2. CASE Count
    BY <2>2, DriverTypes DEF Count, TypeOK, DatabaseOK
  <2>3. CASE Fallback \/ CommitCreate \/ EndTransaction
    BY <2>3, DriverTypes DEF Fallback, CommitCreate, EndTransaction, EndsTransaction, Try
  <2> QED BY <1>3, <2>1, <2>2, <2>3 DEF Work
<1>4. CASE Cleanup
  <2>1. CASE FinalOn
    BY <2>1 DEF FinalOn, TypeOK, DatabaseOK
  <2>2. CASE CleanupOn \/ CleanupDrop \/ CleanupUndo
    BY <2>2, DriverTypes DEF CleanupOn, CleanupDrop, CleanupUndo, Drops, NotDropped, Try
  <2> QED BY <1>4, <2>1, <2>2 DEF Cleanup
<1>5. CASE Ending
  BY <1>5, DriverTypes DEF Ending, Crash, NextRun, Done, vars, TypeOK, DatabaseOK
<1> QED BY <1>1, <1>2, <1>3, <1>4, <1>5, NextSplits

LEMMA ControlTyped == TypeOK /\ Next => ControlOK'
<1> SUFFICES ASSUME TypeOK, Next PROVE ControlOK'
  OBVIOUS
<1> USE DEF TypeOK, ControlOK, Tests, PC, Kind, Switch, Failure
<1>1. CASE Opening
  BY <1>1 DEF Opening, AutocommitOn, AutocommitOff, CheckOff, BackOn, Fails, Try, GoTo, Conclude, frame,
              NextTest
<1>2. CASE Creation
  <2>1. CASE Begin \/ Save \/ Enter \/ Create
    BY <2>1 DEF Begin, Save, Enter, Create, Fails, Try, GoTo, frame, NextTest
  <2>2. CASE Probe
    <3>1. tries' \in 1..4
      BY <2>2 DEF Probe
    <3>2. pc' \in PC /\ test' \in Tests /\ failed' \subseteq Kind
      BY <2>2 DEF Probe, Fails, GoTo
    <3> QED BY <2>2, <3>1, <3>2 DEF Probe
  <2>3. CASE UndoCreate
    <3>1. tries' \in 1..4
      <4>1. tries' = IF tries < 4 THEN tries + 1 ELSE tries
        BY <2>3 DEF UndoCreate
      <4>2. tries \in 1..4
        OBVIOUS
      <4> HIDE DEF TypeOK, ControlOK
      <4> QED BY <4>1, <4>2
    <3>2. pc' \in PC /\ test' \in Tests
      BY <2>3 DEF UndoCreate, GoTo
    <3>3. failed' \subseteq Kind
      BY <2>3 DEF UndoCreate, Try, Fails
    <3> QED BY <2>3, <3>1, <3>2, <3>3 DEF UndoCreate
  <2>4. CASE DropFirst \/ UndoDrop \/ Restore \/ GiveUp
    BY <2>4 DEF DropFirst, UndoDrop, NotDropped, Restore, GiveUp, Fails, Try, GoTo, frame
  <2> QED BY <1>2, <2>1, <2>2, <2>3, <2>4 DEF Creation
<1>3. CASE Work
  BY <1>3 DEF Work, Fallback, CommitCreate, Insert, EndTransaction, Count, Fails, Try, GoTo, Conclude, frame
<1>4. CASE Cleanup
  BY <1>4 DEF Cleanup, CleanupOn, CleanupDrop, CleanupUndo, FinalOn, NotDropped, Fails, Try, GoTo, frame,
              NextTest
<1>5. CASE Ending
  <2>1. CASE Crash \/ Done
    BY <2>1 DEF Crash, Done, Fails, vars
  <2>2. CASE NextRun
    <3>1. run' \in 1..Runs
      BY <2>2, SuiteAssumption DEF NextRun
    <3> QED BY <2>2, <3>1 DEF NextRun
  <2> QED BY <1>5, <2>1, <2>2 DEF Ending
<1> QED BY <1>1, <1>2, <1>3, <1>4, <1>5, NextSplits

LEMMA VerdictsTyped == TypeOK /\ Next => VerdictsOK'
<1> SUFFICES ASSUME TypeOK, Next PROVE VerdictsOK'
  OBVIOUS
<1>0. \A v \in Verdict : Rule(v) => VerdictsOK'
  BY DEF TypeOK, Rule, VerdictsOK
<1>1. UNCHANGED verdict => VerdictsOK'
  BY DEF TypeOK, VerdictsOK
<1>2. NextRun \/ Done => VerdictsOK'
  BY DEF TypeOK, NextRun, Done, vars, VerdictsOK, Verdict
<1>3. CASE Opening
  BY <1>0, <1>1, <1>3
     DEF Opening, AutocommitOn, AutocommitOff, CheckOff, BackOn, GoTo, Conclude, Verdict
<1>4. CASE Creation
  BY <1>0, <1>1, <1>4
     DEF Creation, Begin, Save, Enter, Probe, Create, UndoCreate, DropFirst, UndoDrop, Restore, GiveUp,
         GoTo, Verdict
<1>5. CASE Work
  BY <1>0, <1>1, <1>5
     DEF Work, Fallback, CommitCreate, Insert, EndTransaction, Count, Judged, GoTo, Conclude, Verdict
<1>6. CASE Cleanup
  BY <1>1, <1>6 DEF Cleanup, CleanupOn, CleanupDrop, CleanupUndo, FinalOn, GoTo
<1>7. CASE Ending
  BY <1>1, <1>2, <1>7 DEF Ending, Crash
<1> QED BY <1>3, <1>4, <1>5, <1>6, <1>7, NextSplits

LEMMA TypesKept == TypeOK /\ Next => TypeOK'
BY DatabaseTyped, ControlTyped, VerdictsTyped DEF TypeOK, DatabaseOK, ControlOK, VerdictsOK

-----------------------------------------------------------------------------
(* The parts of the invariant, each kept by every driver call              *)

LEMMA PlaceKept == TypeOK /\ Place /\ Next => Place'
<1> SUFFICES ASSUME TypeOK, Place, Next PROVE Place'
  OBVIOUS
<1> USE DEF Place, Tests, TypeOK
<1>1. CASE Opening
  BY <1>1 DEF Opening, AutocommitOn, AutocommitOff, CheckOff, BackOn, Rule, Fails, Failure,
              NextTest, frame, database, SetsAutocommit, AtCommit, GoTo, Conclude, Try
<1>2. CASE Creation
  BY <1>2 DEF Creation, Begin, Save, Enter, Probe, Create, UndoCreate, DropFirst, UndoDrop, Restore,
              GiveUp, SetsAutocommit, AtCommit, Rule, GoTo, Fails, Failure, NextTest, frame,
              database, Try, Writes, RollsBack, Drops, NotDropped, InUse
<1>3. CASE Work
  BY <1>3 DEF Work, Fallback, CommitCreate, Insert, EndTransaction, Count, EndsTransaction, Commits,
              RollsBack, AtCommit, Conclude, Rule, Fails, Failure, frame, database, Try, GoTo,
              Writes, Judged
<1>4. CASE Cleanup
  BY <1>4 DEF Cleanup, CleanupOn, CleanupDrop, CleanupUndo, FinalOn, SetsAutocommit, AtCommit, Try,
              GoTo, Fails, Failure, frame, database, Drops, NotDropped, Writes, InUse, RollsBack,
              NextTest
<1>5. CASE Ending
  BY <1>5 DEF Ending, Crash, NextRun, Done, Fails, Failure, database, vars
<1> QED BY <1>1, <1>2, <1>3, <1>4, <1>5, NextSplits

LEMMA ModeKept == Place /\ Mode /\ Next => Mode'
<1> SUFFICES ASSUME Place, Mode, Next PROVE Mode'
  OBVIOUS
<1> USE DEF Mode, Place, Never, InDdl, InTransaction, InCleanup
<1>1. CASE Opening
  BY <1>1 DEF Opening, AutocommitOn, AutocommitOff, CheckOff, BackOn, Rule, Fails, Failure,
              NextTest, frame, database, SetsAutocommit, AtCommit, GoTo, Conclude, Try
<1>2. CASE Creation
  BY <1>2 DEF Creation, Begin, Save, Enter, Probe, Create, UndoCreate, DropFirst, UndoDrop, Restore,
              GiveUp, SetsAutocommit, AtCommit, Rule, GoTo, Fails, Failure, NextTest, frame,
              database, Try, Writes, RollsBack, Drops, NotDropped, InUse
<1>3. CASE Work
  BY <1>3 DEF Work, Fallback, CommitCreate, Insert, EndTransaction, Count, EndsTransaction, Commits,
              RollsBack, AtCommit, Conclude, Rule, Fails, Failure, frame, database, Try, GoTo,
              Writes, Judged
<1>4. CASE Cleanup
  BY <1>4 DEF Cleanup, CleanupOn, CleanupDrop, CleanupUndo, FinalOn, SetsAutocommit, AtCommit, Try,
              GoTo, Fails, Failure, frame, database, Drops, NotDropped, Writes, InUse, RollsBack,
              NextTest
<1>5. CASE Ending
  BY <1>5 DEF Ending, Crash, NextRun, Done, Fails, Failure, database, vars
<1> QED BY <1>1, <1>2, <1>3, <1>4, <1>5, NextSplits

LEMMA TableKept == Place /\ Mode /\ Table /\ Next => Table'
<1> SUFFICES ASSUME Place, Mode, Table, Next PROVE Table'
  OBVIOUS
<1> USE DEF Table, Clean, Held, Never, NoTable, NoRows, Mode, Place, InDdl, InTransaction, InCleanup, Manual, Absent
<1>1. CASE Opening
  BY <1>1 DEF Opening, AutocommitOn, AutocommitOff, CheckOff, BackOn, Rule, Fails, Failure,
              NextTest, frame, database, SetsAutocommit, AtCommit, GoTo, Conclude, Try
<1>2. CASE Creation
  BY <1>2 DEF Creation, Begin, Save, Enter, Probe, Create, UndoCreate, DropFirst, UndoDrop, Restore,
              GiveUp, SetsAutocommit, AtCommit, Rule, GoTo, Fails, Failure, NextTest, frame,
              database, Try, Writes, RollsBack, Drops, NotDropped, InUse
<1>3. CASE Work
  BY <1>3 DEF Work, Fallback, CommitCreate, Insert, EndTransaction, Count, EndsTransaction, Commits,
              RollsBack, AtCommit, Conclude, Rule, Fails, Failure, frame, database, Try, GoTo,
              Writes, Judged
<1>4. CASE Cleanup
  BY <1>4 DEF Cleanup, CleanupOn, CleanupDrop, CleanupUndo, FinalOn, SetsAutocommit, AtCommit, Try,
              GoTo, Fails, Failure, frame, database, Drops, NotDropped, Writes, InUse, RollsBack,
              NextTest
<1>5. CASE Ending
  BY <1>5 DEF Ending, Crash, NextRun, Done, Fails, Failure, database, vars
<1> QED BY <1>1, <1>2, <1>3, <1>4, <1>5, NextSplits

LEMMA Rows == 0 # Absent /\ 1 # Absent /\ 0 # 1
BY DEF Absent

LEMMA Inserted ==
  ASSUME work = 0, db = 0, Writes(work + 1), autocommit = "OFF"
  PROVE  work' = 1 /\ (db' = IF driver.defect = "never manual" THEN 1 ELSE 0)
<1>1. work + 1 = 1
  OBVIOUS
<1>2. Writes(1)
  BY <1>1
<1> QED BY <1>2 DEF Writes, Manual

LEMMA Committed ==
  ASSUME work = 1, db = IF driver.defect = "never manual" THEN 1 ELSE 0, Commits,
         autocommit = "OFF"
  PROVE  work' = IF driver.defect = "commit lost" THEN 0 ELSE 1
BY DEF Commits, Manual

LEMMA RolledBack ==
  ASSUME work = 1, db = IF driver.defect = "never manual" THEN 1 ELSE 0, RollsBack,
         autocommit = "OFF"
  PROVE  work' = IF driver.defect \in {"rollback ignored", "never manual"} THEN 1 ELSE 0
BY DEF RollsBack, Manual

LEMMA FairKept == TypeOK /\ Place /\ Mode /\ Table /\ Fair /\ Next => Fair'
<1> SUFFICES ASSUME TypeOK, Place, Mode, Table, Fair, Next PROVE Fair'
  OBVIOUS
<1> USE DEF Fair, Table, Clean, Held, Never, NoTable, NoRows, Mode, Place, InTransaction, InCleanup, Manual, Expected, Tests, Absent, TypeOK
<1>1. CASE Opening
  <2>1. CASE AutocommitOn
    BY <2>1 DEF AutocommitOn, Rule, Fails, Failure, NextTest, frame, database
  <2>2. CASE AutocommitOff
    BY <2>2 DEF AutocommitOff, SetsAutocommit, AtCommit, Rule, GoTo, Fails, Failure, NextTest,
                frame, database
  <2>3. CASE CheckOff
    BY <2>3 DEF CheckOff, Conclude, Rule, Fails, Failure, NextTest, frame, database
  <2>4. CASE BackOn
    BY <2>4 DEF BackOn, SetsAutocommit, AtCommit, Try, Fails, Failure, NextTest, database
  <2> QED BY <1>1, <2>1, <2>2, <2>3, <2>4 DEF Opening
<1>2. CASE Creation
  <2>1. CASE Begin
    BY <2>1 DEF Begin, SetsAutocommit, AtCommit, Rule, GoTo, Fails, Failure, NextTest, frame,
                database
  <2>2. CASE Save
    BY <2>2 DEF Save, GoTo, Fails, Failure, database
  <2>3. CASE Enter
    BY <2>3 DEF Enter, SetsAutocommit, AtCommit, Try, GoTo, Fails, Failure, frame, database
  <2>4. CASE Probe
    BY <2>4 DEF Probe, GoTo, Fails, Failure, database
  <2>5. CASE Create
    BY <2>5 DEF Create, Writes, GoTo, Fails, Failure, database
  <2>6. CASE UndoCreate
    BY <2>6 DEF UndoCreate, RollsBack, AtCommit, Try, GoTo, Fails, Failure, database
  <2>7. CASE DropFirst
    BY <2>7 DEF DropFirst, Drops, NotDropped, Writes, GoTo, Fails, Failure, frame, database, InUse
  <2>8. CASE UndoDrop
    BY <2>8 DEF UndoDrop, RollsBack, AtCommit, Try, GoTo, Fails, Failure, frame, database
  <2>9. CASE Restore
    BY <2>9 DEF Restore, SetsAutocommit, AtCommit, Try, GoTo, Fails, Failure, frame, database
  <2>10. CASE GiveUp
    BY <2>10 DEF GiveUp, SetsAutocommit, AtCommit, Try, GoTo, Fails, Failure, frame, database
  <2> QED BY <1>2, <2>1, <2>2, <2>3, <2>4, <2>5, <2>6, <2>7, <2>8, <2>9, <2>10 DEF Creation
<1>3. CASE Work
  <2>1. CASE Fallback
    BY <2>1 DEF Fallback, EndsTransaction, Commits, RollsBack, AtCommit, Conclude, Rule, Fails,
                Failure, frame, database
  <2>2. CASE CommitCreate
    BY <2>2 DEF CommitCreate, Commits, AtCommit, Try, GoTo, Fails, Failure, frame, database
  <2>3. CASE Insert
    <3>1. CASE Writes(work + 1) /\ GoTo("end") /\ UNCHANGED failed
      <4>1. UNCHANGED <<failed, driver, verdict>> /\ pc = "insert" /\ pc' = "end"
        BY <2>3, <3>1 DEF Insert, GoTo, frame
      <4>2. Clean => work = 0 /\ db = 0 /\ autocommit = "OFF"
        BY <4>1
      <4>3. Clean /\ driver.defect = "none" => work' = 1 /\ db' = 0
        BY <4>2, <3>1, Inserted
      <4> QED BY <4>1, <4>3
    <3>2. CASE Conclude("ERR", "cleanup on")
      BY <2>3, <3>2 DEF Insert, Conclude, Rule, Fails, Failure, frame
    <3> QED BY <2>3, <3>1, <3>2 DEF Insert
  <2>4. CASE EndTransaction
    BY <2>4 DEF EndTransaction, EndsTransaction, Commits, RollsBack, AtCommit, Conclude, Rule, GoTo,
                Fails, Failure, frame, database
  <2>5. CASE Count
    BY <2>5 DEF Count, Judged, Conclude, Rule, Fails, Failure, frame, database
  <2> QED BY <1>3, <2>1, <2>2, <2>3, <2>4, <2>5 DEF Work
<1>4. CASE Cleanup
  <2>1. CASE CleanupOn
    BY <2>1 DEF CleanupOn, SetsAutocommit, AtCommit, Try, GoTo, Fails, Failure, frame, database
  <2>2. CASE CleanupDrop
    BY <2>2 DEF CleanupDrop, Drops, NotDropped, Writes, GoTo, Fails, Failure, frame, database, InUse
  <2>3. CASE CleanupUndo
    BY <2>3 DEF CleanupUndo, RollsBack, AtCommit, Try, GoTo, Fails, Failure, frame, database
  <2>4. CASE FinalOn
    BY <2>4 DEF FinalOn, Failure, NextTest
  <2> QED BY <1>4, <2>1, <2>2, <2>3, <2>4 DEF Cleanup
<1>5. CASE Ending
  <2>1. CASE Crash
    BY <2>1 DEF Crash, Fails, Failure, database
  <2>2. CASE NextRun
    BY <2>2 DEF NextRun
  <2>3. CASE Done
    BY <2>3 DEF Done, vars
  <2> QED BY <1>5, <2>1, <2>2, <2>3 DEF Ending
<1> QED BY <1>1, <1>2, <1>3, <1>4, <1>5, NextSplits

LEMMA FoundKept == TypeOK /\ Place /\ Mode /\ Table /\ Found /\ Next => Found'
<1> SUFFICES ASSUME TypeOK, Place, Mode, Table, Found, Next PROVE Found'
  OBVIOUS
<1> USE DEF Found, Exposed, Guilty, Outcome, Judgement, Table, Clean, Held, Never, NoTable, NoRows, Mode, Place, InDdl, InTransaction, InCleanup, Manual, Expected, Tests, Absent, TypeOK
<1>1. CASE Opening
  <2>1. CASE AutocommitOn
    BY <2>1 DEF AutocommitOn, Rule, Fails, Failure, NextTest, frame, database
  <2>2. CASE AutocommitOff
    BY <2>2 DEF AutocommitOff, SetsAutocommit, AtCommit, Rule, GoTo, Fails, Failure, NextTest,
                frame, database
  <2>3. CASE CheckOff
    BY <2>3 DEF CheckOff, Conclude, Rule, Fails, Failure, NextTest, frame, database
  <2>4. CASE BackOn
    BY <2>4 DEF BackOn, SetsAutocommit, AtCommit, Try, Fails, Failure, NextTest, database
  <2> QED BY <1>1, <2>1, <2>2, <2>3, <2>4 DEF Opening
<1>2. CASE Creation
  <2>1. CASE Begin
    BY <2>1 DEF Begin, SetsAutocommit, AtCommit, Rule, GoTo, Fails, Failure, NextTest, frame,
                database
  <2>2. CASE Save
    BY <2>2 DEF Save, GoTo, Fails, Failure, database
  <2>3. CASE Enter
    BY <2>3 DEF Enter, SetsAutocommit, AtCommit, Try, GoTo, Fails, Failure, frame, database
  <2>4. CASE Probe
    BY <2>4 DEF Probe, GoTo, Fails, Failure, database
  <2>5. CASE Create
    BY <2>5 DEF Create, Writes, GoTo, Fails, Failure, database
  <2>6. CASE UndoCreate
    BY <2>6 DEF UndoCreate, RollsBack, AtCommit, Try, GoTo, Fails, Failure, database
  <2>7. CASE DropFirst
    BY <2>7 DEF DropFirst, Drops, NotDropped, Writes, GoTo, Fails, Failure, frame, database, InUse
  <2>8. CASE UndoDrop
    BY <2>8 DEF UndoDrop, RollsBack, AtCommit, Try, GoTo, Fails, Failure, frame, database
  <2>9. CASE Restore
    BY <2>9 DEF Restore, SetsAutocommit, AtCommit, Try, GoTo, Fails, Failure, frame, database
  <2>10. CASE GiveUp
    BY <2>10 DEF GiveUp, SetsAutocommit, AtCommit, Try, GoTo, Fails, Failure, frame, database
  <2> QED BY <1>2, <2>1, <2>2, <2>3, <2>4, <2>5, <2>6, <2>7, <2>8, <2>9, <2>10 DEF Creation
<1>3. CASE Work
  <2>1. CASE Fallback
    BY <2>1 DEF Fallback, EndsTransaction, Commits, RollsBack, AtCommit, Conclude, Rule, Fails,
                Failure, frame, database
  <2>2. CASE CommitCreate
    BY <2>2 DEF CommitCreate, Commits, AtCommit, Try, GoTo, Fails, Failure, frame, database
  <2>3. CASE Insert
    <3>1. CASE Writes(work + 1) /\ GoTo("end") /\ UNCHANGED failed
      <4>1. UNCHANGED <<failed, driver, verdict, test>> /\ pc = "insert" /\ pc' = "end"
        BY <2>3, <3>1 DEF Insert, GoTo, frame
      <4>2. failed = {} /\ ~Held => work = 0 /\ db = 0 /\ autocommit = "OFF"
        BY <4>1
      <4>3. failed = {} /\ ~Held
              => work' = 1 /\ (db' = IF driver.defect = "never manual" THEN 1 ELSE 0)
        BY <4>2, <3>1, Inserted
      <4> QED BY <4>1, <4>3
    <3>2. CASE work = Absent \/ Fails("SQL")
      <4>0. failed = {} /\ ~Held => work = 0
        BY <2>3 DEF Insert
      <4>1. failed = {} /\ ~Held => work # Absent
        BY <4>0, Rows
      <4> QED BY <2>3, <3>2, <4>1 DEF Insert, Conclude, Rule, Fails, Failure, frame
    <3> QED BY <2>3, <3>1, <3>2 DEF Insert
  <2>4. CASE EndTransaction
    <3>1. CASE EndsTransaction /\ GoTo("count") /\ UNCHANGED failed
      <4>1. UNCHANGED <<failed, driver, verdict, test>> /\ pc = "end" /\ pc' = "count"
        BY <2>4, <3>1 DEF EndTransaction, GoTo, frame
      <4>2. failed = {} /\ ~Held => autocommit = "OFF" /\ test \in {"commit", "rollback"}
        BY <4>1
      <4>3. failed = {} /\ ~Held =>
              work' = IF test = "commit" THEN IF driver.defect = "commit lost" THEN 0 ELSE 1
                      ELSE IF driver.defect \in {"rollback ignored", "never manual"} THEN 1 ELSE 0
        <5>1. failed = {} /\ ~Held
                => work = 1 /\ (db = IF driver.defect = "never manual" THEN 1 ELSE 0)
          BY <4>1
        <5>2. CASE test = "commit"
          BY <3>1, <4>2, <5>1, <5>2, Committed DEF EndsTransaction
        <5>3. CASE test = "rollback"
          BY <3>1, <4>2, <5>1, <5>3, RolledBack DEF EndsTransaction
        <5> QED BY <4>2, <5>2, <5>3
      <4> QED BY <4>1, <4>3
    <3>2. CASE Fails("SQLEndTran")
      BY <2>4, <3>2 DEF EndTransaction, Fails, Failure, frame
    <3> QED BY <2>4, <3>1, <3>2 DEF EndTransaction
  <2>5. CASE Count
    <3>1. CASE failed = {} /\ failed' = {} /\ ~Held
      <4>0. pc = "count" /\ test \in {"commit", "rollback"} /\ work = Outcome
        BY <2>5, <3>1 DEF Count
      <4>1. work # Absent /\ test \in {"commit", "rollback"} /\ pc = "count"
        <5>1. work = 0 \/ work = 1
          BY <4>0
        <5> QED BY <4>0, <5>1, Rows
      <4>2. Conclude(Judged(work), "cleanup on") /\ UNCHANGED <<work, driver>>
        BY <2>5, <3>1, <4>1 DEF Count, Fails, Failure, frame
      <4>3. verdict'[test] = Judged(work) /\ (test = "rollback" => verdict'["commit"] = verdict["commit"])
        BY <4>1, <4>2 DEF Conclude, Rule
      <4>4. work = Expected <=> driver.defect \notin Guilty(test)
        BY <4>0, Rows
      <4>5. verdict'[test] = "FAIL: data" <=> driver.defect \in Guilty(test)
        BY <4>3, <4>4 DEF Judged
      <4> QED BY <3>1, <4>1, <4>2, <4>3, <4>5 DEF Conclude
    <3>2. CASE ~(failed = {} /\ failed' = {} /\ ~Held)
      BY <2>5, <3>2 DEF Count, Fails, Failure, frame
    <3> QED BY <3>1, <3>2
  <2> QED BY <1>3, <2>1, <2>2, <2>3, <2>4, <2>5 DEF Work
<1>4. CASE Cleanup
  <2>1. CASE CleanupOn
    BY <2>1 DEF CleanupOn, SetsAutocommit, AtCommit, Try, GoTo, Fails, Failure, frame, database
  <2>2. CASE CleanupDrop
    BY <2>2 DEF CleanupDrop, Drops, NotDropped, Writes, GoTo, Fails, Failure, frame, database, InUse
  <2>3. CASE CleanupUndo
    BY <2>3 DEF CleanupUndo, RollsBack, AtCommit, Try, GoTo, Fails, Failure, frame, database
  <2>4. CASE FinalOn
    BY <2>4 DEF FinalOn, Failure, NextTest
  <2> QED BY <1>4, <2>1, <2>2, <2>3, <2>4 DEF Cleanup
<1>5. CASE Ending
  <2>1. CASE Crash
    BY <2>1 DEF Crash, Fails, Failure, database
  <2>2. CASE NextRun
    BY <2>2 DEF NextRun
  <2>3. CASE Done
    BY <2>3 DEF Done, vars
  <2> QED BY <1>5, <2>1, <2>2, <2>3 DEF Ending
<1> QED BY <1>1, <1>2, <1>3, <1>4, <1>5, NextSplits

-----------------------------------------------------------------------------
(* Theorems                                                                *)

\* The invariant is inductive.
THEOREM Invariance == Spec => []Inv
<1>1. Inv /\ [Next]_vars => Inv'
  <2> SUFFICES ASSUME Inv, [Next]_vars PROVE Inv'
    OBVIOUS
  <2>1. CASE Next
    BY <2>1, TypesKept, PlaceKept, ModeKept, TableKept, FairKept, FoundKept DEF Inv
  <2>2. CASE UNCHANGED vars
    <3>1. TypeOK'
      BY <2>2 DEF Inv, TypeOK, vars
    <3>2. Place' /\ Mode'
      BY <2>2 DEF Inv, Place, Mode, Never, vars
    <3>3. Table' /\ Fair'
      BY <2>2 DEF Inv, Table, Fair, Clean, Held, Never, NoTable, NoRows, Expected, vars
    <3>4. Found'
      BY <2>2 DEF Inv, Found, Exposed, Held, Outcome, vars
    <3> QED BY <3>1, <3>2, <3>3, <3>4 DEF Inv
  <2> QED BY <2>1, <2>2
<1> QED BY InitInv, <1>1, PTL DEF Spec

\* Types (the fields and locals of transaction_tests.cpp).
THEOREM TypeCorrect == Spec => []TypeOK
<1>1. Inv => TypeOK
  BY DEF Inv
<1> QED BY <1>1, Invariance, PTL

\* Nobody without a defect is accused without a cause
\* (transaction_tests.cpp:319 and 438).
THEOREM AccusationsHaveCauses == Spec => []AccusationHasCause
<1>1. Inv => AccusationHasCause
  BY DEF Inv, Fair, Clean, Held, Never, AccusationHasCause
<1> QED BY <1>1, Invariance, PTL

\* When nothing fails, the two manual tests find the defects they are for.
THEOREM DefectsAreFound == Spec => []DefectIsFound
<1>1. Inv => DefectIsFound
  BY DEF Inv, Found, Exposed, Guilty, DefectIsFound
<1> QED BY <1>1, Invariance, PTL

\* A suite leaves the shared connection in manual mode only after a crash or a
\* refused call that sets the attribute; a test leaves it so to the next one
\* only after one that sets or reads it (transaction_tests.cpp:196-204).
THEOREM AutocommitLossesHaveCauses == Spec => []AutocommitLossHasCause
<1>1. Inv => AutocommitLossHasCause
  BY DEF Inv, Mode, Never, AutocommitLossHasCause
<1> QED BY <1>1, Invariance, PTL

\* The test table is left behind only after a crash or a refused DROP or
\* attribute, or by a driver whose cursors outlive a commit
\* (transaction_tests.cpp:96-115).
THEOREM LeftoverTablesHaveCauses == Spec => []LeftoverTableHasCause
<1>1. Inv => LeftoverTableHasCause
  BY DEF Inv, Table, Clean, Never, NoTable, LeftoverTableHasCause
<1> QED BY <1>1, Invariance, PTL

=============================================================================
