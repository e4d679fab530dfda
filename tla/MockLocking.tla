----------------------------- MODULE MockLocking -----------------------------
(***************************************************************************)
(* Threads of one application inside the mock driver.  A step is a stretch *)
(* of a call between two points where another thread can be seen: calls of *)
(* different threads interleave step by step.                              *)
(*                                                                         *)
(* SQLPrepare, SQLExecDirect, SQLExecute, SQLFetch, SQLFetchScroll,        *)
(* SQLGetData, SQLGetStmtAttr and the catalog functions hold the mutex of  *)
(* their statement (HandleLock) from validation to return.  The calls of   *)
(* Unlocked write the same fields without it, and nothing at all guards    *)
(* what every statement of the process shares: the catalog, the installed  *)
(* configuration and the generator that should_fail draws from.            *)
(* Exclusive is the set of calls an application issues only while no other *)
(* is running; what it must hold for the driver to be usable is what this  *)
(* module says.                                                            *)
(*                                                                         *)
(* SELECT, INSERT, CREATE and DROP are an execution of such a text, on one *)
(* table of the application; a failure of one, or of a fetch, for whatever *)
(* reason is a nondeterministic early return.  A row of a result is the    *)
(* thread whose execution stored it.                                       *)
(***************************************************************************)
EXTENDS Integers, Sequences

CONSTANTS Thread,    \* threads of the application
          Stmt,      \* statement handles, all of one connection
          Exclusive, \* [Modes -> calls the application issues only on their own]
          Uses,      \* bound: [Stmt -> the calls the application makes on it]
          MaxRow,    \* bound: rows of the table
          Period,    \* bound: states of the generator
          Nothing    \* no thread, no statement

\* The executions that change the catalog.
Changing == {"INSERT", "CREATE", "DROP"}

Locked == {"SQLPrepare", "SELECT", "SQLFetch", "SQLGetData"} \cup Changing

Unlocked == {"SQLAllocHandle", "SQLFreeHandle", "SQLDriverConnect", "SQLDisconnect",
             "SQLCloseCursor", "SQLFreeStmt", "SQLCancel", "SQLEndTran"}

Call == Locked \cup Unlocked

\* BehaviorMode: only Random draws; Success, Failure and Partial are Steady.
Modes == {"Random", "Steady"}

\* The calls that ask should_fail.
Drawing == {"SQLPrepare", "SELECT", "SQLFetch", "SQLEndTran", "SQLDriverConnect"} \cup Changing

\* What all statements share.
Shared == {"catalog", "statements", "configuration", "generator"}

ASSUME LockingAssumption == /\ Nothing \notin Thread \cup Stmt
                            /\ MaxRow \in Nat
                            /\ Period \in Nat \ {0}
                            /\ Shared \cap Stmt = {}
                            /\ Exclusive \in [Modes -> SUBSET Call]
                            /\ Uses \in [Stmt -> SUBSET Call]

\* The discipline under which the locks suffice.
Disciplined == /\ \A m \in Modes : Unlocked \cup Changing \subseteq Exclusive[m]
               /\ Drawing \subseteq Exclusive["Random"]

VARIABLES owner,    \* [Stmt -> the thread that holds OdbcHandle::mutex_]
          stmt,     \* [Stmt -> the fields of StatementHandle]
          table,    \* MockCatalog: rows of the table the texts are about
          mode,     \* BehaviorController: mode of the installed configuration
          generator,\* should_fail: state of its static mt19937
          thread,   \* [Thread -> its call, where it is, and what it carries]
          fetched   \* history: [Stmt -> the positions SQLFetch delivered]

behavior == <<mode, generator>>

vars == <<owner, stmt, table, mode, generator, thread, fetched>>

-----------------------------------------------------------------------------
Inside == {"check", "query", "change", "store", "push", "advance", "bounds", "deliver",
           "get", "unlock"}

PC == Inside \cup {"idle", "lock", "alloc", "free", "reload", "disconnect", "closing",
                   "clear", "cancel", "endtran", "rollback"}

NoTable == -1

TypeOK ==
  /\ owner \in [Stmt -> Thread \cup {Nothing}]
  /\ stmt \in [Stmt -> [alive : BOOLEAN, executed : BOOLEAN, open : BOOLEAN,
                        row : Int, data : Seq(Thread)]]
  /\ table \in NoTable..MaxRow
  /\ mode \in Modes /\ generator \in 0..Period - 1
  /\ thread \in [Thread -> [pc : PC, fn : Call \cup {"none"},
                           on : Stmt \cup {Nothing}, left : 0..MaxRow]]
  /\ fetched \in [Stmt -> Seq(Int)]

\* A statement before the first row of its result.
Rewound(e, o) == [alive |-> TRUE, executed |-> e, open |-> o, row |-> -1, data |-> <<>>]

\* The constructor of StatementHandle.
Fresh == Rewound(FALSE, FALSE)

Idle == [pc |-> "idle", fn |-> "none", on |-> Nothing, left |-> 0]

Init ==
  /\ owner = [s \in Stmt |-> Nothing]
  /\ stmt = [s \in Stmt |-> Fresh]
  /\ table = NoTable
  /\ mode \in Modes /\ generator = 0
  /\ thread = [t \in Thread |-> Idle]
  /\ fetched = [s \in Stmt |-> <<>>]

At(t, p)   == thread[t].pc = p
On(t)      == thread[t].on
Return(t)  == thread' = [thread EXCEPT ![t] = Idle]
GoTo(t, p) == thread' = [thread EXCEPT ![t].pc = p]
Busy(t)    == ~At(t, "idle")

\* DriverConfig::should_fail, whose answer is a nondeterministic choice.
DrawIn(m) == generator' = IF m = "Random" THEN (generator + 1) % Period ELSE generator

Draws(t) == mode = "Random" /\ thread[t].fn \in Drawing
Draw(t)  == DrawIn(mode) /\ UNCHANGED mode

-----------------------------------------------------------------------------
(* Entering and leaving a call                                             *)

\* Where the body of a call starts, once it holds what it wants to hold.
Body(fn) ==
  CASE fn = "SQLAllocHandle"   -> "alloc"
    [] fn = "SQLFreeHandle"    -> "free"
    [] fn = "SQLDriverConnect" -> "reload"
    [] fn = "SQLDisconnect"    -> "disconnect"
    [] fn = "SQLCloseCursor"   -> "closing"
    [] fn = "SQLFreeStmt"      -> "clear"
    [] fn = "SQLCancel"        -> "cancel"
    [] fn = "SQLEndTran"       -> "endtran"
    [] OTHER                   -> "check"

\* Faulty: SQLFetch takes no lock.
EntryFetchUnlocked(fn) == IF fn \in Locked \ {"SQLFetch"} THEN "lock" ELSE Body(fn)

Entry(fn) == IF fn \in Locked THEN "lock" ELSE Body(fn)

\* The application calls.  It keeps the calls of Exclusive apart from all
\* others and passes handles that exist (a new one to SQLAllocHandle).
Begin(t, fn, s) ==
  /\ ~Busy(t) /\ fn \in Uses[s]
  /\ fn \in Exclusive[mode] => \A u \in Thread : ~Busy(u)
  /\ \A u \in Thread : Busy(u) => thread[u].fn \notin Exclusive[mode]
  /\ stmt[s].alive = (fn # "SQLAllocHandle")
  /\ fn = "INSERT" => table < MaxRow           \* bound
  /\ fn = "SQLFetch" => stmt[s].row <= MaxRow  \* bound: fetches past the end
  /\ thread' = [thread EXCEPT ![t] = [pc |-> Entry(fn), fn |-> fn, on |-> s, left |-> 0]]
  /\ UNCHANGED <<owner, stmt, table, behavior, fetched>>

\* Faulty: the constructor of HandleLock tries the mutex and goes on.
AcquireAnyway(t) ==
  /\ At(t, "lock")
  /\ owner' = [owner EXCEPT ![On(t)] = t]
  /\ GoTo(t, Body(thread[t].fn))
  /\ UNCHANGED <<stmt, table, behavior, fetched>>

\* The constructor of HandleLock.
Acquire(t) ==
  /\ At(t, "lock") /\ owner[On(t)] = Nothing
  /\ owner' = [owner EXCEPT ![On(t)] = t]
  /\ GoTo(t, Body(thread[t].fn))
  /\ UNCHANGED <<stmt, table, behavior, fetched>>

\* The destructor of HandleLock, on every way out of a locked call.
Release(t) ==
  /\ At(t, "unlock")
  /\ owner' = [owner EXCEPT ![On(t)] = Nothing]
  /\ Return(t)
  /\ UNCHANGED <<stmt, table, behavior, fetched>>

-----------------------------------------------------------------------------
(* The calls that hold the lock of their statement                         *)

\* Faulty: a call that cannot succeed is tried again, with the lock held.
RefusedRetrying(t) ==
  /\ At(t, "check")
  /\ UNCHANGED vars

\* Not connected, not prepared, not executed, no row; or injected, rejected,
\* which have drawn first.
Refused(t) ==
  /\ At(t, "check")
  /\ GoTo(t, "unlock")
  /\ UNCHANGED behavior \/ (thread[t].fn \in Drawing /\ Draw(t))
  /\ UNCHANGED <<owner, stmt, table, fetched>>

SQLPrepare(t) ==
  /\ At(t, "check") /\ thread[t].fn = "SQLPrepare"
  /\ Draw(t)
  /\ stmt' = [stmt EXCEPT ![On(t)].executed = FALSE, ![On(t)].open = FALSE]
  /\ GoTo(t, "unlock")
  /\ UNCHANGED <<owner, table, fetched>>

ExecuteChecked(t) ==
  /\ At(t, "check") /\ thread[t].fn \in {"SELECT"} \cup Changing
  /\ Draw(t)
  /\ GoTo(t, IF thread[t].fn = "SELECT" THEN "query" ELSE "change")
  /\ UNCHANGED <<owner, stmt, table, fetched>>

\* execute_query finds no such table, or CREATE TABLE finds one.
Unfit(t) ==
  /\ At(t, "query") \/ At(t, "change")
  /\ (table = NoTable) = (thread[t].fn # "CREATE")
  /\ GoTo(t, "unlock")
  /\ UNCHANGED <<owner, stmt, table, behavior, fetched>>

\* execute_query reads the table through find_table and inserted_data_.
Query(t) ==
  /\ At(t, "query") /\ table # NoTable
  /\ thread' = [thread EXCEPT ![t].pc = "store", ![t].left = table]
  /\ UNCHANGED <<owner, stmt, table, behavior, fetched>>

\* execute_query changes the catalog.
Change(t) ==
  /\ At(t, "change")
  /\ \/ /\ thread[t].fn = "INSERT" /\ table \in 0..MaxRow - 1
        /\ table' = table + 1
     \/ /\ thread[t].fn = "CREATE" /\ table = NoTable
        /\ table' = 0
     \/ /\ thread[t].fn = "DROP" /\ table # NoTable
        /\ table' = NoTable
  /\ GoTo(t, "store")
  /\ UNCHANGED <<owner, stmt, behavior, fetched>>

\* The assignments up to result_data_.clear().
Store(t) ==
  /\ At(t, "store")
  /\ stmt' = [stmt EXCEPT ![On(t)] = Rewound(TRUE, thread[t].left > 0)]
  /\ fetched' = [fetched EXCEPT ![On(t)] = <<>>]
  /\ GoTo(t, "push")
  /\ UNCHANGED <<owner, table, behavior>>

\* Faulty: the lock is given back before the rows are copied.
PushUnlocked(t) ==
  /\ At(t, "push")
  /\ owner' = [owner EXCEPT ![On(t)] = IF @ = t THEN Nothing ELSE @]
  /\ IF thread[t].left > 0
     THEN /\ stmt' = [stmt EXCEPT ![On(t)].data = Append(@, t)]
          /\ thread' = [thread EXCEPT ![t].left = @ - 1]
     ELSE Return(t) /\ UNCHANGED stmt
  /\ UNCHANGED <<table, behavior, fetched>>

\* One row of the result into result_data_.
Push(t) ==
  /\ At(t, "push")
  /\ IF thread[t].left > 0
     THEN /\ stmt' = [stmt EXCEPT ![On(t)].data = Append(@, t)]
          /\ thread' = [thread EXCEPT ![t].left = @ - 1]
     ELSE GoTo(t, "unlock") /\ UNCHANGED stmt
  /\ UNCHANGED <<owner, table, behavior, fetched>>

SQLFetch(t) ==
  /\ At(t, "check") /\ thread[t].fn = "SQLFetch" /\ stmt[On(t)].executed
  /\ Draw(t)
  /\ GoTo(t, "advance")
  /\ UNCHANGED <<owner, stmt, table, fetched>>

Advance(t) ==
  /\ At(t, "advance")
  /\ stmt' = [stmt EXCEPT ![On(t)].row = @ + 1]
  /\ GoTo(t, "bounds")
  /\ UNCHANGED <<owner, table, behavior, fetched>>

HasRow(s) == stmt[s].row < Len(stmt[s].data)

\* Faulty: the row past the last one passes.
BoundsPastEnd(t) ==
  /\ At(t, "bounds")
  /\ GoTo(t, IF stmt[On(t)].row <= Len(stmt[On(t)].data) THEN "deliver" ELSE "unlock")
  /\ UNCHANGED <<owner, stmt, table, behavior, fetched>>

Bounds(t) ==
  /\ At(t, "bounds")
  /\ stmt' = [stmt EXCEPT ![On(t)].open = @ /\ HasRow(On(t))]
  /\ GoTo(t, IF HasRow(On(t)) THEN "deliver" ELSE "unlock")
  /\ UNCHANGED <<owner, table, behavior, fetched>>

\* The transfer of result_data_[current_row_] to the bound columns.
Deliver(t) ==
  /\ At(t, "deliver")
  /\ fetched' = [fetched EXCEPT ![On(t)] = Append(@, stmt[On(t)].row)]
  /\ GoTo(t, "unlock")
  /\ UNCHANGED <<owner, stmt, table, behavior>>

SQLGetData(t) ==
  /\ At(t, "check") /\ thread[t].fn = "SQLGetData"
  /\ stmt[On(t)].executed /\ stmt[On(t)].row >= 0 /\ HasRow(On(t))
  /\ GoTo(t, "get")
  /\ UNCHANGED <<owner, stmt, table, behavior, fetched>>

Get(t) ==
  /\ At(t, "get")
  /\ GoTo(t, "unlock")
  /\ UNCHANGED <<owner, stmt, table, behavior, fetched>>

-----------------------------------------------------------------------------
(* The calls that hold no lock                                             *)

SQLAllocHandle(t) ==
  /\ At(t, "alloc")
  /\ stmt' = [stmt EXCEPT ![On(t)] = Fresh]
  /\ fetched' = [fetched EXCEPT ![On(t)] = <<>>]
  /\ Return(t)
  /\ UNCHANGED <<owner, table, behavior>>

\* Nothing is left of a statement but the application's stale handle.
SQLFreeHandle(t) ==
  /\ At(t, "free")
  /\ stmt' = [stmt EXCEPT ![On(t)] = [Fresh EXCEPT !.alive = FALSE]]
  /\ Return(t)
  /\ UNCHANGED <<owner, table, behavior, fetched>>

\* On another connection: refused, or BehaviorController::set_config and
\* MockCatalog::initialize, which knows no table of the application.
SQLDriverConnect(t) ==
  /\ At(t, "reload")
  /\ \E m \in Modes : /\ DrawIn(m)
                      /\ \/ UNCHANGED <<mode, table>>
                         \/ mode' = m /\ table' = NoTable
  /\ Return(t)
  /\ UNCHANGED <<owner, stmt, fetched>>

SQLDisconnect(t) ==
  /\ At(t, "disconnect")
  /\ stmt' = [s \in Stmt |-> [stmt[s] EXCEPT !.open = FALSE, !.executed = FALSE]]
  /\ Return(t)
  /\ UNCHANGED <<owner, table, behavior, fetched>>

SQLCloseCursor(t) ==
  /\ At(t, "closing")
  /\ IF stmt[On(t)].open THEN GoTo(t, "clear") ELSE Return(t)
  /\ UNCHANGED <<owner, stmt, table, behavior, fetched>>

\* SQLFreeStmt(SQL_CLOSE), and SQLCloseCursor behind its test.
Clear(t) ==
  /\ At(t, "clear")
  /\ stmt' = [stmt EXCEPT ![On(t)] = Rewound(stmt[On(t)].executed, FALSE)]
  /\ Return(t)
  /\ UNCHANGED <<owner, table, behavior, fetched>>

SQLCancel(t) ==
  /\ At(t, "cancel")
  /\ stmt' = [stmt EXCEPT ![On(t)].open = FALSE]
  /\ Return(t)
  /\ UNCHANGED <<owner, table, behavior, fetched>>

\* Refused, or the loop over the statements of the connection.
SQLEndTran(t) ==
  /\ At(t, "endtran")
  /\ Draw(t)
  /\ \/ UNCHANGED stmt /\ Return(t)
     \/ /\ stmt' = [s \in Stmt |-> [stmt[s] EXCEPT !.open = FALSE]]
        /\ Return(t)
     \/ /\ stmt' = [s \in Stmt |-> [stmt[s] EXCEPT !.open = FALSE, !.executed = FALSE,
                                                   !.data = <<>>]]
        /\ GoTo(t, "rollback")
  /\ UNCHANGED <<owner, table, fetched>>

Emptied(n) == IF n = NoTable THEN NoTable ELSE 0

\* MockCatalog::clear_inserted_data.
Rollback(t) ==
  /\ At(t, "rollback")
  /\ table' = Emptied(table)
  /\ Return(t)
  /\ UNCHANGED <<owner, stmt, behavior, fetched>>

-----------------------------------------------------------------------------
LockedStep(t) ==
  \/ Release(t) \/ Refused(t) \/ SQLPrepare(t) \/ ExecuteChecked(t) \/ Unfit(t)
  \/ Query(t) \/ Change(t) \/ Store(t) \/ Push(t) \/ SQLFetch(t) \/ Advance(t) \/ Bounds(t)
  \/ Deliver(t) \/ SQLGetData(t) \/ Get(t)

UnlockedStep(t) ==
  \/ SQLAllocHandle(t) \/ SQLFreeHandle(t) \/ SQLDriverConnect(t) \/ SQLDisconnect(t)
  \/ SQLCloseCursor(t) \/ Clear(t) \/ SQLCancel(t) \/ SQLEndTran(t) \/ Rollback(t)

Step(t) == Acquire(t) \/ LockedStep(t) \/ UnlockedStep(t)

Next == \E t \in Thread : \/ \E fn \in Call, s \in Stmt : Begin(t, fn, s)
                          \/ Step(t)

\* A thread inside a call keeps running; when it calls again is its affair.
Spec == Init /\ [][Next]_vars /\ \A t \in Thread : WF_vars(Step(t))

-----------------------------------------------------------------------------
(* Properties                                                              *)

\* What the next step of a thread reads or writes that others can see.
OnStatement == (Inside \ {"query", "change", "unlock"}) \cup {"closing", "clear", "cancel"}

Writes(t) ==
  LET p == thread[t].pc IN
    (IF p \in {"check", "endtran"} /\ Draws(t) THEN {"generator"} ELSE {}) \cup
    (IF p \in OnStatement THEN {On(t)}
     ELSE IF p \in {"endtran", "disconnect"} THEN Stmt
     ELSE IF p \in {"change", "rollback"} THEN {"catalog"}
     ELSE IF p = "reload" THEN {"catalog", "configuration", "generator"}
     ELSE IF p \in {"alloc", "free"} THEN {On(t), "statements"} ELSE {})

Reads(t) ==
  LET p == thread[t].pc IN
    (IF p \in {"check", "query", "change", "endtran"} THEN {"configuration"} ELSE {}) \cup
    (IF p = "query" THEN {"catalog"} ELSE {}) \cup
    (IF p \in {"endtran", "disconnect"} THEN {"statements"} ELSE {})

\* No two threads are about to touch the same statement, the list of
\* statements, the catalog, the configuration or the generator, one of them
\* writing: no data race, as long as the application keeps the calls of
\* Exclusive apart (about HandleLock, handles.hpp:218, and the singletons
\* without a lock).
NoDataRace == \A t, u \in Thread :
                t # u => Writes(t) \cap (Writes(u) \cup Reads(u)) = {}

\* Between its bounds test and its copy, SQLFetch keeps the row it tested
\* (statement_api.cpp:482-489).  Its lock keeps other fetches and executions
\* away; only the application keeps a rollback away, which takes none.
FetchReadsARow == \A t \in Thread : At(t, "deliver") => stmt[On(t)].row \in 0..Len(stmt[On(t)].data) - 1

\* Threads that fetch from one statement share its rows out: each row in
\* order, none twice, none left out (current_row_, statement_api.cpp:480), as
\* long as no call without a lock runs into the fetch.
EachRowFetchedOnce == \A s \in Stmt : fetched[s] = [i \in 1..Len(fetched[s]) |-> i - 1]

\* A result is the work of one execution (statement_api.cpp:442-449).
ResultOfOneExecution ==
  \A s \in Stmt : \A i, j \in DOMAIN stmt[s].data : stmt[s].data[i] = stmt[s].data[j]

\* Whatever a call returns, it gives its lock back (RAII, handles.hpp:223).
LockIsReleased == \A s \in Stmt : []<>(owner[s] = Nothing)

\* Under the discipline every call is atomic: it takes effect at one instant,
\* once or not at all, whatever the other threads do in between (HandleLock,
\* handles.hpp:218).  A result is there when its execution clears the old one,
\* and a row is fetched when it is found to exist.
Changed(t) == At(t, "store") /\ thread[t].fn \in Changing

Halfway(s, p) == owner[s] # Nothing /\ At(owner[s], p)

\* A statement as it is when the call inside it is through.
Settled(s) ==
  IF owner[s] # Nothing /\ Changed(owner[s]) THEN Rewound(TRUE, FALSE)
  ELSE IF Halfway(s, "push")
  THEN [stmt[s] EXCEPT !.data = @ \o [i \in 1..thread[owner[s]].left |-> owner[s]]]
  ELSE IF Halfway(s, "bounds") THEN [stmt[s] EXCEPT !.row = @ - 1]
  ELSE stmt[s]

SettledFetches(s) ==
  IF owner[s] # Nothing /\ Changed(owner[s]) THEN <<>>
  ELSE IF Halfway(s, "deliver") THEN Append(fetched[s], stmt[s].row)
  ELSE fetched[s]

SettledTable == IF \E t \in Thread : At(t, "rollback") THEN Emptied(table) ELSE table

Stage(t) == IF At(t, "idle") THEN "idle"
            ELSE IF \/ thread[t].pc \in {"push", "deliver", "get", "unlock", "rollback"}
                    \/ Changed(t)
                 THEN "done" ELSE "called"

Turn(t) == [fn |-> thread[t].fn, on |-> On(t), at |-> Stage(t)]

Atomic == INSTANCE AtomicCalls
            WITH stmt <- [s \in Stmt |-> Settled(s)], table <- SettledTable,
                 fetched <- [s \in Stmt |-> SettledFetches(s)],
                 turn <- [t \in Thread |-> Turn(t)]

CallsAreAtomic == Atomic!Spec

=============================================================================
