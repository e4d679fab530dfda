--------------------------- MODULE MockStatement ---------------------------
(***************************************************************************)
(* The statement API of the mock ODBC driver: SQLPrepare, SQLExecute (one  *)
(* and many parameter sets), SQLExecDirect, SQLFetch, SQLFetchScroll,      *)
(* SQLGetData, the catalog functions, the calls that close a cursor, and   *)
(* what SQLDisconnect and SQLEndTran do to the statements of a connection. *)
(*                                                                         *)
(* One action is one call of the application.  The statements exist and    *)
(* their connections are open initially (MockHandles models allocation);   *)
(* a call on a statement holds its HandleLock from the first check to the  *)
(* return, which is why it is one step.                                    *)
(*                                                                         *)
(* Abstracted: a statement text is a value of Sql; the texts parse_sql     *)
(* rejects are Invalid, the ones that produce columns are Query.  Whether  *)
(* execute_query succeeds, and with how many rows, depends on the global   *)
(* catalog that every connection changes, so it is chosen freely here.  So *)
(* is what DriverConfig::should_fail answers (the configuration is global, *)
(* too, and Mode=Random draws a number).  A cell's value, its conversion   *)
(* and the bound buffers are left out: a row is <<its result set, index>>. *)
(***************************************************************************)
EXTENDS Integers, Sequences, FiniteSets

CONSTANTS Stmt, Conn,    \* statement and connection handles
          ConnOf,        \* StatementHandle::conn_
          Sql,           \* statement texts
          Invalid,       \* texts that parse_sql rejects
          Query,         \* texts whose execution describes result columns
          CatalogFn,     \* SQLTables ... SQLProcedureColumns, SQLGetTypeInfo
          PrivilegeFn,   \* SQLTablePrivileges, SQLColumnPrivileges
          ReportFn,      \* bound: calls that only report, see Complaints
          Attribute,     \* bound: statement attributes the application sets
          NoSource,      \* no text, no columns, no rows
          MaxRows,       \* bound: rows of a result set
          MaxSets,       \* bound: SQL_ATTR_PARAMSET_SIZE
          MaxMoves,      \* bound: current_row_ beyond the end
          MaxDiag,       \* bound: diagnostics that pile up on a handle
          ErrorCount     \* DriverConfig::error_count

ASSUME ConnOfAssumption == ConnOf \in [Stmt -> Conn]

ASSUME SourceAssumption ==
  /\ Invalid \subseteq Sql
  /\ Query \subseteq Sql \ Invalid
  /\ NoSource \notin Sql \cup CatalogFn \cup PrivilegeFn
  /\ Sql \cap (CatalogFn \cup PrivilegeFn) = {}

ASSUME BoundAssumption ==
  /\ MaxRows \in Nat /\ MaxSets \in Nat \ {0} /\ MaxMoves \in Nat
  /\ MaxDiag \in Nat /\ ErrorCount \in Nat \ {0}

VARIABLES st,         \* [Stmt -> the fields of StatementHandle]
          connected,  \* [Conn -> ConnectionHandle::connected_]
          diag,       \* [Stmt -> OdbcHandle::diagnostics_]
          app,        \* [Stmt -> the application's status array and count]
          got,        \* [Stmt -> the row the application received last]
          ret         \* the last call and its return code

vars == <<st, connected, diag, app, got, ret>>

-----------------------------------------------------------------------------
Source == Sql \cup CatalogFn \cup PrivilegeFn
NoRow  == [by |-> NoSource, at |-> 0]
Code   == {"SUCCESS", "INFO", "NO_DATA", "ERROR"}
Position == -1 .. MaxRows + MaxMoves
Paramset == 1 .. MaxSets
Api == {"", "SQLPrepare", "SQLExecDirect", "SQLExecute", "SQLFetch",
        "SQLFetchScroll", "SQLGetData", "SQLCloseCursor", "SQLFreeStmt",
        "SQLCancel", "SQLSetStmtAttr", "SQLDescribeCol", "SQLBindParameter",
        "SQLDescribeParam", "SQLSetPos", "SQLBulkOperations", "SQLConnect",
        "SQLDisconnect", "SQLEndTran"}
Call == Api \cup CatalogFn \cup PrivilegeFn
SqlState == {"injected", "01004", "07009", "08003", "24000", "42000", "42S..",
             "HY000", "HY003", "HY010", "HY106", "HYC00"}
SetStatus == {"UNSET", "SUCCESS", "ERROR", "UNUSED"}

\* Every function has a name of its own, and a handle is of one type.
ASSUME NameAssumption ==
  /\ CatalogFn \cap PrivilegeFn = {}
  /\ Api \cap (CatalogFn \cup PrivilegeFn) = {}
  /\ Stmt \cap Conn = {} /\ NoSource \notin Stmt \cup Conn

\* cols: whose columns the metadata describes.  by, n: whose rows
\* result_data_ holds, and how many.
Statement ==
  [prepared : BOOLEAN, executed : BOOLEAN, cursorOpen : BOOLEAN,
   sql : Sql \cup {NoSource}, cols : Source \cup {NoSource},
   by : Source \cup {NoSource}, n : 0 .. MaxRows, row : Position,
   forwardOnly : BOOLEAN, psize : 0 .. MaxSets,
   statusPtr : BOOLEAN, processedPtr : BOOLEAN]

Fresh ==
  [prepared |-> FALSE, executed |-> FALSE, cursorOpen |-> FALSE,
   sql |-> NoSource, cols |-> NoSource, by |-> NoSource, n |-> 0, row |-> -1,
   forwardOnly |-> TRUE, psize |-> 1, statusPtr |-> FALSE,
   processedPtr |-> FALSE]

TypeOK ==
  /\ st \in [Stmt -> Statement]
  /\ connected \in [Conn -> BOOLEAN]
  /\ diag \in [Stmt -> Seq([fn : Call, state : SqlState])]
  /\ app \in [Stmt -> [status : [Paramset -> SetStatus], processed : 0 .. MaxSets]]
  /\ got \in [Stmt -> [by : Source \cup {NoSource}, at : Nat]]
  /\ ret \in [fn : Call, on : Stmt \cup Conn \cup {NoSource}, rc : Code]

Init ==
  /\ st = [s \in Stmt |-> Fresh]
  /\ connected = [c \in Conn |-> TRUE]
  /\ diag = [s \in Stmt |-> <<>>]
  /\ app = [s \in Stmt |-> [status |-> [i \in Paramset |-> "UNSET"], processed |-> 0]]
  /\ got = [s \in Stmt |-> NoRow]
  /\ ret = [fn |-> "", on |-> NoSource, rc |-> "SUCCESS"]

-----------------------------------------------------------------------------
(* Returning from a call, and the diagnostics it leaves.                   *)

Return(fn, h, rc) == ret' = [fn |-> fn, on |-> h, rc |-> rc]

Record(fn, state) == [fn |-> fn, state |-> state]

Copies(k, r) == [i \in 1 .. k |-> r]

\* A call that begins with clear_diagnostics().
Clear(s) == diag' = [diag EXCEPT ![s] = <<>>]
Report(s, k, fn, state) == diag' = [diag EXCEPT ![s] = Copies(k, Record(fn, state))]

\* A call that adds a record to the ones that are already there.
Add(s, fn, state) == /\ Len(diag[s]) < MaxDiag
                     /\ diag' = [diag EXCEPT ![s] = Append(@, Record(fn, state))]

\* Faulty: the diagnostics of an earlier call survive.
SucceedUncleared(s, fn) == UNCHANGED diag /\ Return(fn, s, "SUCCESS")

Succeed(s, fn) == Clear(s) /\ Return(fn, s, "SUCCESS")
Fail(s, fn, state) == Report(s, 1, fn, state) /\ Return(fn, s, "ERROR")

IsConnected(s) == connected[ConnOf[s]]

-----------------------------------------------------------------------------
(* SQLPrepare, SQLExecDirect, SQLExecute                                   *)

\* Faulty: the position of the previous result survives.
WithResultKeepingRow(t, src, n, open) ==
  [t EXCEPT !.executed = TRUE, !.cursorOpen = open,
            !.cols = src, !.by = IF n = 0 THEN NoSource ELSE src, !.n = n]

\* A result arrives: metadata of cols, n rows made by src.  The catalog
\* functions open a cursor over an empty result, too; SQL does not.
WithResult(t, src, n, open) ==
  [t EXCEPT !.executed = TRUE, !.cursorOpen = open, !.row = -1,
            !.cols = src, !.by = IF n = 0 THEN NoSource ELSE src, !.n = n]

Columns(q) == IF q \in Query THEN q ELSE NoSource

\* The numbers of rows that executing q can produce.
RowCounts(q) == IF q \in Query THEN 0 .. MaxRows ELSE {0}

\* execute_query fails for the text, or for the catalog of the moment (42S01
\* table exists, 42S02 no such table, 42S22 no such column).
QueryError(q) == IF q \in Invalid THEN "42000" ELSE "42S.."

AfterPrepare(t, q) ==
  [t EXCEPT !.sql = q, !.prepared = TRUE, !.executed = FALSE, !.cursorOpen = FALSE]

\* The text is stored before it is validated.
SQLPrepare(s, q) ==
  /\ UNCHANGED <<connected, app, got>>
  /\ \/ /\ ~IsConnected(s)
        /\ Fail(s, "SQLPrepare", "08003")
        /\ UNCHANGED st
     \/ /\ IsConnected(s)
        /\ Fail(s, "SQLPrepare", "injected")
        /\ UNCHANGED st
     \/ /\ IsConnected(s)
        /\ q \in Invalid
        /\ st' = [st EXCEPT ![s].sql = q]
        /\ Fail(s, "SQLPrepare", "42000")
     \/ /\ IsConnected(s)
        /\ q \notin Invalid
        /\ st' = [st EXCEPT ![s] = AfterPrepare(@, q)]
        /\ Succeed(s, "SQLPrepare")

AfterExecDirect(t, q, n) ==
  WithResult([t EXCEPT !.sql = q, !.prepared = FALSE], Columns(q), n, n > 0)

SQLExecDirect(s, q) ==
  /\ UNCHANGED <<connected, app, got>>
  /\ \/ /\ ~IsConnected(s)
        /\ Fail(s, "SQLExecDirect", "08003")
        /\ UNCHANGED st
     \/ /\ IsConnected(s)
        /\ Report(s, ErrorCount, "SQLExecDirect", "injected")
        /\ Return("SQLExecDirect", s, "ERROR")
        /\ UNCHANGED st
     \/ /\ IsConnected(s)
        /\ st' = [st EXCEPT ![s].sql = q]
        /\ Fail(s, "SQLExecDirect", QueryError(q))
     \/ /\ IsConnected(s)
        /\ q \notin Invalid
        /\ \E n \in RowCounts(q) :
              st' = [st EXCEPT ![s] = AfterExecDirect(@, q, n)]
        /\ Succeed(s, "SQLExecDirect")

ExecuteRefused(s) ==
  /\ UNCHANGED <<st, app>>
  /\ \/ ~st[s].prepared /\ Fail(s, "SQLExecute", "HY010")
     \/ /\ st[s].prepared
        /\ ~IsConnected(s)
        /\ Fail(s, "SQLExecute", "08003")

CanExecute(s) == st[s].prepared /\ IsConnected(s)

\* What the application finds in its status array and its count of
\* processed sets when the sets 1 .. Len(results) have been handled.
Written(t, a, results) ==
  [status    |-> IF t.statusPtr
                 THEN [i \in Paramset |-> IF i \in DOMAIN results THEN results[i]
                                          ELSE a.status[i]]
                 ELSE a.status,
   processed |-> IF t.processedPtr THEN Len(results) ELSE a.processed]

\* The injected failure fills the status array of an array execution only.
InjectedResults(t) == Copies(t.psize, "ERROR")

ExecuteInjected(s) ==
  /\ CanExecute(s)
  /\ LET t == st[s]  w == Written(t, app[s], InjectedResults(t))
     IN  app' = [app EXCEPT ![s] = IF t.psize > 1 THEN w
                                   ELSE [w EXCEPT !.status = app[s].status]]
  /\ Fail(s, "SQLExecute", "injected")
  /\ UNCHANGED st

\* One parameter set.  On failure the arrays of the application and the
\* previous result stay as they were.
ExecuteOne(s) ==
  /\ CanExecute(s)
  /\ st[s].psize <= 1
  /\ LET q == st[s].sql
     IN  \/ /\ Fail(s, "SQLExecute", QueryError(q))
            /\ UNCHANGED <<st, app>>
         \/ /\ q \notin Invalid
            /\ \E n \in RowCounts(q) :
                  st' = [st EXCEPT ![s] = WithResult(@, Columns(q), n, n > 0)]
            /\ app' = [app EXCEPT ![s] = Written(st[s], @, <<"SUCCESS">>)]
            /\ Succeed(s, "SQLExecute")

Sets(results, status) == {i \in DOMAIN results : results[i] = status}

\* Faulty: all sets failed is reported like some sets failed.
ArrayCodeNeverError(results) ==
  IF Sets(results, "ERROR") = {} THEN "SUCCESS" ELSE "INFO"

ArrayCode(results) ==
  IF Sets(results, "ERROR") = {} THEN "SUCCESS"
  ELSE IF Sets(results, "SUCCESS") = {} THEN "ERROR" ELSE "INFO"

\* An array of parameter sets: the ones the operation array ignores are
\* UNUSED, the others run one after the other whatever the earlier ones did.
\* The columns are those of the first set that succeeded, the rows those of
\* all of them; they replace the previous result even when no set succeeded.
ExecuteArray(s) ==
  LET t == st[s]
  IN  /\ CanExecute(s)
      /\ t.psize > 1
      /\ \E results \in [1 .. t.psize -> {"SUCCESS", "ERROR", "UNUSED"}],
            n \in 0 .. MaxRows :
           LET some == Sets(results, "SUCCESS") # {}
           IN  /\ some => t.sql \notin Invalid
               /\ n \in IF some THEN RowCounts(t.sql) ELSE {0}
               /\ st' = [st EXCEPT ![s] =
                    WithResult(@, IF some THEN Columns(t.sql) ELSE NoSource, n, n > 0)]
               /\ app' = [app EXCEPT ![s] = Written(t, @, results)]
               /\ Report(s, Cardinality(Sets(results, "ERROR")), "SQLExecute",
                         QueryError(t.sql))
               /\ Return("SQLExecute", s, ArrayCode(results))

SQLExecute(s) ==
  /\ UNCHANGED <<connected, got>>
  /\ ExecuteRefused(s) \/ ExecuteInjected(s) \/ ExecuteOne(s) \/ ExecuteArray(s)

-----------------------------------------------------------------------------
(* Catalog functions.  None of them asks whether the connection is open.   *)

SQLCatalog(s, f) ==
  /\ UNCHANGED <<connected, app, got>>
  /\ \/ /\ Fail(s, f, "injected")
        /\ UNCHANGED st
     \/ /\ \E n \in 0 .. MaxRows :
              st' = [st EXCEPT ![s] = WithResult(@, f, n, TRUE)]
        /\ Succeed(s, f)

\* The two privilege functions keep the old diagnostics, never fail and
\* never have rows.
SQLPrivileges(s, f) ==
  /\ st' = [st EXCEPT ![s] = WithResult(@, f, 0, TRUE)]
  /\ Return(f, s, "SUCCESS")
  /\ UNCHANGED <<connected, diag, app, got>>

-----------------------------------------------------------------------------
(* Moving the cursor and reading from it                                   *)

RowAt(t, r) == [by |-> t.by, at |-> r + 1]

OnRow(t) == t.row >= 0 /\ t.row < t.n

\* SQLFetch.  What it tests is executed_, not cursor_open_.
AfterFetch(t) ==
  LET r == t.row + 1
  IN  [t EXCEPT !.row = r, !.cursorOpen = IF r >= t.n THEN FALSE ELSE @]

SQLFetch(s) ==
  /\ UNCHANGED <<connected, app>>
  /\ \/ /\ ~st[s].executed
        /\ Fail(s, "SQLFetch", "24000")
        /\ UNCHANGED <<st, got>>
     \/ /\ st[s].executed
        /\ Fail(s, "SQLFetch", "injected")
        /\ UNCHANGED <<st, got>>
     \/ /\ st[s].executed
        /\ st[s].row < MaxRows + MaxMoves
        /\ st' = [st EXCEPT ![s] = AfterFetch(@)]
        /\ Clear(s)
        /\ IF OnRow(st'[s])
           THEN /\ got' = [got EXCEPT ![s] = RowAt(st'[s], st'[s].row)]
                /\ Return("SQLFetch", s, "SUCCESS")
           ELSE /\ UNCHANGED got
                /\ Return("SQLFetch", s, "NO_DATA")

\* The row that SQLFetchScroll aims at; SQL_FETCH_PRIOR is not among the
\* orientations it knows.
Orientation == {"NEXT", "FIRST", "LAST", "ABSOLUTE", "RELATIVE", "PRIOR"}

Target(t, orientation, k) ==
  CASE orientation = "NEXT"     -> t.row + 1
    [] orientation = "FIRST"    -> 0
    [] orientation = "LAST"     -> t.n - 1
    [] orientation = "ABSOLUTE" -> IF k > 0 THEN k - 1
                                   ELSE IF k < 0 THEN t.n + k ELSE -1
    [] OTHER                    -> t.row + k

\* Faulty: the cursor type is not consulted.
SupportedAnyCursor(t, orientation) == orientation # "PRIOR"

Supported(t, orientation) ==
  /\ orientation # "PRIOR"
  /\ t.forwardOnly => orientation = "NEXT"

\* Faulty: a target outside the rows becomes the position.
AfterScrollUnchecked(t, r) ==
  [t EXCEPT !.row = r, !.cursorOpen = IF r \in 0 .. t.n - 1 THEN TRUE ELSE @]

\* A target outside the rows parks the cursor before the first row or after
\* the last one and leaves cursor_open_ alone.
AfterScroll(t, r) ==
  IF r < 0 THEN [t EXCEPT !.row = -1]
  ELSE IF r >= t.n THEN [t EXCEPT !.row = t.n]
  ELSE [t EXCEPT !.row = r, !.cursorOpen = TRUE]

SQLFetchScroll(s, orientation, k) ==
  /\ UNCHANGED <<connected, app>>
  /\ \/ /\ ~st[s].executed
        /\ Fail(s, "SQLFetchScroll", "24000")
        /\ UNCHANGED <<st, got>>
     \/ /\ st[s].executed
        /\ ~Supported(st[s], orientation)
        /\ Fail(s, "SQLFetchScroll", "HY106")
        /\ UNCHANGED <<st, got>>
     \/ /\ st[s].executed
        /\ Supported(st[s], orientation)
        /\ st' = [st EXCEPT ![s] = AfterScroll(@, Target(@, orientation, k))]
        /\ Clear(s)
        /\ IF OnRow(st'[s])
           THEN /\ got' = [got EXCEPT ![s] = RowAt(st'[s], st'[s].row)]
                /\ Return("SQLFetchScroll", s, "SUCCESS")
           ELSE /\ UNCHANGED got
                /\ Return("SQLFetchScroll", s, "NO_DATA")

\* SQLGetData keeps the diagnostics.  A value that does not fit its buffer
\* adds 01004.
CanGetData(t) == t.executed /\ OnRow(t)

SQLGetData(s) ==
  /\ UNCHANGED <<st, connected, app>>
  /\ \/ /\ ~CanGetData(st[s])
        /\ Add(s, "SQLGetData", "24000")
        /\ Return("SQLGetData", s, "ERROR")
        /\ UNCHANGED got
     \/ /\ CanGetData(st[s])
        /\ Add(s, "SQLGetData", "07009")
        /\ Return("SQLGetData", s, "ERROR")
        /\ UNCHANGED got
     \/ /\ CanGetData(st[s])
        /\ got' = [got EXCEPT ![s] = RowAt(st[s], st[s].row)]
        /\ \/ UNCHANGED diag /\ Return("SQLGetData", s, "SUCCESS")
           \/ Add(s, "SQLGetData", "01004") /\ Return("SQLGetData", s, "INFO")

-----------------------------------------------------------------------------
(* Closing a cursor                                                        *)

\* The statement stays executed, with an empty result.
Closed(t) == [t EXCEPT !.cursorOpen = FALSE, !.row = -1, !.by = NoSource, !.n = 0]

\* Faulty: the rows go before the cursor's state is tested.
SQLCloseCursorUnguarded(s) ==
  /\ UNCHANGED <<connected, app, got>>
  /\ st' = [st EXCEPT ![s] = Closed(@)]
  /\ IF st[s].cursorOpen
     THEN UNCHANGED diag /\ Return("SQLCloseCursor", s, "SUCCESS")
     ELSE Add(s, "SQLCloseCursor", "24000") /\ Return("SQLCloseCursor", s, "ERROR")

SQLCloseCursor(s) ==
  /\ UNCHANGED <<connected, app, got>>
  /\ \/ /\ ~st[s].cursorOpen
        /\ Add(s, "SQLCloseCursor", "24000")
        /\ Return("SQLCloseCursor", s, "ERROR")
        /\ UNCHANGED st
     \/ /\ st[s].cursorOpen
        /\ st' = [st EXCEPT ![s] = Closed(@)]
        /\ Return("SQLCloseCursor", s, "SUCCESS")
        /\ UNCHANGED diag

SQLFreeStmtClose(s) ==
  /\ st' = [st EXCEPT ![s] = Closed(@)]
  /\ Return("SQLFreeStmt", s, "SUCCESS")
  /\ UNCHANGED <<connected, diag, app, got>>

SQLCancel(s) ==
  /\ st' = [st EXCEPT ![s].cursorOpen = FALSE]
  /\ Return("SQLCancel", s, "SUCCESS")
  /\ UNCHANGED <<connected, diag, app, got>>

-----------------------------------------------------------------------------
(* Attributes, and the calls that only report                              *)

\* No lock, no test of the cursor's state, no validation of the value.
SQLSetStmtAttr(s) ==
  /\ \/ /\ "CURSOR_TYPE" \in Attribute
        /\ \E b \in BOOLEAN : st' = [st EXCEPT ![s].forwardOnly = b]
     \/ /\ "PARAMSET_SIZE" \in Attribute
        /\ \E k \in 0 .. MaxSets : st' = [st EXCEPT ![s].psize = k]
     \/ /\ "PARAM_STATUS_PTR" \in Attribute
        /\ \E b \in BOOLEAN : st' = [st EXCEPT ![s].statusPtr = b]
     \/ /\ "PARAMS_PROCESSED_PTR" \in Attribute
        /\ \E b \in BOOLEAN : st' = [st EXCEPT ![s].processedPtr = b]
  /\ Return("SQLSetStmtAttr", s, "SUCCESS")
  /\ UNCHANGED <<connected, diag, app, got>>

\* Calls that change nothing but the diagnostics, and never clear them.
Complaints(t) ==
  {<<"SQLDescribeCol", "07009">>, <<"SQLBindParameter", "07009">>,
   <<"SQLBindParameter", "HY003">>, <<"SQLSetPos", "HYC00">>,
   <<"SQLBulkOperations", "HYC00">>,
   <<"SQLDescribeParam", IF t.prepared THEN "HY000" ELSE "HY010">>}

SQLReport(s) ==
  /\ UNCHANGED <<st, connected, app, got>>
  /\ \/ \E c \in Complaints(st[s]) : /\ c[1] \in ReportFn
                                     /\ Add(s, c[1], c[2])
                                     /\ Return(c[1], s, "ERROR")
     \/ /\ "SQLDescribeCol" \in ReportFn
        /\ st[s].cols # NoSource
        /\ UNCHANGED diag
        /\ Return("SQLDescribeCol", s, "SUCCESS")

-----------------------------------------------------------------------------
(* Calls on the connection, and on the environment (handle NoSource)       *)

\* Faulty: the statements of the whole environment.
StmtsOfAny(c) == Stmt

StmtsOf(c) == {s \in Stmt : ConnOf[s] = c}

ConnReturn(fn, h, rc) == Return(fn, h, rc) /\ UNCHANGED <<diag, app, got>>

SQLConnect(c) ==
  /\ UNCHANGED st
  /\ \/ /\ ConnReturn("SQLConnect", c, "ERROR")   \* open already, or refused
        /\ UNCHANGED connected
     \/ /\ ~connected[c]
        /\ connected' = [connected EXCEPT ![c] = TRUE]
        /\ ConnReturn("SQLConnect", c, "SUCCESS")

\* Faulty: one of the two flags is forgotten.
AfterDisconnectOpen(t)     == [t EXCEPT !.executed = FALSE]
AfterDisconnectExecuted(t) == [t EXCEPT !.cursorOpen = FALSE]

\* The statements survive the connection, still prepared.
AfterDisconnect(t) == [t EXCEPT !.cursorOpen = FALSE, !.executed = FALSE]

SQLDisconnect(c) ==
  \/ /\ ~connected[c]
     /\ ConnReturn("SQLDisconnect", c, "ERROR")
     /\ UNCHANGED <<st, connected>>
  \/ /\ connected[c]
     /\ st' = [s \in Stmt |-> IF s \in StmtsOf(c) THEN AfterDisconnect(st[s]) ELSE st[s]]
     /\ connected' = [connected EXCEPT ![c] = FALSE]
     /\ ConnReturn("SQLDisconnect", c, "SUCCESS")

\* A commit takes cursor_open_ only; a rollback takes the result, too, but
\* not the position.
AfterEndTran(t, kind) ==
  IF kind = "COMMIT" THEN [t EXCEPT !.cursorOpen = FALSE]
  ELSE [t EXCEPT !.cursorOpen = FALSE, !.executed = FALSE,
                 !.by = NoSource, !.n = 0]

SQLEndTran(h, kind) ==
  /\ UNCHANGED connected
  /\ \/ /\ ConnReturn("SQLEndTran", h, "ERROR")   \* injected, or 08003
        /\ UNCHANGED st
     \/ /\ h \in Conn => connected[h]
        /\ st' = [s \in Stmt |-> IF h = NoSource \/ s \in StmtsOf(h)
                                 THEN AfterEndTran(st[s], kind) ELSE st[s]]
        /\ ConnReturn("SQLEndTran", h, "SUCCESS")

-----------------------------------------------------------------------------
StmtCall(s) ==
  \/ \E q \in Sql : SQLPrepare(s, q) \/ SQLExecDirect(s, q)
  \/ SQLExecute(s)
  \/ \E f \in CatalogFn : SQLCatalog(s, f)
  \/ \E f \in PrivilegeFn : SQLPrivileges(s, f)
  \/ SQLFetch(s)
  \/ \E o \in Orientation, k \in -(MaxRows + 1) .. MaxRows + 1 : SQLFetchScroll(s, o, k)
  \/ SQLGetData(s)
  \/ SQLCloseCursor(s)
  \/ SQLFreeStmtClose(s)
  \/ SQLCancel(s)
  \/ SQLSetStmtAttr(s)
  \/ SQLReport(s)

ConnCall(c) == SQLConnect(c) \/ SQLDisconnect(c)

Next == \/ \E s \in Stmt : StmtCall(s)
        \/ \E c \in Conn : ConnCall(c)
        \/ \E h \in Conn \cup {NoSource}, kind \in {"COMMIT", "ROLLBACK"} :
              SQLEndTran(h, kind)

Spec == Init /\ [][Next]_vars

-----------------------------------------------------------------------------
(* Properties                                                              *)

Last(q) == q[Len(q)]

\* What an application can observe of the result of a statement.
ResultOf(t) == <<t.executed, t.cursorOpen, t.cols, t.by, t.n, t.row>>

(* Whenever rows can be fetched, SQLDescribeCol and SQLNumResultCols        *)
(* describe the columns of exactly those rows, although five families of    *)
(* calls replace metadata and rows and four others drop rows only; an open  *)
(* cursor always belongs to an executed statement.                          *)
ResultIsConsistent ==
  \A s \in Stmt : LET t == st[s]
                  IN  /\ t.cursorOpen => t.executed
                      /\ t.executed /\ t.n > 0 => t.cols = t.by
                      /\ t.by = NoSource <=> t.n = 0

(* No result of an SQL text outlives its connection: after SQLDisconnect    *)
(* only the catalog functions, which never ask for a connection, can give   *)
(* a statement a result again.                                              *)
NoSqlResultWhenClosed ==
  \A s \in Stmt : st[s].executed /\ ~IsConnected(s)
                     => st[s].cols \in CatalogFn \cup PrivilegeFn \cup {NoSource}
                        /\ st[s].by \notin Sql

(* A row that SQLGetData would read is the row a fetch of this very result  *)
(* delivered last: no sequence of re-execution, failed execution, close,    *)
(* cancel, rollback and reconnect leaves a position on a row of another     *)
(* result.                                                                  *)
PositionWasFetched ==
  \A s \in Stmt : CanGetData(st[s]) => got[s] = RowAt(st[s], st[s].row)

(* The return code agrees with the diagnostics on the handle: an error or a *)
(* warning put its own record last, and a plain success of a call that      *)
(* clears diagnostics leaves none.                                          *)
Clearing == {"SQLPrepare", "SQLExecDirect", "SQLExecute", "SQLFetch",
             "SQLFetchScroll"} \cup CatalogFn

DiagnosticsMatchCode ==
  ret.on \in Stmt =>
    LET d == diag[ret.on]
    IN  /\ ret.rc \in {"ERROR", "INFO"} => d # <<>> /\ Last(d).fn = ret.fn
        /\ ret.rc \in {"SUCCESS", "NO_DATA"} /\ ret.fn \in Clearing => d = <<>>

(* An array execution that was not refused tells the same story three      *)
(* times: SQL_SUCCESS, SQL_SUCCESS_WITH_INFO or SQL_ERROR as no, some or    *)
(* all of the attempted sets are marked SQL_PARAM_ERROR, with every set     *)
(* marked and counted (MOCK_DRIVER_PLAN.md M5.3), the injected failure      *)
(* included.                                                                *)
ArrayOutcome ==
  ret.fn = "SQLExecute" =>
    LET s == ret.on
        bad  == {i \in 1 .. st[s].psize : app[s].status[i] = "ERROR"}
        good == {i \in 1 .. st[s].psize : app[s].status[i] = "SUCCESS"}
        refused == diag[s] # <<>> /\ Last(diag[s]).state \in {"HY010", "08003"}
    IN  st[s].psize > 1 /\ ~refused =>
          /\ st[s].processedPtr => app[s].processed = st[s].psize
          /\ st[s].statusPtr =>
               /\ \A i \in 1 .. st[s].psize : app[s].status[i] # "UNSET"
               /\ ret.rc = "SUCCESS" <=> bad = {}
               /\ ret.rc = "ERROR"   <=> bad # {} /\ good = {}
               /\ ret.rc = "INFO"    <=> bad # {} /\ good # {}

(* A call that fails leaves every statement's result, metadata and position *)
(* as they were, so the application can go on fetching; the one exception   *)
(* is an array execution in which every set failed.                         *)
FailureKeepsResult ==
  [][ret'.rc = "ERROR" =>
       \A s \in Stmt : \/ ResultOf(st'[s]) = ResultOf(st[s])
                       \/ ret'.fn = "SQLExecute" /\ ret'.on = s /\ st[s].psize > 1]_vars

(* A call reaches the result of a statement only through the statement,     *)
(* its connection or the environment.                                       *)
OthersKeepResult ==
  [][\A s \in Stmt : ResultOf(st'[s]) = ResultOf(st[s])
                     \/ ret'.on \in {s, ConnOf[s], NoSource}]_vars

(* Each statement implements the abstract cursor: an immutable result,      *)
(* ordered delivery when forward-only, and SQLGetData on the current row.   *)
AbsResult(t) == IF t.executed THEN [by |-> t.by, n |-> t.n]
                ELSE [by |-> NoSource, n |-> -1]

AbsPos(t) == IF ~t.executed \/ t.row < 0 THEN 0
             ELSE IF t.row >= t.n THEN t.n + 1 ELSE t.row + 1

Cursor(s) == INSTANCE OdbcCursor
               WITH res <- AbsResult(st[s]), pos <- AbsPos(st[s]),
                    out <- got[s], forwardOnly <- st[s].forwardOnly

CursorStep(s) == Cursor(s)!Next \/ UNCHANGED Cursor(s)!vars

ImplementsCursor == /\ \A s \in Stmt : Cursor(s)!Init
                    /\ [][\A s \in Stmt : CursorStep(s)]_vars
=============================================================================
