--------------------------- MODULE MockConnection ---------------------------
(***************************************************************************)
(* The connections of one environment of the mock ODBC driver and what     *)
(* they share: the behaviour configuration (BehaviorController) and the    *)
(* catalog with its inserted rows (MockCatalog), both singletons of the    *)
(* process that every successful connect replaces.                         *)
(*                                                                         *)
(* One action is one call.  Execute is SQLExecDirect, or SQLExecute of a   *)
(* text prepared for the purpose, on some statement of the connection      *)
(* (MockStatement has the statement's side of it).  A row is an identity   *)
(* of Row; WHERE, ORDER BY and projections select among the rows that are  *)
(* counted here and are left out.  Latency, isolation levels and timeouts  *)
(* are left out.  FailureProbability is strictly between 0 and 100: at the *)
(* ends Mode=Random is one of the other modes.                             *)
(***************************************************************************)
EXTENDS Integers, Sequences, FiniteSets

CONSTANTS Conn,      \* connection handles
          Table,     \* table names
          Preset,    \* the tables of the Default catalog
          Row,       \* bound: identities of inserted rows
          Config,    \* what parse_connection_string can return
          Default,   \* the DriverConfig of SQLConnect
          Attribute, \* bound: connection attributes the application sets
          Nobody     \* no table, no handle

ExecFn == {"SQLExecDirect", "SQLExecute"}
Fn     == ExecFn \cup {"SQLDriverConnect", "SQLEndTran"}

DriverConfig ==
  [mode : {"Success", "Failure", "Random", "Partial"}, failOn : SUBSET Fn,
   catalog : {"Default", "Empty"}, size : Nat, maxConnections : Nat,
   transaction : {"Autocommit", "ReadOnly", "ReadWrite", "Manual"}]

ASSUME ConfigAssumption ==
  /\ Config \subseteq DriverConfig
  /\ Default \in DriverConfig
  /\ Default.mode = "Success" /\ Default.catalog = "Default"

ASSUME TableAssumption == Preset \subseteq Table /\ Nobody \notin Table \cup Conn

VARIABLES handles,    \* EnvironmentHandle::connections_
          conn,       \* [Conn -> the fields of ConnectionHandle]
          config,     \* BehaviorController::config_
          tables,     \* MockCatalog::tables_: [Table -> absent or who made it]
          inserted,   \* MockCatalog::inserted_data_, a partial map
          pending,    \* history: [Conn -> rows its open transaction inserted]
          ret         \* the last call, its return code, and the rows it saw

store == <<config, tables, inserted>>
vars  == <<handles, conn, store, pending, ret>>

-----------------------------------------------------------------------------
Closed == [connected |-> FALSE, readOnly |-> FALSE, autocommit |-> TRUE]

Origin == {"absent", "preset", "user"}

Call == Fn \cup {"", "SQLAllocHandle", "SQLFreeHandle", "SQLConnect",
                 "SQLDisconnect", "SQLSetConnectAttr"}

Op == {"", "CREATE", "DROP", "INSERT", "SELECT", "COUNT", "UPDATE", "COMMIT", "ROLLBACK"}

Returns == [fn : Call, on : Conn \cup {Nobody}, rc : {"SUCCESS", "ERROR"},
            op : Op, table : Table \cup {Nobody}, n : Nat]

TypeOK ==
  /\ handles \subseteq Conn
  /\ conn \in [Conn -> [connected : BOOLEAN, readOnly : BOOLEAN, autocommit : BOOLEAN]]
  /\ config \in DriverConfig
  /\ tables \in [Table -> Origin]
  /\ DOMAIN inserted \subseteq Table
  /\ inserted \in [DOMAIN inserted -> Seq(Row)]
  /\ pending \in [Conn -> SUBSET Row]
  /\ ret \in Returns

NoRows == [t \in {} |-> <<>>]

\* MockCatalog::initialize.
Loaded(cfg) == [t \in Table |-> IF cfg.catalog = "Default" /\ t \in Preset
                                THEN "preset" ELSE "absent"]

\* The singletons of a process that has not connected yet: a default
\* configuration and a catalog without tables.
Init ==
  /\ handles = {}
  /\ conn = [c \in Conn |-> Closed]
  /\ config = Default
  /\ tables = [t \in Table |-> "absent"]
  /\ inserted = NoRows
  /\ pending = [c \in Conn |-> {}]
  /\ ret = [fn |-> "", on |-> Nobody, rc |-> "SUCCESS", op |-> "", table |-> Nobody, n |-> 0]

Return(fn, h, rc) ==
  ret' = [fn |-> fn, on |-> h, rc |-> rc, op |-> "", table |-> Nobody, n |-> 0]

\* DriverConfig::should_fail.
MustFail(cfg, fn) == \/ cfg.mode = "Failure"
                     \/ cfg.mode = "Partial" /\ fn \in cfg.failOn
MayFail(cfg, fn)  == MustFail(cfg, fn) \/ cfg.mode = "Random"

-----------------------------------------------------------------------------
(* Handles                                                                 *)

SQLAllocHandle(c) ==
  /\ c \notin handles
  /\ handles' = handles \cup {c}
  /\ conn' = [conn EXCEPT ![c] = Closed]
  /\ pending' = [pending EXCEPT ![c] = {}]
  /\ Return("SQLAllocHandle", c, "SUCCESS")
  /\ UNCHANGED store

\* Refused while connected, or while statements remain (see MockHandles).
SQLFreeHandle(c) ==
  /\ c \in handles
  /\ UNCHANGED <<conn, store, pending>>
  /\ \/ /\ Return("SQLFreeHandle", c, "ERROR")
        /\ UNCHANGED handles
     \/ /\ ~conn[c].connected
        /\ handles' = handles \ {c}
        /\ Return("SQLFreeHandle", c, "SUCCESS")

-----------------------------------------------------------------------------
(* Connecting                                                              *)

\* set_config and initialize, for the whole process.
Install(cfg) ==
  /\ config' = cfg
  /\ tables' = Loaded(cfg)
  /\ inserted' = NoRows

SQLConnect(c) ==
  /\ c \in handles
  /\ UNCHANGED <<handles, pending>>
  /\ \/ /\ conn[c].connected
        /\ Return("SQLConnect", c, "ERROR")
        /\ UNCHANGED <<conn, store>>
     \/ /\ ~conn[c].connected
        /\ Install(Default)
        /\ conn' = [conn EXCEPT ![c].connected = TRUE]
        /\ Return("SQLConnect", c, "SUCCESS")

\* Faulty: the limit is not tested.
LimitReachedNever(cfg) == FALSE

\* The handles are counted, connected or not, the caller's among them.
LimitReached(cfg) == cfg.maxConnections > 0 /\ Cardinality(handles) >= cfg.maxConnections

\* TransactionMode sets an attribute and never resets one.
Opened(cn, cfg) ==
  [connected  |-> TRUE,
   readOnly   |-> cn.readOnly \/ cfg.transaction = "ReadOnly",
   autocommit |-> cn.autocommit /\ cfg.transaction # "Manual"]

\* Faulty: the configuration is installed before the limit is tested.
SQLDriverConnectEager(c, cfg) ==
  /\ c \in handles
  /\ ~conn[c].connected
  /\ ~MustFail(cfg, "SQLDriverConnect")
  /\ Install(cfg)
  /\ IF LimitReached(cfg)
     THEN Return("SQLDriverConnect", c, "ERROR") /\ UNCHANGED conn
     ELSE /\ conn' = [conn EXCEPT ![c] = Opened(@, cfg)]
          /\ Return("SQLDriverConnect", c, "SUCCESS")
  /\ UNCHANGED <<handles, pending>>

SQLDriverConnect(c, cfg) ==
  /\ c \in handles
  /\ UNCHANGED <<handles, pending>>
  /\ \/ /\ conn[c].connected
        /\ Return("SQLDriverConnect", c, "ERROR")
        /\ UNCHANGED <<conn, store>>
     \/ /\ ~conn[c].connected
        /\ MayFail(cfg, "SQLDriverConnect") \/ LimitReached(cfg)
        /\ Return("SQLDriverConnect", c, "ERROR")
        /\ UNCHANGED <<conn, store>>
     \/ /\ ~conn[c].connected
        /\ ~MustFail(cfg, "SQLDriverConnect")
        /\ ~LimitReached(cfg)
        /\ Install(cfg)
        /\ conn' = [conn EXCEPT ![c] = Opened(@, cfg)]
        /\ Return("SQLDriverConnect", c, "SUCCESS")

\* The attributes survive, the shared state too.
SQLDisconnect(c) ==
  /\ c \in handles
  /\ UNCHANGED <<handles, store>>
  /\ \/ /\ ~conn[c].connected
        /\ Return("SQLDisconnect", c, "ERROR")
        /\ UNCHANGED <<conn, pending>>
     \/ /\ conn[c].connected
        /\ conn' = [conn EXCEPT ![c].connected = FALSE]
        /\ pending' = [pending EXCEPT ![c] = {}]
        /\ Return("SQLDisconnect", c, "SUCCESS")

\* Connected or not.
SQLSetConnectAttr(c) ==
  /\ c \in handles
  /\ \E b \in BOOLEAN :
        \/ /\ "ACCESS_MODE" \in Attribute
           /\ conn' = [conn EXCEPT ![c].readOnly = b]
           /\ UNCHANGED pending
        \/ /\ "AUTOCOMMIT" \in Attribute
           /\ conn' = [conn EXCEPT ![c].autocommit = b]
           /\ pending' = [pending EXCEPT ![c] = IF b THEN {} ELSE @]
  /\ Return("SQLSetConnectAttr", c, "SUCCESS")
  /\ UNCHANGED <<handles, store>>

-----------------------------------------------------------------------------
(* Executing                                                               *)

Exists(t) == tables[t] # "absent"

Used == UNION {{inserted[t][i] : i \in DOMAIN inserted[t]} : t \in DOMAIN inserted}

\* SELECT * and SELECT COUNT(*): two branches of execute_query that decide
\* separately whether inserted rows replace the generated ones.
RowsSelected(t) ==
  IF t \in DOMAIN inserted /\ inserted[t] # <<>> THEN Len(inserted[t])
  ELSE IF tables[t] = "user" THEN 0 ELSE config.size

RowsCounted(t) ==
  IF t \in DOMAIN inserted THEN Len(inserted[t])
  ELSE IF tables[t] # "user" THEN config.size ELSE 0

Done(fn, c, op, t, n) ==
  ret' = [fn |-> fn, on |-> c, rc |-> "SUCCESS", op |-> op, table |-> t, n |-> n]

Refused(fn, c, op, t) ==
  /\ ret' = [fn |-> fn, on |-> c, rc |-> "ERROR", op |-> op, table |-> t, n |-> 0]
  /\ UNCHANGED <<tables, inserted, pending>>

InsertedWithout(t) == [u \in DOMAIN inserted \ {t} |-> inserted[u]]

InsertedWith(t, r) ==
  [u \in DOMAIN inserted \cup {t} |->
     IF u # t THEN inserted[u]
     ELSE IF t \in DOMAIN inserted THEN Append(inserted[t], r) ELSE <<r>>]

Create(fn, c, t) ==
  \/ Exists(t) /\ Refused(fn, c, "CREATE", t)
  \/ /\ ~Exists(t)
     /\ tables' = [tables EXCEPT ![t] = "user"]
     /\ Done(fn, c, "CREATE", t, 0)
     /\ UNCHANGED <<inserted, pending>>

\* Faulty: the rows of a dropped table stay.
DropKeepingRows(fn, c, t) ==
  \/ ~Exists(t) /\ Refused(fn, c, "DROP", t)
  \/ /\ Exists(t)
     /\ tables' = [tables EXCEPT ![t] = "absent"]
     /\ Done(fn, c, "DROP", t, 0)
     /\ UNCHANGED <<inserted, pending>>

Drop(fn, c, t) ==
  \/ ~Exists(t) /\ Refused(fn, c, "DROP", t)
  \/ /\ Exists(t)
     /\ tables' = [tables EXCEPT ![t] = "absent"]
     /\ inserted' = InsertedWithout(t)
     /\ Done(fn, c, "DROP", t, 0)
     /\ UNCHANGED pending

\* Neither readOnly nor autocommit is looked at.  Without a VALUES list the
\* one row that is reported is not stored.
Insert(fn, c, t) ==
  \/ ~Exists(t) /\ Refused(fn, c, "INSERT", t)
  \/ /\ Exists(t)
     /\ Done(fn, c, "INSERT", t, 1)
     /\ UNCHANGED <<tables, inserted, pending>>
  \/ /\ Exists(t)
     /\ \E r \in Row \ Used :
           /\ inserted' = InsertedWith(t, r)
           /\ pending' = [x \in Conn |-> IF x = c /\ ~conn[c].autocommit
                                         THEN pending[x] \cup {r} ELSE pending[x] \ {r}]
     /\ Done(fn, c, "INSERT", t, 1)
     /\ UNCHANGED tables

\* UPDATE and DELETE report one affected row and change none.  A SELECT may
\* name a column the table does not have.
Read(fn, c, t) ==
  \/ \E op \in {"SELECT", "COUNT", "UPDATE"} :
        (~Exists(t) \/ op = "SELECT") /\ Refused(fn, c, op, t)
  \/ /\ Exists(t)
     /\ \/ Done(fn, c, "SELECT", t, RowsSelected(t))
        \/ Done(fn, c, "COUNT", t, RowsCounted(t))
        \/ Done(fn, c, "UPDATE", t, 1)
     /\ UNCHANGED <<tables, inserted, pending>>

\* The statement's connection must be open; the configuration that decides
\* about a failure is the one the last connect of the process installed.  A
\* text that is no statement, or nothing prepared, is refused at any time.
Execute(fn, c, t) ==
  /\ c \in handles
  /\ UNCHANGED <<handles, conn, config>>
  /\ \/ Refused(fn, c, "", t)
     \/ /\ conn[c].connected
        /\ ~MustFail(config, fn)
        /\ Create(fn, c, t) \/ Drop(fn, c, t) \/ Insert(fn, c, t) \/ Read(fn, c, t)

-----------------------------------------------------------------------------
(* Ending a transaction, of one connection or of the environment (Nobody)  *)

\* Faulty: the tables keep an entry without rows.
RolledBackEmpty == [t \in DOMAIN inserted |-> <<>>]

\* MockCatalog::clear_inserted_data: whoever inserted them, committed or not.
RolledBack == NoRows

\* Faulty: a commit takes the rows, too.
AfterEndTranAlways(kind) == RolledBack

AfterEndTran(kind) == IF kind = "ROLLBACK" THEN RolledBack ELSE inserted

SQLEndTran(h, kind) ==
  /\ h \in handles \cup {Nobody}
  /\ UNCHANGED <<handles, conn, config, tables>>
  /\ \/ /\ MayFail(config, "SQLEndTran") \/ (h # Nobody /\ ~conn[h].connected)
        /\ ret' = [fn |-> "SQLEndTran", on |-> h, rc |-> "ERROR", op |-> kind,
                   table |-> Nobody, n |-> 0]
        /\ UNCHANGED <<inserted, pending>>
     \/ /\ ~MustFail(config, "SQLEndTran")
        /\ h # Nobody => conn[h].connected
        /\ inserted' = AfterEndTran(kind)
        /\ pending' = [x \in Conn |-> IF h \in {x, Nobody} THEN {} ELSE pending[x]]
        /\ Done("SQLEndTran", h, kind, Nobody, 0)

-----------------------------------------------------------------------------
Next ==
  \/ \E c \in Conn : \/ SQLAllocHandle(c) \/ SQLFreeHandle(c)
                     \/ SQLConnect(c) \/ SQLDisconnect(c)
                     \/ SQLSetConnectAttr(c)
                     \/ \E cfg \in Config : SQLDriverConnect(c, cfg)
                     \/ \E fn \in ExecFn, t \in Table : Execute(fn, c, t)
  \/ \E h \in Conn \cup {Nobody}, kind \in {"COMMIT", "ROLLBACK"} : SQLEndTran(h, kind)

Spec == Init /\ [][Next]_vars

-----------------------------------------------------------------------------
(* Properties                                                              *)

(* Inserted rows belong to a table of the catalog: a table that was dropped *)
(* and created again, or lost to a reconnect, starts without rows.          *)
RowsHaveTables == \A t \in DOMAIN inserted : Exists(t)

(* SELECT COUNT( * ) reports as many rows as SELECT * delivers, in every    *)
(* table and after every history of inserts, rollbacks, drops and connects. *)
CountAgreesWithSelect == \A t \in Table : Exists(t) => RowsCounted(t) = RowsSelected(t)

Ends(op) == ret'.rc = "SUCCESS" /\ ret'.op = op

Reloads == ret'.rc = "SUCCESS" /\ ret'.fn \in {"SQLConnect", "SQLDriverConnect"}

(* A row that was inserted stays, at its place, until a rollback, a DROP of *)
(* its table or a connect succeeds: no failure, no commit, no disconnect    *)
(* and no other statement loses one.                                        *)
RowsSurvive ==
  [][Ends("ROLLBACK") \/ Reloads \/
     \A t \in DOMAIN inserted :
        \/ Ends("DROP") /\ ret'.table = t
        \/ /\ t \in DOMAIN inserted'
           /\ \A i \in DOMAIN inserted[t] : /\ i \in DOMAIN inserted'[t]
                                            /\ inserted'[t][i] = inserted[t][i]]_vars

(* A call that fails leaves the shared configuration, the shared catalog    *)
(* and every connection as they were; a refused SQLDriverConnect does not   *)
(* disturb the connections that are open.                                   *)
FailureChangesNothing ==
  [][ret'.rc = "ERROR" => UNCHANGED <<handles, conn, config, tables, inserted>>]_vars

OpenConnections == {c \in Conn : conn[c].connected}

(* SQLDriverConnect never opens more connections than MaxConnections, and   *)
(* an open connection always has its handle.                                *)
WithinLimit ==
  /\ OpenConnections \subseteq handles
  /\ ret.fn = "SQLDriverConnect" /\ ret.rc = "SUCCESS" /\ config.maxConnections > 0
        => Cardinality(OpenConnections) <= config.maxConnections

-----------------------------------------------------------------------------
(* What the documents say and the code does not do                         *)

(* MOCK_DRIVER_PLAN.md M6.6: pending data are tracked separately, and a     *)
(* rollback discards the rows of the current transaction.                   *)
RollbackKeepsCommitted ==
  [][Ends("ROLLBACK") /\ ret'.on \in Conn =>
       \A t \in DOMAIN inserted : \A i \in DOMAIN inserted[t] :
          \/ inserted[t][i] \in pending[ret'.on]
          \/ t \in DOMAIN inserted' /\ \E j \in DOMAIN inserted'[t] :
                                          inserted'[t][j] = inserted[t][i]]_vars

=============================================================================
