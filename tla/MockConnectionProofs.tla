------------------------ MODULE MockConnectionProofs ------------------------
(***************************************************************************)
(* What MockConnection guarantees for every set of connections, tables,    *)
(* rows and configurations: its types, that inserted rows belong to a      *)
(* table, that COUNT agrees with SELECT, which calls can lose a row, that  *)
(* a failed call changes nothing and that the connection limit holds.      *)
(*                                                                         *)
(* The catalog invariant Store is inductive on its own: a table has an     *)
(* entry in inserted_data_ only if it exists and has at least one row.     *)
(***************************************************************************)
EXTENDS MockConnection, FiniteSetTheorems, TLAPS

Store == /\ DOMAIN inserted \subseteq Table
         /\ \A t \in DOMAIN inserted : /\ Exists(t)
                                       /\ inserted[t] \in Seq(Row)
                                       /\ inserted[t] # <<>>

Handles == /\ handles \subseteq Conn
           /\ OpenConnections \subseteq handles
           /\ IsFiniteSet(handles)
           /\ conn \in [Conn -> [connected : BOOLEAN, readOnly : BOOLEAN,
                                 autocommit : BOOLEAN]]

Typed == /\ config \in DriverConfig
         /\ tables \in [Table -> Origin]
         /\ inserted \in [DOMAIN inserted -> Seq(Row)]
         /\ pending \in [Conn -> SUBSET Row]

-----------------------------------------------------------------------------
(* What a call reports                                                     *)

LEMMA Returned ==
  ASSUME NEW fn, NEW h, NEW rc, Return(fn, h, rc)
  PROVE  ret'.fn = fn /\ ret'.rc = rc /\ ret'.op = ""
BY DEF Return

LEMMA DoneReturned ==
  ASSUME NEW fn, NEW c, NEW op, NEW t, NEW n, Done(fn, c, op, t, n)
  PROVE  ret'.fn = fn /\ ret'.rc = "SUCCESS" /\ ret'.op = op /\ ret'.table = t
BY DEF Done

LEMMA RefusedReturned ==
  ASSUME NEW fn, NEW c, NEW op, NEW t, Refused(fn, c, op, t)
  PROVE  ret'.fn = fn /\ ret'.rc = "ERROR" /\ UNCHANGED <<tables, inserted, pending>>
BY DEF Refused

\* A handle call leaves the store alone; a failed one the connections, too.
LEMMA HandleCall ==
  ASSUME NEW c,
         SQLAllocHandle(c) \/ SQLFreeHandle(c) \/ SQLDisconnect(c) \/ SQLSetConnectAttr(c)
  PROVE  /\ UNCHANGED <<config, tables, inserted>>
         /\ ret'.fn # "SQLDriverConnect"
         /\ ret'.rc = "ERROR" => UNCHANGED <<handles, conn>>
<1>1. CASE SQLAllocHandle(c)
  <2>1. UNCHANGED store /\ Return("SQLAllocHandle", c, "SUCCESS")
    BY <1>1 DEF SQLAllocHandle
  <2>2. ret'.fn = "SQLAllocHandle" /\ ret'.rc = "SUCCESS"
    BY <2>1, Returned
  <2> QED BY <2>1, <2>2 DEF store
<1>2. CASE SQLFreeHandle(c)
  <2>1. /\ UNCHANGED <<conn, store>>
        /\ \/ Return("SQLFreeHandle", c, "ERROR") /\ UNCHANGED handles
           \/ Return("SQLFreeHandle", c, "SUCCESS")
    BY <1>2 DEF SQLFreeHandle
  <2>2. /\ ret'.fn = "SQLFreeHandle"
        /\ ret'.rc = "SUCCESS" \/ UNCHANGED handles
    BY <2>1, Returned
  <2> QED BY <2>1, <2>2 DEF store
<1>3. CASE SQLDisconnect(c)
  <2>1. /\ UNCHANGED <<handles, store>>
        /\ \/ Return("SQLDisconnect", c, "ERROR") /\ UNCHANGED conn
           \/ Return("SQLDisconnect", c, "SUCCESS")
    BY <1>3 DEF SQLDisconnect
  <2>2. /\ ret'.fn = "SQLDisconnect"
        /\ ret'.rc = "SUCCESS" \/ UNCHANGED conn
    BY <2>1, Returned
  <2> QED BY <2>1, <2>2 DEF store
<1>4. CASE SQLSetConnectAttr(c)
  <2>1. UNCHANGED store /\ Return("SQLSetConnectAttr", c, "SUCCESS")
    BY <1>4 DEF SQLSetConnectAttr
  <2>2. ret'.fn = "SQLSetConnectAttr" /\ ret'.rc = "SUCCESS"
    BY <2>1, Returned
  <2> QED BY <2>1, <2>2 DEF store
<1> QED BY <1>1, <1>2, <1>3, <1>4

\* A connect that fails leaves the store and the connections alone.
LEMMA ConnectCall ==
  ASSUME NEW c, SQLConnect(c)
  PROVE  /\ ret'.fn # "SQLDriverConnect"
         /\ ret'.rc = "ERROR" => UNCHANGED <<handles, conn, config, tables, inserted>>
<1>1. UNCHANGED handles
  BY DEF SQLConnect
<1>2. \/ Return("SQLConnect", c, "ERROR") /\ UNCHANGED <<conn, store>>
      \/ Return("SQLConnect", c, "SUCCESS")
  BY DEF SQLConnect
<1>3. /\ ret'.fn = "SQLConnect"
      /\ ret'.rc = "SUCCESS" \/ UNCHANGED <<conn, store>>
  BY <1>2, Returned
<1> QED BY <1>1, <1>3 DEF store

LEMMA DriverConnectCall ==
  ASSUME NEW c, NEW cfg, SQLDriverConnect(c, cfg)
  PROVE  /\ UNCHANGED handles
         /\ ret'.rc = "ERROR" => UNCHANGED <<conn, config, tables, inserted>>
         /\ ret'.rc = "SUCCESS" => ~LimitReached(cfg) /\ config' = cfg
<1>1. UNCHANGED handles
  BY DEF SQLDriverConnect
<1>2. \/ Return("SQLDriverConnect", c, "ERROR") /\ UNCHANGED <<conn, store>>
      \/ /\ Return("SQLDriverConnect", c, "SUCCESS")
         /\ ~LimitReached(cfg) /\ config' = cfg
  BY DEF SQLDriverConnect, Install
<1>3. \/ ret'.rc = "ERROR" /\ UNCHANGED <<conn, store>>
      \/ ret'.rc = "SUCCESS" /\ ~LimitReached(cfg) /\ config' = cfg
  BY <1>2, Returned
<1> QED BY <1>1, <1>3 DEF store

-----------------------------------------------------------------------------
(* The operators on the store                                              *)

\* The rows p are the first rows of q.
Kept(p, q) == \A i \in DOMAIN p : i \in DOMAIN q /\ q[i] = p[i]

LEMMA NoRowsDomain == DOMAIN NoRows = {}
BY DEF NoRows

LEMMA LoadedTyped == ASSUME NEW cfg PROVE Loaded(cfg) \in [Table -> Origin]
BY DEF Loaded, Origin

LEMMA InsertedWithStore ==
  ASSUME Store, NEW t \in Table, NEW r \in Row
  PROVE  /\ DOMAIN InsertedWith(t, r) = DOMAIN inserted \cup {t}
         /\ \A u \in DOMAIN inserted \cup {t} :
               /\ InsertedWith(t, r)[u] \in Seq(Row)
               /\ InsertedWith(t, r)[u] # <<>>
               /\ u \in DOMAIN inserted => Kept(inserted[u], InsertedWith(t, r)[u])
<1> DEFINE I == InsertedWith(t, r)
<1>1. DOMAIN I = DOMAIN inserted \cup {t}
  BY DEF InsertedWith
<1>2. ASSUME NEW u \in DOMAIN inserted, u # t
      PROVE  I[u] = inserted[u]
  BY <1>2 DEF InsertedWith
<1>3. CASE t \in DOMAIN inserted
  <2>1. I[t] = Append(inserted[t], r)
    BY <1>3 DEF InsertedWith
  <2>2. inserted[t] \in Seq(Row)
    BY <1>3 DEF Store
  <2>3. \A q \in Seq(Row) : /\ Append(q, r) \in Seq(Row)
                            /\ Append(q, r) # <<>>
                            /\ Kept(q, Append(q, r)) /\ Kept(q, q)
    BY DEF Kept
  <2> QED BY <1>1, <1>2, <1>3, <2>1, <2>2, <2>3 DEF Store
<1>4. CASE t \notin DOMAIN inserted
  <2>1. I[t] = <<r>>
    BY <1>4 DEF InsertedWith
  <2>2. <<r>> \in Seq(Row) /\ <<r>> # <<>>
    OBVIOUS
  <2>3. \A q : Kept(q, q)
    BY DEF Kept
  <2> QED BY <1>1, <1>2, <1>4, <2>1, <2>2, <2>3 DEF Store
<1> QED BY <1>3, <1>4

-----------------------------------------------------------------------------
(* The store invariant                                                     *)

LEMMA StoreKept ==
  ASSUME Store, inserted' = inserted, \A t \in Table : tables'[t] = tables[t] \/ Exists(t)'
  PROVE  Store'
BY DEF Store, Exists

LEMMA ExecuteStore ==
  ASSUME Store, Typed, NEW fn, NEW c \in Conn, NEW t \in Table, Execute(fn, c, t)
  PROVE  Store'
<1>1. ASSUME NEW op, Refused(fn, c, op, t) PROVE Store'
  BY <1>1 DEF Refused, Store, Exists
<1>2. CASE Create(fn, c, t)
  BY <1>1, <1>2 DEF Create, Store, Exists, Typed
<1>3. CASE Drop(fn, c, t)
  BY <1>1, <1>3 DEF Drop, InsertedWithout, Store, Exists, Typed
<1>4. CASE Insert(fn, c, t)
  <2>1. CASE Exists(t) /\ UNCHANGED tables /\ \E r \in Row \ Used : inserted' = InsertedWith(t, r)
    <3>1. PICK r \in Row : inserted' = InsertedWith(t, r)
      BY <2>1
    <3>2. \A u \in DOMAIN inserted' : inserted'[u] \in Seq(Row) /\ inserted'[u] # <<>>
      BY <3>1, InsertedWithStore
    <3>3. DOMAIN inserted' = DOMAIN inserted \cup {t}
      BY <3>1, InsertedWithStore
    <3> QED BY <2>1, <3>2, <3>3 DEF Store, Exists
  <2>2. CASE UNCHANGED <<tables, inserted>>
    BY <2>2 DEF Store, Exists
  <2> QED BY <1>1, <1>4, <2>1, <2>2 DEF Insert
<1>5. CASE Read(fn, c, t)
  BY <1>1, <1>5 DEF Read, Store, Exists
<1> QED BY <1>1, <1>2, <1>3, <1>4, <1>5 DEF Execute

LEMMA InstallStore == ASSUME NEW cfg, Install(cfg) PROVE Store'
BY NoRowsDomain DEF Install, Store

LEMMA NextStore ==
  ASSUME Store, Typed, [Next]_vars
  PROVE  Store'
<1>1. UNCHANGED store => Store'
  BY DEF store, Store, Exists
<1>2. ASSUME NEW c \in Conn,
             SQLAllocHandle(c) \/ SQLFreeHandle(c) \/ SQLDisconnect(c) \/ SQLSetConnectAttr(c)
      PROVE  Store'
  BY <1>1, <1>2 DEF SQLAllocHandle, SQLFreeHandle, SQLDisconnect, SQLSetConnectAttr
<1>3. ASSUME NEW c \in Conn, SQLConnect(c) PROVE Store'
  BY <1>1, <1>3, InstallStore DEF SQLConnect
<1>4. ASSUME NEW c \in Conn, NEW cfg \in Config, SQLDriverConnect(c, cfg) PROVE Store'
  BY <1>1, <1>4, InstallStore DEF SQLDriverConnect
<1>5. ASSUME NEW h \in Conn \cup {Nobody}, NEW kind, SQLEndTran(h, kind) PROVE Store'
  BY <1>5, NoRowsDomain DEF SQLEndTran, AfterEndTran, RolledBack, Store, Exists
<1>6. CASE UNCHANGED vars
  BY <1>1, <1>6 DEF vars
<1> QED BY <1>2, <1>3, <1>4, <1>5, <1>6, ExecuteStore DEF Next

-----------------------------------------------------------------------------
(* Types                                                                   *)

LEMMA InstallTyped ==
  ASSUME NEW cfg \in DriverConfig, Install(cfg)
  PROVE  /\ config' \in DriverConfig
         /\ tables' \in [Table -> Origin]
         /\ inserted' \in [DOMAIN inserted' -> Seq(Row)]
BY LoadedTyped, NoRowsDomain DEF Install, NoRows

LEMMA ExecuteTyped ==
  ASSUME Store, Typed, NEW fn, NEW c \in Conn, NEW t \in Table, Execute(fn, c, t)
  PROVE  Typed'
<1>0. UNCHANGED config
  BY DEF Execute
<1>1. ASSUME NEW op, Refused(fn, c, op, t) PROVE Typed'
  BY <1>0, <1>1 DEF Refused, Typed
<1>2. CASE Create(fn, c, t)
  BY <1>0, <1>1, <1>2 DEF Create, Typed, Origin
<1>3. CASE Drop(fn, c, t)
  BY <1>0, <1>1, <1>3 DEF Drop, InsertedWithout, Typed, Origin
<1>4. CASE Insert(fn, c, t)
  <2>1. ASSUME UNCHANGED tables,
               NEW r \in Row, inserted' = InsertedWith(t, r),
               pending' = [x \in Conn |-> IF x = c /\ ~conn[c].autocommit
                                          THEN pending[x] \cup {r} ELSE pending[x] \ {r}]
        PROVE  Typed'
    <3>1. inserted' \in [DOMAIN inserted' -> Seq(Row)]
      <4>1. \A u \in DOMAIN inserted' : inserted'[u] \in Seq(Row)
        BY <2>1, InsertedWithStore
      <4>2. inserted' = [u \in DOMAIN inserted' |-> inserted'[u]]
        BY <2>1 DEF InsertedWith
      <4> QED BY <4>1, <4>2
    <3>2. pending' \in [Conn -> SUBSET Row]
      BY <2>1 DEF Typed
    <3> QED BY <1>0, <2>1, <3>1, <3>2 DEF Typed
  <2>2. CASE UNCHANGED <<tables, inserted, pending>>
    BY <1>0, <2>2 DEF Typed
  <2> QED BY <1>1, <1>4, <2>1, <2>2 DEF Insert
<1>5. CASE Read(fn, c, t)
  BY <1>0, <1>1, <1>5 DEF Read, Typed
<1> QED BY <1>1, <1>2, <1>3, <1>4, <1>5 DEF Execute

LEMMA NextTyped ==
  ASSUME Store, Typed, [Next]_vars
  PROVE  Typed'
<1>1. UNCHANGED store /\ pending' \in [Conn -> SUBSET Row] => Typed'
  BY DEF store, Typed
<1>2. ASSUME NEW c \in Conn,
             SQLAllocHandle(c) \/ SQLFreeHandle(c) \/ SQLDisconnect(c) \/ SQLSetConnectAttr(c)
      PROVE  Typed'
  <2>1. pending' \in [Conn -> SUBSET Row]
    BY <1>2, ConfigAssumption
       DEF SQLAllocHandle, SQLFreeHandle, SQLDisconnect, SQLSetConnectAttr, Typed
  <2>2. UNCHANGED store
    BY <1>2 DEF SQLAllocHandle, SQLFreeHandle, SQLDisconnect, SQLSetConnectAttr
  <2> QED BY <1>1, <2>1, <2>2
<1>3. ASSUME NEW c \in Conn, SQLConnect(c) PROVE Typed'
  BY <1>3, InstallTyped, ConfigAssumption DEF SQLConnect, Typed, store
<1>4. ASSUME NEW c \in Conn, NEW cfg \in Config, SQLDriverConnect(c, cfg) PROVE Typed'
  BY <1>4, InstallTyped, ConfigAssumption DEF SQLDriverConnect, Typed, store
<1>5. ASSUME NEW h \in Conn \cup {Nobody}, NEW kind, SQLEndTran(h, kind) PROVE Typed'
  BY <1>5, NoRowsDomain DEF SQLEndTran, AfterEndTran, RolledBack, NoRows, Typed
<1>6. CASE UNCHANGED vars
  BY <1>6 DEF vars, store, Typed
<1> QED BY <1>2, <1>3, <1>4, <1>5, <1>6, ExecuteTyped DEF Next

LEMMA ClosedIsNotOpen == ~Closed.connected
BY DEF Closed

LEMMA NextHandles ==
  ASSUME Handles, [Next]_vars
  PROVE  Handles'
<1>1. UNCHANGED <<handles, conn>> => Handles'
  BY DEF Handles, OpenConnections
<1>2. ASSUME NEW c \in Conn, SQLAllocHandle(c) PROVE Handles'
  BY <1>2, FS_AddElement DEF SQLAllocHandle, Handles, OpenConnections, Closed
<1>3. ASSUME NEW c \in Conn, SQLFreeHandle(c) PROVE Handles'
  BY <1>3, FS_RemoveElement DEF SQLFreeHandle, Handles, OpenConnections
<1>4. ASSUME NEW c \in handles, NEW r \in BOOLEAN, NEW a \in BOOLEAN, NEW b \in BOOLEAN,
             UNCHANGED handles,
             conn' = [conn EXCEPT ![c] = [connected |-> b, readOnly |-> r, autocommit |-> a]]
      PROVE  Handles'
  BY <1>4 DEF Handles, OpenConnections
<1>5. ASSUME NEW c \in Conn, SQLConnect(c) \/ SQLDisconnect(c) \/ SQLSetConnectAttr(c)
      PROVE  Handles'
  <2>1. CASE SQLConnect(c)
    BY <2>1 DEF SQLConnect, Handles, OpenConnections
  <2>2. CASE SQLDisconnect(c)
    BY <2>2 DEF SQLDisconnect, Handles, OpenConnections
  <2>3. CASE SQLSetConnectAttr(c)
    BY <2>3 DEF SQLSetConnectAttr, Handles, OpenConnections
  <2> QED BY <1>5, <2>1, <2>2, <2>3
<1>6. ASSUME NEW c \in Conn, NEW cfg \in Config, SQLDriverConnect(c, cfg)
      PROVE  Handles'
  BY <1>1, <1>4, <1>6 DEF SQLDriverConnect, Opened, Handles
<1>7. ASSUME NEW c \in Conn, NEW fn, NEW t, Execute(fn, c, t) PROVE Handles'
  BY <1>1, <1>7 DEF Execute
<1>8. ASSUME NEW h, NEW kind, SQLEndTran(h, kind) PROVE Handles'
  BY <1>1, <1>8 DEF SQLEndTran
<1>9. CASE UNCHANGED vars
  BY <1>1, <1>9 DEF vars
<1> QED BY <1>2, <1>3, <1>5, <1>6, <1>7, <1>8, <1>9 DEF Next

(* The inductive invariant holds in every reachable state.                 *)
THEOREM Invariance == Spec => [](Store /\ Typed /\ Handles)
<1>1. Init => Store /\ Typed /\ Handles
  <2>1. Init => Store /\ Typed
    <3>1. Init => Store
      BY NoRowsDomain DEF Init, Store
    <3>2. NoRows \in [DOMAIN NoRows -> Seq(Row)]
      BY NoRowsDomain DEF NoRows
    <3>3. Init => Typed
      BY <3>2, ConfigAssumption DEF Init, Typed, Origin
    <3> QED BY <3>1, <3>3
  <2>2. Init => Handles
    <3>1. Closed \in [connected : BOOLEAN, readOnly : BOOLEAN, autocommit : BOOLEAN]
      BY DEF Closed
    <3>2. Init => OpenConnections = {}
      BY ClosedIsNotOpen DEF Init, OpenConnections
    <3> QED BY <3>1, <3>2, FS_EmptySet DEF Init, Handles
  <2> QED BY <2>1, <2>2
<1> QED BY <1>1, NextStore, NextTyped, NextHandles, PTL DEF Spec

-----------------------------------------------------------------------------
(* What follows for the rows                                               *)

(* Inserted rows belong to a table of the catalog.                         *)
THEOREM InsertedRowsHaveTables == Spec => []RowsHaveTables
<1>1. Store => RowsHaveTables
  BY DEF Store, RowsHaveTables
<1> QED BY <1>1, Invariance, PTL

(* The two branches of execute_query that count rows agree.                *)
THEOREM CountAgrees == Spec => []CountAgreesWithSelect
<1>1. Store => CountAgreesWithSelect
  BY DEF Store, CountAgreesWithSelect, RowsCounted, RowsSelected
<1> QED BY <1>1, Invariance, PTL

\* The rows of table t stay at their places.
RowsStay(t) == t \in DOMAIN inserted' /\ Kept(inserted[t], inserted'[t])

LEMMA ExecuteKeepsRows ==
  ASSUME Store, NEW fn, NEW c \in Conn, NEW t \in Table, Execute(fn, c, t),
         NEW u \in DOMAIN inserted
  PROVE  RowsStay(u) \/ (u = t /\ Ends("DROP") /\ ret'.table = t)
<1>1. UNCHANGED inserted => RowsStay(u)
  BY DEF RowsStay, Kept
<1>2. ASSUME NEW op, Refused(fn, c, op, t) PROVE RowsStay(u)
  BY <1>1, <1>2 DEF Refused
<1>3. CASE Create(fn, c, t) \/ Read(fn, c, t)
  BY <1>1, <1>2, <1>3 DEF Create, Read
<1>4. CASE Drop(fn, c, t)
  BY <1>2, <1>4, DoneReturned DEF Drop, InsertedWithout, RowsStay, Kept, Ends
<1>5. CASE Insert(fn, c, t)
  <2>1. ASSUME NEW r \in Row, inserted' = InsertedWith(t, r)
        PROVE  RowsStay(u)
    BY <2>1, InsertedWithStore DEF RowsStay
  <2> QED BY <1>1, <1>2, <1>5, <2>1 DEF Insert
<1> QED BY <1>2, <1>3, <1>4, <1>5 DEF Execute

(* Only a rollback, a DROP of the table or a connect loses a row.          *)
THEOREM RowsSurviveTheRest == Spec => RowsSurvive
<1>1. ASSUME Store, [Next]_vars, ~Ends("ROLLBACK"), ~Reloads,
             NEW t \in DOMAIN inserted
      PROVE  RowsStay(t) \/ (Ends("DROP") /\ ret'.table = t)
  <2>1. UNCHANGED inserted => RowsStay(t)
    BY DEF RowsStay, Kept
  <2>2. ASSUME NEW c \in Conn,
               SQLAllocHandle(c) \/ SQLFreeHandle(c) \/ SQLDisconnect(c) \/ SQLSetConnectAttr(c)
        PROVE  UNCHANGED inserted
    BY <2>2, HandleCall
  <2>3. ASSUME NEW c \in Conn, SQLConnect(c) PROVE UNCHANGED inserted
    BY <1>1, <2>3, Returned DEF SQLConnect, Reloads, store
  <2>4. ASSUME NEW c \in Conn, NEW cfg, SQLDriverConnect(c, cfg) PROVE UNCHANGED inserted
    BY <1>1, <2>4, Returned DEF SQLDriverConnect, Reloads, store
  <2>5. ASSUME NEW h, NEW kind, SQLEndTran(h, kind) PROVE UNCHANGED inserted
    BY <1>1, <2>5, DoneReturned DEF SQLEndTran, AfterEndTran, Ends
  <2>6. CASE UNCHANGED vars
    BY <2>1, <2>6 DEF vars, store
  <2> QED BY <1>1, <2>1, <2>2, <2>3, <2>4, <2>5, <2>6, ExecuteKeepsRows DEF Next
<1>2. Store /\ [Next]_vars =>
        [Ends("ROLLBACK") \/ Reloads \/
         \A t \in DOMAIN inserted :
            \/ Ends("DROP") /\ ret'.table = t
            \/ /\ t \in DOMAIN inserted'
               /\ \A i \in DOMAIN inserted[t] : /\ i \in DOMAIN inserted'[t]
                                                /\ inserted'[t][i] = inserted[t][i]]_vars
  BY <1>1 DEF RowsStay, Kept
<1> QED BY <1>2, Invariance, PTL DEF Spec, RowsSurvive

-----------------------------------------------------------------------------
(* What follows for the calls                                              *)

(* A failed call changes nothing that connections share, and no connection. *)
THEOREM FailuresAreHarmless == Spec => FailureChangesNothing
<1> DEFINE Same == UNCHANGED <<handles, conn, config, tables, inserted>>
<1>1. ASSUME [Next]_vars, ret'.rc = "ERROR" PROVE Same
  <2>1. ASSUME NEW c \in Conn,
               SQLAllocHandle(c) \/ SQLFreeHandle(c) \/ SQLDisconnect(c) \/ SQLSetConnectAttr(c)
        PROVE  Same
    BY <1>1, <2>1, HandleCall
  <2>2. ASSUME NEW c \in Conn, SQLConnect(c) PROVE Same
    BY <1>1, <2>2, ConnectCall
  <2>3. ASSUME NEW c \in Conn, NEW cfg, SQLDriverConnect(c, cfg) PROVE Same
    BY <1>1, <2>3, DriverConnectCall
  <2>4. ASSUME NEW h, NEW kind, SQLEndTran(h, kind) PROVE Same
    BY <1>1, <2>4, DoneReturned DEF SQLEndTran
  <2>5. ASSUME NEW c, NEW fn, NEW t, Execute(fn, c, t) PROVE Same
    <3>1. UNCHANGED <<handles, conn, config>>
      BY <2>5 DEF Execute
    <3>2. Create(fn, c, t) \/ Drop(fn, c, t) \/ Insert(fn, c, t) \/ Read(fn, c, t)
            => UNCHANGED <<tables, inserted>>
      BY <1>1, DoneReturned, RefusedReturned DEF Create, Drop, Insert, Read
    <3> QED BY <2>5, <3>1, <3>2, RefusedReturned DEF Execute
  <2>6. CASE UNCHANGED vars
    BY <2>6 DEF vars, store
  <2> QED BY <1>1, <2>1, <2>2, <2>3, <2>4, <2>5, <2>6 DEF Next
<1>2. [Next]_vars => [ret'.rc = "ERROR" => Same]_vars
  BY <1>1
<1> QED BY <1>2, PTL DEF Spec, FailureChangesNothing

LEMMA LimitKept ==
  ASSUME Handles, Handles', Typed, WithinLimit, [Next]_vars
  PROVE  WithinLimit'
<1> DEFINE Limit == ret.fn = "SQLDriverConnect" /\ ret.rc = "SUCCESS"
                       /\ config.maxConnections > 0
                     => Cardinality(OpenConnections) <= config.maxConnections
<1>1. SUFFICES Limit'
  BY DEF WithinLimit, Handles
<1>2. ASSUME NEW c \in Conn, NEW cfg \in Config, SQLDriverConnect(c, cfg) PROVE Limit'
  <2>1. SUFFICES ASSUME ret'.rc = "SUCCESS", cfg.maxConnections > 0,
                        config' = cfg, handles' = handles, ~LimitReached(cfg)
                 PROVE  Cardinality(OpenConnections') <= cfg.maxConnections
    BY <1>2, DriverConnectCall
  <2>2. /\ Cardinality(OpenConnections') <= Cardinality(handles)
        /\ Cardinality(OpenConnections') \in Nat
        /\ Cardinality(handles) \in Nat
    BY <2>1, FS_Subset, FS_CardinalityType DEF Handles
  <2>3. cfg.maxConnections \in Nat
    BY ConfigAssumption DEF DriverConfig
  <2> QED BY <2>1, <2>2, <2>3 DEF LimitReached
<1>3. ASSUME ret'.fn # "SQLDriverConnect" PROVE Limit'
  BY <1>3
<1>4. ASSUME NEW c \in Conn,
             \/ SQLAllocHandle(c) \/ SQLFreeHandle(c) \/ SQLDisconnect(c)
             \/ SQLSetConnectAttr(c) \/ SQLConnect(c)
      PROVE  ret'.fn # "SQLDriverConnect"
  BY <1>4, HandleCall, ConnectCall
<1>5. ASSUME NEW h, NEW kind, SQLEndTran(h, kind) PROVE ret'.fn # "SQLDriverConnect"
  BY <1>5, DoneReturned DEF SQLEndTran
<1>6. ASSUME NEW fn \in ExecFn, NEW c, NEW t, Execute(fn, c, t)
      PROVE  ret'.fn # "SQLDriverConnect"
  <2>1. ret'.fn = fn
    BY <1>6, DoneReturned, RefusedReturned DEF Execute, Create, Drop, Insert, Read
  <2> QED BY <2>1 DEF ExecFn
<1>7. CASE UNCHANGED vars
  BY <1>7 DEF vars, store, WithinLimit, OpenConnections
<1> QED BY <1>2, <1>3, <1>4, <1>5, <1>6, <1>7 DEF Next

(* MaxConnections is never exceeded by a connection it applies to.         *)
THEOREM ConnectionLimit == Spec => []WithinLimit
<1>1. Init => WithinLimit
  <2>1. Init => OpenConnections = {}
    BY ClosedIsNotOpen DEF Init, OpenConnections
  <2>2. ASSUME Init PROVE ret.fn = ""
    <3>1. ret = [fn |-> "", on |-> Nobody, rc |-> "SUCCESS", op |-> "",
                 table |-> Nobody, n |-> 0]
      BY <2>2 DEF Init
    <3> QED BY <3>1
  <2>3. Init => OpenConnections \subseteq handles
    BY <2>1
  <2> QED BY <2>2, <2>3 DEF WithinLimit
<1>2. (Store /\ Typed /\ Handles) /\ (Store /\ Typed /\ Handles)' /\ WithinLimit /\ [Next]_vars
        => WithinLimit'
  BY LimitKept
<1> QED BY <1>1, <1>2, Invariance, PTL DEF Spec

-----------------------------------------------------------------------------
(* Type correctness                                                        *)

Reported == ret \in Returns

LEMMA ReturnTyped ==
  ASSUME NEW fn \in Call, NEW h \in Conn \cup {Nobody}, NEW rc \in {"SUCCESS", "ERROR"},
         Return(fn, h, rc)
  PROVE  ret' \in Returns
BY DEF Return, Returns, Op

LEMMA DoneTyped ==
  ASSUME NEW fn \in Call, NEW h \in Conn \cup {Nobody}, NEW op \in Op,
         NEW t \in Table \cup {Nobody}, NEW n \in Nat,
         Done(fn, h, op, t, n)
  PROVE  ret' \in Returns
BY DEF Done, Returns

LEMMA RefusedTyped ==
  ASSUME NEW fn \in Call, NEW c \in Conn, NEW op \in Op, NEW t \in Table,
         Refused(fn, c, op, t)
  PROVE  ret' \in Returns
BY DEF Refused, Returns

LEMMA CountsTyped ==
  ASSUME Store, Typed, NEW t \in Table
  PROVE  RowsSelected(t) \in Nat /\ RowsCounted(t) \in Nat
<1>1. \A u \in DOMAIN inserted : Len(inserted[u]) \in Nat
  BY DEF Store
<1>2. config.size \in Nat
  BY DEF Typed, DriverConfig
<1> QED BY <1>1, <1>2 DEF RowsSelected, RowsCounted

LEMMA ExecuteReturns ==
  ASSUME Store, Typed, NEW fn \in ExecFn, NEW c \in Conn, NEW t \in Table, Execute(fn, c, t)
  PROVE  ret' \in Returns
<1>1. fn \in Call
  BY DEF Call, Fn
<1>2. ASSUME NEW op \in Op, Refused(fn, c, op, t) PROVE ret' \in Returns
  BY <1>1, <1>2, RefusedTyped
<1>3. ASSUME NEW op \in Op, NEW n \in Nat, Done(fn, c, op, t, n) PROVE ret' \in Returns
  BY <1>1, <1>3, DoneTyped
<1>4. {"", "CREATE", "DROP", "INSERT", "SELECT", "COUNT", "UPDATE"} \subseteq Op
  BY DEF Op
<1>5. CASE Create(fn, c, t) \/ Drop(fn, c, t)
  BY <1>2, <1>3, <1>4, <1>5 DEF Create, Drop
<1>6. CASE Insert(fn, c, t)
  BY <1>2, <1>3, <1>4, <1>6 DEF Insert
<1>7. CASE Read(fn, c, t)
  BY <1>2, <1>3, <1>4, <1>7, CountsTyped DEF Read
<1> QED BY <1>2, <1>4, <1>5, <1>6, <1>7 DEF Execute

LEMMA NextReturns ==
  ASSUME Store, Typed, Reported, [Next]_vars
  PROVE  Reported'
<1> SUFFICES ret' \in Returns
  BY DEF Reported
<1>1. ASSUME NEW fn \in Call, NEW h \in Conn \cup {Nobody},
             Return(fn, h, "SUCCESS") \/ Return(fn, h, "ERROR")
      PROVE  ret' \in Returns
  BY <1>1, ReturnTyped
<1>2. {"SQLAllocHandle", "SQLFreeHandle", "SQLConnect", "SQLDisconnect",
       "SQLSetConnectAttr", "SQLDriverConnect", "SQLEndTran"} \subseteq Call
  BY DEF Call, Fn
<1>3. ASSUME NEW c \in Conn, SQLAllocHandle(c) \/ SQLFreeHandle(c) PROVE ret' \in Returns
  BY <1>1, <1>2, <1>3 DEF SQLAllocHandle, SQLFreeHandle
<1>4. ASSUME NEW c \in Conn, SQLDisconnect(c) \/ SQLSetConnectAttr(c) PROVE ret' \in Returns
  BY <1>1, <1>2, <1>4 DEF SQLDisconnect, SQLSetConnectAttr
<1>5. ASSUME NEW c \in Conn, SQLConnect(c) PROVE ret' \in Returns
  BY <1>1, <1>2, <1>5 DEF SQLConnect
<1>6. ASSUME NEW c \in Conn, NEW cfg, SQLDriverConnect(c, cfg) PROVE ret' \in Returns
  BY <1>1, <1>2, <1>6 DEF SQLDriverConnect
<1>7. ASSUME NEW h \in Conn \cup {Nobody}, NEW kind \in {"COMMIT", "ROLLBACK"},
             SQLEndTran(h, kind)
      PROVE  ret' \in Returns
  <2>1. \/ ret' = [fn |-> "SQLEndTran", on |-> h, rc |-> "ERROR", op |-> kind,
                   table |-> Nobody, n |-> 0]
        \/ Done("SQLEndTran", h, kind, Nobody, 0)
    BY <1>7 DEF SQLEndTran
  <2>2. kind \in Op
    BY DEF Op
  <2>3. [fn |-> "SQLEndTran", on |-> h, rc |-> "ERROR", op |-> kind,
         table |-> Nobody, n |-> 0] \in Returns
    BY <1>2, <2>2 DEF Returns
  <2>4. Done("SQLEndTran", h, kind, Nobody, 0) => ret' \in Returns
    BY <1>2, <2>2, DoneTyped
  <2> QED BY <2>1, <2>3, <2>4
<1>8. CASE UNCHANGED vars
  BY <1>8 DEF vars, Reported
<1> QED BY <1>3, <1>4, <1>5, <1>6, <1>7, <1>8, ExecuteReturns DEF Next

(* Every variable keeps its type.                                          *)
THEOREM TypeCorrect == Spec => []TypeOK
<1>1. [fn |-> "", on |-> Nobody, rc |-> "SUCCESS", op |-> "",
       table |-> Nobody, n |-> 0] \in Returns
  BY DEF Returns, Call, Op
<1>2. Init => Reported
  BY <1>1 DEF Init, Reported
<1>3. Spec => []Reported
  BY <1>2, NextReturns, Invariance, PTL DEF Spec
<1>4. Store /\ Typed /\ Handles /\ Reported => TypeOK
  BY DEF Store, Typed, Handles, Reported, TypeOK
<1> QED BY <1>3, <1>4, Invariance, PTL
=============================================================================
