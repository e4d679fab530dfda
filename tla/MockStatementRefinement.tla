---------------------- MODULE MockStatementRefinement ----------------------
(***************************************************************************)
(* Every statement of MockStatement implements the abstract cursor of      *)
(* OdbcCursor.  A lemma per kind of change shows which abstract step it is.*)
(***************************************************************************)
EXTENDS MockStatementProofs

Kept(s) == got'[s] = got[s] /\ st'[s].forwardOnly = st[s].forwardOnly

\* The statement has a new result, or an empty one, before its first row.
LEMMA OpenStep ==
  ASSUME Inv, Inv', NEW s \in Stmt, Kept(s),
         st'[s].executed, st'[s].row = -1
  PROVE  CursorStep(s)
<1>1. /\ st'[s] \in Statement
      /\ st'[s].by = NoSource <=> st'[s].n = 0
  BY DEF Inv, Good
<1>2. AbsResult(st[s])' = [by |-> st'[s].by, n |-> st'[s].n] /\ AbsPos(st[s])' = 0
  BY <1>1 DEF AbsResult, AbsPos
<1>3. AbsResult(st[s])' \in Cursor(s)!ResultSet
  BY <1>1, <1>2, BoundAssumption DEF Cursor!ResultSet, Statement
<1> QED BY <1>2, <1>3 DEF CursorStep, Cursor!Next, Cursor!Open, Kept

LEMMA DiscardStep ==
  ASSUME Inv, NEW s \in Stmt, Kept(s), ~st'[s].executed
  PROVE  CursorStep(s)
BY DEF CursorStep, Cursor!Next, Cursor!Discard, Cursor!NoResult, Kept, AbsResult, AbsPos

LEMMA StutterStep ==
  ASSUME Inv, Inv', NEW s \in Stmt, got'[s] = got[s],
         st'[s].executed = st[s].executed, st'[s].by = st[s].by,
         st'[s].n = st[s].n, st'[s].row = st[s].row
  PROVE  CursorStep(s)
<1>1. st'[s].forwardOnly \in BOOLEAN
  BY DEF Inv, Statement
<1> QED BY <1>1 DEF CursorStep, Cursor!Next, Cursor!SetMode, AbsResult, AbsPos

\* The cursor of an executed statement moves to u; the abstract position p
\* is the one that u stands for.
LEMMA MoveStep ==
  ASSUME Inv, Inv', NEW s \in Stmt, NEW u,
         st[s].executed,
         u.executed = st[s].executed, u.by = st[s].by, u.n = st[s].n,
         u.forwardOnly = st[s].forwardOnly,
         st'[s] = u, got'[s] = Delivered(u, got[s])
  PROVE  Cursor(s)!MoveTo(AbsPos(u))
<1>1. u \in Statement
  BY DEF Inv
<1>2. u.row \in Int /\ u.n \in Nat
  BY <1>1, BoundAssumption DEF Statement, Position
<1>3. AbsResult(st[s]) = [by |-> u.by, n |-> u.n] /\ AbsResult(st[s])' = AbsResult(st[s])
  BY DEF AbsResult
<1>4. AbsResult(st[s]) # Cursor(s)!NoResult
  BY <1>2, <1>3 DEF Cursor!NoResult
<1>5. OnRow(u) <=> AbsPos(u) \in 1 .. u.n
  BY <1>2 DEF OnRow, AbsPos
<1>6. OnRow(u) => RowAt(u, u.row) = Cursor(s)!Row(AbsResult(st[s]), AbsPos(u))
  BY <1>2, <1>3 DEF OnRow, AbsPos, RowAt, Cursor!Row
<1>7. AbsPos(st[s])' = AbsPos(u)
  OBVIOUS
<1> QED BY <1>3, <1>4, <1>5, <1>6, <1>7 DEF Cursor!MoveTo, Delivered

LEMMA FetchStep ==
  ASSUME Inv, Inv', NEW s \in Stmt, SQLFetch(s), ~UNCHANGED <<st, got>>
  PROVE  CursorStep(s)
<1> DEFINE u == AfterFetch(st[s])
<1>1. /\ st[s] \in Statement /\ st[s].executed
      /\ st' = [st EXCEPT ![s] = u]
      /\ IF OnRow(st'[s]) THEN got' = [got EXCEPT ![s] = RowAt(st'[s], st'[s].row)]
         ELSE UNCHANGED got
  BY DEF SQLFetch, Inv
<1>2. st'[s] = u
  BY <1>1 DEF Inv
<1>3. got'[s] = Delivered(u, got[s])
  BY <1>1, <1>2 DEF Delivered, Inv
<1>4. /\ u.executed = st[s].executed /\ u.by = st[s].by /\ u.n = st[s].n
      /\ u.forwardOnly = st[s].forwardOnly /\ u.row = st[s].row + 1
  BY <1>1 DEF AfterFetch, Statement
<1>5. Cursor(s)!MoveTo(AbsPos(u))
  <2> HIDE DEF u
  <2> QED BY <1>1, <1>2, <1>3, <1>4, MoveStep
<1>6. AbsPos(u) = IF AbsPos(st[s]) > AbsResult(st[s]).n THEN AbsPos(st[s])
                  ELSE AbsPos(st[s]) + 1
  <2>1. st[s].row \in Position /\ st[s].n \in Nat
    BY <1>1, BoundAssumption DEF Statement
  <2> HIDE DEF u
  <2> QED BY <1>1, <1>4, <2>1, BoundAssumption DEF AbsPos, AbsResult, Position
<1> QED BY <1>5, <1>6 DEF CursorStep, Cursor!Next, Cursor!Next1

LEMMA FetchScrollStep ==
  ASSUME Inv, Inv', NEW s \in Stmt, NEW o \in Orientation, NEW k \in Int,
         SQLFetchScroll(s, o, k), ~UNCHANGED <<st, got>>
  PROVE  CursorStep(s)
<1> DEFINE r == Target(st[s], o, k)
           u == AfterScroll(st[s], r)
<1>1. /\ st[s] \in Statement /\ st[s].executed /\ Supported(st[s], o)
      /\ st' = [st EXCEPT ![s] = u]
      /\ IF OnRow(st'[s]) THEN got' = [got EXCEPT ![s] = RowAt(st'[s], st'[s].row)]
         ELSE UNCHANGED got
  BY DEF SQLFetchScroll, Inv
<1>2. st'[s] = u
  BY <1>1 DEF Inv
<1>3. got'[s] = Delivered(u, got[s])
  BY <1>1, <1>2 DEF Delivered, Inv
<1>4. /\ u.executed = st[s].executed /\ u.by = st[s].by /\ u.n = st[s].n
      /\ u.forwardOnly = st[s].forwardOnly
      /\ u.row = IF r < 0 THEN -1 ELSE IF r >= st[s].n THEN st[s].n ELSE r
  BY <1>1 DEF AfterScroll, Statement
<1>5. Cursor(s)!MoveTo(AbsPos(u))
  <2> HIDE DEF u
  <2> QED BY <1>1, <1>2, <1>3, <1>4, MoveStep
<1>6. r \in Int /\ st[s].n \in Nat /\ st[s].row \in Position
  BY <1>1, TargetIsInt, BoundAssumption DEF Statement
<1>7. CASE st[s].forwardOnly
  <2>1. r = st[s].row + 1
    BY <1>1, <1>7 DEF Supported, Target
  <2>2. AbsPos(u) = IF AbsPos(st[s]) > AbsResult(st[s]).n THEN AbsPos(st[s])
                    ELSE AbsPos(st[s]) + 1
    <3> HIDE DEF u, r
    <3> QED BY <1>1, <1>4, <1>6, <2>1, BoundAssumption DEF AbsPos, AbsResult, Position
  <2> QED BY <1>5, <2>2 DEF CursorStep, Cursor!Next, Cursor!Next1
<1>8. CASE ~st[s].forwardOnly
  <2>1. AbsPos(u) \in 0 .. AbsResult(st[s]).n + 1
    <3> HIDE DEF u, r
    <3> QED BY <1>1, <1>4, <1>6 DEF AbsPos, AbsResult
  <2> QED BY <1>5, <1>8, <2>1 DEF CursorStep, Cursor!Next, Cursor!Scroll
<1> QED BY <1>7, <1>8

\* SQLGetData serves the row the application has already.
LEMMA GetDataKeepsGot ==
  ASSUME Inv, NEW s \in Stmt, SQLGetData(s)
  PROVE  UNCHANGED got
<1>1. CASE ~UNCHANGED got
  <2>1. CanGetData(st[s]) /\ got' = [got EXCEPT ![s] = RowAt(st[s], st[s].row)]
    BY <1>1 DEF SQLGetData
  <2>2. got[s] = RowAt(st[s], st[s].row)
    BY <2>1, InvFacts DEF Good
  <2> QED BY <1>1, <2>1, <2>2, InvFacts
<1> QED BY <1>1

-----------------------------------------------------------------------------
\* A call on statement s moves the abstract cursor of s by one step.
LEMMA StmtCallStep ==
  ASSUME Inv, Inv', NEW s \in Stmt, StmtCall(s)
  PROVE  CursorStep(s)
<1> USE DEF Inv
<1>1. CASE UNCHANGED <<st, got>>
  BY <1>1, StutterStep
<1>2. ASSUME NEW q \in Sql, SQLPrepare(s, q), ~UNCHANGED <<st, got>>
      PROVE  CursorStep(s)
  <2>1. CASE st' = [st EXCEPT ![s].sql = q]
    <3>1. /\ st'[s].executed = st[s].executed /\ st'[s].by = st[s].by
          /\ st'[s].n = st[s].n /\ st'[s].row = st[s].row /\ got'[s] = got[s]
      BY <1>2, <2>1 DEF Statement, SQLPrepare
    <3> QED BY <3>1, StutterStep
  <2>2. CASE st' = [st EXCEPT ![s] = AfterPrepare(st[s], q)]
    <3>1. ~st'[s].executed /\ Kept(s)
      BY <1>2, <2>2 DEF Statement, AfterPrepare, Kept, SQLPrepare
    <3> QED BY <3>1, DiscardStep
  <2> QED BY <1>2, <2>1, <2>2 DEF SQLPrepare
<1>3. ASSUME NEW t \in Statement, NEW src, NEW n, NEW isOpen,
             st' = [st EXCEPT ![s] = WithResult(t, src, n, isOpen)],
             t.forwardOnly = st[s].forwardOnly, UNCHANGED got
      PROVE  CursorStep(s)
  <2>1. st'[s].executed /\ st'[s].row = -1 /\ Kept(s)
    BY <1>3 DEF WithResult, Statement, Kept
  <2> QED BY <2>1, OpenStep
<1>4. ASSUME NEW q \in Sql, SQLExecDirect(s, q), ~UNCHANGED <<st, got>>
      PROVE  CursorStep(s)
  <2>1. CASE st' = [st EXCEPT ![s].sql = q]
    <3>1. /\ st'[s].executed = st[s].executed /\ st'[s].by = st[s].by
          /\ st'[s].n = st[s].n /\ st'[s].row = st[s].row /\ got'[s] = got[s]
      BY <1>4, <2>1 DEF Statement, SQLExecDirect
    <3> QED BY <3>1, StutterStep
  <2>2. ASSUME NEW n, st' = [st EXCEPT ![s] = AfterExecDirect(st[s], q, n)]
        PROVE  CursorStep(s)
    <3> DEFINE t == [st[s] EXCEPT !.sql = q, !.prepared = FALSE]
    <3>0. st[s] \in Statement
      OBVIOUS
    <3>1. t \in Statement /\ t.forwardOnly = st[s].forwardOnly
      <4> HIDE DEF Inv
      <4> QED BY <3>0 DEF Statement
    <3>2. st' = [st EXCEPT ![s] = WithResult(t, Columns(q), n, n > 0)]
      BY <2>2 DEF AfterExecDirect
    <3> HIDE DEF t
    <3> QED BY <1>3, <1>4, <3>1, <3>2 DEF SQLExecDirect
  <2> QED BY <1>4, <2>1, <2>2 DEF SQLExecDirect
<1>5. ASSUME SQLExecute(s), ~UNCHANGED <<st, got>>
      PROVE  CursorStep(s)
  <2>1. UNCHANGED got
    BY <1>5 DEF SQLExecute
  <2>2. PICK src, n : st' = [st EXCEPT ![s] = WithResult(st[s], src, n, n > 0)]
    <3>1. CASE ExecuteOne(s)
      BY <1>5, <2>1, <3>1 DEF ExecuteOne
    <3>2. CASE ExecuteArray(s)
      <4>1. PICK results \in [1 .. st[s].psize -> {"SUCCESS", "ERROR", "UNUSED"}],
                 n \in 0 .. MaxRows :
              LET some == Sets(results, "SUCCESS") # {}
              IN  st' = [st EXCEPT ![s] =
                    WithResult(@, IF some THEN Columns(st[s].sql) ELSE NoSource, n, n > 0)]
        BY <3>2 DEF ExecuteArray
      <4> QED BY <4>1
    <3> QED BY <1>5, <2>1, <3>1, <3>2 DEF SQLExecute, ExecuteRefused, ExecuteInjected
  <2> QED BY <1>3, <2>1, <2>2
<1>6. ASSUME NEW f, SQLCatalog(s, f) \/ SQLPrivileges(s, f), ~UNCHANGED <<st, got>>
      PROVE  CursorStep(s)
  BY <1>3, <1>6 DEF SQLCatalog, SQLPrivileges
<1>7. ASSUME SQLCloseCursor(s) \/ SQLFreeStmtClose(s) \/ SQLCancel(s),
             ~UNCHANGED <<st, got>>
      PROVE  CursorStep(s)
  <2>1. UNCHANGED got
    BY <1>7 DEF SQLCloseCursor, SQLFreeStmtClose, SQLCancel
  <2>2. CASE st' = [st EXCEPT ![s] = Closed(st[s])]
    <3>1. /\ st'[s].row = -1 /\ Kept(s) /\ st'[s].executed = st[s].executed
      BY <2>1, <2>2 DEF Closed, Statement, Kept
    <3> QED BY <3>1, OpenStep, DiscardStep
  <2>3. CASE st' = [st EXCEPT ![s].cursorOpen = FALSE]
    <3>1. /\ st'[s].executed = st[s].executed /\ st'[s].by = st[s].by
          /\ st'[s].n = st[s].n /\ st'[s].row = st[s].row
      BY <2>3 DEF Statement
    <3> QED BY <2>1, <3>1, StutterStep
  <2> QED BY <1>7, <2>1, <2>2, <2>3 DEF SQLCloseCursor, SQLFreeStmtClose, SQLCancel
<1>8. ASSUME SQLSetStmtAttr(s)
      PROVE  CursorStep(s)
  <2>1. /\ st'[s].executed = st[s].executed /\ st'[s].by = st[s].by
        /\ st'[s].n = st[s].n /\ st'[s].row = st[s].row /\ got'[s] = got[s]
    BY <1>8 DEF SQLSetStmtAttr, Statement
  <2> QED BY <2>1, StutterStep
<1>9. SQLGetData(s) \/ SQLReport(s) => UNCHANGED <<st, got>>
  BY GetDataKeepsGot DEF SQLGetData, SQLReport
<1> QED BY <1>1, <1>2, <1>4, <1>5, <1>6, <1>7, <1>8, <1>9, FetchStep, FetchScrollStep
        DEF StmtCall

LEMMA NextStep ==
  ASSUME Inv, Inv', [Next]_vars, NEW x \in Stmt
  PROVE  CursorStep(x)
<1>1. ASSUME NEW s \in Stmt, StmtCall(s) PROVE CursorStep(x)
  <2>1. CASE x = s
    BY <1>1, <2>1, StmtCallStep
  <2>2. CASE x # s
    BY <1>1, <2>2, OtherStmtStep, StutterStep
  <2> QED BY <2>1, <2>2
<1>2. CASE st'[x] = st[x] /\ got'[x] = got[x]
  BY <1>2, StutterStep
<1>3. ASSUME NEW c \in Conn, ConnCall(c) PROVE CursorStep(x)
  <2>1. UNCHANGED got /\ (st'[x] = st[x] \/ st'[x] = AfterDisconnect(st[x]))
    BY <1>3 DEF ConnCall, SQLConnect, SQLDisconnect, ConnReturn
  <2>2. CASE st'[x] = AfterDisconnect(st[x])
    <3>1. ~st'[x].executed /\ Kept(x)
      BY <2>1, <2>2 DEF AfterDisconnect, Inv, Statement, Kept
    <3> QED BY <3>1, DiscardStep
  <2> QED BY <1>2, <2>1, <2>2
<1>4. ASSUME NEW h \in Conn \cup {NoSource}, NEW kind \in {"COMMIT", "ROLLBACK"},
             SQLEndTran(h, kind)
      PROVE  CursorStep(x)
  <2>1. UNCHANGED got /\ (st'[x] = st[x] \/ st'[x] = AfterEndTran(st[x], kind))
    BY <1>4 DEF SQLEndTran, ConnReturn
  <2>2. CASE st'[x] = AfterEndTran(st[x], kind) /\ kind = "COMMIT"
    <3>1. /\ st'[x].executed = st[x].executed /\ st'[x].by = st[x].by
          /\ st'[x].n = st[x].n /\ st'[x].row = st[x].row
      BY <2>2 DEF AfterEndTran, Inv, Statement
    <3> QED BY <2>1, <3>1, StutterStep
  <2>3. CASE st'[x] = AfterEndTran(st[x], kind) /\ kind # "COMMIT"
    <3>1. ~st'[x].executed /\ Kept(x)
      BY <2>1, <2>3 DEF AfterEndTran, Inv, Statement, Kept
    <3> QED BY <3>1, DiscardStep
  <2> QED BY <1>2, <2>1, <2>2, <2>3
<1>5. CASE UNCHANGED vars
  BY <1>2, <1>5 DEF vars
<1> QED BY <1>1, <1>3, <1>4, <1>5 DEF Next

\* The same for one statement, with the abstract variables as the subscript.
LEMMA BoxStep ==
  ASSUME Inv, Inv', [Next]_vars, NEW s \in Stmt
  PROVE  [Cursor(s)!Next]_(Cursor(s)!vars)
BY NextStep DEF CursorStep

LEMMA InitCursor ==
  ASSUME Init, NEW s \in Stmt
  PROVE  Cursor(s)!Init
BY DEF Init, Fresh, AbsResult, AbsPos, Cursor!Init, Cursor!NoResult, Cursor!NoRow, NoRow

(* The mock driver's statements implement the abstract cursor: immutable    *)
(* results, delivery in order when forward-only, SQLGetData on the current  *)
(* row only.                                                                *)
THEOREM Refinement == Spec => ImplementsCursor
<1>1. Init => \A s \in Stmt : Cursor(s)!Init
  BY InitCursor
<1>2. Inv /\ Inv' /\ [Next]_vars => [\A s \in Stmt : CursorStep(s)]_vars
  BY NextStep
<1> QED BY <1>1, <1>2, Invariance, PTL DEF Spec, ImplementsCursor

(* Read statement by statement: the specification of the abstract cursor.   *)
THEOREM EachStatementIsACursor ==
  ASSUME NEW CONSTANT s \in Stmt
  PROVE  Spec => Cursor(s)!Spec
<1>1. Init => Cursor(s)!Init
  BY InitCursor
<1>2. Inv /\ Inv' /\ [Next]_vars => [Cursor(s)!Next]_(Cursor(s)!vars)
  BY BoxStep
<1> QED BY <1>1, <1>2, Invariance, PTL DEF Spec, Cursor!Spec
=============================================================================
