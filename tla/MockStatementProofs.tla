------------------------ MODULE MockStatementProofs ------------------------
(***************************************************************************)
(* Theorems about MockStatement, for any sets of statements, connections   *)
(* and texts and any values of the bounds.                                 *)
(*                                                                         *)
(* Good(t, open, g) is what is true of one statement record t, given       *)
(* whether its connection is open and the row g its application received   *)
(* last.  A lemma per operator of MockStatement shows that the operator    *)
(* keeps it; the step theorem lifts the lemmas to the calls.               *)
(***************************************************************************)
EXTENDS MockStatement, FiniteSetTheorems, TLAPS

Good(t, open, g) ==
  /\ t \in Statement
  /\ t.cursorOpen => t.executed
  /\ t.executed /\ t.n > 0 => t.cols = t.by
  /\ t.by = NoSource <=> t.n = 0
  /\ t.executed /\ ~open => /\ t.cols \in CatalogFn \cup PrivilegeFn \cup {NoSource}
                            /\ t.by \notin Sql
  /\ CanGetData(t) => g = RowAt(t, t.row)

Inv == /\ st \in [Stmt -> Statement]
       /\ connected \in [Conn -> BOOLEAN]
       /\ got \in [Stmt -> [by : Source \cup {NoSource}, at : Nat]]
       /\ \A s \in Stmt : Good(st[s], IsConnected(s), got[s])

LEMMA Bounds == /\ 0 \in 0 .. MaxRows
                /\ -1 \in Position
                /\ 0 .. MaxRows \subseteq Position
BY BoundAssumption DEF Position

LEMMA GoodFresh == ASSUME NEW open, NEW g
                   PROVE  Good(Fresh, open, g)
<1>1. Fresh \in Statement
  BY BoundAssumption DEF Fresh, Statement, Position
<1> QED BY <1>1 DEF Good, Fresh, CanGetData, OnRow

LEMMA GoodWithResult ==
  ASSUME NEW t, NEW open \in BOOLEAN, NEW g, Good(t, open, g),
         NEW src \in Source \cup {NoSource}, NEW n \in 0 .. MaxRows,
         NEW isOpen \in BOOLEAN,
         n > 0 => src # NoSource,
         src \in Sql => open
  PROVE  Good(WithResult(t, src, n, isOpen), open, g)
<1> DEFINE u == WithResult(t, src, n, isOpen)
<1>0. t \in Statement /\ IF n = 0 THEN TRUE ELSE n \in Nat
  BY DEF Good
<1>1. u \in Statement
  <2> DEFINE b == IF n = 0 THEN NoSource ELSE src
  <2>1. b \in Source \cup {NoSource} /\ -1 \in Position
    BY BoundAssumption DEF Position
  <2> HIDE DEF b
  <2>2. [t EXCEPT !.executed = TRUE, !.cursorOpen = isOpen, !.row = -1,
                  !.cols = src, !.by = b, !.n = n] \in Statement
    BY <1>0, <2>1 DEF Statement
  <2> QED BY <2>2 DEF b, WithResult
<1>2. /\ u.executed = TRUE /\ u.row = -1 /\ u.cols = src /\ u.n = n
      /\ u.by = IF n = 0 THEN NoSource ELSE src
  BY DEF Good, WithResult, Statement
<1>3. ~CanGetData(u)
  BY <1>2 DEF CanGetData, OnRow
<1>4. ~open => src \in CatalogFn \cup PrivilegeFn \cup {NoSource} /\ u.by \notin Sql
  BY <1>2, SourceAssumption DEF Source
<1> QED BY <1>1, <1>2, <1>3, <1>4, BoundAssumption DEF Good

\* A change that touches neither the rows nor the position nor the flags.
LEMMA GoodFrame ==
  ASSUME NEW t, NEW open, NEW g, Good(t, open, g), NEW u \in Statement,
         u.executed = t.executed, u.cursorOpen = t.cursorOpen,
         u.cols = t.cols, u.by = t.by, u.n = t.n, u.row = t.row
  PROVE  Good(u, open, g)
BY DEF Good, CanGetData, OnRow, RowAt

LEMMA GoodText ==
  ASSUME NEW t, NEW open, NEW g, Good(t, open, g), NEW q \in Sql
  PROVE  Good([t EXCEPT !.sql = q], open, g)
<1> DEFINE u == [t EXCEPT !.sql = q]
<1>1. t \in Statement
  BY DEF Good
<1>2. u \in Statement /\ /\ u.executed = t.executed /\ u.cursorOpen = t.cursorOpen
                         /\ u.cols = t.cols /\ u.by = t.by
                         /\ u.n = t.n /\ u.row = t.row
  BY <1>1 DEF Statement
<1> HIDE DEF u
<1>3. Good(u, open, g)
  BY <1>2, GoodFrame
<1> QED BY <1>3 DEF u

\* A statement that is no longer executed has nothing to keep but its type.
LEMMA GoodUnexecuted ==
  ASSUME NEW u \in Statement, NEW open, NEW g,
         ~u.executed, ~u.cursorOpen, u.by = NoSource <=> u.n = 0
  PROVE  Good(u, open, g)
BY DEF Good, CanGetData

LEMMA GoodAfterPrepare ==
  ASSUME NEW t, NEW open, NEW g, Good(t, open, g), NEW q \in Sql
  PROVE  Good(AfterPrepare(t, q), open, g)
<1>1. t \in Statement /\ (t.by = NoSource <=> t.n = 0)
  BY DEF Good
<1>2. AfterPrepare(t, q) \in Statement
  BY <1>1 DEF AfterPrepare, Statement
<1>3. /\ AfterPrepare(t, q).executed = FALSE /\ AfterPrepare(t, q).cursorOpen = FALSE
      /\ AfterPrepare(t, q).by = t.by /\ AfterPrepare(t, q).n = t.n
  BY <1>1 DEF AfterPrepare, Statement
<1> QED BY <1>1, <1>2, <1>3, GoodUnexecuted

LEMMA GoodAfterDisconnect ==
  ASSUME NEW t, NEW open, NEW open2, NEW g, Good(t, open, g)
  PROVE  Good(AfterDisconnect(t), open2, g)
<1>1. t \in Statement /\ (t.by = NoSource <=> t.n = 0)
  BY DEF Good
<1>2. AfterDisconnect(t) \in Statement
  BY <1>1 DEF AfterDisconnect, Statement
<1>3. /\ AfterDisconnect(t).executed = FALSE /\ AfterDisconnect(t).cursorOpen = FALSE
      /\ AfterDisconnect(t).by = t.by /\ AfterDisconnect(t).n = t.n
  BY <1>1 DEF AfterDisconnect, Statement
<1> QED BY <1>1, <1>2, <1>3, GoodUnexecuted

LEMMA GoodCancelled ==
  ASSUME NEW t, NEW open, NEW g, Good(t, open, g)
  PROVE  Good([t EXCEPT !.cursorOpen = FALSE], open, g)
<1>1. t \in Statement
  BY DEF Good
<1> DEFINE u == [t EXCEPT !.cursorOpen = FALSE]
<1>2. u \in Statement
  BY <1>1 DEF Statement
<1>3. /\ u.cursorOpen = FALSE /\ u.executed = t.executed /\ u.cols = t.cols
      /\ u.by = t.by /\ u.n = t.n /\ u.row = t.row
  BY <1>1 DEF Statement
<1> HIDE DEF u
<1>4. Good(u, open, g)
  BY <1>2, <1>3 DEF Good, CanGetData, OnRow, RowAt
<1> QED BY <1>4 DEF u

LEMMA GoodAfterEndTran ==
  ASSUME NEW t, NEW open, NEW g, Good(t, open, g), NEW kind
  PROVE  Good(AfterEndTran(t, kind), open, g)
<1>1. CASE kind = "COMMIT"
  BY <1>1, GoodCancelled DEF AfterEndTran
<1>2. CASE kind # "COMMIT"
  <2> DEFINE u == AfterEndTran(t, kind)
  <2>1. t \in Statement
    BY DEF Good
  <2>2. u \in Statement
    BY <1>2, <2>1, Bounds DEF AfterEndTran, Statement
  <2>3. u.executed = FALSE /\ u.cursorOpen = FALSE /\ u.by = NoSource /\ u.n = 0
    BY <1>2, <2>1 DEF AfterEndTran, Statement
  <2> QED BY <2>2, <2>3, GoodUnexecuted
<1> QED BY <1>1, <1>2

LEMMA GoodClosed ==
  ASSUME NEW t, NEW open, NEW g, Good(t, open, g)
  PROVE  Good(Closed(t), open, g)
<1>1. t \in Statement
  BY DEF Good
<1>2. Closed(t) \in Statement
  BY <1>1, Bounds DEF Closed, Statement
<1>3. /\ Closed(t).cursorOpen = FALSE /\ Closed(t).row = -1 /\ Closed(t).n = 0
      /\ Closed(t).by = NoSource /\ Closed(t).cols = t.cols
      /\ Closed(t).executed = t.executed
  BY <1>1 DEF Closed, Statement
<1>4. ~CanGetData(Closed(t))
  BY <1>3 DEF CanGetData, OnRow
<1> QED BY <1>2, <1>3, <1>4, SourceAssumption DEF Good

-----------------------------------------------------------------------------
\* The row the application holds after the cursor has moved to u.
Delivered(u, g) == IF OnRow(u) THEN RowAt(u, u.row) ELSE g

LEMMA GoodMoved ==
  ASSUME NEW t, NEW open, NEW g, Good(t, open, g), NEW u \in Statement,
         t.executed,
         u.executed = t.executed, u.cols = t.cols, u.by = t.by, u.n = t.n
  PROVE  Good(u, open, Delivered(u, g))
BY DEF Good, CanGetData, Delivered

LEMMA GoodAfterFetch ==
  ASSUME NEW t, NEW open, NEW g, Good(t, open, g),
         t.executed, t.row < MaxRows + MaxMoves
  PROVE  Good(AfterFetch(t), open, Delivered(AfterFetch(t), g))
<1> DEFINE u == AfterFetch(t)
<1>1. t \in Statement /\ t.row \in Position
  BY DEF Good, Statement
<1>2. t.row + 1 \in Position
  BY <1>1, BoundAssumption DEF Position
<1>3. u \in Statement
  BY <1>1, <1>2 DEF AfterFetch, Statement
<1>4. u.executed = t.executed /\ u.cols = t.cols /\ u.by = t.by /\ u.n = t.n
  BY <1>1 DEF AfterFetch, Statement
<1> QED BY <1>3, <1>4, GoodMoved

LEMMA GoodAfterScroll ==
  ASSUME NEW t, NEW open, NEW g, Good(t, open, g), t.executed, NEW r \in Int
  PROVE  Good(AfterScroll(t, r), open, Delivered(AfterScroll(t, r), g))
<1> DEFINE u == AfterScroll(t, r)
<1>1. t \in Statement /\ t.n \in 0 .. MaxRows
  BY DEF Good, Statement
<1>2. u \in Statement
  <2>1. CASE r < 0
    BY <1>1, <2>1, Bounds DEF AfterScroll, Statement
  <2>2. CASE r >= t.n /\ ~(r < 0)
    BY <1>1, <2>2, Bounds DEF AfterScroll, Statement
  <2>3. CASE r < t.n /\ ~(r < 0)
    <3>1. r \in Position
      BY <1>1, <2>3, BoundAssumption DEF Position
    <3>2. u = [t EXCEPT !.row = r, !.cursorOpen = TRUE]
      BY <1>1, <2>3 DEF AfterScroll
    <3> QED BY <1>1, <3>1, <3>2 DEF Statement
  <2> QED BY <1>1, <2>1, <2>2, <2>3
<1>3. u.executed = t.executed /\ u.cols = t.cols /\ u.by = t.by /\ u.n = t.n
  BY <1>1 DEF AfterScroll, Statement
<1> QED BY <1>2, <1>3, GoodMoved

LEMMA TargetIsInt ==
  ASSUME NEW t \in Statement, NEW orientation \in Orientation, NEW k \in Int
  PROVE  Target(t, orientation, k) \in Int
<1>1. t.row \in Int /\ t.n \in Int
  BY BoundAssumption DEF Statement, Position
<1> QED BY <1>1 DEF Target, Orientation

-----------------------------------------------------------------------------
(* From records to states                                                  *)

\* A call on statement s leaves the record u and the received row g.
LEMMA OneStatement ==
  ASSUME Inv, NEW s \in Stmt, NEW u, NEW g,
         Good(u, IsConnected(s), g),
         g \in [by : Source \cup {NoSource}, at : Nat],
         st' = [st EXCEPT ![s] = u], got' = [got EXCEPT ![s] = g],
         UNCHANGED connected
  PROVE  Inv'
<1>1. st' \in [Stmt -> Statement]
  BY DEF Inv, Good
<1>2. got' \in [Stmt -> [by : Source \cup {NoSource}, at : Nat]]
  BY DEF Inv
<1>3. ASSUME NEW x \in Stmt PROVE Good(st[x], IsConnected(x), got[x])'
  <2>1. IsConnected(x)' = IsConnected(x)
    BY DEF IsConnected
  <2>2. CASE x = s
    BY <2>1, <2>2 DEF Inv, Good, CanGetData, OnRow, RowAt
  <2>3. CASE x # s
    <3>1. st'[x] = st[x] /\ got'[x] = got[x]
      BY <2>3 DEF Inv
    <3> QED BY <2>1, <3>1 DEF Inv, Good, CanGetData, OnRow, RowAt
  <2> QED BY <2>2, <2>3
<1> QED BY <1>1, <1>2, <1>3 DEF Inv

\* A call that leaves every statement and received row alone.
LEMMA NoStatement ==
  ASSUME Inv, UNCHANGED <<st, connected, got>>
  PROVE  Inv'
BY DEF Inv, Good, CanGetData, OnRow, RowAt, IsConnected

LEMMA InvFacts ==
  ASSUME Inv, NEW s \in Stmt
  PROVE  /\ Good(st[s], IsConnected(s), got[s])
         /\ st[s] \in Statement
         /\ IsConnected(s) \in BOOLEAN
         /\ got[s] \in [by : Source \cup {NoSource}, at : Nat]
         /\ got = [got EXCEPT ![s] = got[s]]
BY ConnOfAssumption DEF Inv, IsConnected

LEMMA RowsOfText ==
  ASSUME NEW q \in Sql
  PROVE  /\ Columns(q) \in Source \cup {NoSource}
         /\ RowCounts(q) \subseteq 0 .. MaxRows
         /\ \A n \in RowCounts(q) : n > 0 => Columns(q) # NoSource
BY SourceAssumption, BoundAssumption DEF Columns, RowCounts, Source

LEMMA InitInv == Init => Inv
<1> SUFFICES ASSUME Init PROVE Inv
  OBVIOUS
<1>1. NoRow \in [by : Source \cup {NoSource}, at : Nat]
  BY DEF NoRow
<1>2. Fresh \in Statement
  BY GoodFresh DEF Good
<1> QED BY <1>1, <1>2, GoodFresh DEF Init, Inv

-----------------------------------------------------------------------------
(* One lemma per call                                                      *)

LEMMA PrepareInv ==
  ASSUME Inv, NEW s \in Stmt, NEW q \in Sql, SQLPrepare(s, q)
  PROVE  Inv'
<1>1. CASE UNCHANGED st
  BY <1>1, NoStatement DEF SQLPrepare
<1>2. CASE st' = [st EXCEPT ![s].sql = q]
  <2>1. Good([st[s] EXCEPT !.sql = q], IsConnected(s), got[s])
    BY InvFacts, GoodText
  <2>2. st' = [st EXCEPT ![s] = [st[s] EXCEPT !.sql = q]]
    BY <1>2
  <2> QED BY <2>1, <2>2, InvFacts, OneStatement DEF SQLPrepare
<1>3. CASE st' = [st EXCEPT ![s] = AfterPrepare(@, q)]
  <2>1. Good(AfterPrepare(st[s], q), IsConnected(s), got[s])
    BY InvFacts, GoodAfterPrepare
  <2>2. st' = [st EXCEPT ![s] = AfterPrepare(st[s], q)]
    BY <1>3
  <2> QED BY <2>1, <2>2, InvFacts, OneStatement DEF SQLPrepare
<1> QED BY <1>1, <1>2, <1>3 DEF SQLPrepare

LEMMA ExecDirectInv ==
  ASSUME Inv, NEW s \in Stmt, NEW q \in Sql, SQLExecDirect(s, q)
  PROVE  Inv'
<1>1. CASE UNCHANGED st
  BY <1>1, NoStatement DEF SQLExecDirect
<1>2. CASE st' = [st EXCEPT ![s].sql = q]
  <2>1. Good([st[s] EXCEPT !.sql = q], IsConnected(s), got[s])
    BY InvFacts, GoodText
  <2>2. st' = [st EXCEPT ![s] = [st[s] EXCEPT !.sql = q]]
    BY <1>2
  <2> QED BY <2>1, <2>2, InvFacts, OneStatement DEF SQLExecDirect
<1>3. ASSUME IsConnected(s), NEW n \in RowCounts(q),
             st' = [st EXCEPT ![s] = AfterExecDirect(@, q, n)]
      PROVE  Inv'
  <2> DEFINE t == [st[s] EXCEPT !.sql = q, !.prepared = FALSE]
  <2>1. Good(t, IsConnected(s), got[s])
    <3>1. t \in Statement /\ /\ t.executed = st[s].executed
                             /\ t.cursorOpen = st[s].cursorOpen
                             /\ t.cols = st[s].cols /\ t.by = st[s].by
                             /\ t.n = st[s].n /\ t.row = st[s].row
      BY InvFacts DEF Statement
    <3> HIDE DEF t
    <3> QED BY <3>1, InvFacts, GoodFrame
  <2>2. AfterExecDirect(st[s], q, n) = WithResult(t, Columns(q), n, n > 0)
    BY DEF AfterExecDirect
  <2>3. n \in 0 .. MaxRows /\ (n > 0) \in BOOLEAN
    BY RowsOfText
  <2> HIDE DEF t
  <2>4. Good(WithResult(t, Columns(q), n, n > 0), IsConnected(s), got[s])
    BY <1>3, <2>1, <2>3, RowsOfText, InvFacts, GoodWithResult
  <2>5. st' = [st EXCEPT ![s] = AfterExecDirect(st[s], q, n)]
    BY <1>3
  <2> QED BY <2>2, <2>4, <2>5, InvFacts, OneStatement DEF SQLExecDirect
<1> QED BY <1>1, <1>2, <1>3 DEF SQLExecDirect

\* What SQLExecute leaves when it produces a result of the prepared text.
LEMMA ExecutedInv ==
  ASSUME Inv, NEW s \in Stmt, IsConnected(s), NEW n \in 0 .. MaxRows,
         NEW src \in Source \cup {NoSource}, n > 0 => src # NoSource,
         NEW isOpen \in BOOLEAN,
         st' = [st EXCEPT ![s] = WithResult(@, src, n, isOpen)],
         UNCHANGED <<connected, got>>
  PROVE  Inv'
<1>1. Good(WithResult(st[s], src, n, isOpen), IsConnected(s), got[s])
  BY InvFacts, GoodWithResult
<1>2. st' = [st EXCEPT ![s] = WithResult(st[s], src, n, isOpen)]
  OBVIOUS
<1> QED BY <1>1, <1>2, InvFacts, OneStatement

LEMMA ExecuteInv ==
  ASSUME Inv, NEW s \in Stmt, SQLExecute(s)
  PROVE  Inv'
<1>1. CASE UNCHANGED st
  BY <1>1, NoStatement DEF SQLExecute
<1>2. UNCHANGED <<connected, got>>
  BY DEF SQLExecute
<1>3. CASE ExecuteOne(s) /\ st' # st
  <2> DEFINE q == st[s].sql
  <2>1. PICK n \in RowCounts(q) : st' = [st EXCEPT ![s] = WithResult(@, Columns(q), n, n > 0)]
    BY <1>3 DEF ExecuteOne
  <2>2. Columns(q) \in Source \cup {NoSource}
    BY SourceAssumption DEF Columns, Source
  <2>3. n \in 0 .. MaxRows /\ (n > 0 => Columns(q) # NoSource)
    BY SourceAssumption, BoundAssumption DEF RowCounts, Columns
  <2>4. IsConnected(s) /\ (n > 0) \in BOOLEAN
    BY <1>3, <2>3 DEF ExecuteOne, CanExecute
  <2> QED BY <1>2, <2>1, <2>2, <2>3, <2>4, ExecutedInv
<1>4. CASE ExecuteArray(s)
  <2> DEFINE q == st[s].sql
  <2>1. PICK some \in BOOLEAN, n \in 0 .. MaxRows :
          /\ n \in IF some THEN RowCounts(q) ELSE {0}
          /\ st' = [st EXCEPT ![s] =
               WithResult(@, IF some THEN Columns(q) ELSE NoSource, n, n > 0)]
    <3>1. PICK results \in [1 .. st[s].psize -> {"SUCCESS", "ERROR", "UNUSED"}],
               n \in 0 .. MaxRows :
            LET some == Sets(results, "SUCCESS") # {}
            IN  /\ n \in IF some THEN RowCounts(q) ELSE {0}
                /\ st' = [st EXCEPT ![s] =
                     WithResult(@, IF some THEN Columns(q) ELSE NoSource, n, n > 0)]
      BY <1>4 DEF ExecuteArray
    <3>2. (Sets(results, "SUCCESS") # {}) \in BOOLEAN
      OBVIOUS
    <3> QED BY <3>1, <3>2
  <2> DEFINE src == IF some THEN Columns(q) ELSE NoSource
  <2>2. src \in Source \cup {NoSource}
    BY SourceAssumption DEF Columns, Source
  <2>3. n > 0 => src # NoSource
    BY <2>1, SourceAssumption, BoundAssumption DEF RowCounts, Columns
  <2>4. IsConnected(s) /\ (n > 0) \in BOOLEAN
    BY <1>4 DEF ExecuteArray, CanExecute
  <2>5. st' = [st EXCEPT ![s] = WithResult(@, src, n, n > 0)]
    BY <2>1
  <2> HIDE DEF src
  <2> QED BY <1>2, <2>2, <2>3, <2>4, <2>5, ExecutedInv
<1>5. ExecuteRefused(s) \/ ExecuteInjected(s) => UNCHANGED st
  BY DEF ExecuteRefused, ExecuteInjected
<1> QED BY <1>1, <1>3, <1>4, <1>5 DEF SQLExecute

LEMMA CatalogInv ==
  ASSUME Inv, NEW s \in Stmt, NEW f \in CatalogFn \cup PrivilegeFn,
         SQLCatalog(s, f) \/ SQLPrivileges(s, f)
  PROVE  Inv'
<1>1. UNCHANGED <<connected, got>>
  BY DEF SQLCatalog, SQLPrivileges
<1>2. CASE UNCHANGED st
  BY <1>1, <1>2, NoStatement
<1>3. ASSUME NEW n \in 0 .. MaxRows,
             st' = [st EXCEPT ![s] = WithResult(@, f, n, TRUE)]
      PROVE  Inv'
  <2>1. f \in Source \cup {NoSource} /\ f # NoSource /\ f \notin Sql
    BY SourceAssumption DEF Source
  <2>2. Good(WithResult(st[s], f, n, TRUE), IsConnected(s), got[s])
    BY <2>1, InvFacts, GoodWithResult
  <2>3. st' = [st EXCEPT ![s] = WithResult(st[s], f, n, TRUE)]
    BY <1>3
  <2> QED BY <1>1, <2>2, <2>3, InvFacts, OneStatement
<1> QED BY <1>2, <1>3, Bounds DEF SQLCatalog, SQLPrivileges

\* A cursor movement of s to the record u.
LEMMA MovedInv ==
  ASSUME Inv, NEW s \in Stmt, NEW u,
         Good(u, IsConnected(s), Delivered(u, got[s])),
         st' = [st EXCEPT ![s] = u], UNCHANGED connected,
         IF OnRow(st'[s]) THEN got' = [got EXCEPT ![s] = RowAt(st'[s], st'[s].row)]
         ELSE UNCHANGED got
  PROVE  Inv'
<1>1. st'[s] = u
  BY DEF Inv
<1>2. CASE OnRow(u)
  <2>1. u.by \in Source \cup {NoSource} /\ u.row + 1 \in Nat
    BY <1>2, BoundAssumption DEF Good, Statement, OnRow, Position
  <2>2. RowAt(u, u.row) \in [by : Source \cup {NoSource}, at : Nat]
    BY <2>1 DEF RowAt
  <2>3. Good(u, IsConnected(s), RowAt(u, u.row))
    BY <1>2 DEF Delivered
  <2> QED BY <1>1, <1>2, <2>2, <2>3, OneStatement
<1>3. CASE ~OnRow(u)
  <2>1. Good(u, IsConnected(s), got[s])
    BY <1>3 DEF Delivered
  <2>2. got' = [got EXCEPT ![s] = got[s]]
    BY <1>1, <1>3, InvFacts
  <2> QED BY <2>1, <2>2, InvFacts, OneStatement
<1> QED BY <1>2, <1>3

LEMMA FetchInv ==
  ASSUME Inv, NEW s \in Stmt, SQLFetch(s)
  PROVE  Inv'
<1>1. CASE UNCHANGED <<st, got>>
  BY <1>1, NoStatement DEF SQLFetch
<1>2. CASE ~UNCHANGED <<st, got>>
  <2>1. /\ st[s].executed /\ st[s].row < MaxRows + MaxMoves
        /\ st' = [st EXCEPT ![s] = AfterFetch(st[s])]
        /\ UNCHANGED connected
        /\ IF OnRow(st'[s]) THEN got' = [got EXCEPT ![s] = RowAt(st'[s], st'[s].row)]
           ELSE UNCHANGED got
    BY <1>2 DEF SQLFetch
  <2>2. Good(AfterFetch(st[s]), IsConnected(s), Delivered(AfterFetch(st[s]), got[s]))
    BY <2>1, InvFacts, GoodAfterFetch
  <2> QED BY <2>1, <2>2, MovedInv
<1> QED BY <1>1, <1>2

LEMMA FetchScrollInv ==
  ASSUME Inv, NEW s \in Stmt, NEW o \in Orientation, NEW k \in Int,
         SQLFetchScroll(s, o, k)
  PROVE  Inv'
<1>1. CASE UNCHANGED <<st, got>>
  BY <1>1, NoStatement DEF SQLFetchScroll
<1>2. CASE ~UNCHANGED <<st, got>>
  <2> DEFINE u == AfterScroll(st[s], Target(st[s], o, k))
  <2>1. /\ st[s].executed
        /\ st' = [st EXCEPT ![s] = u]
        /\ UNCHANGED connected
        /\ IF OnRow(st'[s]) THEN got' = [got EXCEPT ![s] = RowAt(st'[s], st'[s].row)]
           ELSE UNCHANGED got
    BY <1>2 DEF SQLFetchScroll
  <2>2. Target(st[s], o, k) \in Int
    BY InvFacts, TargetIsInt
  <2>3. Good(u, IsConnected(s), Delivered(u, got[s]))
    BY <2>1, <2>2, InvFacts, GoodAfterScroll
  <2> HIDE DEF u
  <2> QED BY <2>1, <2>3, MovedInv
<1> QED BY <1>1, <1>2

LEMMA GetDataInv ==
  ASSUME Inv, NEW s \in Stmt, SQLGetData(s)
  PROVE  Inv'
<1>1. UNCHANGED <<st, connected>>
  BY DEF SQLGetData
<1>2. CASE UNCHANGED got
  BY <1>1, <1>2, NoStatement
<1>3. CASE ~UNCHANGED got
  <2>1. CanGetData(st[s]) /\ got' = [got EXCEPT ![s] = RowAt(st[s], st[s].row)]
    BY <1>3 DEF SQLGetData
  <2>2. got[s] = RowAt(st[s], st[s].row)
    BY <2>1, InvFacts DEF Good
  <2> QED BY <1>3, <2>1, <2>2, InvFacts
<1> QED BY <1>2, <1>3

LEMMA CloseInv ==
  ASSUME Inv, NEW s \in Stmt,
         SQLCloseCursor(s) \/ SQLFreeStmtClose(s) \/ SQLCancel(s)
  PROVE  Inv'
<1>1. UNCHANGED <<connected, got>>
  BY DEF SQLCloseCursor, SQLFreeStmtClose, SQLCancel
<1>2. CASE UNCHANGED st
  BY <1>1, <1>2, NoStatement
<1>3. CASE st' = [st EXCEPT ![s] = Closed(@)]
  <2>1. Good(Closed(st[s]), IsConnected(s), got[s])
    BY InvFacts, GoodClosed
  <2>2. st' = [st EXCEPT ![s] = Closed(st[s])]
    BY <1>3
  <2> QED BY <1>1, <2>1, <2>2, InvFacts, OneStatement
<1>4. CASE st' = [st EXCEPT ![s].cursorOpen = FALSE]
  <2>1. Good([st[s] EXCEPT !.cursorOpen = FALSE], IsConnected(s), got[s])
    BY InvFacts, GoodCancelled
  <2>2. st' = [st EXCEPT ![s] = [st[s] EXCEPT !.cursorOpen = FALSE]]
    BY <1>4
  <2> QED BY <1>1, <2>1, <2>2, InvFacts, OneStatement
<1> QED BY <1>2, <1>3, <1>4 DEF SQLCloseCursor, SQLFreeStmtClose, SQLCancel

LEMMA SetStmtAttrInv ==
  ASSUME Inv, NEW s \in Stmt, SQLSetStmtAttr(s)
  PROVE  Inv'
<1> DEFINE Same(u) == /\ u \in Statement
                      /\ u.executed = st[s].executed /\ u.cursorOpen = st[s].cursorOpen
                      /\ u.cols = st[s].cols /\ u.by = st[s].by
                      /\ u.n = st[s].n /\ u.row = st[s].row
<1>1. ASSUME NEW u, Same(u), st' = [st EXCEPT ![s] = u]
      PROVE  Inv'
  <2>1. Good(u, IsConnected(s), got[s])
    BY <1>1, InvFacts, GoodFrame
  <2> QED BY <1>1, <2>1, InvFacts, OneStatement DEF SQLSetStmtAttr
<1>2. ASSUME NEW b \in BOOLEAN, st' = [st EXCEPT ![s].forwardOnly = b]
      PROVE  Inv'
  <2>1. Same([st[s] EXCEPT !.forwardOnly = b])
    BY InvFacts DEF Statement
  <2>2. st' = [st EXCEPT ![s] = [st[s] EXCEPT !.forwardOnly = b]]
    BY <1>2
  <2> HIDE DEF Same
  <2> QED BY <1>1, <2>1, <2>2
<1>3. ASSUME NEW k \in 0 .. MaxSets, st' = [st EXCEPT ![s].psize = k]
      PROVE  Inv'
  <2>1. Same([st[s] EXCEPT !.psize = k])
    BY InvFacts DEF Statement
  <2>2. st' = [st EXCEPT ![s] = [st[s] EXCEPT !.psize = k]]
    BY <1>3
  <2> HIDE DEF Same
  <2> QED BY <1>1, <2>1, <2>2
<1>4. ASSUME NEW b \in BOOLEAN, st' = [st EXCEPT ![s].statusPtr = b]
      PROVE  Inv'
  <2>1. Same([st[s] EXCEPT !.statusPtr = b])
    BY InvFacts DEF Statement
  <2>2. st' = [st EXCEPT ![s] = [st[s] EXCEPT !.statusPtr = b]]
    BY <1>4
  <2> HIDE DEF Same
  <2> QED BY <1>1, <2>1, <2>2
<1>5. ASSUME NEW b \in BOOLEAN, st' = [st EXCEPT ![s].processedPtr = b]
      PROVE  Inv'
  <2>1. Same([st[s] EXCEPT !.processedPtr = b])
    BY InvFacts DEF Statement
  <2>2. st' = [st EXCEPT ![s] = [st[s] EXCEPT !.processedPtr = b]]
    BY <1>5
  <2> HIDE DEF Same
  <2> QED BY <1>1, <2>1, <2>2
<1> QED BY <1>2, <1>3, <1>4, <1>5 DEF SQLSetStmtAttr

LEMMA ConnectInv ==
  ASSUME Inv, NEW c \in Conn, SQLConnect(c)
  PROVE  Inv'
<1>1. UNCHANGED <<st, got>> /\ connected' \in [Conn -> BOOLEAN]
  BY DEF SQLConnect, ConnReturn, Inv
<1>2. ASSUME NEW x \in Stmt PROVE Good(st[x], IsConnected(x), got[x])'
  <2>1. IsConnected(x) => IsConnected(x)'
    BY ConnOfAssumption DEF IsConnected, SQLConnect, Inv
  <2> QED BY <1>1, <2>1 DEF Inv, Good, CanGetData, OnRow, RowAt
<1> QED BY <1>1, <1>2 DEF Inv

LEMMA DisconnectInv ==
  ASSUME Inv, NEW c \in Conn, SQLDisconnect(c)
  PROVE  Inv'
<1>1. CASE UNCHANGED <<st, connected>>
  BY <1>1, NoStatement DEF SQLDisconnect, ConnReturn
<1>2. CASE ~UNCHANGED <<st, connected>>
  <2>1. /\ st' = [s \in Stmt |-> IF s \in StmtsOf(c) THEN AfterDisconnect(st[s]) ELSE st[s]]
        /\ connected' = [connected EXCEPT ![c] = FALSE]
        /\ UNCHANGED got
    BY <1>2 DEF SQLDisconnect, ConnReturn
  <2>2. ASSUME NEW x \in Stmt PROVE Good(st[x], IsConnected(x), got[x])'
    <3>1. CASE x \in StmtsOf(c)
      <4>1. Good(AfterDisconnect(st[x]), IsConnected(x)', got[x])
        BY InvFacts, GoodAfterDisconnect
      <4>2. st'[x] = AfterDisconnect(st[x]) /\ got'[x] = got[x]
        BY <2>1, <3>1
      <4> QED BY <4>1, <4>2 DEF Good, CanGetData, OnRow, RowAt
    <3>2. CASE x \notin StmtsOf(c)
      <4>1. st'[x] = st[x] /\ got'[x] = got[x]
        BY <2>1, <3>2
      <4>2. IsConnected(x)' = IsConnected(x)
        BY <2>1, <3>2, ConnOfAssumption DEF StmtsOf, IsConnected, Inv
      <4> QED BY <4>1, <4>2 DEF Inv, Good, CanGetData, OnRow, RowAt
    <3> QED BY <3>1, <3>2
  <2>3. st' \in [Stmt -> Statement]
    BY <2>1, <2>2 DEF Good
  <2> QED BY <2>1, <2>2, <2>3 DEF Inv
<1> QED BY <1>1, <1>2

LEMMA EndTranInv ==
  ASSUME Inv, NEW h, NEW kind, SQLEndTran(h, kind)
  PROVE  Inv'
<1>1. CASE UNCHANGED st
  BY <1>1, NoStatement DEF SQLEndTran, ConnReturn
<1>2. CASE ~UNCHANGED st
  <2>1. /\ st' = [s \in Stmt |-> IF h = NoSource \/ s \in StmtsOf(h)
                                 THEN AfterEndTran(st[s], kind) ELSE st[s]]
        /\ UNCHANGED <<got, connected>>
    BY <1>2 DEF SQLEndTran, ConnReturn
  <2>2. ASSUME NEW x \in Stmt PROVE Good(st[x], IsConnected(x), got[x])'
    <3>1. IsConnected(x)' = IsConnected(x) /\ got'[x] = got[x]
      BY <2>1 DEF IsConnected
    <3>2. Good(AfterEndTran(st[x], kind), IsConnected(x), got[x])
      BY InvFacts, GoodAfterEndTran
    <3>3. st'[x] = AfterEndTran(st[x], kind) \/ st'[x] = st[x]
      BY <2>1
    <3> QED BY <3>1, <3>2, <3>3, InvFacts DEF Good, CanGetData, OnRow, RowAt
  <2>3. st' \in [Stmt -> Statement]
    BY <2>1, <2>2 DEF Good
  <2> QED BY <2>1, <2>2, <2>3 DEF Inv
<1> QED BY <1>1, <1>2

LEMMA NextInv == Inv /\ [Next]_vars => Inv'
<1> SUFFICES ASSUME Inv, [Next]_vars PROVE Inv'
  OBVIOUS
<1>1. ASSUME NEW s \in Stmt, StmtCall(s) PROVE Inv'
  <2>1. ASSUME NEW q \in Sql, SQLPrepare(s, q) PROVE Inv'
    BY <2>1, PrepareInv
  <2>2. ASSUME NEW q \in Sql, SQLExecDirect(s, q) PROVE Inv'
    BY <2>2, ExecDirectInv
  <2>3. CASE SQLExecute(s)
    BY <2>3, ExecuteInv
  <2>4. ASSUME NEW f \in CatalogFn \cup PrivilegeFn,
               SQLCatalog(s, f) \/ SQLPrivileges(s, f)
        PROVE  Inv'
    BY <2>4, CatalogInv
  <2>5. CASE SQLFetch(s)
    BY <2>5, FetchInv
  <2>6. ASSUME NEW o \in Orientation, NEW k \in -(MaxRows + 1) .. MaxRows + 1,
               SQLFetchScroll(s, o, k)
        PROVE  Inv'
    BY <2>6, FetchScrollInv
  <2>7. CASE SQLGetData(s)
    BY <2>7, GetDataInv
  <2>8. CASE SQLCloseCursor(s) \/ SQLFreeStmtClose(s) \/ SQLCancel(s)
    BY <2>8, CloseInv
  <2>9. CASE SQLSetStmtAttr(s)
    BY <2>9, SetStmtAttrInv
  <2>10. CASE SQLReport(s)
    BY <2>10, NoStatement DEF SQLReport
  <2> QED BY <1>1, <2>1, <2>2, <2>3, <2>4, <2>5, <2>6, <2>7, <2>8, <2>9, <2>10
          DEF StmtCall
<1>2. ASSUME NEW c \in Conn, ConnCall(c) PROVE Inv'
  BY <1>2, ConnectInv, DisconnectInv DEF ConnCall
<1>3. ASSUME NEW h \in Conn \cup {NoSource}, NEW kind \in {"COMMIT", "ROLLBACK"},
             SQLEndTran(h, kind)
      PROVE  Inv'
  BY <1>3, EndTranInv
<1>4. CASE UNCHANGED vars
  BY <1>4, NoStatement DEF vars
<1> QED BY <1>1, <1>2, <1>3, <1>4 DEF Next

(* The inductive invariant holds in every reachable state.                 *)
THEOREM Invariance == Spec => []Inv
BY InitInv, NextInv, PTL DEF Spec

(* The metadata of a statement describe the rows it can fetch.              *)
THEOREM ResultConsistency == Spec => []ResultIsConsistent
<1>1. Inv => ResultIsConsistent
  BY DEF Inv, Good, ResultIsConsistent
<1> QED BY <1>1, Invariance, PTL

(* No rows of an SQL text can be fetched over a closed connection.          *)
THEOREM ClosedConnectionHasNoSqlResult == Spec => []NoSqlResultWhenClosed
<1>1. Inv => NoSqlResultWhenClosed
  BY DEF Inv, Good, NoSqlResultWhenClosed
<1> QED BY <1>1, Invariance, PTL

(* SQLGetData can only serve the row that was fetched last.                 *)
THEOREM GetDataServesTheFetchedRow == Spec => []PositionWasFetched
<1>1. Inv => PositionWasFetched
  BY DEF Inv, Good, PositionWasFetched
<1> QED BY <1>1, Invariance, PTL

-----------------------------------------------------------------------------
(* What one call may change                                                *)

\* A call on another statement leaves x alone.
LEMMA OtherStmtStep ==
  ASSUME Inv, NEW s \in Stmt, StmtCall(s), NEW x \in Stmt, x # s
  PROVE  st'[x] = st[x] /\ got'[x] = got[x]
<1>1. /\ \/ UNCHANGED st
         \/ \E u : st' = [st EXCEPT ![s] = u]
      /\ \/ UNCHANGED got
         \/ \E g : got' = [got EXCEPT ![s] = g]
  <2>1. ASSUME NEW q \in Sql, SQLPrepare(s, q) \/ SQLExecDirect(s, q)
        PROVE  UNCHANGED got /\ (UNCHANGED st \/ \E u : st' = [st EXCEPT ![s] = u])
    BY <2>1 DEF SQLPrepare, SQLExecDirect
  <2>2. ASSUME SQLExecute(s)
        PROVE  UNCHANGED got /\ (UNCHANGED st \/ \E u : st' = [st EXCEPT ![s] = u])
    <3>1. ExecuteOne(s) => UNCHANGED st \/ \E u : st' = [st EXCEPT ![s] = u]
      BY DEF ExecuteOne
    <3>2. ExecuteArray(s) => \E u : st' = [st EXCEPT ![s] = u]
      BY DEF ExecuteArray
    <3> QED BY <2>2, <3>1, <3>2 DEF SQLExecute, ExecuteRefused, ExecuteInjected
  <2>3. ASSUME NEW f, SQLCatalog(s, f) \/ SQLPrivileges(s, f)
        PROVE  UNCHANGED got /\ (UNCHANGED st \/ \E u : st' = [st EXCEPT ![s] = u])
    BY <2>3 DEF SQLCatalog, SQLPrivileges
  <2>4. CASE SQLFetch(s)
    BY <2>4 DEF SQLFetch
  <2>5. ASSUME NEW o, NEW k, SQLFetchScroll(s, o, k)
        PROVE  /\ UNCHANGED st \/ \E u : st' = [st EXCEPT ![s] = u]
               /\ UNCHANGED got \/ \E g : got' = [got EXCEPT ![s] = g]
    BY <2>5 DEF SQLFetchScroll
  <2>6. CASE SQLGetData(s) \/ SQLReport(s)
    BY <2>6 DEF SQLGetData, SQLReport
  <2>7. CASE SQLCloseCursor(s) \/ SQLFreeStmtClose(s) \/ SQLCancel(s)
    BY <2>7 DEF SQLCloseCursor, SQLFreeStmtClose, SQLCancel
  <2>8. CASE SQLSetStmtAttr(s)
    BY <2>8 DEF SQLSetStmtAttr
  <2> QED BY <2>1, <2>2, <2>3, <2>4, <2>5, <2>6, <2>7, <2>8 DEF StmtCall
<1> QED BY <1>1 DEF Inv

\* The handle a call on a statement reports is the statement.
LEMMA CallOn ==
  ASSUME NEW s \in Stmt, StmtCall(s)
  PROVE  ret'.on = s
<1>1. \A fn, rc : Return(fn, s, rc) => ret'.on = s
  BY DEF Return
<1>2. ASSUME NEW q \in Sql, SQLPrepare(s, q) \/ SQLExecDirect(s, q)
      PROVE  ret'.on = s
  BY <1>1, <1>2 DEF SQLPrepare, SQLExecDirect, Succeed, Fail
<1>3. CASE SQLExecute(s)
  <2>1. ExecuteRefused(s) \/ ExecuteInjected(s) \/ ExecuteOne(s) => ret'.on = s
    BY <1>1 DEF ExecuteRefused, ExecuteInjected, ExecuteOne, Succeed, Fail
  <2>2. ExecuteArray(s) => ret'.on = s
    BY <1>1 DEF ExecuteArray
  <2> QED BY <1>3, <2>1, <2>2 DEF SQLExecute
<1>4. ASSUME NEW f, SQLCatalog(s, f) \/ SQLPrivileges(s, f)
      PROVE  ret'.on = s
  BY <1>1, <1>4 DEF SQLCatalog, SQLPrivileges, Succeed, Fail
<1>5. CASE SQLFetch(s)
  BY <1>1, <1>5 DEF SQLFetch, Fail
<1>6. ASSUME NEW o, NEW k, SQLFetchScroll(s, o, k)
      PROVE  ret'.on = s
  BY <1>1, <1>6 DEF SQLFetchScroll, Fail
<1>7. CASE SQLGetData(s) \/ SQLReport(s)
  BY <1>1, <1>7 DEF SQLGetData, SQLReport
<1>8. CASE SQLCloseCursor(s) \/ SQLFreeStmtClose(s) \/ SQLCancel(s) \/ SQLSetStmtAttr(s)
  BY <1>1, <1>8 DEF SQLCloseCursor, SQLFreeStmtClose, SQLCancel, SQLSetStmtAttr
<1> QED BY <1>2, <1>3, <1>4, <1>5, <1>6, <1>7, <1>8 DEF StmtCall

(* A call reaches only its own statement, the statements of its connection  *)
(* or, made on the environment, all of them.                                *)
THEOREM CallsAreConfined == Spec => OthersKeepResult
<1>1. Inv /\ [Next]_vars =>
        [\A s \in Stmt : ResultOf(st'[s]) = ResultOf(st[s])
                         \/ ret'.on \in {s, ConnOf[s], NoSource}]_vars
  <2> SUFFICES ASSUME Inv, Next, NEW x \in Stmt
               PROVE  ResultOf(st'[x]) = ResultOf(st[x])
                      \/ ret'.on \in {x, ConnOf[x], NoSource}
    OBVIOUS
  <2>1. ASSUME NEW s \in Stmt, StmtCall(s)
        PROVE  st'[x] = st[x] \/ ret'.on = x
    BY <2>1, CallOn, OtherStmtStep
  <2>2. ASSUME NEW c \in Conn, ConnCall(c)
        PROVE  st'[x] = st[x] \/ ret'.on = ConnOf[x]
    BY <2>2 DEF ConnCall, SQLConnect, SQLDisconnect, ConnReturn, Return, StmtsOf
  <2>3. ASSUME NEW h \in Conn \cup {NoSource}, NEW kind, SQLEndTran(h, kind)
        PROVE  st'[x] = st[x] \/ ret'.on \in {ConnOf[x], NoSource}
    BY <2>3 DEF SQLEndTran, ConnReturn, Return, StmtsOf
  <2> QED BY <2>1, <2>2, <2>3 DEF Next, ResultOf
<1> QED BY <1>1, Invariance, PTL DEF Spec, OthersKeepResult

-----------------------------------------------------------------------------
(* What a call reports                                                     *)

Diagnostic == [fn : Call, state : SqlState]
Diagnostics == Seq(Diagnostic)

\* The records d agree with the code rc of a call of fn.
Agrees(d, fn, rc) ==
  /\ rc \in {"ERROR", "INFO"} => d # <<>> /\ Last(d).fn = fn
  /\ rc \in {"SUCCESS", "NO_DATA"} /\ fn \in Clearing => d = <<>>

\* The call of fn on s ends with rc and leaves d on the handle.
Answers(s, fn, rc, d) ==
  /\ diag' = [diag EXCEPT ![s] = d]
  /\ Return(fn, s, rc)
  /\ fn \in Call /\ rc \in Code /\ d \in Diagnostics
  /\ Agrees(d, fn, rc)

Answered(s) == \E fn, rc, d : Answers(s, fn, rc, d)

LEMMA CopiesAre ==
  ASSUME NEW k \in Nat, NEW r \in Diagnostic
  PROVE  /\ Copies(k, r) \in Diagnostics
         /\ k = 0 => Copies(k, r) = <<>>
         /\ k > 0 => Copies(k, r) # <<>> /\ Last(Copies(k, r)) = r
<1> DEFINE q == [i \in 1 .. k |-> r]
<1>1. q \in Seq(Diagnostic) /\ Len(q) = k
  OBVIOUS
<1>2. k > 0 => q[k] = r
  OBVIOUS
<1> HIDE DEF q
<1>3. k = 0 => q = <<>>
  BY <1>1
<1>4. k > 0 => q # <<>>
  BY <1>1
<1> QED BY <1>1, <1>2, <1>3, <1>4 DEF q, Copies, Diagnostics, Last

LEMMA Names ==
  /\ Api \subseteq Call /\ CatalogFn \subseteq Call /\ PrivilegeFn \subseteq Call
  /\ CatalogFn \subseteq Clearing
  /\ \A f \in PrivilegeFn : f \notin Clearing
  /\ \A f \in CatalogFn \cup PrivilegeFn : f # "SQLExecute"
<1>1. \A f \in {"SQLPrepare", "SQLExecDirect", "SQLExecute", "SQLFetch", "SQLFetchScroll"} :
         f \in Api
  BY DEF Api
<1> QED BY <1>1, NameAssumption, Zenon DEF Call, Clearing

\* The calls that start by clearing the records.
LEMMA SucceedAnswers ==
  ASSUME NEW s, NEW fn \in Call, NEW rc \in {"SUCCESS", "NO_DATA"},
         Clear(s), Return(fn, s, rc)
  PROVE  Answered(s)
<1>1. <<>> \in Diagnostics
  BY DEF Diagnostics
<1>2. Answers(s, fn, rc, <<>>)
  BY <1>1 DEF Answers, Agrees, Code, Clear
<1> QED BY <1>2 DEF Answered

LEMMA FailAnswers ==
  ASSUME NEW s, NEW fn \in Call, NEW k \in Nat \ {0}, NEW state \in SqlState,
         NEW rc \in {"ERROR", "INFO"}, Report(s, k, fn, state), Return(fn, s, rc)
  PROVE  Answered(s)
<1> DEFINE r == Record(fn, state)
<1>1. r \in Diagnostic /\ r.fn = fn
  BY DEF Record, Diagnostic
<1> HIDE DEF r
<1>2. Copies(k, r) \in Diagnostics /\ Copies(k, r) # <<>> /\ Last(Copies(k, r)).fn = fn
  BY <1>1, CopiesAre
<1>3. Answers(s, fn, rc, Copies(k, r))
  BY <1>2 DEF Answers, Agrees, Code, Report, r
<1> QED BY <1>3 DEF Answered

\* The calls that keep the records: one is added, or none.
LEMMA AddAnswers ==
  ASSUME diag \in [Stmt -> Diagnostics], NEW s \in Stmt, NEW fn \in Call,
         NEW state \in SqlState, NEW rc \in {"ERROR", "INFO"},
         Add(s, fn, state), Return(fn, s, rc)
  PROVE  Answered(s)
<1> DEFINE r == Record(fn, state)
<1>1. r \in Diagnostic /\ r.fn = fn
  BY DEF Record, Diagnostic
<1>2. diag' = [diag EXCEPT ![s] = Append(diag[s], r)]
  BY DEF Add
<1> HIDE DEF r
<1>3. ASSUME NEW S, NEW d \in Seq(S), NEW e \in S
      PROVE  Append(d, e) \in Seq(S) /\ Append(d, e) # <<>> /\ Last(Append(d, e)) = e
  BY DEF Last
<1>4. diag[s] \in Seq(Diagnostic)
  BY DEF Diagnostics
<1>5. /\ Append(diag[s], r) \in Diagnostics /\ Append(diag[s], r) # <<>>
      /\ Last(Append(diag[s], r)).fn = fn
  BY <1>1, <1>3, <1>4 DEF Diagnostics
<1>6. Answers(s, fn, rc, Append(diag[s], r))
  BY <1>2, <1>5 DEF Answers, Agrees, Code
<1> QED BY <1>6 DEF Answered

LEMMA KeepAnswers ==
  ASSUME diag \in [Stmt -> Diagnostics], NEW s \in Stmt, NEW fn \in Call,
         fn \notin Clearing, UNCHANGED diag, Return(fn, s, "SUCCESS")
  PROVE  Answered(s)
<1>1. diag[s] \in Diagnostics /\ diag' = [diag EXCEPT ![s] = diag[s]]
  OBVIOUS
<1>2. Answers(s, fn, "SUCCESS", diag[s])
  BY <1>1 DEF Answers, Agrees, Code
<1> QED BY <1>2 DEF Answered

LEMMA SetsAreCounted ==
  ASSUME NEW n \in Int, NEW S, NEW results \in [1 .. n -> S], NEW e
  PROVE  /\ Cardinality(Sets(results, e)) \in Nat
         /\ Cardinality(Sets(results, e)) = 0 <=> Sets(results, e) = {}
<1>1. IsFiniteSet(1 .. n)
  BY FS_Interval
<1>2. Sets(results, e) \in SUBSET (1 .. n)
  BY DEF Sets
<1>3. IsFiniteSet(Sets(results, e))
  BY <1>1, <1>2, FS_Subset
<1> QED BY <1>3, FS_CardinalityType, FS_EmptySet

\* What SQLExecute of an array reports.
LEMMA ArrayAnswers ==
  ASSUME Inv, NEW s \in Stmt, ExecuteArray(s)
  PROVE  Answered(s)
<1> DEFINE t == st[s]
<1>1. PICK results \in [1 .. t.psize -> {"SUCCESS", "ERROR", "UNUSED"}] :
         /\ Report(s, Cardinality(Sets(results, "ERROR")), "SQLExecute", QueryError(t.sql))
         /\ Return("SQLExecute", s, ArrayCode(results))
  BY DEF ExecuteArray
<1> DEFINE bad == Sets(results, "ERROR")  k == Cardinality(bad)
<1>2. k \in Nat /\ (k = 0 <=> bad = {})
  <2>1. t.psize \in Int
    BY InvFacts, BoundAssumption DEF Statement
  <2> QED BY <2>1, <1>1, SetsAreCounted
<1>3. QueryError(t.sql) \in SqlState /\ "SQLExecute" \in Call
  BY DEF QueryError, SqlState, Call, Api
<1>4. CASE bad = {}
  <2>1. Record("SQLExecute", QueryError(t.sql)) \in Diagnostic
    BY <1>3 DEF Record, Diagnostic
  <2>2. Copies(k, Record("SQLExecute", QueryError(t.sql))) = <<>>
    BY <1>2, <1>4, <2>1, CopiesAre
  <2>3. Clear(s) /\ Return("SQLExecute", s, "SUCCESS")
    BY <1>1, <1>4, <2>2 DEF Report, Clear, ArrayCode
  <2> QED BY <1>3, <2>3, SucceedAnswers
<1>5. CASE bad # {}
  <2>1. ArrayCode(results) \in {"ERROR", "INFO"}
    BY <1>5 DEF ArrayCode
  <2>2. k \in Nat \ {0}
    BY <1>2, <1>5
  <2> QED BY <1>1, <1>3, <2>1, <2>2, FailAnswers
<1> QED BY <1>4, <1>5

LEMMA ApiIs ==
  /\ \A f \in {"SQLPrepare", "SQLExecDirect", "SQLExecute", "SQLFetch", "SQLFetchScroll",
               "SQLGetData", "SQLCloseCursor", "SQLFreeStmt", "SQLCancel",
               "SQLSetStmtAttr", "SQLDescribeCol", "SQLBindParameter",
               "SQLDescribeParam", "SQLSetPos", "SQLBulkOperations"} : f \in Call
  /\ \A f \in {"SQLGetData", "SQLCloseCursor", "SQLFreeStmt", "SQLCancel",
               "SQLSetStmtAttr", "SQLDescribeCol"} : f \notin Clearing
<1>1. \A f \in Api : f \in Call /\ f \notin CatalogFn
  BY NameAssumption, Zenon DEF Call
<1>2. \A f \in {"SQLGetData", "SQLCloseCursor", "SQLFreeStmt", "SQLCancel",
                "SQLSetStmtAttr", "SQLDescribeCol"} : f \in Api
  BY DEF Api
<1>3. \A f \in {"SQLGetData", "SQLCloseCursor", "SQLFreeStmt", "SQLCancel",
                "SQLSetStmtAttr", "SQLDescribeCol"} : f \notin Clearing
  BY <1>1, <1>2 DEF Clearing
<1>4. \A f \in {"SQLPrepare", "SQLExecDirect", "SQLExecute", "SQLFetch", "SQLFetchScroll",
                "SQLBindParameter", "SQLDescribeParam", "SQLSetPos",
                "SQLBulkOperations"} : f \in Api
  BY DEF Api
<1> QED BY <1>1, <1>2, <1>3, <1>4

\* Every call on a statement returns a code that its records agree with.
LEMMA CallAnswers ==
  ASSUME Inv, diag \in [Stmt -> Diagnostics], NEW s \in Stmt, StmtCall(s)
  PROVE  Answered(s)
<1>1. ASSUME NEW fn \in Call, NEW state \in SqlState, Fail(s, fn, state)
      PROVE  Answered(s)
  BY <1>1, FailAnswers DEF Fail
<1>2. ASSUME NEW fn \in Call, Succeed(s, fn)
      PROVE  Answered(s)
  BY <1>2, SucceedAnswers DEF Succeed
<1>3. {"injected", "01004", "07009", "08003", "24000", "42000", "42S..", "HY000", "HY003",
       "HY010", "HY106", "HYC00"} \subseteq SqlState
  BY DEF SqlState
<1>4. ASSUME NEW q \in Sql, SQLPrepare(s, q) PROVE Answered(s)
  BY <1>1, <1>2, <1>3, <1>4, ApiIs DEF SQLPrepare
<1>5. ASSUME NEW q \in Sql, SQLExecDirect(s, q) PROVE Answered(s)
  <2>1. ASSUME Report(s, ErrorCount, "SQLExecDirect", "injected"),
               Return("SQLExecDirect", s, "ERROR")
        PROVE  Answered(s)
    BY <1>3, <2>1, ApiIs, FailAnswers, BoundAssumption
  <2> QED BY <1>1, <1>2, <1>3, <1>5, <2>1, ApiIs DEF SQLExecDirect, QueryError
<1>6. CASE SQLExecute(s)
  <2>1. ExecuteRefused(s) \/ ExecuteInjected(s) => Answered(s)
    BY <1>1, <1>3, ApiIs DEF ExecuteRefused, ExecuteInjected
  <2>2. ExecuteOne(s) => Answered(s)
    BY <1>1, <1>2, <1>3, ApiIs DEF ExecuteOne, QueryError
  <2> QED BY <1>6, <2>1, <2>2, ArrayAnswers DEF SQLExecute
<1>7. ASSUME NEW f \in CatalogFn, SQLCatalog(s, f) PROVE Answered(s)
  BY <1>1, <1>2, <1>3, <1>7, Names DEF SQLCatalog
<1>8. ASSUME NEW f \in PrivilegeFn, SQLPrivileges(s, f) PROVE Answered(s)
  BY <1>8, Names, KeepAnswers DEF SQLPrivileges
<1>9. ASSUME NEW fn \in {"SQLFetch", "SQLFetchScroll"}, Clear(s),
             Return(fn, s, "SUCCESS") \/ Return(fn, s, "NO_DATA")
      PROVE  Answered(s)
  BY <1>9, ApiIs, SucceedAnswers
<1>10. CASE SQLFetch(s)
  BY <1>1, <1>3, <1>9, <1>10, ApiIs DEF SQLFetch
<1>11. ASSUME NEW o, NEW k, SQLFetchScroll(s, o, k) PROVE Answered(s)
  BY <1>1, <1>3, <1>9, <1>11, ApiIs DEF SQLFetchScroll
<1>12. CASE SQLGetData(s)
  BY <1>3, <1>12, ApiIs, AddAnswers, KeepAnswers DEF SQLGetData
<1>13. CASE SQLCloseCursor(s)
  BY <1>3, <1>13, ApiIs, AddAnswers, KeepAnswers DEF SQLCloseCursor
<1>14. CASE SQLFreeStmtClose(s) \/ SQLCancel(s) \/ SQLSetStmtAttr(s)
  BY <1>14, ApiIs, KeepAnswers DEF SQLFreeStmtClose, SQLCancel, SQLSetStmtAttr
<1>15. CASE SQLReport(s)
  <2>1. \A c \in Complaints(st[s]) : c[1] \in Call /\ c[2] \in SqlState
    BY <1>3, ApiIs DEF Complaints
  <2> QED BY <1>15, <2>1, ApiIs, AddAnswers, KeepAnswers DEF SQLReport
<1> QED BY <1>4, <1>5, <1>6, <1>7, <1>8, <1>10, <1>11, <1>12, <1>13, <1>14, <1>15 DEF StmtCall

-----------------------------------------------------------------------------
(* What SQLExecute writes into the arrays of the application               *)

Arrays == [status : [Paramset -> SetStatus], processed : 0 .. MaxSets]

\* The story that ArrayOutcome wants told: the arrays a and the code rc of an
\* execution of t.psize parameter sets.
Told(t, a, rc) ==
  LET bad  == {i \in 1 .. t.psize : a.status[i] = "ERROR"}
      good == {i \in 1 .. t.psize : a.status[i] = "SUCCESS"}
  IN  /\ t.processedPtr => a.processed = t.psize
      /\ t.statusPtr =>
           /\ \A i \in 1 .. t.psize : a.status[i] # "UNSET"
           /\ rc = "SUCCESS" <=> bad = {}
           /\ rc = "ERROR"   <=> bad # {} /\ good = {}
           /\ rc = "INFO"    <=> bad # {} /\ good # {}

LEMMA WrittenIs ==
  ASSUME NEW t, NEW a \in Arrays, NEW k \in 0 .. MaxSets,
         NEW results \in [1 .. k -> SetStatus]
  PROVE  /\ Written(t, a, results) \in Arrays
         /\ t.processedPtr => Written(t, a, results).processed = k
         /\ t.statusPtr => \A i \in 1 .. k : Written(t, a, results).status[i] = results[i]
<1> DEFINE status == [i \in Paramset |-> IF i \in DOMAIN results THEN results[i]
                                         ELSE a.status[i]]
<1>1. a.status \in [Paramset -> SetStatus] /\ a.processed \in 0 .. MaxSets
  BY DEF Arrays
<1>2. DOMAIN results = 1 .. k /\ 1 .. k \subseteq Paramset /\ k \in Nat
  BY BoundAssumption DEF Paramset
<1>3. Len(results) = k
  <2>1. results \in Seq(SetStatus)
    BY <1>2
  <2> QED BY <1>2, <2>1
<1>4. status \in [Paramset -> SetStatus] /\ \A i \in 1 .. k : status[i] = results[i]
  BY <1>1, <1>2
<1> HIDE DEF status
<1>5. Written(t, a, results)
        = [status    |-> IF t.statusPtr THEN status ELSE a.status,
           processed |-> IF t.processedPtr THEN k ELSE a.processed]
  BY <1>3 DEF Written, status
<1>6. /\ (IF t.statusPtr THEN status ELSE a.status) \in [Paramset -> SetStatus]
      /\ (IF t.processedPtr THEN k ELSE a.processed) \in 0 .. MaxSets
  BY <1>1, <1>4
<1> QED BY <1>4, <1>5, <1>6 DEF Arrays

\* The codes of an array execution say what its results say.
LEMMA ResultsTell ==
  ASSUME NEW t \in Statement, NEW a \in Arrays,
         NEW results \in [1 .. t.psize -> {"SUCCESS", "ERROR", "UNUSED"}]
  PROVE  Told(t, Written(t, a, results), ArrayCode(results))
<1> DEFINE w == Written(t, a, results)
           bad == Sets(results, "ERROR")
           good == Sets(results, "SUCCESS")
<1>1. t.psize \in 0 .. MaxSets /\ results \in [1 .. t.psize -> SetStatus]
  BY DEF Statement, SetStatus
<1>2. /\ t.processedPtr => w.processed = t.psize
      /\ t.statusPtr => \A i \in 1 .. t.psize : w.status[i] = results[i]
  BY <1>1, WrittenIs
<1> HIDE DEF w
<1>3. t.statusPtr => /\ {i \in 1 .. t.psize : w.status[i] = "ERROR"} = bad
                     /\ {i \in 1 .. t.psize : w.status[i] = "SUCCESS"} = good
                     /\ \A i \in 1 .. t.psize : w.status[i] # "UNSET"
  BY <1>2 DEF Sets
<1>4. /\ ArrayCode(results) = "SUCCESS" <=> bad = {}
      /\ ArrayCode(results) = "ERROR" <=> bad # {} /\ good = {}
      /\ ArrayCode(results) = "INFO" <=> bad # {} /\ good # {}
  BY DEF ArrayCode
<1> HIDE DEF bad, good
<1>5. Told(t, w, ArrayCode(results))
  BY <1>2, <1>3, <1>4 DEF Told
<1> QED BY <1>5 DEF w

\* The injected failure marks every set of an array.
LEMMA InjectedTells ==
  ASSUME NEW t \in Statement, NEW a \in Arrays, t.psize > 1
  PROVE  Told(t, Written(t, a, InjectedResults(t)), "ERROR")
<1>1. t.psize \in Nat
  BY BoundAssumption DEF Statement
<1> DEFINE results == [i \in 1 .. t.psize |-> "ERROR"]
<1>2. results \in [1 .. t.psize -> {"SUCCESS", "ERROR", "UNUSED"}]
  OBVIOUS
<1>3. ArrayCode(results) = "ERROR"
  <2>1. 1 \in Sets(results, "ERROR") /\ Sets(results, "SUCCESS") = {}
    BY <1>1 DEF Sets
  <2> QED BY <2>1 DEF ArrayCode
<1>4. InjectedResults(t) = results
  BY DEF InjectedResults, Copies
<1> HIDE DEF results
<1> QED BY <1>2, <1>3, <1>4, ResultsTell

LEMMA ExecuteWrites ==
  ASSUME Inv, app \in [Stmt -> Arrays], NEW s \in Stmt, SQLExecute(s)
  PROVE  /\ app' \in [Stmt -> Arrays]
         /\ \/ ExecuteRefused(s)
            \/ st[s].psize <= 1
            \/ Told(st[s], app'[s], ret'.rc)
<1> DEFINE t == st[s]
<1>1. t \in Statement /\ app[s] \in Arrays /\ t.psize \in 0 .. MaxSets /\ 1 \in 0 .. MaxSets
  BY InvFacts, BoundAssumption DEF Statement
<1>2. CASE ExecuteRefused(s)
  BY <1>2 DEF ExecuteRefused
<1>3. CASE ExecuteInjected(s)
  <2> DEFINE w == Written(t, app[s], InjectedResults(t))
             u == [w EXCEPT !.status = app[s].status]
  <2>1. InjectedResults(t) \in [1 .. t.psize -> SetStatus]
    BY DEF InjectedResults, Copies, SetStatus
  <2>2. w \in Arrays
    BY <1>1, <2>1, WrittenIs
  <2>3. t.psize > 1 => Told(t, w, "ERROR")
    BY <1>1, InjectedTells
  <2>4. app' = [app EXCEPT ![s] = IF t.psize > 1 THEN w ELSE u] /\ ret'.rc = "ERROR"
    BY <1>3 DEF ExecuteInjected, Fail, Return
  <2> HIDE DEF w
  <2>5. u \in Arrays
    BY <1>1, <2>2 DEF Arrays
  <2> HIDE DEF u
  <2>6. t.psize \in Int
    BY <1>1
  <2> QED BY <2>2, <2>3, <2>4, <2>5, <2>6
<1>4. CASE ExecuteOne(s)
  <2>1. app' = app \/ app' = [app EXCEPT ![s] = Written(t, app[s], <<"SUCCESS">>)]
    BY <1>4 DEF ExecuteOne
  <2>2. <<"SUCCESS">> \in [1 .. 1 -> SetStatus]
    BY DEF SetStatus
  <2>3. Written(t, app[s], <<"SUCCESS">>) \in Arrays
    BY <1>1, <2>2, WrittenIs
  <2> QED BY <1>4, <2>1, <2>3 DEF ExecuteOne
<1>5. CASE ExecuteArray(s)
  <2>1. PICK results \in [1 .. t.psize -> {"SUCCESS", "ERROR", "UNUSED"}] :
          /\ app' = [app EXCEPT ![s] = Written(t, @, results)]
          /\ Return("SQLExecute", s, ArrayCode(results))
    BY <1>5 DEF ExecuteArray
  <2>2. results \in [1 .. t.psize -> SetStatus]
    BY DEF SetStatus
  <2>3. Written(t, app[s], results) \in Arrays
    BY <1>1, <2>2, WrittenIs
  <2>4. Told(t, Written(t, app[s], results), ArrayCode(results))
    BY <1>1, ResultsTell
  <2>5. app'[s] = Written(t, app[s], results) /\ ret'.rc = ArrayCode(results)
    BY <2>1 DEF Return
  <2> QED BY <2>1, <2>3, <2>4, <2>5
<1> QED BY <1>2, <1>3, <1>4, <1>5 DEF SQLExecute

\* Only SQLExecute touches the arrays, and only it returns under its name.
LEMMA OnlyExecute ==
  ASSUME NEW s \in Stmt, StmtCall(s), ~SQLExecute(s)
  PROVE  UNCHANGED app /\ ret'.fn # "SQLExecute"
<1>1. \A fn, rc : Return(fn, s, rc) => ret'.fn = fn
  BY DEF Return
<1>2. ASSUME NEW q, SQLPrepare(s, q) \/ SQLExecDirect(s, q)
      PROVE  UNCHANGED app /\ ret'.fn # "SQLExecute"
  BY <1>1, <1>2 DEF SQLPrepare, SQLExecDirect, Succeed, Fail
<1>3. ASSUME NEW f \in CatalogFn \cup PrivilegeFn, SQLCatalog(s, f) \/ SQLPrivileges(s, f)
      PROVE  UNCHANGED app /\ ret'.fn # "SQLExecute"
  BY <1>1, <1>3, Names DEF SQLCatalog, SQLPrivileges, Succeed, Fail
<1>4. CASE SQLFetch(s)
  BY <1>1, <1>4 DEF SQLFetch, Fail
<1>5. ASSUME NEW o, NEW k, SQLFetchScroll(s, o, k)
      PROVE  UNCHANGED app /\ ret'.fn # "SQLExecute"
  BY <1>1, <1>5 DEF SQLFetchScroll, Fail
<1>6. CASE SQLGetData(s)
  BY <1>1, <1>6 DEF SQLGetData
<1>7. CASE SQLCloseCursor(s) \/ SQLFreeStmtClose(s) \/ SQLCancel(s) \/ SQLSetStmtAttr(s)
  BY <1>1, <1>7 DEF SQLCloseCursor, SQLFreeStmtClose, SQLCancel, SQLSetStmtAttr
<1>8. CASE SQLReport(s)
  <2>1. \A c \in Complaints(st[s]) : c[1] # "SQLExecute"
    BY DEF Complaints
  <2> QED BY <1>1, <1>8, <2>1 DEF SQLReport
<1> QED BY <1>2, <1>3, <1>4, <1>5, <1>6, <1>7, <1>8 DEF StmtCall

\* SQLExecute leaves what ArrayOutcome looks at in the statement alone.
LEMMA ExecuteKeepsArrays ==
  ASSUME Inv, NEW s \in Stmt, SQLExecute(s)
  PROVE  /\ st'[s].psize = st[s].psize
         /\ st'[s].statusPtr = st[s].statusPtr /\ st'[s].processedPtr = st[s].processedPtr
<1>1. st[s] \in Statement /\ st \in [Stmt -> Statement]
  BY DEF Inv
<1>2. UNCHANGED st \/ \E src, n, open : st' = [st EXCEPT ![s] = WithResult(@, src, n, open)]
  <2>1. ExecuteOne(s) =>
           UNCHANGED st \/ \E src, n, open : st' = [st EXCEPT ![s] = WithResult(@, src, n, open)]
    BY DEF ExecuteOne
  <2>2. ExecuteArray(s) =>
           \E src, n, open : st' = [st EXCEPT ![s] = WithResult(@, src, n, open)]
    BY DEF ExecuteArray
  <2> QED BY <2>1, <2>2 DEF SQLExecute, ExecuteRefused, ExecuteInjected
<1>3. CASE UNCHANGED st
  BY <1>3
<1>4. ASSUME NEW src, NEW n, NEW open, st' = [st EXCEPT ![s] = WithResult(@, src, n, open)]
      PROVE  /\ st'[s].psize = st[s].psize
             /\ st'[s].statusPtr = st[s].statusPtr /\ st'[s].processedPtr = st[s].processedPtr
  <2>1. st'[s] = WithResult(st[s], src, n, open)
    BY <1>1, <1>4
  <2> QED BY <1>1, <2>1 DEF WithResult, Statement
<1> QED BY <1>2, <1>3, <1>4

\* A refused execution says so in its last record.
LEMMA RefusedSays ==
  ASSUME diag \in [Stmt -> Diagnostics], NEW s \in Stmt, ExecuteRefused(s)
  PROVE  diag'[s] # <<>> /\ Last(diag'[s]).state \in {"HY010", "08003"}
<1>1. PICK state \in {"HY010", "08003"} : Report(s, 1, "SQLExecute", state)
  BY DEF ExecuteRefused, Fail
<1> DEFINE r == Record("SQLExecute", state)
<1>2. r \in Diagnostic /\ r.state = state
  BY ApiIs DEF Record, Diagnostic, SqlState
<1> HIDE DEF r
<1>3. Copies(1, r) # <<>> /\ Last(Copies(1, r)) = r
  BY <1>2, CopiesAre
<1>4. diag'[s] = Copies(1, r)
  BY <1>1 DEF Report, r
<1> QED BY <1>2, <1>3, <1>4

-----------------------------------------------------------------------------
(* Records and arrays after any call                                       *)

Records == /\ diag \in [Stmt -> Diagnostics]
           /\ app \in [Stmt -> Arrays]
           /\ ret \in [fn : Call, on : Stmt \cup Conn \cup {NoSource}, rc : Code]
           /\ DiagnosticsMatchCode
           /\ ArrayOutcome

\* No call on a statement, and no SQLExecute, has just returned.
LEMMA QuietRecords ==
  ASSUME Records, UNCHANGED <<diag, app>>, NEW fn \in Call, fn # "SQLExecute",
         NEW h \in Conn \cup {NoSource}, NEW rc \in Code, Return(fn, h, rc)
  PROVE  Records'
<1>1. h \notin Stmt
  BY NameAssumption
<1>2. ret' = [fn |-> fn, on |-> h, rc |-> rc]
  BY DEF Return
<1>3. DiagnosticsMatchCode' /\ ArrayOutcome'
  BY <1>1, <1>2 DEF DiagnosticsMatchCode, ArrayOutcome
<1> QED BY <1>2, <1>3 DEF Records

LEMMA StmtRecords ==
  ASSUME Inv, Records, NEW s \in Stmt, StmtCall(s)
  PROVE  Records'
<1>1. PICK fn, rc, d : Answers(s, fn, rc, d)
  BY CallAnswers DEF Records, Answered
<1>2. diag' \in [Stmt -> Diagnostics] /\ diag'[s] = d
  BY <1>1 DEF Answers, Records
<1>3. /\ ret' = [fn |-> fn, on |-> s, rc |-> rc]
      /\ ret' \in [fn : Call, on : Stmt \cup Conn \cup {NoSource}, rc : Code]
  BY <1>1 DEF Answers, Return
<1>4. DiagnosticsMatchCode'
  BY <1>1, <1>2, <1>3 DEF Answers, Agrees, DiagnosticsMatchCode
<1>5. app' \in [Stmt -> Arrays]
  BY ExecuteWrites, OnlyExecute DEF Records
<1>6. ArrayOutcome'
  <2>1. CASE ~SQLExecute(s)
    BY <2>1, OnlyExecute DEF ArrayOutcome
  <2>2. CASE SQLExecute(s)
    <3>1. CASE ExecuteRefused(s)
      BY <1>3, <3>1, RefusedSays DEF Records, ArrayOutcome
    <3>2. CASE st[s].psize <= 1
      <4>1. st'[s].psize <= 1 /\ st[s].psize \in Int
        BY <2>2, <3>2, ExecuteKeepsArrays, InvFacts, BoundAssumption DEF Statement
      <4>2. ~(st'[s].psize > 1)
        BY <2>2, <4>1, ExecuteKeepsArrays
      <4> QED BY <1>3, <4>2 DEF ArrayOutcome
    <3>3. CASE Told(st[s], app'[s], ret'.rc)
      <4>1. Told(st'[s], app'[s], ret'.rc)
        BY <2>2, <3>3, ExecuteKeepsArrays DEF Told
      <4> QED BY <1>3, <4>1 DEF Told, ArrayOutcome
    <3> QED BY <2>2, <3>1, <3>2, <3>3, ExecuteWrites DEF Records
  <2> QED BY <2>1, <2>2
<1> QED BY <1>2, <1>3, <1>4, <1>5, <1>6 DEF Records

LEMMA NextRecords == Inv /\ Records /\ [Next]_vars => Records'
<1> SUFFICES ASSUME Inv, Records, [Next]_vars PROVE Records'
  OBVIOUS
<1>1. ASSUME NEW s \in Stmt, StmtCall(s) PROVE Records'
  BY <1>1, StmtRecords
<1>2. {"SQLConnect", "SQLDisconnect", "SQLEndTran"} \subseteq Call /\ {"SUCCESS", "ERROR"} \subseteq Code
  BY DEF Call, Api, Code
<1>3. ASSUME NEW c \in Conn, ConnCall(c) PROVE Records'
  BY <1>2, <1>3, QuietRecords DEF ConnCall, SQLConnect, SQLDisconnect, ConnReturn
<1>4. ASSUME NEW h \in Conn \cup {NoSource}, NEW kind, SQLEndTran(h, kind) PROVE Records'
  BY <1>2, <1>4, QuietRecords DEF SQLEndTran, ConnReturn
<1>5. CASE UNCHANGED vars
  BY <1>5 DEF vars, Records, DiagnosticsMatchCode, ArrayOutcome
<1> QED BY <1>1, <1>3, <1>4, <1>5 DEF Next

LEMMA InitRecords == Init => Records
<1> SUFFICES ASSUME Init PROVE Records
  OBVIOUS
<1>1. <<>> \in Diagnostics /\ "" \in Call /\ "SUCCESS" \in Code
  BY DEF Diagnostics, Call, Api, Code
<1>2. [status |-> [i \in Paramset |-> "UNSET"], processed |-> 0] \in Arrays
  BY BoundAssumption DEF Arrays, SetStatus
<1>3. DiagnosticsMatchCode /\ ArrayOutcome
  BY NameAssumption DEF Init, DiagnosticsMatchCode, ArrayOutcome
<1> QED BY <1>1, <1>2, <1>3 DEF Init, Records

THEOREM RecordsInvariance == Spec => []Records
BY InitRecords, NextRecords, Invariance, PTL DEF Spec

(* The types of the handles, the records, the arrays and the return code.   *)
THEOREM TypeCorrect == Spec => []TypeOK
<1>1. Inv /\ Records => TypeOK
  BY DEF Inv, Records, TypeOK, Diagnostics, Diagnostic, Arrays
<1> QED BY <1>1, Invariance, RecordsInvariance, PTL

(* A return code and the records on the handle never contradict each other, *)
(* whichever of the calls that do not clear them came before.               *)
THEOREM CodesMatchRecords == Spec => []DiagnosticsMatchCode
<1>1. Records => DiagnosticsMatchCode
  BY DEF Records
<1> QED BY <1>1, RecordsInvariance, PTL

(* The code, the status array and the count of an array execution agree     *)
(* (execute_param_array, and the injected failure of SQLExecute).           *)
THEOREM ArraysTellOneStory == Spec => []ArrayOutcome
<1>1. Records => ArrayOutcome
  BY DEF Records
<1> QED BY <1>1, RecordsInvariance, PTL

-----------------------------------------------------------------------------
(* What a failed call may change                                           *)

\* A call on s that fails changes its text at most, or is an array execution.
LEMMA FailedCall ==
  ASSUME Inv, NEW s \in Stmt, StmtCall(s), ret'.rc = "ERROR"
  PROVE  \/ ResultOf(st'[s]) = ResultOf(st[s])
         \/ ret'.fn = "SQLExecute" /\ st[s].psize > 1
<1>1. ASSUME NEW fn, NEW rc, rc # "ERROR" PROVE ~Return(fn, s, rc)
  BY <1>1 DEF Return
<1>2. st \in [Stmt -> Statement]
  BY DEF Inv
<1>3. ASSUME NEW q, st' = [st EXCEPT ![s].sql = q]
      PROVE  ResultOf(st'[s]) = ResultOf(st[s])
  <2>1. st'[s] = [st[s] EXCEPT !.sql = q]
    BY <1>2, <1>3
  <2> QED BY <1>2, <2>1 DEF Statement, ResultOf
<1>4. ASSUME NEW q, SQLPrepare(s, q) \/ SQLExecDirect(s, q)
      PROVE  UNCHANGED st \/ st' = [st EXCEPT ![s].sql = q]
  BY <1>1, <1>4 DEF SQLPrepare, SQLExecDirect, Succeed
<1>5. CASE SQLExecute(s)
  <2>1. ExecuteOne(s) => UNCHANGED st
    BY <1>1 DEF ExecuteOne, Succeed
  <2>2. ExecuteArray(s) => ret'.fn = "SQLExecute" /\ st[s].psize > 1
    BY DEF ExecuteArray, Return
  <2> QED BY <1>5, <2>1, <2>2 DEF SQLExecute, ExecuteRefused, ExecuteInjected
<1>6. ASSUME NEW f, SQLCatalog(s, f) \/ SQLPrivileges(s, f)
      PROVE  UNCHANGED st
  BY <1>1, <1>6 DEF SQLCatalog, SQLPrivileges, Succeed
<1>7. CASE SQLFetch(s)
  BY <1>1, <1>7 DEF SQLFetch
<1>8. ASSUME NEW o, NEW k, SQLFetchScroll(s, o, k)
      PROVE  UNCHANGED st
  BY <1>1, <1>8 DEF SQLFetchScroll
<1>9. CASE SQLGetData(s) \/ SQLReport(s)
  BY <1>9 DEF SQLGetData, SQLReport
<1>10. CASE SQLCloseCursor(s) \/ SQLFreeStmtClose(s) \/ SQLCancel(s) \/ SQLSetStmtAttr(s)
  BY <1>1, <1>10 DEF SQLCloseCursor, SQLFreeStmtClose, SQLCancel, SQLSetStmtAttr
<1> QED BY <1>3, <1>4, <1>5, <1>6, <1>7, <1>8, <1>9, <1>10 DEF StmtCall

(* A failed call leaves every result as it was, the array execution in      *)
(* which every set failed excepted (execute_param_array replaces the result *)
(* before it looks at the outcomes).                                        *)
THEOREM FailuresKeepResults == Spec => FailureKeepsResult
<1>1. Inv /\ [Next]_vars =>
        [ret'.rc = "ERROR" =>
           \A s \in Stmt : \/ ResultOf(st'[s]) = ResultOf(st[s])
                           \/ ret'.fn = "SQLExecute" /\ ret'.on = s /\ st[s].psize > 1]_vars
  <2> SUFFICES ASSUME Inv, Next, ret'.rc = "ERROR", NEW x \in Stmt
               PROVE  \/ ResultOf(st'[x]) = ResultOf(st[x])
                      \/ ret'.fn = "SQLExecute" /\ ret'.on = x /\ st[x].psize > 1
    OBVIOUS
  <2>1. ASSUME NEW s \in Stmt, StmtCall(s), x # s PROVE st'[x] = st[x]
    BY <2>1, OtherStmtStep
  <2>2. CASE StmtCall(x)
    BY <2>2, CallOn, FailedCall
  <2>3. ASSUME NEW c \in Conn, ConnCall(c) PROVE UNCHANGED st
    BY <2>3 DEF ConnCall, SQLConnect, SQLDisconnect, ConnReturn, Return
  <2>4. ASSUME NEW h, NEW kind, SQLEndTran(h, kind) PROVE UNCHANGED st
    BY <2>4 DEF SQLEndTran, ConnReturn, Return
  <2> QED BY <2>1, <2>2, <2>3, <2>4 DEF Next, ResultOf
<1> QED BY <1>1, Invariance, PTL DEF Spec, FailureKeepsResult
=============================================================================
