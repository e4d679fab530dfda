----------------------------- MODULE MockHandles -----------------------------
(***************************************************************************)
(* The handles of the mock ODBC driver: SQLAllocHandle and SQLFreeHandle,  *)
(* the constructors and destructors behind them, the connection state that *)
(* decides whether they are refused, the descriptor API, and reading the   *)
(* diagnostics a refusal leaves.                                           *)
(*                                                                         *)
(* A handle is the address of an object; its name may be used again once   *)
(* the object is deleted, as an address is.  The application passes        *)
(* handles that are live, under a right or a wrong handle type: what       *)
(* validate_handle reads through a dead one is undefined.  The vectors     *)
(* connections_ and statements_ are the sets of what they hold; no order   *)
(* is ever read from them.  `ruined` is what the C++ standard does not     *)
(* define: a second delete, a loop over a vector that its body erases      *)
(* from, a write outside a vector.  Nothing happens after it.              *)
(***************************************************************************)
EXTENDS Integers, FiniteSets

CONSTANTS Env, Dbc, Stmt, Desc,  \* handles the application may be given
          NoHandle,              \* SQL_NULL_HANDLE
          RecordNumber,          \* bound: iRecord of SQLSetDescRec
          DescCount,             \* bound: values of SQL_DESC_COUNT
          FreedImplicit,         \* bound: roles of implicit descriptors the
                                 \* application passes to SQLFreeHandle
          MaxDiag                \* bound: diagnostics that pile up

Role      == {"APD", "IPD", "ARD", "IRD"}
Implicit  == Stmt \X Role
AnyDesc   == Desc \cup Implicit
AnyHandle == Env \cup Dbc \cup Stmt \cup AnyDesc
Type      == {"ENV", "DBC", "STMT", "DESC"}

ASSUME DistinctAssumption ==
  /\ Env \cap (Dbc \cup Stmt \cup AnyDesc) = {}
  /\ Dbc \cap (Stmt \cup AnyDesc) = {}
  /\ Stmt \cap AnyDesc = {}
  /\ Desc \cap Implicit = {}
  /\ NoHandle \notin AnyHandle

ASSUME BoundAssumption ==
  /\ RecordNumber \subseteq Nat /\ DescCount \subseteq Nat
  /\ FreedImplicit \subseteq Role /\ MaxDiag \in Nat \ {0}

VARIABLES
  live,       \* handles whose object exists and has its magic_
  holds,      \* [Env \cup Dbc -> connections_ or statements_]
  parent,     \* [Dbc \cup Stmt -> env_ or conn_]
  connected,  \* connections with connected_ set
  desc,       \* [AnyDesc -> count_ and the size of records_]
  diag,       \* [Env \cup Dbc -> number of diagnostics_]
  closing,    \* the application only gives handles back
  ruined,     \* undefined behaviour has happened
  ret         \* the handle and the return code of the last call

tree == <<live, holds, parent>>
vars == <<tree, connected, desc, diag, closing, ruined, ret>>

Code == {"none", "SUCCESS", "NO_DATA", "ERROR", "INVALID_HANDLE"}
Descriptor == [count : Nat, size : Nat]
Blank == [count |-> 0, size |-> 0]

TypeOf(h) == CASE h \in Env -> "ENV" [] h \in Dbc -> "DBC"
               [] h \in Stmt -> "STMT" [] OTHER -> "DESC"

Init ==
  /\ live = {} /\ connected = {}
  /\ holds = [h \in Env \cup Dbc |-> {}]
  /\ parent = [h \in Dbc \cup Stmt |-> NoHandle]
  /\ desc = [d \in AnyDesc |-> Blank]
  /\ diag = [h \in Env \cup Dbc |-> 0]
  /\ closing = FALSE /\ ruined = FALSE
  /\ ret = [h |-> NoHandle, code |-> "none"]

Return(h, code) == ret' = [h |-> h, code |-> code]

\* add_diagnostic and SQL_ERROR.
Refuse(h) ==
  /\ diag[h] < MaxDiag
  /\ diag' = [diag EXCEPT ![h] = @ + 1]
  /\ Return(h, "ERROR")
  /\ UNCHANGED <<tree, connected, desc, closing, ruined>>

-----------------------------------------------------------------------------
(* SQLAllocHandle                                                          *)

Descriptors(s) == {s} \X Role

AllocEnv(e) ==
  /\ e \notin live
  /\ live' = live \cup {e}
  /\ holds' = [holds EXCEPT ![e] = {}]
  /\ diag' = [diag EXCEPT ![e] = 0]
  /\ Return(e, "SUCCESS")
  /\ UNCHANGED <<parent, connected, desc, closing, ruined>>

\* new ConnectionHandle(env): registers itself with its environment.
AllocDbc(e, c) ==
  /\ e \in live /\ c \notin live
  /\ live' = live \cup {c}
  /\ holds' = [holds EXCEPT ![e] = @ \cup {c}, ![c] = {}]
  /\ parent' = [parent EXCEPT ![c] = e]
  /\ connected' = connected \ {c}
  /\ diag' = [diag EXCEPT ![c] = 0]
  /\ Return(c, "SUCCESS")
  /\ UNCHANGED <<desc, closing, ruined>>

AllocStmtRefused(c) == c \in live \ connected /\ Refuse(c)

\* new StatementHandle(conn): the statement, its four descriptors, and its
\* entry in the connection's list.
AllocStmt(c, s) ==
  /\ c \in live \cap connected /\ s \notin live
  /\ live' = live \cup {s} \cup Descriptors(s)
  /\ holds' = [holds EXCEPT ![c] = @ \cup {s}]
  /\ parent' = [parent EXCEPT ![s] = c]
  /\ desc' = [d \in AnyDesc |-> IF d \in Descriptors(s) THEN Blank ELSE desc[d]]
  /\ Return(s, "SUCCESS")
  /\ UNCHANGED <<connected, diag, closing, ruined>>

\* An explicit descriptor needs no open connection, and none records it.
AllocDesc(c, d) ==
  /\ c \in live /\ d \notin live
  /\ live' = live \cup {d}
  /\ desc' = [desc EXCEPT ![d] = Blank]
  /\ Return(d, "SUCCESS")
  /\ UNCHANGED <<holds, parent, connected, diag, closing, ruined>>

SQLAllocHandle ==
  /\ ~closing
  /\ \/ \E e \in Env : AllocEnv(e)
     \/ \E e \in Env, c \in Dbc : AllocDbc(e, c)
     \/ \E c \in Dbc : AllocStmtRefused(c)
     \/ \E c \in Dbc, s \in Stmt : AllocStmt(c, s)
     \/ \E c \in Dbc, d \in Desc : AllocDesc(c, d)

-----------------------------------------------------------------------------
(* SQLFreeHandle.  ~EnvironmentHandle and ~ConnectionHandle delete what is *)
(* left in their vectors, and each of those destructors erases itself from *)
(* the vector being walked: only the refusals keep that from happening.    *)

\* Out of the parent's vector; the parent is dereferenced to get there.
Erase(x) == [holds EXCEPT ![parent[x]] = @ \ {x}]

DeleteEnv(e) ==
  /\ live' = live \ ({e} \cup holds[e])
  /\ ruined' = (holds[e] # {})
  /\ Return(e, "SUCCESS")
  /\ UNCHANGED <<holds, parent, connected, desc, diag, closing>>

FreeEnvUnguarded(e) == DeleteEnv(e)
FreeEnv(e) == IF holds[e] # {} THEN Refuse(e) ELSE DeleteEnv(e)

DeleteDbc(c) ==
  /\ live' = live \ ({c} \cup holds[c])
  /\ holds' = Erase(c)
  /\ connected' = connected \ {c}
  /\ ruined' = (holds[c] # {} \/ parent[c] \notin live)
  /\ Return(c, "SUCCESS")
  /\ UNCHANGED <<parent, desc, diag, closing>>

FreeDbcUnguarded(c) == IF c \in connected THEN Refuse(c) ELSE DeleteDbc(c)
FreeDbc(c) ==
  IF c \in connected \/ holds[c] # {} THEN Refuse(c) ELSE DeleteDbc(c)

FreeStmtUnlisted(s) ==
  /\ live' = live \ ({s} \cup Descriptors(s))
  /\ ruined' = ~({parent[s]} \cup Descriptors(s) \subseteq live)
  /\ Return(s, "SUCCESS")
  /\ UNCHANGED <<holds, parent, connected, desc, diag, closing>>

\* SQLFreeStmt(SQL_DROP) is the same delete.  The four descriptors go with the
\* statement, deleted already or not.
FreeStmt(s) ==
  /\ live' = live \ ({s} \cup Descriptors(s))
  /\ holds' = Erase(s)
  /\ ruined' = ~({parent[s]} \cup Descriptors(s) \subseteq live)
  /\ Return(s, "SUCCESS")
  /\ UNCHANGED <<parent, connected, desc, diag, closing>>

\* alloc_type_ is not consulted: an implicit descriptor is deleted, too.
FreeDesc(d) ==
  /\ d \in Implicit => d[2] \in FreedImplicit
  /\ live' = live \ {d}
  /\ Return(d, "SUCCESS")
  /\ UNCHANGED <<holds, parent, connected, desc, diag, closing, ruined>>

SQLFreeHandle(h) ==
  /\ h \in live
  /\ \/ h \in Env /\ FreeEnv(h)
     \/ h \in Dbc /\ FreeDbc(h)
     \/ h \in Stmt /\ FreeStmt(h)
     \/ h \in AnyDesc /\ FreeDesc(h)

\* A handle passed under a type that is not its own, to SQLFreeHandle or as
\* the parent of SQLAllocHandle.
Mistyped(h, t) ==
  /\ h \in live /\ t # TypeOf(h)
  /\ Return(h, "INVALID_HANDLE")
  /\ UNCHANGED <<tree, connected, desc, diag, closing, ruined>>

-----------------------------------------------------------------------------
(* Opening and closing a connection, as far as handles go.                 *)

\* clear_diagnostics, then one record: the connection was in the wrong state.
OnlyComplaint(c) ==
  /\ diag' = [diag EXCEPT ![c] = 1]
  /\ Return(c, "ERROR")
  /\ UNCHANGED <<tree, connected, desc, closing, ruined>>

SQLConnect(c) ==
  /\ c \in live /\ ~closing
  /\ IF c \in connected THEN OnlyComplaint(c)
     ELSE /\ connected' = connected \cup {c}
          /\ diag' = [diag EXCEPT ![c] = 0]
          /\ Return(c, "SUCCESS")
          /\ UNCHANGED <<tree, desc, closing, ruined>>

\* The statements stay allocated, on a connection that is closed.
SQLDisconnect(c) ==
  /\ c \in live
  /\ IF c \notin connected THEN OnlyComplaint(c)
     ELSE /\ connected' = connected \ {c}
          /\ diag' = [diag EXCEPT ![c] = 0]
          /\ Return(c, "SUCCESS")
          /\ UNCHANGED <<tree, desc, closing, ruined>>

-----------------------------------------------------------------------------
(* Descriptors                                                             *)

Describe(d, to) ==
  /\ d \in live /\ ~closing
  /\ desc' = [desc EXCEPT ![d] = to]
  /\ Return(d, "SUCCESS")
  /\ UNCHANGED <<tree, connected, diag, closing>>

\* SQL_DESC_COUNT sets the count alone; records_ keeps its size.
SQLSetDescField(d, count) ==
  Describe(d, [desc[d] EXCEPT !.count = count]) /\ UNCHANGED ruined

\* records_ grows up to iRecord; records_[iRecord - 1] is written whatever
\* iRecord is, and the bookmark record is number 0.
WriteRecord(d, i, size) ==
  /\ Describe(d, [count |-> size, size |-> size])
  /\ ruined' = (i \notin 1..size)

SQLSetDescRecShort(d, i) ==
  WriteRecord(d, i, IF desc[d].size < i - 1 THEN i - 1 ELSE desc[d].size)
SQLSetDescRec(d, i) ==
  WriteRecord(d, i, IF desc[d].size < i THEN i ELSE desc[d].size)

SQLCopyDesc(from, to) ==
  from \in live /\ Describe(to, desc[from]) /\ UNCHANGED ruined

SQLGetDescRec(d, i) ==
  /\ d \in live
  /\ Return(d, IF i \in 1..desc[d].size THEN "SUCCESS" ELSE "NO_DATA")
  /\ UNCHANGED <<tree, connected, desc, diag, closing, ruined>>

\* Reading a record never removes it, nor clears the others.
SQLGetDiagRec(h, i) ==
  /\ h \in live
  /\ Return(h, IF i \in 1..diag[h] THEN "SUCCESS" ELSE "NO_DATA")
  /\ UNCHANGED <<tree, connected, desc, diag, closing, ruined>>

-----------------------------------------------------------------------------
\* The application decides to give everything back.
Close == ~closing /\ closing' = TRUE
           /\ UNCHANGED <<tree, connected, desc, diag, ruined, ret>>

DescCall(d) ==
  \/ \E n \in DescCount : SQLSetDescField(d, n)
  \/ \E i \in RecordNumber : SQLSetDescRec(d, i)
  \/ \E to \in AnyDesc : SQLCopyDesc(d, to)
  \/ \E i \in RecordNumber : SQLGetDescRec(d, i)

Next ==
  /\ ~ruined
  /\ \/ SQLAllocHandle
     \/ \E h \in AnyHandle : SQLFreeHandle(h)
     \/ \E h \in AnyHandle, t \in Type : Mistyped(h, t)
     \/ \E c \in Dbc : SQLConnect(c)
     \/ \E c \in Dbc : SQLDisconnect(c)
     \/ \E d \in AnyDesc : DescCall(d)
     \/ \E h \in Env \cup Dbc, i \in 1..MaxDiag : SQLGetDiagRec(h, i)
     \/ Close

Spec == Init /\ [][Next]_vars

\* An application that gives its handles back gets round to every one it can
\* free, and to every connection it can close.
GivenBack(h) == closing /\ ~ruined /\ SQLFreeHandle(h) /\ ret'.code = "SUCCESS"
Closed(c)    == closing /\ ~ruined /\ SQLDisconnect(c) /\ ret'.code = "SUCCESS"

FairSpec ==
  /\ Spec
  /\ \A h \in AnyHandle : WF_vars(GivenBack(h))
  /\ \A c \in Dbc : WF_vars(Closed(c))

-----------------------------------------------------------------------------
(* Correctness                                                             *)

\* The types of the variables.
TypeOK ==
  /\ live \subseteq AnyHandle
  /\ holds \in [Env \cup Dbc -> SUBSET (Dbc \cup Stmt)]
  /\ parent \in [Dbc \cup Stmt -> Env \cup Dbc \cup {NoHandle}]
  /\ connected \subseteq Dbc
  /\ desc \in [AnyDesc -> Descriptor]
  /\ diag \in [Env \cup Dbc -> 0..MaxDiag]
  /\ closing \in BOOLEAN /\ ruined \in BOOLEAN
  /\ ret \in [h : AnyHandle \cup {NoHandle}, code : Code]

\* The application frees its own descriptors only and numbers records from one.
WellBehaved == FreedImplicit = {} /\ 0 \notin RecordNumber

\* The two directions of the handle tree agree, and neither dangles: env_ and
\* conn_ of a live handle lead to a live parent whose vector lists it, and a
\* vector lists live handles that lead back.  Every call on a statement
\* dereferences conn_, and SQLDisconnect and SQLEndTran walk the vectors.
TreeIntegrity ==
  /\ \A c \in Dbc \cap live : parent[c] \in Env \cap live /\ c \in holds[parent[c]]
  /\ \A s \in Stmt \cap live : parent[s] \in Dbc \cap live /\ s \in holds[parent[s]]
  /\ \A h \in (Env \cup Dbc) \cap live : \A x \in holds[h] : x \in live /\ parent[x] = h
  /\ connected \subseteq live

\* No sequence of calls deletes an object twice, runs a destructor's loop over
\* a vector that its body erases from, or writes outside records_.  The
\* application frees its own descriptors only and numbers records from one.
NothingUndefined == ~ruined

\* Whatever record numbers the application uses and whichever descriptors it frees,
\* two calls alone have an undefined effect: a record below number one is written,
\* for which records_ does not grow (descriptor_api.cpp:126), or a statement is freed
\* one of whose implicit descriptors was freed before it (handles.cpp:84).
RuinHasCause ==
  [][ruined' => \/ \E d \in AnyDesc \cap live : ret'.h = d /\ desc'[d].size = desc[d].size
                \/ \E s \in Stmt \cap live : ret'.h = s /\ ~(Descriptors(s) \subseteq live)]_vars

\* A handle is deleted by the call that frees it and by no other; an implicit
\* descriptor goes with its statement.  The application never finds a handle
\* it did not free gone.
DiesByItsOwnFree ==
  [][\A h \in live \ live' :
       \/ ret'.h = h
       \/ h \in Implicit /\ ret'.h = h[1]]_vars

\* The refusals never lock the application in: closing the connections and
\* freeing what may be freed gives every handle back.  SQLDisconnect leaves
\* statements allocated that keep their connection from being freed.
TeardownCompletes == closing ~> live = {}

=============================================================================
