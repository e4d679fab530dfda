------------------------- MODULE MockHandlesProofs -------------------------
(***************************************************************************)
(* Proofs about MockHandles: the handle tree never dangles, whatever the   *)
(* application calls; and a well-behaved application meets no undefined    *)
(* behaviour and loses no handle it did not free.                          *)
(***************************************************************************)
EXTENDS MockHandles, TLAPS

\* A statement has its four descriptors as long as it lives.
Whole == \A s \in Stmt \cap live : Descriptors(s) \subseteq live

-----------------------------------------------------------------------------
(* The type invariant                                                      *)

LEMMA InitTypes == Init => TypeOK
<1> SUFFICES ASSUME Init PROVE TypeOK
  OBVIOUS
<1>1. live \subseteq AnyHandle /\ connected \subseteq Dbc /\ closing \in BOOLEAN /\ ruined \in BOOLEAN
  BY DEF Init
<1>2. holds \in [Env \cup Dbc -> SUBSET (Dbc \cup Stmt)]
  BY DEF Init
<1>3. parent \in [Dbc \cup Stmt -> Env \cup Dbc \cup {NoHandle}]
  BY DEF Init
<1>4. desc \in [AnyDesc -> Descriptor]
  BY DEF Init, Descriptor, Blank
<1>5. diag \in [Env \cup Dbc -> 0..MaxDiag]
  BY BoundAssumption DEF Init
<1>6. ret \in [h : AnyHandle \cup {NoHandle}, code : Code]
  BY DEF Init, Code
<1> QED
  BY <1>1, <1>2, <1>3, <1>4, <1>5, <1>6 DEF TypeOK

\* Alternatives of Next, with what the enumerations fix.
LEMMA Alternatives ==
  ASSUME TypeOK, Next
  PROVE  /\ ~ruined
         /\ \/ \E e \in Env : AllocEnv(e)
            \/ \E e \in Env, c \in Dbc : AllocDbc(e, c)
            \/ \E c \in Dbc : AllocStmtRefused(c)
            \/ \E c \in Dbc, s \in Stmt : AllocStmt(c, s)
            \/ \E c \in Dbc, d \in Desc : AllocDesc(c, d)
            \/ \E e \in Env \cap live : FreeEnv(e)
            \/ \E c \in Dbc \cap live : FreeDbc(c)
            \/ \E s \in Stmt \cap live : FreeStmt(s)
            \/ \E d \in AnyDesc \cap live : FreeDesc(d)
            \/ \E h \in AnyHandle, t \in Type : Mistyped(h, t)
            \/ \E c \in Dbc : SQLConnect(c)
            \/ \E c \in Dbc : SQLDisconnect(c)
            \/ \E d \in AnyDesc, n \in DescCount : SQLSetDescField(d, n)
            \/ \E d \in AnyDesc, i \in RecordNumber : SQLSetDescRec(d, i)
            \/ \E d \in AnyDesc, to \in AnyDesc : SQLCopyDesc(d, to)
            \/ \E d \in AnyDesc, i \in RecordNumber : SQLGetDescRec(d, i)
            \/ \E h \in Env \cup Dbc, i \in 1..MaxDiag : SQLGetDiagRec(h, i)
            \/ Close
<1>1. (\E h \in AnyHandle : SQLFreeHandle(h)) =>
        \/ \E e \in Env \cap live : FreeEnv(e)
        \/ \E c \in Dbc \cap live : FreeDbc(c)
        \/ \E s \in Stmt \cap live : FreeStmt(s)
        \/ \E d \in AnyDesc \cap live : FreeDesc(d)
  BY DEF SQLFreeHandle
<1>2. (\E d \in AnyDesc : DescCall(d)) =>
        \/ \E d \in AnyDesc, n \in DescCount : SQLSetDescField(d, n)
        \/ \E d \in AnyDesc, i \in RecordNumber : SQLSetDescRec(d, i)
        \/ \E d \in AnyDesc, to \in AnyDesc : SQLCopyDesc(d, to)
        \/ \E d \in AnyDesc, i \in RecordNumber : SQLGetDescRec(d, i)
  BY DEF DescCall
<1> QED
  BY <1>1, <1>2 DEF Next, SQLAllocHandle

LEMMA RefuseTypes ==
  ASSUME TypeOK, NEW h \in Env \cup Dbc, Refuse(h)
  PROVE  TypeOK'
<1>1. diag' \in [Env \cup Dbc -> 0..MaxDiag]
  <2>1. diag[h] \in 0..MaxDiag /\ diag[h] < MaxDiag /\ MaxDiag \in Nat
    BY BoundAssumption DEF TypeOK, Refuse
  <2>2. diag[h] + 1 \in 0..MaxDiag
    BY <2>1
  <2> QED
    BY <2>2 DEF TypeOK, Refuse
<1>2. ret' \in [h : AnyHandle \cup {NoHandle}, code : Code]
  BY DEF Refuse, Return, Code, AnyHandle
<1> QED
  BY <1>1, <1>2 DEF TypeOK, Refuse, tree

LEMMA ReturnTypes ==
  ASSUME NEW h \in AnyHandle, NEW c \in Code, Return(h, c)
  PROVE  ret' \in [h : AnyHandle \cup {NoHandle}, code : Code]
BY DEF Return

LEMMA DescribeTypes ==
  ASSUME TypeOK, NEW d \in AnyDesc, NEW to \in Descriptor, Describe(d, to),
         ruined' \in BOOLEAN
  PROVE  TypeOK'
<1>1. ret' \in [h : AnyHandle \cup {NoHandle}, code : Code]
  BY ReturnTypes DEF Describe, AnyHandle, Code
<1>2. desc' \in [AnyDesc -> Descriptor]
  BY DEF Describe, TypeOK
<1> QED
  BY <1>1, <1>2 DEF TypeOK, Describe, tree

LEMMA ComplaintTypes ==
  ASSUME TypeOK, NEW c \in Dbc, OnlyComplaint(c)
  PROVE  TypeOK'
<1>1. ret' \in [h : AnyHandle \cup {NoHandle}, code : Code]
  BY ReturnTypes DEF OnlyComplaint, AnyHandle, Code
<1>2. diag' \in [Env \cup Dbc -> 0..MaxDiag]
  <2>1. 1 \in 0..MaxDiag
    BY BoundAssumption
  <2> QED
    BY <2>1 DEF OnlyComplaint, TypeOK
<1> QED
  BY <1>1, <1>2 DEF TypeOK, OnlyComplaint, tree

LEMMA RefusalTypes ==
  ASSUME TypeOK, NEW c \in Dbc, SQLConnect(c) \/ SQLDisconnect(c)
  PROVE  TypeOK'
<1>1. CASE OnlyComplaint(c)
  BY <1>1, ComplaintTypes
<1>2. CASE /\ connected' \in {connected \cup {c}, connected \ {c}}
           /\ diag' = [diag EXCEPT ![c] = 0]
           /\ Return(c, "SUCCESS")
           /\ UNCHANGED <<tree, desc, closing, ruined>>
  <2>1. ret' \in [h : AnyHandle \cup {NoHandle}, code : Code]
    BY <1>2, ReturnTypes DEF AnyHandle, Code
  <2>2. diag' \in [Env \cup Dbc -> 0..MaxDiag]
    <3>1. 0 \in 0..MaxDiag
      BY BoundAssumption
    <3> QED
      BY <1>2, <3>1 DEF TypeOK
  <2> QED
    BY <1>2, <2>1, <2>2 DEF TypeOK, tree
<1> QED
  BY <1>1, <1>2 DEF SQLConnect, SQLDisconnect

LEMMA AllocTypes ==
  ASSUME TypeOK, NEW d \in AnyHandle, Return(d, "SUCCESS"),
         live' \subseteq AnyHandle, connected' \subseteq Dbc,
         holds' \in [Env \cup Dbc -> SUBSET (Dbc \cup Stmt)],
         parent' \in [Dbc \cup Stmt -> Env \cup Dbc \cup {NoHandle}],
         desc' \in [AnyDesc -> Descriptor],
         diag' \in [Env \cup Dbc -> 0..MaxDiag],
         ruined' \in BOOLEAN, UNCHANGED closing
  PROVE  TypeOK'
<1>1. ret' \in [h : AnyHandle \cup {NoHandle}, code : Code]
  BY ReturnTypes DEF Code
<1> QED
  BY <1>1 DEF TypeOK

LEMMA EraseTypes ==
  ASSUME TypeOK, NEW x \in Dbc \cup Stmt
  PROVE  Erase(x) \in [Env \cup Dbc -> SUBSET (Dbc \cup Stmt)]
BY DEF TypeOK, Erase

LEMMA StepTypes == TypeOK /\ [Next]_vars => TypeOK'
<1> SUFFICES ASSUME TypeOK, [Next]_vars PROVE TypeOK'
  OBVIOUS
<1>zero. 0 \in 0..MaxDiag /\ Blank \in Descriptor
  BY BoundAssumption DEF Blank, Descriptor
<1>sub. Env \subseteq AnyHandle /\ Dbc \subseteq AnyHandle /\ Stmt \subseteq AnyHandle
          /\ AnyDesc \subseteq AnyHandle /\ Desc \subseteq AnyDesc
          /\ \A s \in Stmt : Descriptors(s) \subseteq AnyDesc
  BY DEF AnyHandle, AnyDesc, Implicit, Descriptors
<1>0. CASE UNCHANGED vars
  BY <1>0 DEF vars, tree, TypeOK
<1>1. ASSUME NEW e \in Env, AllocEnv(e) PROVE TypeOK'
  <2>1. live' \subseteq AnyHandle /\ holds' \in [Env \cup Dbc -> SUBSET (Dbc \cup Stmt)]
    BY <1>1, <1>sub DEF TypeOK, AllocEnv
  <2>2. diag' \in [Env \cup Dbc -> 0..MaxDiag]
    BY <1>1, <1>zero DEF TypeOK, AllocEnv
  <2> QED
    BY <1>1, <1>sub, <2>1, <2>2, AllocTypes DEF TypeOK, AllocEnv
<1>2. ASSUME NEW e \in Env, NEW c \in Dbc, AllocDbc(e, c) PROVE TypeOK'
  <2>1. live' \subseteq AnyHandle /\ connected' \subseteq Dbc
    BY <1>2, <1>sub DEF TypeOK, AllocDbc
  <2>2. holds' \in [Env \cup Dbc -> SUBSET (Dbc \cup Stmt)]
    BY <1>2 DEF TypeOK, AllocDbc
  <2>3. parent' \in [Dbc \cup Stmt -> Env \cup Dbc \cup {NoHandle}]
    BY <1>2 DEF TypeOK, AllocDbc
  <2>4. diag' \in [Env \cup Dbc -> 0..MaxDiag]
    BY <1>2, <1>zero DEF TypeOK, AllocDbc
  <2> QED
    BY <1>2, <1>sub, <2>1, <2>2, <2>3, <2>4, AllocTypes DEF TypeOK, AllocDbc
<1>3. ASSUME NEW c \in Dbc, AllocStmtRefused(c) PROVE TypeOK'
  BY <1>3, RefuseTypes DEF AllocStmtRefused
<1>4. ASSUME NEW c \in Dbc, NEW s \in Stmt, AllocStmt(c, s) PROVE TypeOK'
  <2>1. live' \subseteq AnyHandle
    BY <1>4, <1>sub DEF TypeOK, AllocStmt
  <2>2. holds' \in [Env \cup Dbc -> SUBSET (Dbc \cup Stmt)]
    BY <1>4 DEF TypeOK, AllocStmt
  <2>3. parent' \in [Dbc \cup Stmt -> Env \cup Dbc \cup {NoHandle}]
    BY <1>4 DEF TypeOK, AllocStmt
  <2>4. desc' \in [AnyDesc -> Descriptor]
    BY <1>4, <1>zero DEF TypeOK, AllocStmt
  <2> QED
    BY <1>4, <1>sub, <2>1, <2>2, <2>3, <2>4, AllocTypes DEF TypeOK, AllocStmt
<1>5. ASSUME NEW c \in Dbc, NEW d \in Desc, AllocDesc(c, d) PROVE TypeOK'
  <2>1. live' \subseteq AnyHandle
    BY <1>5, <1>sub DEF TypeOK, AllocDesc
  <2>2. desc' \in [AnyDesc -> Descriptor]
    BY <1>5, <1>zero DEF TypeOK, AllocDesc
  <2> QED
    BY <1>5, <1>sub, <2>1, <2>2, AllocTypes DEF TypeOK, AllocDesc
<1>6. ASSUME NEW e \in Env \cap live, FreeEnv(e) PROVE TypeOK'
  <2>1. CASE Refuse(e)
    BY <2>1, RefuseTypes
  <2>2. CASE DeleteEnv(e)
    BY <2>2, <1>sub, AllocTypes DEF TypeOK, DeleteEnv
  <2> QED
    BY <1>6, <2>1, <2>2 DEF FreeEnv
<1>7. ASSUME NEW c \in Dbc \cap live, FreeDbc(c) PROVE TypeOK'
  <2>1. CASE Refuse(c)
    BY <2>1, RefuseTypes
  <2>2. CASE DeleteDbc(c)
    <3>1. Erase(c) \in [Env \cup Dbc -> SUBSET (Dbc \cup Stmt)]
      BY EraseTypes
    <3>2. live' \subseteq AnyHandle /\ connected' \subseteq Dbc /\ ruined' \in BOOLEAN
      BY <2>2 DEF TypeOK, DeleteDbc
    <3> QED
      BY <2>2, <1>sub, <3>1, <3>2, AllocTypes DEF TypeOK, DeleteDbc
  <2> QED
    BY <1>7, <2>1, <2>2 DEF FreeDbc
<1>8. ASSUME NEW s \in Stmt \cap live, FreeStmt(s) PROVE TypeOK'
  <2>1. Erase(s) \in [Env \cup Dbc -> SUBSET (Dbc \cup Stmt)]
    BY EraseTypes
  <2>2. live' \subseteq AnyHandle /\ ruined' \in BOOLEAN
    BY <1>8 DEF TypeOK, FreeStmt
  <2> QED
    BY <1>8, <1>sub, <2>1, <2>2, AllocTypes DEF TypeOK, FreeStmt
<1>9. ASSUME NEW d \in AnyDesc \cap live, FreeDesc(d) PROVE TypeOK'
  <2>1. live' \subseteq AnyHandle
    BY <1>9 DEF TypeOK, FreeDesc
  <2> QED
    BY <1>9, <1>sub, <2>1, AllocTypes DEF TypeOK, FreeDesc
<1>10. ASSUME NEW h \in AnyHandle, NEW t \in Type, Mistyped(h, t) PROVE TypeOK'
  <2>1. ret' \in [h : AnyHandle \cup {NoHandle}, code : Code]
    BY <1>10, ReturnTypes DEF Mistyped, Code
  <2> QED
    BY <1>10, <2>1 DEF Mistyped, TypeOK, tree
<1>11. ASSUME NEW c \in Dbc, SQLConnect(c) \/ SQLDisconnect(c) PROVE TypeOK'
  BY <1>11, RefusalTypes
<1>12. ASSUME NEW d \in AnyDesc, NEW n \in DescCount, SQLSetDescField(d, n) PROVE TypeOK'
  <2>1. [desc[d] EXCEPT !.count = n] \in Descriptor
    BY BoundAssumption DEF TypeOK, Descriptor
  <2> QED
    BY <1>12, <2>1, DescribeTypes DEF SQLSetDescField, TypeOK
<1>13. ASSUME NEW d \in AnyDesc, NEW i \in RecordNumber, SQLSetDescRec(d, i) PROVE TypeOK'
  <2> DEFINE size == IF desc[d].size < i THEN i ELSE desc[d].size
  <2>1. size \in Nat
    BY BoundAssumption DEF TypeOK, Descriptor
  <2>2. [count |-> size, size |-> size] \in Descriptor
    BY <2>1 DEF Descriptor
  <2>3. Describe(d, [count |-> size, size |-> size]) /\ ruined' = (i \notin 1..size)
    BY <1>13 DEF SQLSetDescRec, WriteRecord
  <2>4. ruined' \in BOOLEAN
    BY <2>3
  <2> HIDE DEF size
  <2> QED
    BY <2>2, <2>3, <2>4, DescribeTypes
<1>14. ASSUME NEW d \in AnyDesc, NEW to \in AnyDesc, SQLCopyDesc(d, to) PROVE TypeOK'
  <2>1. desc[d] \in Descriptor
    BY DEF TypeOK
  <2> QED
    BY <1>14, <2>1, DescribeTypes DEF SQLCopyDesc, TypeOK
<1>15. ASSUME NEW d \in AnyDesc, NEW i \in RecordNumber, SQLGetDescRec(d, i) PROVE TypeOK'
  <2>1. ret' \in [h : AnyHandle \cup {NoHandle}, code : Code]
    BY <1>15, <1>sub, ReturnTypes DEF SQLGetDescRec, Code
  <2> QED
    BY <1>15, <2>1 DEF SQLGetDescRec, TypeOK, tree
<1>16. ASSUME NEW h \in Env \cup Dbc, NEW i \in 1..MaxDiag, SQLGetDiagRec(h, i) PROVE TypeOK'
  <2>1. ret' \in [h : AnyHandle \cup {NoHandle}, code : Code]
    BY <1>16, <1>sub, ReturnTypes DEF SQLGetDiagRec, Code
  <2> QED
    BY <1>16, <2>1 DEF SQLGetDiagRec, TypeOK, tree
<1>17. CASE Close
  BY <1>17 DEF Close, TypeOK, tree
<1> QED
  BY <1>0, <1>1, <1>2, <1>3, <1>4, <1>5, <1>6, <1>7, <1>8, <1>9, <1>10, <1>11, <1>12,
     <1>13, <1>14, <1>15, <1>16, <1>17, Alternatives

-----------------------------------------------------------------------------
(* The tree                                                                *)

LEMMA Quiet ==
  ASSUME TreeIntegrity, UNCHANGED <<tree, connected>>
  PROVE  TreeIntegrity'
BY DEF TreeIntegrity, tree

LEMMA DescribeIsQuiet ==
  ASSUME NEW d, NEW to, Describe(d, to)
  PROVE  UNCHANGED <<tree, connected>>
BY DEF Describe

LEMMA KindsApart ==
  /\ \A e \in Env : e \notin Dbc /\ e \notin Stmt /\ e \notin AnyDesc
  /\ \A c \in Dbc : c \notin Stmt /\ c \notin AnyDesc
  /\ \A s \in Stmt : s \notin AnyDesc /\ Descriptors(s) \subseteq AnyDesc
  /\ \A d \in AnyDesc : d \notin Env \cup Dbc \cup Stmt
BY DistinctAssumption DEF AnyDesc, Implicit, Descriptors

LEMMA StepTree == TypeOK /\ TreeIntegrity /\ [Next]_vars => TreeIntegrity'
<1> SUFFICES ASSUME TypeOK, TreeIntegrity, [Next]_vars PROVE TreeIntegrity'
  OBVIOUS
<1> USE KindsApart DEF TypeOK
<1>0. CASE UNCHANGED <<tree, connected>>
  BY <1>0, Quiet
<1>1. ASSUME NEW e \in Env, AllocEnv(e) PROVE TreeIntegrity'
  BY <1>1 DEF AllocEnv, TreeIntegrity
<1>2. ASSUME NEW e \in Env, NEW c \in Dbc, AllocDbc(e, c) PROVE TreeIntegrity'
  <2>1. /\ e \in live /\ c \notin live /\ live' = live \cup {c}
        /\ holds' = [holds EXCEPT ![e] = @ \cup {c}, ![c] = {}]
        /\ parent' = [parent EXCEPT ![c] = e]
        /\ connected' = connected \ {c}
    BY <1>2 DEF AllocDbc
  <2>2. ASSUME NEW b \in Dbc \cap live'
        PROVE  parent'[b] \in Env \cap live' /\ b \in holds'[parent'[b]]
    BY <2>1 DEF TreeIntegrity
  <2>3. ASSUME NEW s \in Stmt \cap live'
        PROVE  parent'[s] \in Dbc \cap live' /\ s \in holds'[parent'[s]]
    BY <2>1 DEF TreeIntegrity
  <2>4. ASSUME NEW h \in (Env \cup Dbc) \cap live', NEW x \in holds'[h]
        PROVE  x \in live' /\ parent'[x] = h
    <3>1. CASE h = e
      BY <2>1, <3>1 DEF TreeIntegrity
    <3>2. CASE h = c
      BY <2>1, <3>2 DEF TreeIntegrity
    <3>3. CASE h # e /\ h # c
      BY <2>1, <3>3 DEF TreeIntegrity
    <3> QED
      BY <3>1, <3>2, <3>3
  <2>5. connected' \subseteq live'
    BY <2>1 DEF TreeIntegrity
  <2> QED
    BY <2>2, <2>3, <2>4, <2>5 DEF TreeIntegrity
<1>4. ASSUME NEW c \in Dbc, NEW s \in Stmt, AllocStmt(c, s) PROVE TreeIntegrity'
  <2>1. /\ c \in live /\ s \notin live /\ live' = live \cup {s} \cup Descriptors(s)
        /\ holds' = [holds EXCEPT ![c] = @ \cup {s}]
        /\ parent' = [parent EXCEPT ![s] = c]
        /\ connected' = connected
    BY <1>4 DEF AllocStmt
  <2>2. ASSUME NEW b \in Dbc \cap live'
        PROVE  parent'[b] \in Env \cap live' /\ b \in holds'[parent'[b]]
    BY <2>1 DEF TreeIntegrity
  <2>3. ASSUME NEW t \in Stmt \cap live'
        PROVE  parent'[t] \in Dbc \cap live' /\ t \in holds'[parent'[t]]
    <3>1. CASE t = s
      BY <2>1, <3>1
    <3>2. CASE t # s
      BY <2>1, <3>2 DEF TreeIntegrity
    <3> QED
      BY <3>1, <3>2
  <2>4. ASSUME NEW h \in (Env \cup Dbc) \cap live', NEW x \in holds'[h]
        PROVE  x \in live' /\ parent'[x] = h
    <3>1. h \in live
      BY <2>1
    <3>2. CASE h = c
      BY <2>1, <3>1, <3>2 DEF TreeIntegrity
    <3>3. CASE h # c
      BY <2>1, <3>1, <3>3 DEF TreeIntegrity
    <3> QED
      BY <3>2, <3>3
  <2>5. connected' \subseteq live'
    BY <2>1 DEF TreeIntegrity
  <2> QED
    BY <2>2, <2>3, <2>4, <2>5 DEF TreeIntegrity
<1>5. ASSUME NEW c \in Dbc, NEW d \in Desc, AllocDesc(c, d) PROVE TreeIntegrity'
  <2>1. d \in AnyDesc
    BY DEF AnyDesc
  <2> QED
    BY <1>5, <2>1 DEF AllocDesc, TreeIntegrity
<1>6. ASSUME NEW e \in Env \cap live, FreeEnv(e) PROVE TreeIntegrity'
  <2>1. CASE Refuse(e)
    BY <2>1, Quiet DEF Refuse
  <2>2. CASE holds[e] = {} /\ DeleteEnv(e)
    BY <2>2 DEF DeleteEnv, TreeIntegrity
  <2> QED
    BY <1>6, <2>1, <2>2 DEF FreeEnv
<1>7. ASSUME NEW c \in Dbc \cap live, FreeDbc(c) PROVE TreeIntegrity'
  <2>1. CASE Refuse(c)
    BY <2>1, Quiet DEF Refuse
  <2>2. CASE holds[c] = {} /\ DeleteDbc(c)
    <3>1. /\ live' = live \ {c} /\ parent' = parent
          /\ holds' = [holds EXCEPT ![parent[c]] = @ \ {c}]
          /\ connected' = connected \ {c}
      BY <2>2 DEF DeleteDbc, Erase
    <3>2. ASSUME NEW b \in Dbc \cap live'
          PROVE  parent'[b] \in Env \cap live' /\ b \in holds'[parent'[b]]
      BY <3>1 DEF TreeIntegrity
    <3>3. ASSUME NEW t \in Stmt \cap live'
          PROVE  parent'[t] \in Dbc \cap live' /\ t \in holds'[parent'[t]]
      BY <2>2, <3>1 DEF TreeIntegrity
    <3>4. ASSUME NEW h \in (Env \cup Dbc) \cap live', NEW x \in holds'[h]
          PROVE  x \in live' /\ parent'[x] = h
      <4>1. h \in live /\ x \in holds[h]
        BY <3>1
      <4>2. x \in live /\ parent[x] = h
        BY <4>1 DEF TreeIntegrity
      <4>3. x # c
        BY <3>1, <4>2 DEF TreeIntegrity
      <4> QED
        BY <3>1, <4>2, <4>3
    <3>5. connected' \subseteq live'
      BY <3>1 DEF TreeIntegrity
    <3> QED
      BY <3>2, <3>3, <3>4, <3>5 DEF TreeIntegrity
  <2> QED
    BY <1>7, <2>1, <2>2 DEF FreeDbc
<1>8. ASSUME NEW s \in Stmt \cap live, FreeStmt(s) PROVE TreeIntegrity'
  <2>1. /\ live' = live \ ({s} \cup Descriptors(s)) /\ parent' = parent
        /\ holds' = [holds EXCEPT ![parent[s]] = @ \ {s}]
        /\ connected' = connected
    BY <1>8 DEF FreeStmt, Erase
  <2>0. \A h \in Env \cup Dbc \cup Stmt : h # s => (h \in live <=> h \in live')
    BY <2>1
  <2>2. ASSUME NEW b \in Dbc \cap live'
        PROVE  parent'[b] \in Env \cap live' /\ b \in holds'[parent'[b]]
    BY <2>0, <2>1 DEF TreeIntegrity
  <2>3. ASSUME NEW t \in Stmt \cap live'
        PROVE  parent'[t] \in Dbc \cap live' /\ t \in holds'[parent'[t]]
    BY <2>0, <2>1 DEF TreeIntegrity
  <2>4. ASSUME NEW h \in (Env \cup Dbc) \cap live', NEW x \in holds'[h]
        PROVE  x \in live' /\ parent'[x] = h
    <3>1. h \in live /\ x \in holds[h] /\ x \in Dbc \cup Stmt
      BY <2>1
    <3>2. x \in live /\ parent[x] = h
      BY <3>1 DEF TreeIntegrity
    <3>3. x # s
      BY <2>1, <3>2 DEF TreeIntegrity
    <3> QED
      BY <2>0, <2>1, <3>1, <3>2, <3>3
  <2>5. connected' \subseteq live'
    BY <2>0, <2>1 DEF TreeIntegrity
  <2> QED
    BY <2>2, <2>3, <2>4, <2>5 DEF TreeIntegrity
<1>9. ASSUME NEW d \in AnyDesc \cap live, FreeDesc(d) PROVE TreeIntegrity'
  <2>1. \A h \in Env \cup Dbc \cup Stmt : h \in live <=> h \in live'
    BY <1>9 DEF FreeDesc
  <2>2. UNCHANGED <<holds, parent, connected>>
    BY <1>9 DEF FreeDesc
  <2> QED
    BY <2>1, <2>2 DEF TreeIntegrity
<1>11. ASSUME NEW c \in Dbc, SQLConnect(c) PROVE TreeIntegrity'
  <2>1. CASE OnlyComplaint(c)
    BY <2>1, Quiet DEF OnlyComplaint
  <2>2. CASE c \in live /\ connected' = connected \cup {c} /\ UNCHANGED tree
    BY <2>2 DEF TreeIntegrity, tree
  <2> QED
    BY <1>11, <2>1, <2>2 DEF SQLConnect
<1>12. ASSUME NEW c \in Dbc, SQLDisconnect(c) PROVE TreeIntegrity'
  <2>1. CASE OnlyComplaint(c)
    BY <2>1, Quiet DEF OnlyComplaint
  <2>2. CASE connected' = connected \ {c} /\ UNCHANGED tree
    BY <2>2 DEF TreeIntegrity, tree
  <2> QED
    BY <1>12, <2>1, <2>2 DEF SQLDisconnect
<1>13. ASSUME NEW d \in AnyDesc, NEW n \in DescCount, SQLSetDescField(d, n)
       PROVE  UNCHANGED <<tree, connected>>
  BY <1>13, DescribeIsQuiet DEF SQLSetDescField
<1>14. ASSUME NEW d \in AnyDesc, NEW i \in RecordNumber, SQLSetDescRec(d, i)
       PROVE  UNCHANGED <<tree, connected>>
  BY <1>14, DescribeIsQuiet DEF SQLSetDescRec, WriteRecord
<1>15. ASSUME NEW d \in AnyDesc, NEW to \in AnyDesc, SQLCopyDesc(d, to)
       PROVE  UNCHANGED <<tree, connected>>
  BY <1>15, DescribeIsQuiet DEF SQLCopyDesc
<1>16. CASE UNCHANGED vars
  BY <1>16, <1>0 DEF vars
<1> QED
  BY <1>0, <1>1, <1>2, <1>4, <1>5, <1>6, <1>7, <1>8, <1>9, <1>11, <1>12, <1>13, <1>14,
     <1>15, <1>16, Alternatives
     DEF AllocStmtRefused, Refuse, Mistyped, SQLGetDescRec, SQLGetDiagRec, Close

-----------------------------------------------------------------------------
(* What a deletion takes with it.  The refusals leave nothing to cascade.  *)

LEMMA OnlyFreesDelete ==
  ASSUME TypeOK, Next, NEW h \in live \ live'
  PROVE  \/ \E e \in Env \cap live : FreeEnv(e)
         \/ \E c \in Dbc \cap live : FreeDbc(c)
         \/ \E s \in Stmt \cap live : FreeStmt(s)
         \/ \E d \in AnyDesc \cap live : FreeDesc(d)
<1>1. ASSUME live \subseteq live' PROVE FALSE
  BY <1>1
<1>2. ASSUME NEW d, NEW to, Describe(d, to) PROVE live' = live
  BY <1>2, DescribeIsQuiet DEF tree
<1>3. ASSUME NEW c, SQLConnect(c) \/ SQLDisconnect(c) PROVE live' = live
  BY <1>3 DEF SQLConnect, SQLDisconnect, OnlyComplaint, tree
<1>4. ASSUME NEW d \in AnyDesc,
             \/ \E n \in DescCount : SQLSetDescField(d, n)
             \/ \E i \in RecordNumber : SQLSetDescRec(d, i)
             \/ \E to \in AnyDesc : SQLCopyDesc(d, to)
      PROVE live' = live
  BY <1>2, <1>4 DEF SQLSetDescField, SQLSetDescRec, WriteRecord, SQLCopyDesc
<1>5. /\ \A e \in Env : ~AllocEnv(e)
      /\ \A e \in Env, c \in Dbc : ~AllocDbc(e, c)
      /\ \A c \in Dbc : ~AllocStmtRefused(c)
      /\ \A c \in Dbc, s \in Stmt : ~AllocStmt(c, s)
      /\ \A c \in Dbc, d \in Desc : ~AllocDesc(c, d)
  BY <1>1 DEF AllocEnv, AllocDbc, AllocStmtRefused, Refuse, AllocStmt, AllocDesc, tree
<1>6. /\ \A x \in AnyHandle, t \in Type : ~Mistyped(x, t)
      /\ \A d \in AnyDesc, i \in RecordNumber : ~SQLGetDescRec(d, i)
      /\ \A x \in Env \cup Dbc, i \in 1..MaxDiag : ~SQLGetDiagRec(x, i)
      /\ ~Close
  BY <1>1 DEF Mistyped, SQLGetDescRec, SQLGetDiagRec, Close, tree
<1>7. \A c \in Dbc : ~SQLConnect(c) /\ ~SQLDisconnect(c)
  BY <1>1, <1>3
<1>8. \A d \in AnyDesc :
        /\ \A n \in DescCount : ~SQLSetDescField(d, n)
        /\ \A i \in RecordNumber : ~SQLSetDescRec(d, i)
        /\ \A to \in AnyDesc : ~SQLCopyDesc(d, to)
  BY <1>1, <1>4
<1> QED
  BY <1>5, <1>6, <1>7, <1>8, Alternatives

\* A call that deletes takes its own handle, and with a statement the four
\* implicit descriptors.
LEMMA Deletions ==
  ASSUME TypeOK, TreeIntegrity, Next, NEW h \in live \ live'
  PROVE  ret'.h = h \/ (h \in Implicit /\ ret'.h = h[1])
<1> USE DEF Return
<1>1. ASSUME NEW e \in Env \cap live, FreeEnv(e) PROVE ret'.h = h
  <2>1. live' = live \ {e} /\ ret'.h = e
    BY <1>1 DEF FreeEnv, DeleteEnv, Refuse, tree
  <2> QED
    BY <2>1
<1>2. ASSUME NEW c \in Dbc \cap live, FreeDbc(c) PROVE ret'.h = h
  <2>1. live' = live \ {c} /\ ret'.h = c
    BY <1>2 DEF FreeDbc, DeleteDbc, Refuse, tree
  <2> QED
    BY <2>1
<1>3. ASSUME NEW s \in Stmt \cap live, FreeStmt(s)
      PROVE  ret'.h = h \/ (h \in Implicit /\ ret'.h = h[1])
  <2>1. h \in {s} \cup Descriptors(s) /\ ret'.h = s
    BY <1>3 DEF FreeStmt
  <2>2. h \in Descriptors(s) => h \in Implicit /\ h[1] = s
    BY DEF Descriptors, Implicit
  <2> QED
    BY <2>1, <2>2
<1>4. ASSUME NEW d \in AnyDesc \cap live, FreeDesc(d) PROVE ret'.h = h
  <2>1. live' = live \ {d} /\ ret'.h = d
    BY <1>4 DEF FreeDesc
  <2> QED
    BY <2>1
<1> QED
  BY <1>1, <1>2, <1>3, <1>4, OnlyFreesDelete

LEMMA StepWhole ==
  ASSUME WellBehaved, TypeOK, TreeIntegrity, Whole, [Next]_vars
  PROVE  Whole'
<1> SUFFICES ASSUME NEW s \in Stmt, s \in live' PROVE Descriptors(s) \subseteq live'
  BY DEF Whole
<1>2. CASE s \notin live
  <2>1. Next /\ live' # live
    BY <1>2 DEF vars, tree
  <2>2. PICK c \in Dbc, t \in Stmt : AllocStmt(c, t) /\ s = t
    <3>1. ASSUME NEW e \in Env, AllocEnv(e) PROVE FALSE
      BY <1>2, <3>1, KindsApart DEF AllocEnv
    <3>2. ASSUME NEW e \in Env, NEW c \in Dbc, AllocDbc(e, c) PROVE FALSE
      BY <1>2, <3>2, KindsApart DEF AllocDbc
    <3>3. ASSUME NEW c \in Dbc, NEW d \in Desc, AllocDesc(c, d) PROVE FALSE
      BY <1>2, <3>3, KindsApart DEF AllocDesc, AnyDesc
    <3>4. ASSUME NEW c \in Dbc, NEW t \in Stmt, AllocStmt(c, t), s # t PROVE FALSE
      BY <1>2, <3>4, KindsApart DEF AllocStmt
    <3>5. ASSUME \/ \E c \in Dbc : AllocStmtRefused(c)
                 \/ \E x \in AnyHandle, t \in Type : Mistyped(x, t)
                 \/ \E d \in AnyDesc, i \in RecordNumber : SQLGetDescRec(d, i)
                 \/ \E x \in Env \cup Dbc, i \in 1..MaxDiag : SQLGetDiagRec(x, i)
                 \/ Close
          PROVE FALSE
      BY <1>2, <3>5 DEF AllocStmtRefused, Refuse, Mistyped, SQLGetDescRec, SQLGetDiagRec, Close, tree
    <3>6. ASSUME \/ \E e \in Env \cap live : FreeEnv(e)
                 \/ \E c \in Dbc \cap live : FreeDbc(c)
                 \/ \E t \in Stmt \cap live : FreeStmt(t)
                 \/ \E d \in AnyDesc \cap live : FreeDesc(d)
          PROVE FALSE
      BY <1>2, <3>6 DEF FreeEnv, DeleteEnv, FreeDbc, DeleteDbc, FreeStmt, FreeDesc, Refuse, tree
    <3>7. ASSUME NEW c, SQLConnect(c) \/ SQLDisconnect(c) PROVE FALSE
      BY <1>2, <3>7 DEF SQLConnect, SQLDisconnect, OnlyComplaint, tree
    <3>8. ASSUME NEW d \in AnyDesc,
                 \/ \E n \in DescCount : SQLSetDescField(d, n)
                 \/ \E i \in RecordNumber : SQLSetDescRec(d, i)
                 \/ \E to \in AnyDesc : SQLCopyDesc(d, to)
          PROVE FALSE
      BY <1>2, <3>8 DEF SQLSetDescField, SQLSetDescRec, WriteRecord, SQLCopyDesc, Describe, tree
    <3> QED
      BY <2>1, <3>1, <3>2, <3>3, <3>4, <3>5, <3>6, <3>7, <3>8, Alternatives
  <2> QED
    BY <2>2 DEF AllocStmt
<1>3. CASE s \in live
  <2> SUFFICES ASSUME NEW d \in Descriptors(s), d \notin live' PROVE FALSE
    OBVIOUS
  <2>1. d \in live /\ d \in Implicit /\ d[1] = s /\ d[2] \in Role
    BY <1>3 DEF Whole, Descriptors, Implicit
  <2>2. Next
    BY <2>1 DEF vars, tree
  <2>4. d \in AnyDesc /\ d \notin Env \cup Dbc \cup Stmt /\ d \notin Desc
    BY <2>1, DistinctAssumption DEF AnyDesc, Implicit
  <2>5. ASSUME NEW e \in Env \cap live, FreeEnv(e) PROVE FALSE
    BY <2>1, <2>4, <2>5 DEF FreeEnv, DeleteEnv, Refuse, tree
  <2>6. ASSUME NEW c \in Dbc \cap live, FreeDbc(c) PROVE FALSE
    BY <2>1, <2>4, <2>6 DEF FreeDbc, DeleteDbc, Refuse, tree
  <2>7. ASSUME NEW t \in Stmt \cap live, FreeStmt(t) PROVE FALSE
    <3>1. d \in Descriptors(t)
      BY <2>1, <2>4, <2>7 DEF FreeStmt
    <3>2. d[1] = t
      BY <3>1 DEF Descriptors
    <3>3. t \notin live'
      BY <2>7 DEF FreeStmt
    <3> QED
      BY <2>1, <3>2, <3>3
  <2>8. ASSUME NEW x \in AnyDesc \cap live, FreeDesc(x) PROVE FALSE
    BY <2>1, <2>8 DEF FreeDesc, WellBehaved
  <2> QED
    BY <2>1, <2>2, <2>5, <2>6, <2>7, <2>8, OnlyFreesDelete
<1> QED
  BY <1>2, <1>3

LEMMA StepDefined ==
  ASSUME WellBehaved, TypeOK, TreeIntegrity, Whole, ~ruined, [Next]_vars
  PROVE  ~ruined'
<1>0. CASE UNCHANGED ruined
  BY <1>0
<1>1. ASSUME NEW e \in Env \cap live, FreeEnv(e) PROVE ~ruined'
  BY <1>1 DEF FreeEnv, DeleteEnv, Refuse
<1>2. ASSUME NEW c \in Dbc \cap live, FreeDbc(c) PROVE ~ruined'
  <2>1. parent[c] \in live
    BY DEF TreeIntegrity
  <2> QED
    BY <1>2, <2>1 DEF FreeDbc, DeleteDbc, Refuse
<1>3. ASSUME NEW s \in Stmt \cap live, FreeStmt(s) PROVE ~ruined'
  <2>1. parent[s] \in live
    BY DEF TreeIntegrity
  <2>2. Descriptors(s) \subseteq live
    BY DEF Whole
  <2> QED
    BY <1>3, <2>1, <2>2 DEF FreeStmt
<1>4. ASSUME NEW d \in AnyDesc, NEW i \in RecordNumber, SQLSetDescRec(d, i) PROVE ~ruined'
  <2> DEFINE size == IF desc[d].size < i THEN i ELSE desc[d].size
  <2>1. i \in Nat /\ i # 0 /\ desc[d].size \in Nat
    BY BoundAssumption DEF WellBehaved, TypeOK, Descriptor
  <2>2. i \in 1..size
    BY <2>1
  <2>3. ruined' = (i \notin 1..size)
    BY <1>4 DEF SQLSetDescRec, WriteRecord
  <2> QED
    BY <2>2, <2>3
<1>5. CASE \/ \E e \in Env : AllocEnv(e)
           \/ \E e \in Env, c \in Dbc : AllocDbc(e, c)
           \/ \E c \in Dbc : AllocStmtRefused(c)
           \/ \E c \in Dbc, s \in Stmt : AllocStmt(c, s)
           \/ \E c \in Dbc, d \in Desc : AllocDesc(c, d)
  BY <1>5 DEF AllocEnv, AllocDbc, AllocStmtRefused, Refuse, AllocStmt, AllocDesc
<1>6. CASE \/ \E c \in Dbc : SQLConnect(c) \/ SQLDisconnect(c)
           \/ \E d \in AnyDesc, n \in DescCount : SQLSetDescField(d, n)
           \/ \E d \in AnyDesc, to \in AnyDesc : SQLCopyDesc(d, to)
           \/ \E d \in AnyDesc \cap live : FreeDesc(d)
  BY <1>6 DEF SQLConnect, SQLDisconnect, OnlyComplaint, SQLSetDescField, SQLCopyDesc, FreeDesc
<1>7. CASE \/ \E h \in AnyHandle, t \in Type : Mistyped(h, t)
           \/ \E d \in AnyDesc, i \in RecordNumber : SQLGetDescRec(d, i)
           \/ \E h \in Env \cup Dbc, i \in 1..MaxDiag : SQLGetDiagRec(h, i)
           \/ Close
           \/ UNCHANGED vars
  BY <1>7 DEF Mistyped, SQLGetDescRec, SQLGetDiagRec, Close, vars
<1> QED
  BY <1>0, <1>1, <1>2, <1>3, <1>4, <1>5, <1>6, <1>7, Alternatives

-----------------------------------------------------------------------------
(* The theorems                                                            *)

LEMMA InitTree == Init => TreeIntegrity /\ Whole /\ ~ruined
BY DEF Init, TreeIntegrity, Whole

\* The variables keep their types.
THEOREM TypeCorrect == Spec => []TypeOK
<1>1. TypeOK /\ [Next]_vars => TypeOK'
  BY StepTypes
<1> QED
  BY <1>1, InitTypes, PTL DEF Spec

\* env_ and conn_ lead to live parents that list the handle, and the vectors
\* list nothing dead, whatever the application calls.
THEOREM HandleTree == Spec => []TreeIntegrity
<1>1. Init => TypeOK /\ TreeIntegrity
  BY InitTypes, InitTree
<1>2. TypeOK /\ TreeIntegrity /\ [Next]_vars => TypeOK' /\ TreeIntegrity'
  BY StepTypes, StepTree
<1> QED
  BY <1>1, <1>2, PTL DEF Spec

\* No call of a well-behaved application deletes twice, cascades, or writes
\* outside records_.
THEOREM NothingUndefinedHappens == WellBehaved => (Spec => []NothingUndefined)
<1> SUFFICES ASSUME WellBehaved PROVE Spec => []NothingUndefined
  OBVIOUS
<1> DEFINE IInv == TypeOK /\ TreeIntegrity /\ Whole /\ ~ruined
<1>1. Init => IInv
  BY InitTypes, InitTree
<1>2. IInv /\ [Next]_vars => IInv'
  BY StepTypes, StepTree, StepWhole, StepDefined
<1>3. IInv => NothingUndefined
  BY DEF NothingUndefined
<1> HIDE DEF IInv
<1> QED
  BY <1>1, <1>2, <1>3, PTL DEF Spec

\* A handle disappears in the call that frees it, or with its statement.
THEOREM HandlesDieByTheirOwnFree == Spec => DiesByItsOwnFree
<1>1. TypeOK /\ TreeIntegrity /\ [Next]_vars =>
        [\A h \in live \ live' :
           \/ ret'.h = h
           \/ h \in Implicit /\ ret'.h = h[1]]_vars
  BY Deletions
<1> QED
  BY <1>1, TypeCorrect, HandleTree, PTL DEF Spec, DiesByItsOwnFree

=============================================================================
