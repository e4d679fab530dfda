-------------------------- MODULE MockLockingProofs --------------------------
(***************************************************************************)
(* What the locks of the mock driver achieve, for any number of threads    *)
(* and statements, in an application that keeps apart what Disciplined     *)
(* says, which the driver itself does not see to: no data race, no fetch   *)
(* of a row that is gone, every row fetched exactly once, and no result    *)
(* mixed of two executions.                                                *)
(*                                                                         *)
(* The inductive invariant says of a thread that it owns the lock of the   *)
(* statement it works on, of an exclusive call that it is alone, and of a  *)
(* statement how far its position is ahead of what has been delivered.     *)
(***************************************************************************)
EXTENDS MockLocking, TLAPS

\* The points of a call that holds no lock.
Outside == {"alloc", "free", "reload", "disconnect", "closing", "clear", "cancel",
            "endtran", "rollback"}

\* A thread is on a path of its call, and inside a lock it owns it.
Path(t) ==
  /\ Busy(t) => On(t) \in Stmt /\ thread[t].fn \in Call
  /\ thread[t].pc \in Inside \cup {"lock"} => thread[t].fn \in Locked
  /\ thread[t].pc \in Outside => thread[t].fn \in Unlocked
  /\ At(t, "change") => thread[t].fn \in Changing
  /\ thread[t].pc \in Inside => owner[On(t)] = t

\* An exclusive call has the driver for itself.
Alone == \A t, u \in Thread :
           Busy(t) /\ Busy(u) /\ thread[t].fn \in Exclusive[mode] => t = u

Ahead(s) == stmt[s].row = Len(fetched[s])
Spent(s) == stmt[s].data = <<>> \/ stmt[s].row >= Len(stmt[s].data)

\* What a thread knows of its statement at the points where it matters.
Knows(t) ==
  LET s == On(t) IN
    /\ At(t, "push") => /\ stmt[s].row = -1 /\ fetched[s] = <<>>
                        /\ \A i \in DOMAIN stmt[s].data : stmt[s].data[i] = t
    /\ At(t, "bounds") => stmt[s].row >= 0 /\ (Spent(s) \/ Ahead(s))
    /\ At(t, "deliver") => stmt[s].row \in 0..Len(stmt[s].data) - 1 /\ Ahead(s)

Fetching(s) == \E t \in Thread : thread[t].pc \in {"bounds", "deliver"} /\ On(t) = s

Consistent(s) ==
  /\ stmt[s].row >= -1
  /\ \A i, j \in DOMAIN stmt[s].data : stmt[s].data[i] = stmt[s].data[j]
  /\ fetched[s] = [i \in 1..Len(fetched[s]) |-> i - 1]
  /\ Fetching(s) \/ Spent(s) \/ stmt[s].row + 1 = Len(fetched[s])

Inv == /\ TypeOK
       /\ \A t \in Thread : Path(t)
       /\ Alone
       /\ \A t \in Thread : Knows(t)
       /\ \A s \in Stmt : Consistent(s)

-----------------------------------------------------------------------------
(* Consequences of the invariant                                           *)

\* Two threads are never inside locked calls on the same statement.
LEMMA OnlyOneInside ==
  ASSUME Inv, NEW t \in Thread, NEW u \in Thread,
         thread[t].pc \in Inside, thread[u].pc \in Inside, On(t) = On(u)
  PROVE  t = u
BY DEF Inv, Path

\* A thread in an exclusive call is the only one in a call.
LEMMA OthersIdle ==
  ASSUME Inv, Disciplined, NEW t \in Thread, NEW u \in Thread, u # t,
         thread[t].pc \in Outside \cup {"change"}
  PROVE  thread[u].pc = "idle"
<1>1. Busy(t) /\ thread[t].fn \in Exclusive[mode]
  BY DEF Inv, TypeOK, Path, Disciplined, Busy, At, Outside
<1> QED BY <1>1 DEF Inv, Alone, Busy, At

\* Where the configuration is Random, nor are two in calls that draw from it.
LEMMA DrawsAlone ==
  ASSUME Inv, Disciplined, NEW t \in Thread, NEW u \in Thread, u # t, Busy(t), Draws(t)
  PROVE  ~Busy(u)
<1>1. thread[t].fn \in Exclusive[mode]
  BY DEF Draws, Disciplined
<1> QED BY <1>1 DEF Inv, Alone

LEMMA InvNoDataRace == ASSUME Inv, Disciplined PROVE NoDataRace
<1> SUFFICES ASSUME NEW t \in Thread, NEW u \in Thread, t # u
             PROVE  Writes(t) \cap (Writes(u) \cup Reads(u)) = {}
  BY DEF NoDataRace
<1>1. thread[t].pc \in PC /\ thread[u].pc \in PC
  BY DEF Inv, TypeOK
<1>2. CASE thread[t].pc \in Outside \cup {"change"}
  <2>1. thread[u].pc = "idle" BY <1>2, OthersIdle
  <2> QED BY <2>1 DEF Writes, Reads, OnStatement, Inside
<1>3. CASE thread[u].pc \in Outside \cup {"change"}
  <2>1. thread[t].pc = "idle" BY <1>3, OthersIdle
  <2> QED BY <2>1 DEF Writes, OnStatement, Inside
<1>4. CASE /\ thread[t].pc \in {"idle", "lock"} \cup Inside /\ thread[t].pc # "change"
           /\ thread[u].pc \in {"idle", "lock"} \cup Inside /\ thread[u].pc # "change"
  <2>1. /\ Reads(u) \subseteq {"catalog", "configuration"}
        /\ Writes(t) \subseteq {On(t), "generator"}
        /\ Writes(u) \subseteq {On(u), "generator"}
    BY <1>4 DEF Writes, Reads, OnStatement, Inside
  <2>2. /\ On(t) \in Writes(t) /\ On(t) \in Stmt => thread[t].pc \in OnStatement
        /\ On(u) \in Writes(u) /\ On(u) \in Stmt => thread[u].pc \in OnStatement
    BY <1>4, LockingAssumption DEF Writes, Shared, Inside
  <2>3. /\ "generator" \in Writes(t) => Busy(t) /\ (Draws(t) \/ On(t) = "generator")
        /\ "generator" \in Writes(u) => Busy(u) /\ (Draws(u) \/ On(u) = "generator")
    BY <1>4 DEF Writes, OnStatement, Inside, Busy, At
  <2>4. /\ Busy(t) => On(t) \in Stmt
        /\ Busy(u) => On(u) \in Stmt
    BY DEF Inv, Path
  <2>5. /\ thread[t].pc \in OnStatement => Busy(t) /\ thread[t].pc \in Inside
        /\ thread[u].pc \in OnStatement => Busy(u) /\ thread[u].pc \in Inside
    BY <1>4 DEF OnStatement, Inside, Busy, At
  <2>6. ~(thread[t].pc \in OnStatement /\ thread[u].pc \in OnStatement /\ On(t) = On(u))
    BY <2>5, OnlyOneInside
  <2>7. ~("generator" \in Writes(t) /\ "generator" \in Writes(u))
    BY <2>3, <2>4, DrawsAlone, LockingAssumption DEF Shared
  <2>8. /\ Writes(t) # {} => Busy(t)
        /\ Writes(u) # {} => Busy(u)
    BY <1>4 DEF Writes, OnStatement, Inside, Busy, At
  <2> QED BY <2>1, <2>2, <2>4, <2>6, <2>7, <2>8, LockingAssumption DEF Shared
<1> QED BY <1>1, <1>2, <1>3, <1>4 DEF PC, Outside

-----------------------------------------------------------------------------
(* What a step has to establish                                            *)

\* The configuration stays, or another is installed; the generator moves.
SameMode == mode' = mode /\ generator' \in 0..Period - 1
AnyMode  == mode' \in Modes /\ generator' \in 0..Period - 1

LEMMA DrawnMode ==
  ASSUME Inv, NEW m \in Modes, DrawIn(m)
  PROVE  generator' \in 0..Period - 1
<1>1. generator \in 0..Period - 1 /\ Period \in Nat \ {0}
  BY LockingAssumption DEF Inv, TypeOK
<1>2. generator' = generator \/ generator' = (generator + 1) % Period
  BY DEF DrawIn
<1> QED BY <1>1, <1>2

LEMMA KeptMode ==
  ASSUME Inv, NEW t \in Thread, UNCHANGED behavior \/ Draw(t)
  PROVE  SameMode
<1>1. mode \in Modes /\ generator \in 0..Period - 1
  BY DEF Inv, TypeOK
<1> QED BY <1>1, DrawnMode DEF Draw, SameMode, behavior

LEMMA LockedMode ==
  ASSUME Inv, NEW t \in Thread, LockedStep(t) \/ Acquire(t)
  PROVE  SameMode
<1>1. UNCHANGED behavior \/ Draw(t)
  BY DEF LockedStep, Acquire, Release, Refused, SQLPrepare, ExecuteChecked, Unfit, Query,
         Change, Store, Push, SQLFetch, Advance, Bounds, Deliver, SQLGetData, Get
<1> QED BY <1>1, KeptMode

LEMMA UnlockedMode ==
  ASSUME Inv, NEW t \in Thread, UnlockedStep(t)
  PROVE  AnyMode
<1>1. CASE SQLDriverConnect(t)
  <2>1. mode \in Modes
    BY DEF Inv, TypeOK
  <2> QED BY <1>1, <2>1, DrawnMode DEF SQLDriverConnect, AnyMode
<1>2. CASE ~SQLDriverConnect(t)
  <2>1. UNCHANGED behavior \/ Draw(t)
    BY <1>2, Zenon DEF UnlockedStep, SQLAllocHandle, SQLFreeHandle, SQLDisconnect, SQLCloseCursor, Clear,
           SQLCancel, SQLEndTran, Rollback
  <2> QED BY <2>1, KeptMode DEF SameMode, AnyMode, Inv, TypeOK
<1> QED BY <1>1, <1>2

Fields == [alive : BOOLEAN, executed : BOOLEAN, open : BOOLEAN, row : Int, data : Seq(Thread)]

LEMMA ThreadType ==
  ASSUME Inv
  PROVE  thread \in [Thread -> [pc : PC, fn : Call \cup {"none"},
                               on : Stmt \cup {Nothing}, left : 0..MaxRow]]
BY DEF Inv, TypeOK

\* A step inside a locked call concerns the thread and its statement only.
LEMMA LockedFrame ==
  ASSUME Inv, NEW t \in Thread, thread[t].pc \in Inside,
         NEW p \in Inside, NEW n \in 0..MaxRow, NEW r \in Fields, NEW f \in Seq(Int),
         thread' = [thread EXCEPT ![t] = [@ EXCEPT !.pc = p, !.left = n]],
         stmt' = [stmt EXCEPT ![On(t)] = r],
         fetched' = [fetched EXCEPT ![On(t)] = f],
         owner' = owner, table' \in NoTable..MaxRow, SameMode,
         p = "change" => thread[t].fn \in Changing,
         Knows(t)', \A s \in Stmt : s = On(t) => Consistent(s)'
  PROVE  Inv'
<1>1. On(t) \in Stmt /\ thread[t].fn \in Call /\ thread[t].fn \in Locked /\ owner[On(t)] = t
  BY DEF Inv, Path, Busy, At, Inside
<1>2. thread'[t].pc = p /\ thread'[t].fn = thread[t].fn /\ thread'[t].on = thread[t].on
  BY DEF Inv, TypeOK
<1>3. \A u \in Thread : u # t => thread'[u] = thread[u]
  BY DEF Inv, TypeOK
<1>4. \A s \in Stmt : s # On(t) => stmt'[s] = stmt[s] /\ fetched'[s] = fetched[s]
  BY DEF Inv, TypeOK
<1>5. TypeOK'
  <2>1. thread' \in [Thread -> [pc : PC, fn : Call \cup {"none"},
                                on : Stmt \cup {Nothing}, left : 0..MaxRow]]
    BY ThreadType DEF PC
  <2>2. stmt' \in [Stmt -> Fields] /\ fetched' \in [Stmt -> Seq(Int)]
    BY DEF Inv, TypeOK, Fields
  <2> QED BY <2>1, <2>2 DEF Inv, TypeOK, Fields, SameMode
<1>6. ASSUME NEW u \in Thread PROVE Path(u)'
  <2>1. CASE u = t
    BY <2>1, <1>1, <1>2 DEF Path, Busy, At, On, Inside, Outside
  <2>2. CASE u # t
    BY <2>2, <1>3 DEF Inv, Path, Busy, At, On
  <2> QED BY <2>1, <2>2
<1>7. Alone'
  BY <1>2, <1>3 DEF Inv, Alone, Busy, At, Inside, SameMode
<1>8. ASSUME NEW u \in Thread PROVE Knows(u)'
  <2>1. CASE u # t /\ thread[u].pc \in Inside
    <3>1. On(u) # On(t) /\ On(u) \in Stmt
      BY <2>1, OnlyOneInside DEF Inv, Path, Busy, At, Inside
    <3>2. thread'[u] = thread[u] /\ thread'[u].on = On(u)
      BY <2>1, <1>3 DEF On
    <3>3. stmt'[On(u)] = stmt[On(u)] /\ fetched'[On(u)] = fetched[On(u)]
      BY <3>1, <1>4
    <3>4. Knows(u) BY DEF Inv
    <3> QED BY <3>2, <3>3, <3>4 DEF Knows, At, On, Spent, Ahead
  <2>2. CASE u # t /\ thread[u].pc \notin Inside
    BY <2>2, <1>3 DEF Knows, At, Inside
  <2> QED BY <2>1, <2>2
<1>9. ASSUME NEW s \in Stmt PROVE Consistent(s)'
  <2>1. CASE s # On(t)
    <3>1. Fetching(s) => Fetching(s)'
      BY <2>1, <1>3 DEF Fetching, On
    <3> QED BY <2>1, <3>1, <1>4 DEF Inv, Consistent, Spent
  <2> QED BY <2>1
<1> QED BY <1>5, <1>6, <1>7, <1>8, <1>9 DEF Inv

\* A step of an exclusive call meets no other thread.
LEMMA ExclusiveFrame ==
  ASSUME Inv, Disciplined, NEW t \in Thread, thread[t].pc \in Outside,
         \/ thread' = [thread EXCEPT ![t] = Idle]
         \/ \E p \in Outside : thread' = [thread EXCEPT ![t].pc = p],
         stmt' \in [Stmt -> Fields], fetched' \in [Stmt -> Seq(Int)],
         owner' = owner, table' \in NoTable..MaxRow, AnyMode,
         \A s \in Stmt : Consistent(s) /\ ~Fetching(s) => Consistent(s)'
  PROVE  Inv'
<1>1. \A u \in Thread : u # t => thread'[u] = thread[u] /\ thread[u].pc = "idle"
  BY OthersIdle DEF Inv, TypeOK
<1>2. thread'[t] = Idle \/ \E p \in Outside : thread'[t] = [thread[t] EXCEPT !.pc = p]
  BY DEF Inv, TypeOK
<1>3. thread[t] \in [pc : PC, fn : Call, on : Stmt, left : 0..MaxRow] /\ thread[t].fn \in Unlocked
  BY DEF Inv, TypeOK, Path, Busy, At, On, Outside
<1>4. TypeOK'
  <2>1. Idle \in [pc : PC, fn : Call \cup {"none"}, on : Stmt \cup {Nothing}, left : 0..MaxRow]
    BY LockingAssumption DEF Idle, PC
  <2>2. \A p \in Outside : [thread[t] EXCEPT !.pc = p]
                           \in [pc : PC, fn : Call \cup {"none"}, on : Stmt \cup {Nothing}, left : 0..MaxRow]
    BY <1>3 DEF PC, Outside
  <2>3. thread'[t] \in [pc : PC, fn : Call \cup {"none"}, on : Stmt \cup {Nothing}, left : 0..MaxRow]
    BY <1>2, <2>1, <2>2
  <2>4. DOMAIN thread' = Thread /\ thread' = [u \in Thread |-> thread'[u]]
    BY DEF Inv, TypeOK
  <2>5. \A u \in Thread : thread'[u] \in [pc : PC, fn : Call \cup {"none"},
                                          on : Stmt \cup {Nothing}, left : 0..MaxRow]
    BY <1>1, <2>3 DEF Inv, TypeOK
  <2>6. thread' \in [Thread -> [pc : PC, fn : Call \cup {"none"},
                                on : Stmt \cup {Nothing}, left : 0..MaxRow]]
    BY <2>4, <2>5
  <2> QED BY <2>6 DEF Inv, TypeOK, Fields, AnyMode
<1>5. ASSUME NEW u \in Thread PROVE Path(u)'
  <2>1. CASE u # t
    BY <2>1, <1>1 DEF Path, Busy, At, Inside, Outside
  <2>2. CASE u = t /\ thread'[t] = Idle
    BY <2>2 DEF Path, Busy, At, Idle, Inside, Outside
  <2>3. CASE u = t /\ \E p \in Outside : thread'[t] = [thread[t] EXCEPT !.pc = p]
    BY <2>3, <1>3 DEF Path, Busy, At, On, Inside, Outside
  <2> QED BY <2>1, <2>2, <2>3, <1>2
<1>6. Alone'
  BY <1>1 DEF Alone, Busy, At
<1>7. ASSUME NEW u \in Thread PROVE Knows(u)'
  <2>1. CASE u # t
    BY <2>1, <1>1 DEF Knows, At
  <2>2. CASE u = t /\ thread'[t] = Idle
    BY <2>2 DEF Knows, At, Idle
  <2>3. CASE u = t /\ \E p \in Outside : thread'[t] = [thread[t] EXCEPT !.pc = p]
    BY <2>3, <1>3 DEF Knows, At, Outside
  <2> QED BY <2>1, <2>2, <2>3, <1>2
<1>8. \A s \in Stmt : ~Fetching(s)
  BY <1>1 DEF Fetching, Outside
<1> QED BY <1>4, <1>5, <1>6, <1>7, <1>8 DEF Inv

-----------------------------------------------------------------------------
(* Entering and leaving a call                                             *)

LEMMA InitInv == Init => Inv
<1> SUFFICES ASSUME Init PROVE Inv OBVIOUS
<1>1. TypeOK
  BY LockingAssumption DEF Init, TypeOK, Fresh, Rewound, Idle, PC, NoTable
<1>2. \A t \in Thread : thread[t].pc = "idle" BY DEF Init, Idle
<1>3. \A t \in Thread : Path(t) /\ Knows(t)
  BY <1>2 DEF Path, Knows, Busy, At, Inside, Outside
<1>4. Alone BY <1>2 DEF Alone, Busy, At
<1>5. \A s \in Stmt : Consistent(s)
  BY DEF Init, Consistent, Spent, Fresh, Rewound
<1> QED BY <1>1, <1>3, <1>4, <1>5 DEF Inv

\* A step that moves one thread between points outside every lock.
LEMMA OtherThreads ==
  ASSUME Inv, NEW t \in Thread, NEW w,
         thread' = [thread EXCEPT ![t] = w],
         w \in [pc : PC, fn : Call \cup {"none"}, on : Stmt \cup {Nothing}, left : 0..MaxRow],
         w.pc \notin {"push", "bounds", "deliver"},
         thread[t].pc \notin {"bounds", "deliver"},
         owner' \in [Stmt -> Thread \cup {Nothing}],
         \A u \in Thread : u # t /\ thread[u].pc \in Inside => owner'[On(u)] = owner[On(u)],
         UNCHANGED <<stmt, table, fetched>>, SameMode,
         Path(t)', Alone'
  PROVE  Inv'
<1>1. thread'[t] = w /\ \A u \in Thread : u # t => thread'[u] = thread[u]
  BY DEF Inv, TypeOK
<1>2. TypeOK'
  BY DEF Inv, TypeOK, SameMode
<1>3. ASSUME NEW u \in Thread PROVE Path(u)'
  BY <1>1 DEF Inv, Path, Busy, At, On
<1>4. ASSUME NEW u \in Thread PROVE Knows(u)'
  <2>1. CASE u = t
    BY <2>1, <1>1 DEF Knows, At
  <2>2. CASE u # t
    <3>1. Knows(u) /\ thread'[u] = thread[u] BY <2>2, <1>1 DEF Inv
    <3> QED BY <3>1 DEF Knows, At, On, Spent, Ahead
  <2> QED BY <2>1, <2>2
<1>5. ASSUME NEW s \in Stmt PROVE Consistent(s)'
  <2>1. Fetching(s) => Fetching(s)'
    BY <1>1 DEF Fetching, On
  <2>2. Consistent(s) BY DEF Inv
  <2> QED BY <2>1, <2>2 DEF Consistent, Spent
<1> QED BY <1>2, <1>3, <1>4, <1>5 DEF Inv

LEMMA BeginInv ==
  ASSUME Inv, Disciplined, NEW t \in Thread, NEW fn \in Call, NEW s \in Stmt, Begin(t, fn, s)
  PROVE  Inv'
<1> DEFINE w == [pc |-> Entry(fn), fn |-> fn, on |-> s, left |-> 0]
<1>1. thread' = [thread EXCEPT ![t] = w] /\ UNCHANGED <<owner, stmt, table, fetched>>
  BY DEF Begin
<1>0. mode' = mode /\ SameMode
  BY KeptMode DEF Begin, SameMode
<1>2. \/ fn \in Locked /\ Entry(fn) = "lock"
      \/ fn \in Unlocked /\ Entry(fn) \in Outside
  BY DEF Call, Entry, Body, Locked, Unlocked, Outside
<1>3. w \in [pc : PC, fn : Call \cup {"none"}, on : Stmt \cup {Nothing}, left : 0..MaxRow]
  BY <1>2, LockingAssumption DEF PC, Outside
<1>4. thread'[t] = w /\ \A u \in Thread : u # t => thread'[u] = thread[u]
  BY <1>1 DEF Inv, TypeOK
<1>5. w.pc \notin Inside
  BY <1>2 DEF Inside, Outside
<1>6. Path(t)'
  BY <1>2, <1>4, <1>5 DEF Path, Busy, At, On, Inside, Outside
<1>7. Alone'
  <2>1. \A u \in Thread : u # t /\ Busy(u) => thread[u].fn \notin Exclusive[mode] /\ fn \notin Exclusive[mode]
    BY DEF Begin
  <2> QED BY <2>1, <1>0, <1>4 DEF Inv, Alone, Busy, At
<1>8. thread[t].pc = "idle" BY DEF Begin, Busy, At
<1> QED BY <1>0, <1>1, <1>3, <1>5, <1>6, <1>7, <1>8, OtherThreads DEF Inside, Inv, TypeOK

LEMMA AcquireInv ==
  ASSUME Inv, NEW t \in Thread, Acquire(t)
  PROVE  Inv'
<1> DEFINE w == [thread[t] EXCEPT !.pc = "check"]
<1>1. /\ thread[t] \in [pc : PC, fn : Locked, on : Stmt, left : 0..MaxRow]
      /\ thread[t].pc = "lock"
  BY DEF Acquire, Inv, TypeOK, Path, Busy, At, On
<1>2. Body(thread[t].fn) = "check"
  BY <1>1 DEF Body, Locked, Changing
<1>3. thread' = [thread EXCEPT ![t] = w]
  BY <1>2 DEF Acquire, GoTo, Inv, TypeOK
<1>4. w \in [pc : PC, fn : Call \cup {"none"}, on : Stmt \cup {Nothing}, left : 0..MaxRow]
  BY <1>1 DEF PC, Inside, Call
<1>5. w.pc = "check" /\ w.fn = thread[t].fn /\ w.on = On(t) /\ w.left = thread[t].left
  BY <1>1 DEF On
<1>6. owner' = [owner EXCEPT ![On(t)] = t] /\ owner[On(t)] = Nothing /\ On(t) \in Stmt
  BY <1>1 DEF Acquire, On
<1>7. \A u \in Thread : u # t /\ thread[u].pc \in Inside => owner'[On(u)] = owner[On(u)]
  BY <1>6, LockingAssumption DEF Inv, TypeOK, Path
<1>8. thread'[t] = w /\ \A u \in Thread : u # t => thread'[u] = thread[u]
  BY <1>3 DEF Inv, TypeOK
<1>9. Path(t)'
  BY <1>1, <1>5, <1>6, <1>8 DEF Path, Busy, At, On, Inside, Outside, Call, Inv, TypeOK
<1>0. SameMode BY LockedMode
<1>10. Alone'
  BY <1>0, <1>1, <1>5, <1>8 DEF Inv, Alone, Busy, At, SameMode
<1>11. owner' \in [Stmt -> Thread \cup {Nothing}] /\ UNCHANGED <<stmt, table, fetched>>
  BY <1>6 DEF Inv, TypeOK, Acquire
<1> QED BY <1>0, <1>1, <1>3, <1>4, <1>5, <1>7, <1>9, <1>10, <1>11, OtherThreads

LEMMA ReleaseInv ==
  ASSUME Inv, NEW t \in Thread, Release(t)
  PROVE  Inv'
<1>1. thread[t].pc = "unlock" /\ On(t) \in Stmt /\ owner[On(t)] = t
  BY DEF Release, Inv, Path, Busy, At, Inside
<1>2. thread' = [thread EXCEPT ![t] = Idle] /\ owner' = [owner EXCEPT ![On(t)] = Nothing]
  BY DEF Release, Return
<1>3. Idle \in [pc : PC, fn : Call \cup {"none"}, on : Stmt \cup {Nothing}, left : 0..MaxRow]
  BY LockingAssumption DEF Idle, PC
<1>4. \A u \in Thread : u # t /\ thread[u].pc \in Inside => owner'[On(u)] = owner[On(u)]
  BY <1>1, <1>2, OnlyOneInside DEF Inv, TypeOK, Inside
<1>5. thread'[t] = Idle /\ \A u \in Thread : u # t => thread'[u] = thread[u]
  BY <1>2 DEF Inv, TypeOK
<1>6. Path(t)'
  BY <1>5 DEF Path, Busy, At, Idle, Inside, Outside
<1>0. SameMode BY LockedMode DEF LockedStep
<1>7. Alone'
  BY <1>0, <1>5 DEF Inv, Alone, Busy, At, Idle, SameMode
<1>8. owner' \in [Stmt -> Thread \cup {Nothing}] /\ UNCHANGED <<stmt, table, fetched>>
  BY <1>2 DEF Inv, TypeOK, Release
<1>9. Idle.pc = "idle" BY DEF Idle
<1> QED BY <1>0, <1>1, <1>2, <1>3, <1>4, <1>6, <1>7, <1>8, <1>9, OtherThreads

-----------------------------------------------------------------------------
(* Steps inside a lock                                                     *)

\* What the statement of a thread in a locked call looks like.
LEMMA InsideFacts ==
  ASSUME Inv, NEW t \in Thread, thread[t].pc \in Inside
  PROVE  /\ On(t) \in Stmt /\ stmt[On(t)] \in Fields /\ fetched[On(t)] \in Seq(Int)
         /\ thread[t].left \in 0..MaxRow /\ table \in NoTable..MaxRow
         /\ thread[t] \in [pc : PC, fn : Call \cup {"none"}, on : Stmt \cup {Nothing}, left : 0..MaxRow]
         /\ Knows(t) /\ Consistent(On(t))
         /\ thread[t].pc \notin {"bounds", "deliver"} => ~Fetching(On(t))
<1>1. On(t) \in Stmt
  BY DEF Inv, Path, Busy, At, Inside
<1>2. thread[t].pc \notin {"bounds", "deliver"} => ~Fetching(On(t))
  BY OnlyOneInside DEF Fetching, Inside
<1> QED BY <1>1, <1>2 DEF Inv, TypeOK, Fields

\* A step inside a lock that changes nothing but where the thread is, or
\* flags that no invariant is about.
LEMMA FlagStep ==
  ASSUME Inv, NEW t \in Thread, thread[t].pc \in Inside,
         thread[t].pc \notin {"bounds", "deliver"},
         NEW p \in Inside \ {"push", "bounds", "deliver"}, NEW n \in 0..MaxRow,
         NEW e \in BOOLEAN, NEW o \in BOOLEAN,
         thread' = [thread EXCEPT ![t] = [@ EXCEPT !.pc = p, !.left = n]],
         stmt' = [stmt EXCEPT ![On(t)] = [@ EXCEPT !.executed = e, !.open = o]],
         fetched' = fetched, owner' = owner, table' \in NoTable..MaxRow, SameMode,
         p = "change" => thread[t].fn \in Changing
  PROVE  Inv'
<1> DEFINE r == [stmt[On(t)] EXCEPT !.executed = e, !.open = o]
<1>1. /\ On(t) \in Stmt /\ stmt[On(t)] \in Fields /\ fetched[On(t)] \in Seq(Int)
      /\ Consistent(On(t)) /\ ~Fetching(On(t))
  BY InsideFacts
<1>2. r \in Fields /\ r.row = stmt[On(t)].row /\ r.data = stmt[On(t)].data
  BY <1>1 DEF Fields
<1>3. stmt' = [stmt EXCEPT ![On(t)] = r] /\ fetched' = [fetched EXCEPT ![On(t)] = fetched[On(t)]]
  BY <1>1 DEF Inv, TypeOK
<1>4. stmt'[On(t)] = r
  BY <1>1, <1>3 DEF Inv, TypeOK
<1>5. thread'[t].pc = p
  BY InsideFacts DEF Inv, TypeOK
<1>6. Knows(t)'
  BY <1>5 DEF Knows, At
<1>7. \A s \in Stmt : s = On(t) => Consistent(s)'
  BY <1>1, <1>2, <1>4 DEF Consistent, Spent
<1> HIDE DEF r
<1> QED BY <1>1, <1>2, <1>3, <1>6, <1>7, LockedFrame

LEMMA Moves ==
  ASSUME Inv, NEW t \in Thread, thread[t].pc \in Inside, NEW p, GoTo(t, p)
  PROVE  thread' = [thread EXCEPT ![t] = [@ EXCEPT !.pc = p, !.left = thread[t].left]]
BY InsideFacts DEF GoTo, Inv, TypeOK

\* Leaving stmt as it is sets its flags to what they are.
LEMMA SameFlags ==
  ASSUME Inv, NEW t \in Thread, thread[t].pc \in Inside
  PROVE  /\ stmt[On(t)].executed \in BOOLEAN /\ stmt[On(t)].open \in BOOLEAN
         /\ stmt = [stmt EXCEPT ![On(t)] = [@ EXCEPT !.executed = stmt[On(t)].executed,
                                                      !.open = stmt[On(t)].open]]
<1>1. stmt[On(t)] \in Fields BY InsideFacts
<1>2. [stmt[On(t)] EXCEPT !.executed = stmt[On(t)].executed, !.open = stmt[On(t)].open] = stmt[On(t)]
  BY <1>1 DEF Fields
<1> QED BY <1>1, <1>2 DEF Fields, Inv, TypeOK

\* A step that only moves the thread, to a point about which it knows nothing.
LEMMA MoveStep ==
  ASSUME Inv, NEW t \in Thread, thread[t].pc \in Inside,
         thread[t].pc \notin {"bounds", "deliver"},
         NEW p \in Inside \ {"push", "bounds", "deliver"},
         GoTo(t, p), UNCHANGED <<owner, stmt, fetched>>, table' \in NoTable..MaxRow, SameMode,
         p = "change" => thread[t].fn \in Changing
  PROVE  Inv'
<1>1. thread' = [thread EXCEPT ![t] = [@ EXCEPT !.pc = p, !.left = thread[t].left]]
  BY Moves
<1>2. thread[t].left \in 0..MaxRow BY InsideFacts
<1> QED BY <1>1, <1>2, SameFlags, FlagStep

LEMMA RefusedInv == ASSUME Inv, NEW t \in Thread, Refused(t) PROVE Inv'
<1>1. thread[t].pc = "check" /\ GoTo(t, "unlock") /\ UNCHANGED <<owner, stmt, table, fetched>>
  BY DEF Refused, At
<1>2. SameMode BY LockedMode DEF LockedStep
<1> QED BY <1>1, <1>2, MoveStep DEF Inside, Inv, TypeOK

LEMMA PrepareInv == ASSUME Inv, NEW t \in Thread, SQLPrepare(t) PROVE Inv'
<1>1. thread[t].pc = "check" /\ GoTo(t, "unlock") /\ UNCHANGED <<owner, table, fetched>>
  BY DEF SQLPrepare, At
<1>2. /\ thread[t].pc \in Inside /\ "unlock" \in Inside \ {"push", "bounds", "deliver"}
      /\ thread[t].pc \notin {"bounds", "deliver"}
  BY <1>1 DEF Inside
<1>3. thread' = [thread EXCEPT ![t] = [@ EXCEPT !.pc = "unlock", !.left = thread[t].left]]
  BY <1>1, <1>2, Moves
<1>4. thread[t].left \in 0..MaxRow /\ table' \in NoTable..MaxRow
  BY <1>1, <1>2, InsideFacts
<1>5. stmt' = [stmt EXCEPT ![On(t)] = [@ EXCEPT !.executed = FALSE, !.open = FALSE]]
  BY DEF SQLPrepare, Inv, TypeOK
<1>6. SameMode BY LockedMode DEF LockedStep
<1> QED BY <1>1, <1>2, <1>3, <1>4, <1>5, <1>6, FlagStep

LEMMA CheckedInv ==
  ASSUME Inv, NEW t \in Thread,
         ExecuteChecked(t) \/ Unfit(t) \/ SQLFetch(t) \/ SQLGetData(t) \/ Get(t)
  PROVE  Inv'
<1>0. SameMode BY LockedMode DEF LockedStep
<1>1. CASE ExecuteChecked(t)
  <2>1. thread[t].pc = "check" /\ UNCHANGED <<owner, stmt, table, fetched>>
    BY <1>1 DEF ExecuteChecked, At
  <2>2. \/ GoTo(t, "change") /\ thread[t].fn \in Changing
        \/ GoTo(t, "query")
    BY <1>1 DEF ExecuteChecked
  <2> QED BY <1>0, <2>1, <2>2, MoveStep DEF Inside, Inv, TypeOK
<1>2. CASE Unfit(t) \/ SQLFetch(t) \/ SQLGetData(t) \/ Get(t)
  <2>1. /\ thread[t].pc \in {"query", "change", "check", "get"}
        /\ UNCHANGED <<owner, stmt, table, fetched>>
        /\ GoTo(t, "unlock") \/ GoTo(t, "advance") \/ GoTo(t, "get")
    BY <1>2 DEF Unfit, SQLFetch, SQLGetData, Get, At
  <2> QED BY <1>0, <2>1, MoveStep DEF Inside, Inv, TypeOK
<1> QED BY <1>1, <1>2

LEMMA ChangedTable ==
  ASSUME Inv, NEW t \in Thread, Change(t)
  PROVE  table' \in NoTable..MaxRow
BY LockingAssumption DEF Change, Inv, TypeOK, NoTable

LEMMA QueryInv == ASSUME Inv, NEW t \in Thread, Query(t) \/ Change(t) PROVE Inv'
<1>0. SameMode BY LockedMode DEF LockedStep
<1>1. CASE Query(t)
  <2>1. /\ thread[t].pc = "query" /\ UNCHANGED <<owner, stmt, table, fetched>>
        /\ thread' = [thread EXCEPT ![t].pc = "store", ![t].left = table]
        /\ table # NoTable
    BY <1>1 DEF Query, At
  <2>2. /\ thread[t].pc \in Inside /\ "store" \in Inside \ {"push", "bounds", "deliver"}
        /\ thread[t].pc \notin {"bounds", "deliver"}
    BY <2>1 DEF Inside
  <2>3. table \in 0..MaxRow BY <2>1, <2>2, InsideFacts DEF NoTable
  <2>4. thread' = [thread EXCEPT ![t] = [@ EXCEPT !.pc = "store", !.left = table]]
    BY <2>1 DEF Inv, TypeOK
  <2>5. /\ stmt[On(t)].executed \in BOOLEAN /\ stmt[On(t)].open \in BOOLEAN
        /\ stmt' = [stmt EXCEPT ![On(t)] = [@ EXCEPT !.executed = stmt[On(t)].executed,
                                                      !.open = stmt[On(t)].open]]
    BY <2>1, <2>2, SameFlags
  <2>6. table' \in NoTable..MaxRow /\ fetched' = fetched /\ owner' = owner
    BY <2>1, <2>2, InsideFacts
  <2> QED BY <1>0, <2>2, <2>3, <2>4, <2>5, <2>6, FlagStep
<1>2. CASE Change(t)
  <2>1. thread[t].pc = "change" /\ GoTo(t, "store") /\ UNCHANGED <<owner, stmt, fetched>>
    BY <1>2 DEF Change, At
  <2> QED BY <1>0, <1>2, <2>1, ChangedTable, MoveStep DEF Inside
<1> QED BY <1>1, <1>2

LEMMA RewoundFields ==
  ASSUME NEW e \in BOOLEAN, NEW o \in BOOLEAN
  PROVE  Rewound(e, o) \in Fields /\ Rewound(e, o).row = -1 /\ Rewound(e, o).data = <<>>
<1>1. <<>> \in Seq(Thread) /\ -1 \in Int OBVIOUS
<1> QED BY <1>1 DEF Fields, Rewound

LEMMA PushedFields ==
  ASSUME NEW x \in Fields, NEW d \in Seq(Thread)
  PROVE  LET r == [x EXCEPT !.data = d]
         IN  r \in Fields /\ r.row = x.row /\ r.data = d
BY DEF Fields

LEMMA AdvancedFields ==
  ASSUME NEW x \in Fields
  PROVE  LET r == [x EXCEPT !.row = x.row + 1]
         IN  r \in Fields /\ r.row = x.row + 1 /\ r.data = x.data
BY DEF Fields

LEMMA StoreInv == ASSUME Inv, NEW t \in Thread, Store(t) PROVE Inv'
<1>0. SameMode BY LockedMode DEF LockedStep
<1> DEFINE o == thread[t].left > 0
           r == Rewound(TRUE, o)
<1>1. thread[t].pc = "store" /\ thread[t].pc \in Inside /\ GoTo(t, "push")
  BY DEF Store, At, Inside
<1>2. /\ On(t) \in Stmt /\ stmt[On(t)] \in Fields /\ thread[t].left \in 0..MaxRow
      /\ table \in NoTable..MaxRow /\ o \in BOOLEAN
  BY <1>1, InsideFacts
<1>3. thread' = [thread EXCEPT ![t] = [@ EXCEPT !.pc = "push", !.left = thread[t].left]]
  BY <1>1, Moves
<1>4. /\ stmt' = [stmt EXCEPT ![On(t)] = r] /\ fetched' = [fetched EXCEPT ![On(t)] = <<>>]
      /\ owner' = owner /\ table' = table
  BY DEF Store
<1> HIDE DEF o
<1>5. r \in Fields /\ r.row = -1 /\ r.data = <<>>
  BY <1>2, RewoundFields
<1> HIDE DEF r
<1>7. stmt'[On(t)] = r /\ fetched'[On(t)] = <<>> /\ thread'[t].pc = "push" /\ thread'[t].on = On(t)
  BY <1>2, <1>3, <1>4 DEF On, Inv, TypeOK
<1>8. Knows(t)'
  BY <1>5, <1>7 DEF Knows, At, On
<1>9. \A s \in Stmt : s = On(t) => Consistent(s)'
  BY <1>5, <1>7 DEF Consistent, Spent
<1>10. /\ table' \in NoTable..MaxRow /\ <<>> \in Seq(Int) /\ owner' = owner
       /\ "push" \in Inside /\ "push" # "change"
  BY <1>2, <1>4 DEF Inside
<1> QED BY <1>0, <1>1, <1>2, <1>3, <1>4, <1>5, <1>8, <1>9, <1>10, LockedFrame

LEMMA PushInv == ASSUME Inv, NEW t \in Thread, Push(t) PROVE Inv'
<1>0. SameMode BY LockedMode DEF LockedStep
<1>1. thread[t].pc = "push" /\ thread[t].pc \in Inside
  BY DEF Push, At, Inside
<1>2. /\ On(t) \in Stmt /\ stmt[On(t)] \in Fields /\ thread[t].left \in 0..MaxRow
      /\ table \in NoTable..MaxRow /\ Knows(t) /\ Consistent(On(t)) /\ ~Fetching(On(t))
      /\ thread[t] \in [pc : PC, fn : Call \cup {"none"}, on : Stmt \cup {Nothing}, left : 0..MaxRow]
      /\ fetched[On(t)] \in Seq(Int)
  BY <1>1, InsideFacts
<1>3. CASE thread[t].left > 0
  <2> DEFINE d == Append(stmt[On(t)].data, t)
             r == [stmt[On(t)] EXCEPT !.data = d]
  <2>1. stmt' = [stmt EXCEPT ![On(t)] = r] /\ UNCHANGED <<owner, table, fetched>>
    BY <1>3 DEF Push, Inv, TypeOK
  <2>2. thread' = [thread EXCEPT ![t] = [@ EXCEPT !.pc = "push", !.left = thread[t].left - 1]]
    BY <1>1, <1>2, <1>3 DEF Push, Inv, TypeOK
  <2>3. stmt[On(t)].row = -1 /\ fetched[On(t)] = <<>> /\ stmt[On(t)].data \in Seq(Thread)
        /\ \A i \in DOMAIN stmt[On(t)].data : stmt[On(t)].data[i] = t
    BY <1>1, <1>2 DEF Knows, At, Fields
  <2>4. d \in Seq(Thread) /\ \A i \in DOMAIN d : d[i] = t
    BY <2>3
  <2> HIDE DEF d
  <2>5. r \in Fields /\ r.row = -1 /\ r.data = d
    BY <1>2, <2>3, <2>4, PushedFields
  <2>6. /\ stmt'[On(t)] = r /\ fetched'[On(t)] = <<>> /\ thread'[t].pc = "push"
        /\ thread'[t].on = On(t)
    BY <1>2, <2>1, <2>2, <2>3 DEF On, Inv, TypeOK
  <2> HIDE DEF r
  <2>7. Knows(t)'
    BY <2>4, <2>5, <2>6 DEF Knows, At, On
  <2>8. \A s \in Stmt : s = On(t) => Consistent(s)'
    BY <2>4, <2>5, <2>6 DEF Consistent, Spent
  <2>9. fetched' = [fetched EXCEPT ![On(t)] = fetched[On(t)]]
    BY <1>2, <2>1 DEF Inv, TypeOK
  <2>10. thread[t].left - 1 \in 0..MaxRow /\ table' \in NoTable..MaxRow /\ owner' = owner
    BY <1>2, <1>3, <2>1, LockingAssumption
  <2> QED BY <1>0, <1>1, <1>2, <2>1, <2>2, <2>5, <2>7, <2>8, <2>9, <2>10, LockedFrame DEF Inside
<1>4. CASE ~(thread[t].left > 0)
  <2>1. GoTo(t, "unlock") /\ UNCHANGED <<owner, stmt, table, fetched>>
    BY <1>4 DEF Push
  <2> QED BY <1>0, <1>1, <1>2, <2>1, MoveStep DEF Inside
<1> QED BY <1>3, <1>4

LEMMA AdvanceInv == ASSUME Inv, NEW t \in Thread, Advance(t) PROVE Inv'
<1>0. SameMode BY LockedMode DEF LockedStep
<1> DEFINE r == [stmt[On(t)] EXCEPT !.row = stmt[On(t)].row + 1]
<1>1. thread[t].pc = "advance" /\ thread[t].pc \in Inside /\ GoTo(t, "bounds")
  BY DEF Advance, At, Inside
<1>2. /\ On(t) \in Stmt /\ stmt[On(t)] \in Fields /\ thread[t].left \in 0..MaxRow
      /\ table \in NoTable..MaxRow /\ Consistent(On(t)) /\ ~Fetching(On(t))
      /\ fetched[On(t)] \in Seq(Int)
  BY <1>1, InsideFacts
<1>3. thread' = [thread EXCEPT ![t] = [@ EXCEPT !.pc = "bounds", !.left = thread[t].left]]
  BY <1>1, Moves
<1>4. r \in Fields /\ r.row = stmt[On(t)].row + 1 /\ r.data = stmt[On(t)].data
  BY <1>2, AdvancedFields
<1>5. /\ stmt' = [stmt EXCEPT ![On(t)] = r] /\ owner' = owner /\ table' = table
      /\ fetched' = [fetched EXCEPT ![On(t)] = fetched[On(t)]]
  BY <1>2 DEF Advance, Inv, TypeOK
<1>6. /\ stmt'[On(t)] = r /\ fetched'[On(t)] = fetched[On(t)]
      /\ thread'[t].pc = "bounds" /\ thread'[t].on = On(t)
  BY <1>2, <1>3, <1>5 DEF On, Inv, TypeOK
<1>7. /\ stmt[On(t)].row >= -1
      /\ \/ stmt[On(t)].data = <<>> \/ stmt[On(t)].row >= Len(stmt[On(t)].data)
         \/ stmt[On(t)].row + 1 = Len(fetched[On(t)])
  BY <1>2 DEF Consistent, Spent
<1>8. stmt[On(t)].row \in Int /\ stmt[On(t)].data \in Seq(Thread)
  BY <1>2 DEF Fields
<1> HIDE DEF r
<1>9. Knows(t)'
  <2>1. r.row >= 0
    BY <1>4, <1>7, <1>8
  <2>2. r.data = <<>> \/ r.row >= Len(r.data) \/ r.row = Len(fetched[On(t)])
    BY <1>4, <1>7, <1>8
  <2> QED BY <1>6, <2>1, <2>2 DEF Knows, At, On, Spent, Ahead
<1>10. \A s \in Stmt : s = On(t) => Consistent(s)'
  <2>1. \A s \in Stmt : s = On(t) => Fetching(s)'
    BY <1>6 DEF Fetching, On
  <2>2. r.row >= -1
    BY <1>4, <1>7, <1>8
  <2> QED BY <1>2, <1>4, <1>6, <2>1, <2>2 DEF Consistent
<1> QED BY <1>0, <1>1, <1>2, <1>3, <1>4, <1>5, <1>9, <1>10, LockedFrame DEF Inside

LEMMA OpenedFields ==
  ASSUME NEW x \in Fields, NEW o \in BOOLEAN
  PROVE  LET r == [x EXCEPT !.open = o]
         IN  r \in Fields /\ r.row = x.row /\ r.data = x.data
BY DEF Fields

LEMMA BoundsInv == ASSUME Inv, NEW t \in Thread, Bounds(t) PROVE Inv'
<1>0. SameMode BY LockedMode DEF LockedStep
<1> DEFINE o == stmt[On(t)].open /\ HasRow(On(t))
           r == [stmt[On(t)] EXCEPT !.open = o]
           p == IF HasRow(On(t)) THEN "deliver" ELSE "unlock"
<1>1. thread[t].pc = "bounds" /\ thread[t].pc \in Inside /\ GoTo(t, p)
  BY DEF Bounds, At, Inside
<1>2. /\ On(t) \in Stmt /\ stmt[On(t)] \in Fields /\ thread[t].left \in 0..MaxRow
      /\ table \in NoTable..MaxRow /\ Knows(t) /\ Consistent(On(t)) /\ fetched[On(t)] \in Seq(Int)
  BY <1>1, InsideFacts
<1>3. thread' = [thread EXCEPT ![t] = [@ EXCEPT !.pc = p, !.left = thread[t].left]]
  BY <1>1, Moves
<1>4. o \in BOOLEAN OBVIOUS
<1>5. /\ stmt' = [stmt EXCEPT ![On(t)] = r] /\ owner' = owner /\ table' = table
      /\ fetched' = fetched
  BY <1>2 DEF Bounds, Inv, TypeOK
<1> HIDE DEF o
<1>6. r \in Fields /\ r.row = stmt[On(t)].row /\ r.data = stmt[On(t)].data
  BY <1>2, <1>4, OpenedFields
<1> HIDE DEF r
<1>7. p \in Inside /\ p # "change" /\ p \notin {"push", "bounds"}
      /\ (p = "deliver" => HasRow(On(t))) /\ (p # "deliver" => ~HasRow(On(t)))
  BY DEF Inside
<1> HIDE DEF p
<1>8. /\ stmt'[On(t)] = r /\ fetched'[On(t)] = fetched[On(t)] /\ thread'[t].pc = p
      /\ thread'[t].on = On(t)
  BY <1>2, <1>3, <1>5 DEF On, Inv, TypeOK
<1>9. /\ stmt[On(t)].row >= 0
      /\ \/ stmt[On(t)].data = <<>> \/ stmt[On(t)].row >= Len(stmt[On(t)].data)
         \/ stmt[On(t)].row = Len(fetched[On(t)])
  BY <1>1, <1>2 DEF Knows, At, Spent, Ahead
<1>10. stmt[On(t)].row \in Int /\ Len(stmt[On(t)].data) \in Nat
       /\ (stmt[On(t)].data = <<>> => Len(stmt[On(t)].data) = 0)
  BY <1>2 DEF Fields
<1>11. Knows(t)'
  <2>1. ASSUME p = "deliver"
        PROVE  r.row \in 0..Len(r.data) - 1 /\ r.row = Len(fetched[On(t)])
    BY <2>1, <1>6, <1>7, <1>9, <1>10 DEF HasRow
  <2> QED BY <1>7, <1>8, <2>1 DEF Knows, At, On, Ahead
<1>12. \A s \in Stmt : s = On(t) => Consistent(s)'
  <2>1. p = "deliver" => Fetching(On(t))'
    BY <1>8 DEF Fetching, On
  <2>2. p # "deliver" => r.row >= Len(r.data)
    BY <1>6, <1>7, <1>10 DEF HasRow
  <2>3. p = "deliver" => \A s \in Stmt : s = On(t) => Fetching(s)'
    BY <1>8 DEF Fetching, On
  <2> QED BY <1>2, <1>6, <1>8, <2>2, <2>3 DEF Consistent, Spent
<1>13. fetched' = [fetched EXCEPT ![On(t)] = fetched[On(t)]] /\ table' \in NoTable..MaxRow
  BY <1>2, <1>5 DEF Inv, TypeOK
<1> QED BY <1>0, <1>1, <1>2, <1>3, <1>5, <1>6, <1>7, <1>11, <1>12, <1>13, LockedFrame

LEMMA DeliverInv == ASSUME Inv, NEW t \in Thread, Deliver(t) PROVE Inv'
<1>0. SameMode BY LockedMode DEF LockedStep
<1> DEFINE f == Append(fetched[On(t)], stmt[On(t)].row)
<1>1. thread[t].pc = "deliver" /\ thread[t].pc \in Inside /\ GoTo(t, "unlock")
  BY DEF Deliver, At, Inside
<1>2. /\ On(t) \in Stmt /\ stmt[On(t)] \in Fields /\ thread[t].left \in 0..MaxRow
      /\ table \in NoTable..MaxRow /\ Knows(t) /\ Consistent(On(t)) /\ fetched[On(t)] \in Seq(Int)
  BY <1>1, InsideFacts
<1>3. thread' = [thread EXCEPT ![t] = [@ EXCEPT !.pc = "unlock", !.left = thread[t].left]]
  BY <1>1, Moves
<1>4. /\ stmt' = stmt /\ owner' = owner /\ table' = table
      /\ fetched' = [fetched EXCEPT ![On(t)] = f]
  BY DEF Deliver
<1>5. stmt[On(t)].row = Len(fetched[On(t)]) /\ stmt[On(t)].row \in Int
  BY <1>1, <1>2 DEF Knows, At, Ahead, Fields
<1>6. f \in Seq(Int) /\ Len(f) = Len(fetched[On(t)]) + 1
      /\ f = [i \in 1..Len(f) |-> i - 1]
  <2>1. fetched[On(t)] = [i \in 1..Len(fetched[On(t)]) |-> i - 1]
    BY <1>2 DEF Consistent
  <2>2. f \in Seq(Int) /\ Len(f) = Len(fetched[On(t)]) + 1
    BY <1>2, <1>5
  <2>3. ASSUME NEW i \in 1..Len(f) PROVE f[i] = i - 1
    <3>1. CASE i = Len(f)
      BY <3>1, <1>2, <1>5, <2>2
    <3>2. CASE i # Len(f)
      <4>1. i \in 1..Len(fetched[On(t)]) BY <3>2, <1>2, <2>2
      <4> QED BY <4>1, <1>2, <2>1
    <3> QED BY <3>1, <3>2
  <2>4. f = [i \in 1..Len(f) |-> f[i]]
    BY <2>2
  <2> HIDE DEF f
  <2> QED BY <2>2, <2>3, <2>4
<1> HIDE DEF f
<1>7. /\ stmt'[On(t)] = stmt[On(t)] /\ fetched'[On(t)] = f /\ thread'[t].pc = "unlock"
      /\ thread'[t].on = On(t)
  BY <1>2, <1>3, <1>4 DEF On, Inv, TypeOK
<1>8. Knows(t)'
  BY <1>7 DEF Knows, At
<1>9. \A s \in Stmt : s = On(t) => Consistent(s)'
  <2>1. /\ stmt[On(t)].row >= -1
        /\ \A i, j \in DOMAIN stmt[On(t)].data : stmt[On(t)].data[i] = stmt[On(t)].data[j]
    BY <1>2 DEF Consistent
  <2>2. stmt[On(t)].row + 1 = Len(f)
    BY <1>2, <1>5, <1>6
  <2>3. fetched'[On(t)] = [i \in 1..Len(fetched'[On(t)]) |-> i - 1]
    BY <1>6, <1>7
  <2>4. stmt'[On(t)].row + 1 = Len(fetched'[On(t)])
    BY <1>7, <2>2
  <2>5. /\ stmt'[On(t)].row >= -1
        /\ \A i, j \in DOMAIN stmt'[On(t)].data : stmt'[On(t)].data[i] = stmt'[On(t)].data[j]
    BY <1>7, <2>1
  <2> QED BY Zenon, <2>3, <2>4, <2>5 DEF Consistent
<1>10. /\ stmt' = [stmt EXCEPT ![On(t)] = stmt[On(t)]] /\ table' \in NoTable..MaxRow
       /\ "unlock" \in Inside /\ "unlock" # "change"
  BY <1>2, <1>4 DEF Inv, TypeOK, Inside
<1> QED BY <1>0, <1>1, <1>2, <1>3, <1>4, <1>6, <1>8, <1>9, <1>10, LockedFrame

-----------------------------------------------------------------------------
(* Steps outside every lock                                                *)

\* Such a step keeps a statement consistent if it keeps its row and rows, or
\* takes the rows away and goes back to a place before or at the old row.
LEMMA KeptConsistent ==
  ASSUME NEW s \in Stmt, Consistent(s), ~Fetching(s), fetched'[s] = fetched[s],
         stmt'[s].row = stmt[s].row \/ stmt'[s].row = -1,
         \/ stmt'[s].data = <<>>
         \/ stmt'[s].data = stmt[s].data /\ stmt'[s].row = stmt[s].row
  PROVE  Consistent(s)'
<1>1. fetched'[s] = [i \in 1..Len(fetched'[s]) |-> i - 1]
  BY DEF Consistent
<1>2. stmt'[s].row >= -1
  BY DEF Consistent
<1>3. \A i, j \in DOMAIN stmt'[s].data : stmt'[s].data[i] = stmt'[s].data[j]
  BY DEF Consistent
<1>4. stmt'[s].data = <<>> \/ stmt'[s].row >= Len(stmt'[s].data) \/ stmt'[s].row + 1 = Len(fetched'[s])
  BY DEF Consistent, Spent
<1> QED BY <1>1, <1>2, <1>3, <1>4 DEF Consistent, Spent

LEMMA NewConsistent ==
  ASSUME NEW s \in Stmt, stmt'[s].row = -1, stmt'[s].data = <<>>, fetched'[s] = <<>>
  PROVE  Consistent(s)'
BY DEF Consistent, Spent

\* What the statement of a thread outside every lock looks like.
LEMMA OutsideFacts ==
  ASSUME Inv, NEW t \in Thread, thread[t].pc \in Outside
  PROVE  /\ On(t) \in Stmt /\ table \in NoTable..MaxRow
         /\ stmt \in [Stmt -> Fields] /\ fetched \in [Stmt -> Seq(Int)]
BY DEF Inv, TypeOK, Path, Busy, At, Outside, Fields

LEMMA FlagFields ==
  ASSUME NEW x \in Fields, NEW e \in BOOLEAN
  PROVE  LET r == [x EXCEPT !.open = FALSE, !.executed = e]
             q == [x EXCEPT !.open = FALSE, !.executed = e, !.data = <<>>]
         IN  /\ r \in Fields /\ r.row = x.row /\ r.data = x.data
             /\ q \in Fields /\ q.row = x.row /\ q.data = <<>>
<1> DEFINE y == [x EXCEPT !.open = FALSE]
           r == [y EXCEPT !.executed = e]
           q == [r EXCEPT !.data = <<>>]
<1>1. y \in Fields /\ y.row = x.row /\ y.data = x.data
  BY DEF Fields
<1> HIDE DEF y
<1>2. r \in Fields /\ r.row = x.row /\ r.data = x.data
  BY <1>1 DEF Fields
<1> HIDE DEF r
<1>3. <<>> \in Seq(Thread) OBVIOUS
<1>4. q \in Fields /\ q.row = x.row /\ q.data = <<>>
  BY <1>2, <1>3, PushedFields
<1> QED BY <1>2, <1>4 DEF r, y

\* One statement changes.
LEMMA OneStmtStep ==
  ASSUME Inv, Disciplined, NEW t \in Thread, thread[t].pc \in Outside,
         \/ thread' = [thread EXCEPT ![t] = Idle]
         \/ \E p \in Outside : thread' = [thread EXCEPT ![t].pc = p],
         NEW r \in Fields, stmt' = [stmt EXCEPT ![On(t)] = r],
         NEW f \in Seq(Int), fetched' = [fetched EXCEPT ![On(t)] = f],
         owner' = owner, table' \in NoTable..MaxRow, AnyMode,
         \/ f = fetched[On(t)] /\ \/ r.data = <<>> /\ r.row = -1
                                  \/ r.data = stmt[On(t)].data /\ r.row = stmt[On(t)].row
         \/ f = <<>> /\ r.data = <<>> /\ r.row = -1
  PROVE  Inv'
<1>1. On(t) \in Stmt /\ stmt \in [Stmt -> Fields] /\ fetched \in [Stmt -> Seq(Int)]
  BY OutsideFacts
<1>2. stmt' \in [Stmt -> Fields] /\ fetched' \in [Stmt -> Seq(Int)]
  BY <1>1
<1>3. ASSUME NEW s \in Stmt, Consistent(s) /\ ~Fetching(s) PROVE Consistent(s)'
  <2>1. CASE s # On(t)
    <3>1. stmt'[s] = stmt[s] /\ fetched'[s] = fetched[s] BY <2>1, <1>1
    <3> QED BY <1>3, <3>1, KeptConsistent
  <2>2. CASE s = On(t)
    <3>1. stmt'[s] = r /\ fetched'[s] = f BY <2>2, <1>1
    <3>2. CASE f = fetched[s]
      BY <1>3, <2>2, <3>1, <3>2, KeptConsistent, NewConsistent
    <3>3. CASE f # fetched[s]
      BY <2>2, <3>1, <3>3, NewConsistent
    <3> QED BY <3>2, <3>3
  <2> QED BY <2>1, <2>2
<1> QED BY <1>2, <1>3, ExclusiveFrame

\* Every statement keeps its position; some lose their rows.
LEMMA AllStmtsStep ==
  ASSUME Inv, Disciplined, NEW t \in Thread, thread[t].pc \in Outside,
         \/ thread' = [thread EXCEPT ![t] = Idle]
         \/ \E p \in Outside : thread' = [thread EXCEPT ![t].pc = p],
         stmt' \in [Stmt -> Fields], fetched' = fetched,
         owner' = owner, table' \in NoTable..MaxRow, AnyMode,
         \A s \in Stmt : /\ stmt'[s].row = stmt[s].row
                        /\ stmt'[s].data \in {stmt[s].data, <<>>}
  PROVE  Inv'
<1>1. fetched' \in [Stmt -> Seq(Int)]
  BY OutsideFacts
<1>2. ASSUME NEW s \in Stmt, Consistent(s) /\ ~Fetching(s) PROVE Consistent(s)'
  BY <1>2, KeptConsistent
<1> QED BY <1>1, <1>2, ExclusiveFrame

LEMMA UnlockedInv ==
  ASSUME Inv, Disciplined, NEW t \in Thread, UnlockedStep(t)
  PROVE  Inv'
<1>0. AnyMode BY UnlockedMode
<1>1. CASE SQLAllocHandle(t)
  <2>1. thread[t].pc \in Outside /\ thread' = [thread EXCEPT ![t] = Idle]
        /\ stmt' = [stmt EXCEPT ![On(t)] = Fresh] /\ fetched' = [fetched EXCEPT ![On(t)] = <<>>]
        /\ owner' = owner /\ table' = table
    BY <1>1 DEF SQLAllocHandle, Return, At, Outside
  <2>2. Fresh \in Fields /\ Fresh.row = -1 /\ Fresh.data = <<>>
    BY RewoundFields DEF Fresh
  <2>3. <<>> \in Seq(Int) /\ table' \in NoTable..MaxRow
    BY <2>1, OutsideFacts
  <2> QED BY <1>0, <2>1, <2>2, <2>3, OneStmtStep
<1>2. CASE SQLFreeHandle(t)
  <2> DEFINE r == [Fresh EXCEPT !.alive = FALSE]
  <2>1. thread[t].pc \in Outside /\ thread' = [thread EXCEPT ![t] = Idle]
        /\ stmt' = [stmt EXCEPT ![On(t)] = r]
        /\ owner' = owner /\ table' = table /\ fetched' = fetched
    BY <1>2 DEF SQLFreeHandle, Return, At, Outside
  <2>2. Fresh \in Fields /\ Fresh.row = -1 /\ Fresh.data = <<>>
    BY RewoundFields DEF Fresh
  <2>3. r \in Fields /\ r.row = -1 /\ r.data = <<>>
    BY <2>2 DEF Fields
  <2> HIDE DEF r
  <2>4. /\ fetched[On(t)] \in Seq(Int) /\ table' \in NoTable..MaxRow
        /\ fetched' = [fetched EXCEPT ![On(t)] = fetched[On(t)]]
    BY <2>1, OutsideFacts
  <2> QED BY <1>0, <2>1, <2>3, <2>4, OneStmtStep
<1>3. CASE SQLDriverConnect(t) \/ Rollback(t) \/ SQLCloseCursor(t)
  <2>1. /\ thread[t].pc \in Outside /\ UNCHANGED <<owner, stmt, fetched>>
        /\ \/ thread' = [thread EXCEPT ![t] = Idle]
           \/ \E p \in Outside : thread' = [thread EXCEPT ![t].pc = p]
        /\ table' \in {NoTable, 0, table}
    BY <1>3 DEF SQLDriverConnect, Rollback, Emptied, SQLCloseCursor, Return, GoTo, At, Outside
  <2>2. table' \in NoTable..MaxRow /\ stmt' \in [Stmt -> Fields]
    BY <2>1, OutsideFacts, LockingAssumption DEF NoTable
  <2> QED BY <1>0, <2>1, <2>2, AllStmtsStep
<1>4. CASE SQLDisconnect(t)
  <2>1. thread[t].pc \in Outside /\ thread' = [thread EXCEPT ![t] = Idle]
        /\ stmt' = [s \in Stmt |-> [stmt[s] EXCEPT !.open = FALSE, !.executed = FALSE]]
        /\ owner' = owner /\ table' = table /\ fetched' = fetched
    BY <1>4 DEF SQLDisconnect, Return, At, Outside
  <2>2. table' \in NoTable..MaxRow /\ stmt \in [Stmt -> Fields]
    BY <2>1, OutsideFacts
  <2>3. ASSUME NEW s \in Stmt
        PROVE  stmt'[s] \in Fields /\ stmt'[s].row = stmt[s].row /\ stmt'[s].data = stmt[s].data
    BY <2>1, <2>2, FlagFields
  <2>4. stmt' \in [Stmt -> Fields]
    BY <2>1, <2>3
  <2> QED BY <1>0, <2>1, <2>2, <2>3, <2>4, AllStmtsStep
<1>5. CASE Clear(t)
  <2> DEFINE r == Rewound(stmt[On(t)].executed, FALSE)
  <2>1. thread[t].pc \in Outside /\ thread' = [thread EXCEPT ![t] = Idle]
        /\ stmt' = [stmt EXCEPT ![On(t)] = r]
        /\ owner' = owner /\ table' = table /\ fetched' = fetched
    BY <1>5 DEF Clear, Return, At, Outside
  <2>2. stmt[On(t)].executed \in BOOLEAN
    BY <2>1, OutsideFacts DEF Fields
  <2>3. r \in Fields /\ r.row = -1 /\ r.data = <<>>
    BY <2>2, RewoundFields
  <2> HIDE DEF r
  <2>4. /\ fetched[On(t)] \in Seq(Int) /\ table' \in NoTable..MaxRow
        /\ fetched' = [fetched EXCEPT ![On(t)] = fetched[On(t)]]
    BY <2>1, OutsideFacts
  <2> QED BY <1>0, <2>1, <2>3, <2>4, OneStmtStep
<1>6. CASE SQLCancel(t)
  <2> DEFINE r == [stmt[On(t)] EXCEPT !.open = FALSE]
  <2>1. thread[t].pc \in Outside /\ thread' = [thread EXCEPT ![t] = Idle]
        /\ owner' = owner /\ table' = table /\ fetched' = fetched
    BY <1>6 DEF SQLCancel, Return, At, Outside
  <2>2. stmt' = [stmt EXCEPT ![On(t)] = r]
    BY <1>6 DEF SQLCancel
  <2>3. r \in Fields /\ r.row = stmt[On(t)].row /\ r.data = stmt[On(t)].data
    BY <2>1, OutsideFacts, OpenedFields
  <2> HIDE DEF r
  <2>4. /\ fetched[On(t)] \in Seq(Int) /\ table' \in NoTable..MaxRow
        /\ fetched' = [fetched EXCEPT ![On(t)] = fetched[On(t)]]
    BY <2>1, OutsideFacts
  <2> QED BY <1>0, <2>1, <2>2, <2>3, <2>4, OneStmtStep
<1>7. CASE SQLEndTran(t)
  <2>1. thread[t].pc \in Outside /\ owner' = owner /\ table' = table /\ fetched' = fetched
    BY <1>7 DEF SQLEndTran, At, Outside
  <2>2. table' \in NoTable..MaxRow /\ stmt \in [Stmt -> Fields]
    BY <2>1, OutsideFacts
  <2>5. CASE stmt' = stmt /\ Return(t)
    <3>1. thread' = [thread EXCEPT ![t] = Idle] /\ stmt' \in [Stmt -> Fields]
      BY <2>2, <2>5 DEF Return
    <3> QED BY <1>0, <2>1, <2>2, <2>5, <3>1, AllStmtsStep
  <2>3. CASE /\ stmt' = [s \in Stmt |-> [stmt[s] EXCEPT !.open = FALSE]]
             /\ Return(t)
    <3>1. ASSUME NEW s \in Stmt
          PROVE  stmt'[s] \in Fields /\ stmt'[s].row = stmt[s].row /\ stmt'[s].data = stmt[s].data
      BY <2>2, <2>3, OpenedFields
    <3>2. stmt' \in [Stmt -> Fields] /\ thread' = [thread EXCEPT ![t] = Idle]
      BY <2>3, <3>1 DEF Return
    <3> QED BY <1>0, <2>1, <2>2, <3>1, <3>2, AllStmtsStep
  <2>4. CASE /\ stmt' = [s \in Stmt |-> [stmt[s] EXCEPT !.open = FALSE, !.executed = FALSE,
                                                        !.data = <<>>]]
             /\ GoTo(t, "rollback")
    <3>1. ASSUME NEW s \in Stmt
          PROVE  stmt'[s] \in Fields /\ stmt'[s].row = stmt[s].row /\ stmt'[s].data = <<>>
      BY <2>2, <2>4, FlagFields
    <3>2. stmt' \in [Stmt -> Fields]
      BY <2>4, <3>1
    <3>3. \E p \in Outside : thread' = [thread EXCEPT ![t].pc = p]
      BY <2>4 DEF GoTo, Outside
    <3> QED BY <1>0, <2>1, <2>2, <3>1, <3>2, <3>3, AllStmtsStep
  <2> QED BY <1>7, <2>3, <2>4, <2>5 DEF SQLEndTran
<1> QED BY <1>1, <1>2, <1>3, <1>4, <1>5, <1>6, <1>7 DEF UnlockedStep

LEMMA LockedInv ==
  ASSUME Inv, NEW t \in Thread, LockedStep(t)
  PROVE  Inv'
BY ReleaseInv, RefusedInv, PrepareInv, CheckedInv, QueryInv, StoreInv, PushInv, AdvanceInv,
   BoundsInv, DeliverInv DEF LockedStep

-----------------------------------------------------------------------------
(* Theorems                                                                *)

\* In an application that keeps its exclusive calls apart, the invariant holds
\* at every step of every interleaving (about HandleLock).
THEOREM Invariance == ASSUME Disciplined PROVE Spec => []Inv
<1>1. Inv /\ [Next]_vars => Inv'
  <2> SUFFICES ASSUME Inv, [Next]_vars PROVE Inv'
    OBVIOUS
  <2>1. CASE UNCHANGED vars
    BY <2>1 DEF vars, Inv, TypeOK, Path, Alone, Knows, Consistent, Fetching, Spent, Ahead,
                Busy, At, On
  <2>2. CASE Next
    <3>1. PICK t \in Thread : \/ \E fn \in Call, s \in Stmt : Begin(t, fn, s)
                             \/ Step(t)
      BY <2>2 DEF Next
    <3> QED BY <3>1, BeginInv, AcquireInv, LockedInv, UnlockedInv DEF Step
  <2> QED BY <2>1, <2>2
<1> QED BY <1>1, InitInv, PTL DEF Spec

\* Every variable keeps to its type.
THEOREM Typing == ASSUME Disciplined PROVE Spec => []TypeOK
<1>1. Inv => TypeOK BY DEF Inv
<1> QED BY <1>1, Invariance, PTL

\* Under the discipline two threads never touch the same data at once, one of
\* them writing, the catalog, the configuration and the generator of
\* should_fail included (config.cpp:38).  The locks alone do not achieve this.
THEOREM RaceFree == ASSUME Disciplined PROVE Spec => []NoDataRace
<1>1. Inv => NoDataRace BY InvNoDataRace
<1> QED BY <1>1, Invariance, PTL

\* Under the discipline, which keeps rollbacks away, a fetch copies the row its
\* bounds test was about (statement_api.cpp:482-489).
THEOREM FetchIsSafe == ASSUME Disciplined PROVE Spec => []FetchReadsARow
<1>1. Inv => FetchReadsARow BY DEF Inv, Knows, FetchReadsARow
<1> QED BY <1>1, Invariance, PTL

\* Under the discipline, however many threads fetch from a statement, each row
\* is delivered once.
THEOREM RowsAreShared == ASSUME Disciplined PROVE Spec => []EachRowFetchedOnce
<1>1. Inv => EachRowFetchedOnce BY DEF Inv, Consistent, EachRowFetchedOnce
<1> QED BY <1>1, Invariance, PTL

\* Under the discipline, however many threads execute a statement, a result
\* comes from one of them.
THEOREM ResultsAreWhole == ASSUME Disciplined PROVE Spec => []ResultOfOneExecution
<1>1. Inv => ResultOfOneExecution BY DEF Inv, Consistent, ResultOfOneExecution
<1> QED BY <1>1, Invariance, PTL

-----------------------------------------------------------------------------
(* Calls are atomic                                                        *)

\* The points of a call belong to it, and a change has no rows to copy.
Script(t) ==
  LET p == thread[t].pc  fn == thread[t].fn IN
    /\ p = "query" => fn = "SELECT"
    /\ p = "store" => fn \in {"SELECT"} \cup Changing
    /\ p \in {"advance", "bounds"} => fn = "SQLFetch"
    /\ p = "alloc" => fn = "SQLAllocHandle"
    /\ p = "free" => fn = "SQLFreeHandle"
    /\ p = "reload" => fn = "SQLDriverConnect"
    /\ p = "disconnect" => fn = "SQLDisconnect"
    /\ p = "closing" => fn = "SQLCloseCursor"
    /\ p = "clear" => fn \in {"SQLCloseCursor", "SQLFreeStmt"}
    /\ p = "cancel" => fn = "SQLCancel"
    /\ p = "endtran" => fn = "SQLEndTran"
    /\ fn \in Changing => thread[t].left = 0

\* What a thread has seen, and what still holds when its call takes effect.
Ready(t) ==
  LET p == thread[t].pc  fn == thread[t].fn IN
    /\ p # "idle" /\ p # "alloc" => stmt[On(t)].alive = TRUE
    /\ p = "alloc" => stmt[On(t)].alive = FALSE
    /\ p \in {"advance", "bounds"} => stmt[On(t)].executed = TRUE
    /\ p = "clear" /\ fn = "SQLCloseCursor" => stmt[On(t)].open = TRUE
    /\ p = "store" /\ fn = "SELECT" => thread[t].left = table

\* Only a thread inside a call on the statement owns its lock.
Held(s) == owner[s] = Nothing \/ (thread[owner[s]].pc \in Inside /\ On(owner[s]) = s)

Linear == /\ \A t \in Thread : Script(t) /\ Ready(t)
          /\ \A s \in Stmt : Held(s)

\* A thread that neither moves nor loses what it has seen.
LEMMA StaysReady ==
  ASSUME Linear, NEW u \in Thread, thread'[u] = thread[u],
         stmt'[On(u)] = stmt[On(u)], table' = table
  PROVE  Script(u)' /\ Ready(u)'
BY DEF Linear, Script, Ready, On

LEMMA IdleIsReady ==
  ASSUME Linear, NEW u \in Thread, thread'[u] = thread[u], thread[u].pc = "idle"
  PROVE  Script(u)' /\ Ready(u)'
BY DEF Linear, Script, Ready

\* A step inside a locked call.
LEMMA LinearInside ==
  ASSUME Inv, Disciplined, Linear, NEW t \in Thread, thread[t].pc \in Inside,
         thread'[t].pc \in Inside, thread'[t].on = On(t),
         \A u \in Thread : u # t => thread'[u] = thread[u],
         \A s \in Stmt : s # On(t) => stmt'[s] = stmt[s],
         stmt'[On(t)].alive = TRUE, owner' = owner,
         table' = table \/ thread[t].pc = "change",
         Script(t)', Ready(t)'
  PROVE  Linear'
<1>1. ASSUME NEW u \in Thread, u # t PROVE Script(u)' /\ Ready(u)'
  <2>1. thread'[u] = thread[u] /\ thread[u].pc \in PC
    BY <1>1 DEF Inv, TypeOK
  <2>2. thread[u].pc \notin Outside
    <3>1. thread[u].pc \in Outside => thread[t].pc = "idle"
      BY <1>1, OthersIdle
    <3> QED BY <3>1 DEF Inside
  <2>3. CASE thread[u].pc = "idle"
    BY <2>1, <2>3, IdleIsReady
  <2>4. CASE thread[u].pc = "lock"
    BY <2>1, <2>4 DEF Linear, Script, Ready, On, Inv, Path, Busy, At
  <2>5. CASE thread[u].pc \in Inside
    <3>1. On(u) # On(t) /\ On(u) \in Stmt
      BY <1>1, <2>5, OnlyOneInside DEF Inv, Path, Busy, At, Inside
    <3>2. table' = table
      <4>1. thread[t].pc = "change" => thread[u].pc = "idle"
        BY <1>1, OthersIdle
      <4> QED BY <2>5, <4>1 DEF Inside
    <3> QED BY <2>1, <3>1, <3>2, StaysReady
  <2> QED BY <2>1, <2>2, <2>3, <2>4, <2>5 DEF PC, Outside
<1>2. ASSUME NEW s \in Stmt PROVE Held(s)'
  <2>1. CASE owner[s] = Nothing
    BY <2>1 DEF Held
  <2>2. CASE owner[s] # Nothing
    <3>1. owner[s] \in Thread /\ thread[owner[s]].pc \in Inside /\ On(owner[s]) = s
      BY <2>2 DEF Linear, Held, Inv, TypeOK
    <3>2. CASE owner[s] = t
      BY <3>1, <3>2 DEF Held, On
    <3>3. CASE owner[s] # t
      BY <3>1, <3>3 DEF Held, On
    <3> QED BY <3>2, <3>3
  <2> QED BY <2>1, <2>2
<1> QED BY <1>1, <1>2 DEF Linear

\* A step of a call that holds no lock: nobody else is in a call.
LEMMA NobodyHolds ==
  ASSUME Inv, Disciplined, Linear, NEW t \in Thread, thread[t].pc \in Outside
  PROVE  /\ \A s \in Stmt : owner[s] = Nothing
         /\ \A u \in Thread : u # t => thread[u].pc = "idle"
<1>1. \A u \in Thread : u # t => thread[u].pc = "idle"
  BY OthersIdle
<1>2. ASSUME NEW s \in Stmt, owner[s] # Nothing PROVE FALSE
  <2>1. owner[s] \in Thread /\ thread[owner[s]].pc \in Inside
    BY <1>2 DEF Linear, Held, Inv, TypeOK
  <2> QED BY <1>1, <2>1 DEF Inside, Outside
<1> QED BY <1>1, <1>2

LEMMA LinearOutside ==
  ASSUME Inv, Disciplined, Linear, NEW t \in Thread, thread[t].pc \in Outside,
         \A u \in Thread : u # t => thread'[u] = thread[u], owner' = owner,
         Script(t)', Ready(t)'
  PROVE  Linear'
<1>1. \A u \in Thread : u # t => Script(u)' /\ Ready(u)'
  BY NobodyHolds, IdleIsReady
<1>2. \A s \in Stmt : Held(s)'
  BY NobodyHolds DEF Held
<1> QED BY <1>1, <1>2 DEF Linear

LEMMA IdleReady ==
  ASSUME NEW t \in Thread, thread'[t] = Idle
  PROVE  Script(t)' /\ Ready(t)'
BY DEF Script, Ready, Idle

\* Where a step takes its thread, and that it takes no other.
LEMMA Going ==
  ASSUME Inv, NEW t \in Thread, NEW p, GoTo(t, p)
  PROVE  /\ thread'[t].pc = p /\ thread'[t].fn = thread[t].fn
         /\ thread'[t].on = On(t) /\ thread'[t].left = thread[t].left
         /\ \A u \in Thread : u # t => thread'[u] = thread[u]
BY DEF GoTo, On, Inv, TypeOK

LEMMA Returning ==
  ASSUME Inv, NEW t \in Thread, Return(t)
  PROVE  thread'[t] = Idle /\ \A u \in Thread : u # t => thread'[u] = thread[u]
BY DEF Return, Inv, TypeOK

LEMMA LinearBegin ==
  ASSUME Inv, Linear, NEW t \in Thread, NEW fn \in Call, NEW s \in Stmt, Begin(t, fn, s)
  PROVE  Linear'
<1> DEFINE w == [pc |-> Entry(fn), fn |-> fn, on |-> s, left |-> 0]
<1>1. /\ thread'[t] = w /\ \A u \in Thread : u # t => thread'[u] = thread[u]
      /\ UNCHANGED <<owner, stmt, table>> /\ thread[t].pc = "idle"
      /\ stmt[s].alive = (fn # "SQLAllocHandle")
  BY DEF Begin, Busy, At, Inv, TypeOK
<1>2. w.pc = Entry(fn) /\ w.fn = fn /\ w.on = s /\ w.left = 0
  OBVIOUS
<1> HIDE DEF w
<1>3. \/ fn \in Locked /\ Entry(fn) = "lock" /\ fn # "SQLAllocHandle"
      \/ fn = "SQLAllocHandle" /\ Entry(fn) = "alloc"
      \/ fn = "SQLFreeHandle" /\ Entry(fn) = "free"
      \/ fn = "SQLDriverConnect" /\ Entry(fn) = "reload"
      \/ fn = "SQLDisconnect" /\ Entry(fn) = "disconnect"
      \/ fn = "SQLCloseCursor" /\ Entry(fn) = "closing"
      \/ fn = "SQLFreeStmt" /\ Entry(fn) = "clear"
      \/ fn = "SQLCancel" /\ Entry(fn) = "cancel"
      \/ fn = "SQLEndTran" /\ Entry(fn) = "endtran"
  BY DEF Call, Entry, Body, Locked, Unlocked, Changing
<1>4. Script(t)'
  BY <1>1, <1>2, <1>3 DEF Script
<1>5. Ready(t)'
  BY <1>1, <1>2, <1>3 DEF Ready, On
<1>6. \A u \in Thread : u # t => Script(u)' /\ Ready(u)'
  BY <1>1, StaysReady
<1>7. ASSUME NEW x \in Stmt PROVE Held(x)'
  <2>1. Held(x) BY DEF Linear
  <2>2. owner[x] # Nothing => owner[x] \in Thread /\ owner[x] # t
    BY <1>1, <2>1 DEF Held, Inside, Inv, TypeOK
  <2> QED BY <1>1, <2>1, <2>2 DEF Held, On
<1> QED BY <1>4, <1>5, <1>6, <1>7 DEF Linear

LEMMA LinearAcquire ==
  ASSUME Inv, Linear, NEW t \in Thread, Acquire(t)
  PROVE  Linear'
<1>1. /\ thread[t].pc = "lock" /\ thread[t].fn \in Locked /\ On(t) \in Stmt
      /\ owner' = [owner EXCEPT ![On(t)] = t] /\ UNCHANGED <<stmt, table>>
      /\ Script(t) /\ Ready(t)
  BY DEF Acquire, Inv, Path, Busy, At, Linear
<1>2. Body(thread[t].fn) = "check"
  BY <1>1 DEF Body, Locked, Changing
<1>3. /\ thread'[t].pc = "check" /\ thread'[t].fn = thread[t].fn
      /\ thread'[t].on = On(t) /\ thread'[t].left = thread[t].left
      /\ \A u \in Thread : u # t => thread'[u] = thread[u]
  BY <1>2, Going DEF Acquire
<1>4. Script(t)' /\ Ready(t)'
  BY <1>1, <1>3 DEF Script, Ready, On
<1>5. \A u \in Thread : u # t => Script(u)' /\ Ready(u)'
  BY <1>1, <1>3, StaysReady
<1>6. ASSUME NEW x \in Stmt PROVE Held(x)'
  <2>1. CASE x = On(t)
    BY <1>1, <1>3, <2>1 DEF Held, On, Inside, Inv, TypeOK
  <2>2. CASE x # On(t)
    <3>1. Held(x) /\ owner'[x] = owner[x]
      BY <1>1, <2>2 DEF Linear, Inv, TypeOK
    <3>2. owner[x] # Nothing => owner[x] \in Thread /\ owner[x] # t
      BY <1>1, <3>1 DEF Held, Inside, Inv, TypeOK
    <3> QED BY <1>3, <3>1, <3>2 DEF Held, On
  <2> QED BY <2>1, <2>2
<1> QED BY <1>4, <1>5, <1>6 DEF Linear

LEMMA LinearRelease ==
  ASSUME Inv, Linear, NEW t \in Thread, Release(t)
  PROVE  Linear'
<1>1. /\ thread[t].pc = "unlock" /\ On(t) \in Stmt
      /\ owner' = [owner EXCEPT ![On(t)] = Nothing] /\ UNCHANGED <<stmt, table>>
  BY DEF Release, Inv, Path, Busy, At
<1>2. thread'[t] = Idle /\ \A u \in Thread : u # t => thread'[u] = thread[u]
  BY Returning DEF Release
<1>3. \A u \in Thread : u # t => Script(u)' /\ Ready(u)'
  BY <1>1, <1>2, StaysReady
<1>4. ASSUME NEW x \in Stmt PROVE Held(x)'
  <2>1. CASE x = On(t)
    BY <1>1, <2>1 DEF Held, Inv, TypeOK
  <2>2. CASE x # On(t)
    <3>1. Held(x) /\ owner'[x] = owner[x]
      BY <1>1, <2>2 DEF Linear, Inv, TypeOK
    <3>2. owner[x] # Nothing => owner[x] \in Thread /\ owner[x] # t
      BY <2>2, <3>1 DEF Held, Inv, TypeOK
    <3> QED BY <1>2, <3>1, <3>2 DEF Held, On
  <2> QED BY <2>1, <2>2
<1> QED BY <1>2, <1>3, <1>4, IdleReady DEF Linear

LEMMA InsideReady ==
  ASSUME Inv, Linear, NEW t \in Thread, thread[t].pc \in Inside
  PROVE  /\ On(t) \in Stmt /\ stmt[On(t)] \in Fields /\ stmt[On(t)].alive = TRUE
         /\ thread[t].fn \in Locked /\ Script(t) /\ Ready(t)
<1>1. On(t) \in Stmt /\ stmt[On(t)] \in Fields
  BY InsideFacts
<1> QED BY <1>1 DEF Linear, Ready, Inside, Inv, Path

\* A step inside a lock that moves its thread and writes r to its statement.
LEMMA LinearMove ==
  ASSUME Inv, Disciplined, Linear, NEW t \in Thread, thread[t].pc \in Inside,
         NEW p \in Inside, GoTo(t, p), owner' = owner,
         NEW r, r.alive = TRUE, stmt' = [stmt EXCEPT ![On(t)] = r],
         table' = table \/ thread[t].pc = "change",
         Script(t)', Ready(t)'
  PROVE  Linear'
<1>1. On(t) \in Stmt /\ stmt'[On(t)] = r /\ \A s \in Stmt : s # On(t) => stmt'[s] = stmt[s]
  BY InsideReady DEF Inv, TypeOK
<1>2. /\ thread'[t].pc \in Inside /\ thread'[t].on = On(t)
      /\ \A u \in Thread : u # t => thread'[u] = thread[u]
  BY Going
<1> QED BY <1>1, <1>2, LinearInside

\* The steps that leave the statement alone.
LEMMA LinearStay ==
  ASSUME Inv, Disciplined, Linear, NEW t \in Thread, thread[t].pc \in Inside,
         NEW p \in Inside, GoTo(t, p), UNCHANGED <<owner, stmt>>,
         table' = table \/ thread[t].pc = "change",
         p = "query" => thread[t].fn = "SELECT",
         p = "store" => thread[t].fn \in Changing,
         p \in {"advance", "bounds"} => thread[t].fn = "SQLFetch" /\ stmt[On(t)].executed = TRUE
  PROVE  Linear'
<1>1. /\ On(t) \in Stmt /\ stmt[On(t)].alive = TRUE /\ Script(t)
      /\ stmt' = [stmt EXCEPT ![On(t)] = stmt[On(t)]]
  BY InsideReady DEF Inv, TypeOK
<1>2. /\ thread'[t].pc = p /\ thread'[t].fn = thread[t].fn
      /\ thread'[t].on = On(t) /\ thread'[t].left = thread[t].left
  BY Going
<1>3. Script(t)'
  BY <1>1, <1>2 DEF Script, Inside
<1>4. Ready(t)'
  BY <1>1, <1>2 DEF Ready, On, Inside, Changing
<1> QED BY <1>1, <1>3, <1>4, LinearMove

LEMMA LinearLocked ==
  ASSUME Inv, Disciplined, Linear, NEW t \in Thread, LockedStep(t)
  PROVE  Linear'
<1>1. CASE Release(t)
  BY <1>1, LinearRelease
<1>2. CASE Refused(t) \/ Unfit(t) \/ Deliver(t) \/ SQLGetData(t) \/ Get(t)
  <2>1. /\ thread[t].pc \in Inside
        /\ GoTo(t, "unlock") \/ GoTo(t, "get")
        /\ UNCHANGED <<owner, stmt, table>>
    BY <1>2 DEF Refused, Unfit, Deliver, SQLGetData, Get, At, Inside
  <2> QED BY <2>1, LinearStay DEF Inside
<1>3. CASE ExecuteChecked(t)
  <2>1. /\ thread[t].pc \in Inside /\ UNCHANGED <<owner, stmt, table>>
        /\ \/ GoTo(t, "change")
           \/ GoTo(t, "query") /\ thread[t].fn = "SELECT"
    BY <1>3 DEF ExecuteChecked, At, Inside
  <2> QED BY <2>1, LinearStay DEF Inside
<1>4. CASE SQLFetch(t)
  <2>1. /\ thread[t].pc = "check" /\ thread[t].fn = "SQLFetch" /\ UNCHANGED <<owner, stmt, table>>
        /\ GoTo(t, "advance") /\ stmt[On(t)].executed
    BY <1>4 DEF SQLFetch, At
  <2>2. stmt[On(t)].executed \in BOOLEAN
    BY <2>1, InsideReady DEF Inside, Fields
  <2> QED BY <2>1, <2>2, LinearStay DEF Inside
<1>5. CASE Change(t)
  <2>1. thread[t].pc = "change" /\ GoTo(t, "store") /\ UNCHANGED <<owner, stmt>>
    BY <1>5 DEF Change, At
  <2>2. thread[t].fn \in Changing
    BY <2>1 DEF Inv, Path, At
  <2> QED BY <2>1, <2>2, LinearStay DEF Inside
<1>6. CASE SQLPrepare(t)
  <2> DEFINE r == [stmt[On(t)] EXCEPT !.executed = FALSE, !.open = FALSE]
  <2>1. /\ thread[t].pc = "check" /\ thread[t].pc \in Inside /\ thread[t].fn = "SQLPrepare"
        /\ GoTo(t, "unlock") /\ owner' = owner /\ table' = table
    BY <1>6 DEF SQLPrepare, At, Inside
  <2>2. stmt[On(t)] \in Fields /\ stmt[On(t)].alive = TRUE /\ On(t) \in Stmt
    BY <2>1, InsideReady
  <2>3. stmt' = [stmt EXCEPT ![On(t)] = r] /\ r.alive = TRUE
    <3>1. stmt' = [stmt EXCEPT ![On(t)] = r]
      BY <1>6 DEF SQLPrepare, Inv, TypeOK
    <3>2. r.alive = stmt[On(t)].alive
      BY <2>2 DEF Fields
    <3> QED BY <2>2, <3>1, <3>2
  <2>4. stmt'[On(t)] = r
    BY <2>2, <2>3 DEF Inv, TypeOK
  <2> HIDE DEF r
  <2>5. Script(t)' /\ Ready(t)'
    BY <2>1, <2>3, <2>4, Going DEF Script, Ready, On, Changing
  <2> QED BY <2>1, <2>3, <2>5, LinearMove DEF Inside
<1>7. CASE Query(t)
  <2>1. /\ thread[t].pc = "query" /\ thread[t].pc \in Inside /\ UNCHANGED <<owner, stmt, table>>
        /\ thread'[t].pc = "store" /\ thread'[t].left = table /\ thread'[t].fn = thread[t].fn
        /\ thread'[t].on = On(t) /\ \A u \in Thread : u # t => thread'[u] = thread[u]
    BY <1>7 DEF Query, At, Inside, On, Inv, TypeOK
  <2>2. On(t) \in Stmt /\ stmt[On(t)].alive = TRUE /\ thread[t].fn = "SELECT"
    BY <2>1, InsideReady DEF Script
  <2>3. Script(t)' /\ Ready(t)'
    BY <2>1, <2>2 DEF Script, Ready, On, Changing
  <2> QED BY <2>1, <2>2, <2>3, LinearInside DEF Inside
<1>8. CASE Store(t)
  <2> DEFINE r == Rewound(TRUE, thread[t].left > 0)
  <2>1. /\ thread[t].pc \in Inside /\ GoTo(t, "push") /\ owner' = owner /\ table' = table
        /\ stmt' = [stmt EXCEPT ![On(t)] = r]
    BY <1>8 DEF Store, At, Inside
  <2>2. On(t) \in Stmt /\ Script(t)
    BY <2>1, InsideReady
  <2>3. stmt'[On(t)] = r /\ r.alive = TRUE
    BY <2>1, <2>2 DEF Inv, TypeOK, Rewound
  <2> HIDE DEF r
  <2>4. /\ thread'[t].pc = "push" /\ thread'[t].fn = thread[t].fn
        /\ thread'[t].on = On(t) /\ thread'[t].left = thread[t].left
    BY <2>1, Going
  <2>5. Script(t)'
    BY <2>2, <2>4 DEF Script
  <2>6. Ready(t)'
    BY <2>3, <2>4 DEF Ready, On
  <2> QED BY <2>1, <2>3, <2>5, <2>6, LinearMove DEF Inside
<1>9. CASE Push(t)
  <2>1. thread[t].pc = "push" /\ thread[t].pc \in Inside /\ owner' = owner /\ table' = table
    BY <1>9 DEF Push, At, Inside
  <2>2. /\ On(t) \in Stmt /\ stmt[On(t)] \in Fields /\ stmt[On(t)].alive = TRUE /\ Script(t)
        /\ thread[t].fn \in Locked
    BY <2>1, InsideReady
  <2>3. CASE thread[t].left > 0
    <3>1. /\ thread'[t].pc = "push" /\ thread'[t].fn = thread[t].fn /\ thread'[t].on = On(t)
          /\ \A u \in Thread : u # t => thread'[u] = thread[u]
      BY <1>9, <2>1, <2>3 DEF Push, On, Inv, TypeOK
    <3>2. /\ \A s \in Stmt : s # On(t) => stmt'[s] = stmt[s]
          /\ stmt'[On(t)].alive = TRUE
      BY <1>9, <2>2, <2>3 DEF Push, Inv, TypeOK, Fields
    <3>3. thread[t].fn \notin Changing
      BY <2>2, <2>3 DEF Script
    <3>4. Script(t)' /\ Ready(t)'
      BY <3>1, <3>2, <3>3 DEF Script, Ready, On
    <3> QED BY <2>1, <3>1, <3>2, <3>4, LinearInside DEF Inside
  <2>4. CASE ~(thread[t].left > 0)
    BY <1>9, <2>1, <2>4, LinearStay DEF Push, Inside
  <2> QED BY <2>3, <2>4
<1>10. CASE Advance(t)
  <2> DEFINE r == [stmt[On(t)] EXCEPT !.row = @ + 1]
  <2>1. thread[t].pc = "advance" /\ thread[t].pc \in Inside /\ GoTo(t, "bounds")
        /\ owner' = owner /\ table' = table
    BY <1>10 DEF Advance, At, Inside
  <2>2. /\ On(t) \in Stmt /\ stmt[On(t)] \in Fields /\ stmt[On(t)].alive = TRUE
        /\ Script(t) /\ Ready(t)
    BY <2>1, InsideReady
  <2>3. /\ stmt' = [stmt EXCEPT ![On(t)] = r] /\ r.alive = TRUE
        /\ r.executed = stmt[On(t)].executed
    BY <1>10, <2>2 DEF Advance, Inv, TypeOK, Fields
  <2>4. stmt'[On(t)] = r
    BY <2>2, <2>3 DEF Inv, TypeOK
  <2> HIDE DEF r
  <2>5. Script(t)' /\ Ready(t)'
    BY <2>1, <2>2, <2>3, <2>4, Going DEF Script, Ready, On
  <2> QED BY <2>1, <2>3, <2>5, LinearMove DEF Inside
<1>11. CASE Bounds(t)
  <2> DEFINE r == [stmt[On(t)] EXCEPT !.open = @ /\ HasRow(On(t))]
             p == IF HasRow(On(t)) THEN "deliver" ELSE "unlock"
  <2>1. /\ thread[t].pc \in Inside /\ GoTo(t, p) /\ p \in {"deliver", "unlock"}
        /\ owner' = owner /\ table' = table
    BY <1>11 DEF Bounds, At, Inside
  <2> HIDE DEF p
  <2>2. On(t) \in Stmt /\ stmt[On(t)] \in Fields /\ stmt[On(t)].alive = TRUE /\ Script(t)
    BY <2>1, InsideReady
  <2>3. stmt' = [stmt EXCEPT ![On(t)] = r] /\ r.alive = TRUE
    BY <1>11, <2>2 DEF Bounds, Inv, TypeOK, Fields
  <2>4. stmt'[On(t)] = r
    BY <2>2, <2>3 DEF Inv, TypeOK
  <2> HIDE DEF r
  <2>5. Script(t)' /\ Ready(t)'
    BY <2>1, <2>2, <2>3, <2>4, Going DEF Script, Ready, On
  <2> QED BY <2>1, <2>3, <2>5, LinearMove DEF Inside
<1> QED BY <1>1, <1>2, <1>3, <1>4, <1>5, <1>6, <1>7, <1>8, <1>9, <1>10, <1>11 DEF LockedStep

LEMMA LinearUnlocked ==
  ASSUME Inv, Disciplined, Linear, NEW t \in Thread, UnlockedStep(t)
  PROVE  Linear'
<1>1. CASE Return(t) /\ owner' = owner /\ thread[t].pc \in Outside
  BY <1>1, Returning, IdleReady, LinearOutside
<1>2. CASE SQLCloseCursor(t) /\ ~Return(t)
  <2>1. /\ thread[t].pc = "closing" /\ thread[t].pc \in Outside /\ GoTo(t, "clear")
        /\ stmt[On(t)].open /\ UNCHANGED <<owner, stmt>>
    BY <1>2 DEF SQLCloseCursor, At, Outside
  <2>2. On(t) \in Stmt /\ stmt[On(t)].open \in BOOLEAN
    BY <2>1, OutsideFacts DEF Fields
  <2>3. Script(t) /\ Ready(t)
    BY DEF Linear
  <2>4. /\ thread'[t].pc = "clear" /\ thread'[t].fn = thread[t].fn /\ thread'[t].on = On(t)
        /\ thread'[t].left = thread[t].left
        /\ \A u \in Thread : u # t => thread'[u] = thread[u]
    BY <2>1, Going
  <2>5. Script(t)' /\ Ready(t)'
    BY <2>1, <2>2, <2>3, <2>4 DEF Script, Ready, On
  <2> QED BY <2>1, <2>4, <2>5, LinearOutside
<1>3. CASE SQLEndTran(t) /\ ~Return(t)
  <2>1. /\ thread[t].pc = "endtran" /\ thread[t].pc \in Outside /\ GoTo(t, "rollback")
        /\ stmt' = [s \in Stmt |-> [stmt[s] EXCEPT !.open = FALSE, !.executed = FALSE,
                                                   !.data = <<>>]]
        /\ owner' = owner
    BY <1>3 DEF SQLEndTran, At, Outside
  <2>2. On(t) \in Stmt /\ stmt[On(t)] \in Fields
    BY <2>1, OutsideFacts
  <2>3. stmt'[On(t)].alive = stmt[On(t)].alive
    BY <2>1, <2>2 DEF Fields
  <2>4. Script(t) /\ Ready(t)
    BY DEF Linear
  <2>5. /\ thread'[t].pc = "rollback" /\ thread'[t].fn = thread[t].fn /\ thread'[t].on = On(t)
        /\ thread'[t].left = thread[t].left
        /\ \A u \in Thread : u # t => thread'[u] = thread[u]
    BY <2>1, Going
  <2>6. Script(t)' /\ Ready(t)'
    BY <2>1, <2>3, <2>4, <2>5 DEF Script, Ready, On
  <2> QED BY <2>1, <2>5, <2>6, LinearOutside
<1>4. \/ Return(t) /\ owner' = owner /\ thread[t].pc \in Outside
      \/ SQLCloseCursor(t) /\ ~Return(t)
      \/ SQLEndTran(t) /\ ~Return(t)
  BY DEF UnlockedStep, SQLAllocHandle, SQLFreeHandle, SQLDriverConnect, SQLDisconnect,
         SQLCloseCursor, Clear, SQLCancel, SQLEndTran, Rollback, At, Outside
<1> QED BY <1>1, <1>2, <1>3, <1>4

LEMMA LinearInvariance == ASSUME Disciplined PROVE Spec => []Linear
<1>1. Init => Linear
  <2> SUFFICES ASSUME Init PROVE Linear
    OBVIOUS
  <2>1. ASSUME NEW t \in Thread PROVE Script(t) /\ Ready(t)
    BY DEF Init, Idle, Script, Ready
  <2>2. \A s \in Stmt : Held(s)
    BY DEF Init, Held
  <2> QED BY <2>1, <2>2 DEF Linear
<1>2. Inv /\ Linear /\ [Next]_vars => Linear'
  <2> SUFFICES ASSUME Inv, Linear, [Next]_vars PROVE Linear'
    OBVIOUS
  <2>1. CASE UNCHANGED vars
    BY <2>1 DEF vars, Linear, Script, Ready, Held, On
  <2>2. CASE Next
    <3>1. PICK t \in Thread : \/ \E fn \in Call, s \in Stmt : Begin(t, fn, s)
                             \/ Step(t)
      BY <2>2 DEF Next
    <3> QED BY <3>1, LinearBegin, LinearAcquire, LinearLocked, LinearUnlocked DEF Step
  <2> QED BY <2>1, <2>2
<1> QED BY <1>1, <1>2, Invariance, PTL DEF Spec

-----------------------------------------------------------------------------
(* Which atomic step each step is                                          *)

Frame(t) == \A u \in Thread : u # t => thread'[u] = thread[u]

SameView(s) == Settled(s)' = Settled(s) /\ SettledFetches(s)' = SettledFetches(s)

\* A statement in which nothing has happened.
LEMMA Undisturbed ==
  ASSUME NEW s \in Stmt, owner'[s] = owner[s],
         owner[s] # Nothing => thread'[owner[s]] = thread[owner[s]],
         stmt'[s] = stmt[s], fetched'[s] = fetched[s]
  PROVE  SameView(s)
BY DEF SameView, Settled, SettledFetches, Halfway, Changed, At

\* A step of t inside a call on its statement is seen nowhere else.
LEMMA OtherViews ==
  ASSUME Inv, Linear, NEW t \in Thread, Frame(t), NEW x \in Stmt,
         owner'[x] = owner[x], owner[x] # t,
         stmt'[x] = stmt[x], fetched'[x] = fetched[x]
  PROVE  SameView(x)
<1>1. owner[x] # Nothing => owner[x] \in Thread
  BY DEF Inv, TypeOK
<1> QED BY <1>1, Undisturbed DEF Frame

\* The thread inside a statement is the one that holds its lock.
LEMMA HolderIs ==
  ASSUME Inv, Linear, NEW t \in Thread, thread[t].pc \in Inside
  PROVE  /\ owner[On(t)] = t /\ On(t) \in Stmt
         /\ \A x \in Stmt : x # On(t) => owner[x] # t
<1>1. owner[On(t)] = t /\ On(t) \in Stmt
  BY DEF Inv, Path, Busy, At, Inside
<1>2. \A x \in Stmt : owner[x] = t => On(t) = x
  BY LockingAssumption DEF Linear, Held
<1> QED BY <1>1, <1>2

LEMMA NotHolding ==
  ASSUME Inv, Linear, NEW t \in Thread, thread[t].pc \notin Inside
  PROVE  \A x \in Stmt : owner[x] # t
BY LockingAssumption DEF Linear, Held

\* What a statement is taken for at the points of the call inside it.
Views(t) ==
  LET s == On(t)  p == thread[t].pc IN
    /\ p \in {"check", "query", "change", "advance", "get", "unlock"}
         => Settled(s) = stmt[s] /\ SettledFetches(s) = fetched[s]
    /\ p = "store" /\ thread[t].fn \notin Changing
         => Settled(s) = stmt[s] /\ SettledFetches(s) = fetched[s]
    /\ p = "store" /\ thread[t].fn \in Changing
         => Settled(s) = Rewound(TRUE, FALSE) /\ SettledFetches(s) = <<>>
    /\ p = "push"
         => /\ Settled(s) = [stmt[s] EXCEPT !.data = @ \o [i \in 1..thread[t].left |-> t]]
            /\ SettledFetches(s) = fetched[s]
    /\ p = "bounds"
         => Settled(s) = [stmt[s] EXCEPT !.row = @ - 1] /\ SettledFetches(s) = fetched[s]
    /\ p = "deliver"
         => Settled(s) = stmt[s] /\ SettledFetches(s) = Append(fetched[s], stmt[s].row)

LEMMA ViewsInside ==
  ASSUME NEW t \in Thread, owner[On(t)] = t
  PROVE  Views(t)
BY LockingAssumption DEF Views, Settled, SettledFetches, Halfway, Changed, At

LEMMA ViewsAfter ==
  ASSUME NEW t \in Thread, owner'[On(t)'] = t
  PROVE  Views(t)'
BY LockingAssumption DEF Views, Settled, SettledFetches, Halfway, Changed, At

\* A statement nobody is in is what it is.
LEMMA ViewsOutside ==
  ASSUME NEW s \in Stmt
  PROVE  /\ owner[s] = Nothing => Settled(s) = stmt[s] /\ SettledFetches(s) = fetched[s]
         /\ owner'[s] = Nothing => Settled(s)' = stmt'[s] /\ SettledFetches(s)' = fetched'[s]
BY DEF Settled, SettledFetches, Halfway

\* Nobody is in the middle of a rollback while another call runs.
LEMMA TableIs ==
  ASSUME Inv, Disciplined, NEW t \in Thread, thread[t].pc \in (Inside \cup Outside) \ {"rollback"}
  PROVE  SettledTable = table
<1>1. ASSUME NEW u \in Thread, thread[u].pc = "rollback" PROVE FALSE
  <2>1. u # t /\ thread[u].pc \in Outside
    BY <1>1 DEF Inside, Outside
  <2>2. thread[t].pc = "idle"
    BY <2>1, OthersIdle
  <2> QED BY <2>2 DEF Inside, Outside
<1> QED BY <1>1 DEF SettledTable, At

\* A call is made, takes effect, and returns.
LEMMA InvokeStep ==
  ASSUME Inv, NEW t \in Thread, NEW fn \in Call, NEW s \in Stmt,
         Stage(t) = "idle", Frame(t), DOMAIN thread' = Thread,
         Turn(t)' = [fn |-> fn, on |-> s, at |-> "called"],
         \A x \in Stmt : SameView(x), SettledTable' = SettledTable
  PROVE  Atomic!Next
<1>1. \A u \in Thread : u # t => Turn(u)' = Turn(u)
  BY DEF Frame, Turn, Stage, On, At, Changed
<1>2. Atomic!Invoke(t, fn, s)
  BY <1>1 DEF Atomic!Invoke, SameView, Turn
<1> QED BY <1>2 DEF Atomic!Next

\* Where a call stands after its effect, or its return.
Leaves(t) == \/ Turn(t)' = [Turn(t) EXCEPT !.at = "done"]
             \/ Turn(t)' = Atomic!Idle

LEMMA PerformStep ==
  ASSUME Inv, NEW t \in Thread, Stage(t) = "called", Frame(t), Leaves(t),
         \/ Atomic!Effect(t, thread[t].fn, On(t))
         \/ (\A x \in Stmt : SameView(x)) /\ SettledTable' = SettledTable
  PROVE  Atomic!Next
<1>1. \A u \in Thread : u # t => Turn(u)' = Turn(u)
  BY DEF Frame, Turn, Stage, On, At, Changed
<1>2. Turn(t).at = "called" /\ Turn(t).fn = thread[t].fn /\ Turn(t).on = On(t)
  BY DEF Turn
<1>3. (\A x \in Stmt : SameView(x)) =>
         [s \in Stmt |-> Settled(s)]' = [s \in Stmt |-> Settled(s)]
         /\ [s \in Stmt |-> SettledFetches(s)]' = [s \in Stmt |-> SettledFetches(s)]
  BY DEF SameView
<1>4. \/ [u \in Thread |-> Turn(u)]' = [[u \in Thread |-> Turn(u)] EXCEPT ![t].at = "done"]
      \/ [u \in Thread |-> Turn(u)]' = [[u \in Thread |-> Turn(u)] EXCEPT ![t] = Atomic!Idle]
  BY <1>1, Zenon DEF Leaves
<1>5. Atomic!Perform(t)
  BY <1>2, <1>3, <1>4 DEF Atomic!Perform
<1> QED BY <1>5 DEF Atomic!Next

LEMMA RespondStep ==
  ASSUME Inv, NEW t \in Thread, Stage(t) = "done", Frame(t), Turn(t)' = Atomic!Idle,
         \A x \in Stmt : SameView(x), SettledTable' = SettledTable
  PROVE  Atomic!Next
<1>1. \A u \in Thread : u # t => Turn(u)' = Turn(u)
  BY DEF Frame, Turn, Stage, On, At, Changed
<1>2. Turn(t).at = "done"
  BY DEF Turn
<1>3. [u \in Thread |-> Turn(u)]' = [[u \in Thread |-> Turn(u)] EXCEPT ![t] = Atomic!Idle]
  BY <1>1, Zenon
<1>4. /\ [s \in Stmt |-> Settled(s)]' = [s \in Stmt |-> Settled(s)]
      /\ [s \in Stmt |-> SettledFetches(s)]' = [s \in Stmt |-> SettledFetches(s)]
  BY DEF SameView
<1>5. Atomic!Respond(t)
  BY <1>2, <1>3, <1>4 DEF Atomic!Respond
<1> QED BY <1>5 DEF Atomic!Next

\* A step inside a call that nobody can tell.
LEMMA HiddenStep ==
  ASSUME Inv, NEW t \in Thread, Frame(t), Turn(t)' = Turn(t),
         \A x \in Stmt : SameView(x), SettledTable' = SettledTable
  PROVE  UNCHANGED Atomic!vars
<1>1. \A u \in Thread : Turn(u)' = Turn(u)
  BY DEF Frame, Turn, Stage, On, At, Changed
<1>2. [u \in Thread |-> Turn(u)]' = [u \in Thread |-> Turn(u)]
  BY <1>1
<1>3. /\ [s \in Stmt |-> Settled(s)]' = [s \in Stmt |-> Settled(s)]
      /\ [s \in Stmt |-> SettledFetches(s)]' = [s \in Stmt |-> SettledFetches(s)]
  BY DEF SameView
<1> QED BY <1>2, <1>3 DEF Atomic!vars

LEMMA IdleTurn ==
  ASSUME Inv, NEW t \in Thread, Return(t)
  PROVE  Frame(t) /\ Turn(t)' = Atomic!Idle
<1>1. thread'[t] = Idle /\ Frame(t)
  BY Returning DEF Frame
<1> QED BY <1>1 DEF Idle, Atomic!Idle, Turn, Stage, On, At

\* A step to p inside the lock: the turn of its thread.
LEMMA TurnAt ==
  ASSUME Inv, NEW t \in Thread, thread[t].pc # "idle",
         Frame(t), thread'[t].pc # "idle", thread'[t].fn = thread[t].fn, thread'[t].on = On(t)
  PROVE  /\ Stage(t) = Stage(t)' => Turn(t)' = Turn(t)
         /\ Stage(t)' = "done" => Leaves(t)
<1>1. Turn(t) = [fn |-> thread[t].fn, on |-> On(t), at |-> Stage(t)]
  BY DEF Turn
<1>2. Turn(t)' = [fn |-> thread[t].fn, on |-> On(t), at |-> Stage(t)']
  BY DEF Turn, On
<1> QED BY <1>1, <1>2 DEF Leaves

-----------------------------------------------------------------------------
(* The steps inside a lock                                                 *)

LEMMA TableSame ==
  ASSUME NEW t \in Thread, Frame(t), table' = table,
         thread[t].pc # "rollback", thread'[t].pc # "rollback"
  PROVE  SettledTable' = SettledTable
<1>1. (\E u \in Thread : At(u, "rollback"))' <=> \E u \in Thread : At(u, "rollback")
  BY DEF Frame, At
<1> QED BY <1>1 DEF SettledTable

\* A step of t from one point inside its call to the next.
Local(t) ==
  /\ Frame(t) /\ owner' = owner
  /\ thread'[t].pc \in Inside /\ thread'[t].fn = thread[t].fn /\ thread'[t].on = On(t)
  /\ \A x \in Stmt : x # On(t) => stmt'[x] = stmt[x] /\ fetched'[x] = fetched[x]

LEMMA LocalElsewhere ==
  ASSUME Inv, Linear, NEW t \in Thread, thread[t].pc \in Inside, Local(t)
  PROVE  /\ \A x \in Stmt : x # On(t) => SameView(x)
         /\ table' = table => SettledTable' = SettledTable
<1>1. \A x \in Stmt : x # On(t) => SameView(x)
  BY HolderIs, OtherViews DEF Local
<1>2. table' = table => SettledTable' = SettledTable
  BY TableSame DEF Local, Inside
<1> QED BY <1>1, <1>2

\* A step between two points at which the call has, or has not, taken effect.
LEMMA HiddenInside ==
  ASSUME Inv, Linear, NEW t \in Thread, thread[t].pc \in Inside, Local(t),
         Stage(t)' = Stage(t), SameView(On(t)), table' = table
  PROVE  UNCHANGED Atomic!vars
<1>1. Turn(t)' = Turn(t)
  BY TurnAt DEF Local, Inside
<1>2. \A x \in Stmt : SameView(x)
  BY LocalElsewhere
<1> QED BY <1>1, <1>2, LocalElsewhere, HiddenStep DEF Local

\* The step at which it takes effect, or turns out to have none.
LEMMA PerformInside ==
  ASSUME Inv, Linear, NEW t \in Thread, thread[t].pc \in Inside, Local(t),
         Stage(t) = "called", Stage(t)' = "done",
         \/ Atomic!Effect(t, thread[t].fn, On(t))
         \/ SameView(On(t)) /\ table' = table
  PROVE  Atomic!Next
<1>1. Leaves(t)
  BY TurnAt DEF Local, Inside
<1>2. SameView(On(t)) /\ table' = table =>
        (\A x \in Stmt : SameView(x)) /\ SettledTable' = SettledTable
  BY LocalElsewhere
<1> QED BY <1>1, <1>2, PerformStep DEF Local

\* What the effect is, in the terms of AtomicCalls.
LEMMA BecomesInside ==
  ASSUME Inv, Linear, NEW t \in Thread, thread[t].pc \in Inside, Local(t)
  PROVE  Atomic!Becomes(On(t), Settled(On(t))', SettledFetches(On(t))')
<1>1. \A x \in Stmt : x # On(t) => /\ Settled(x)' = Settled(x)
                                   /\ SettledFetches(x)' = SettledFetches(x)
  BY LocalElsewhere DEF SameView
<1> QED BY <1>1 DEF Atomic!Becomes, Local, On

LEMMA MovesInside ==
  ASSUME Inv, NEW t \in Thread, thread[t].pc \in Inside, NEW p \in Inside, GoTo(t, p),
         owner' = owner,
         \A x \in Stmt : x # On(t) => stmt'[x] = stmt[x] /\ fetched'[x] = fetched[x]
  PROVE  /\ Local(t) /\ thread'[t].pc = p /\ thread'[t].left = thread[t].left
BY Going DEF Local, Frame

LEMMA BeginAtomic ==
  ASSUME Inv, Disciplined, Linear, NEW t \in Thread, NEW fn \in Call, NEW s \in Stmt,
         Begin(t, fn, s)
  PROVE  Atomic!Next
<1> DEFINE w == [pc |-> Entry(fn), fn |-> fn, on |-> s, left |-> 0]
<1>1. /\ thread' = [thread EXCEPT ![t] = w]
      /\ UNCHANGED <<owner, stmt, table, fetched>> /\ thread[t].pc = "idle"
  BY DEF Begin, Busy, At
<1>2. Frame(t) /\ DOMAIN thread' = Thread /\ thread'[t] = w
  BY <1>1 DEF Frame, Inv, TypeOK
<1>3. w.pc = Entry(fn) /\ w.fn = fn /\ w.on = s
  OBVIOUS
<1> HIDE DEF w
<1>4. Entry(fn) \in (Outside \cup {"lock"}) \ {"rollback"}
  <2>1. \/ fn \in Locked
        \/ fn \in Unlocked /\ Body(fn) \in Outside \ {"rollback"}
    BY DEF Call, Body, Unlocked, Outside
  <2>2. fn \in Unlocked => fn \notin Locked
    BY DEF Locked, Unlocked, Changing
  <2> QED BY <2>1, <2>2 DEF Entry
<1>5. \A x \in Stmt : SameView(x)
  <2>1. thread[t].pc \notin Inside
    BY <1>1 DEF Inside
  <2> QED BY <1>1, <1>2, <2>1, NotHolding, OtherViews
<1>6. SettledTable' = SettledTable
  BY <1>1, <1>2, <1>3, <1>4, TableSame
<1>7. Stage(t) = "idle" /\ Stage(t)' = "called"
  BY <1>1, <1>2, <1>3, <1>4 DEF Stage, At, Changed, Outside
<1>8. Turn(t)' = [fn |-> fn, on |-> s, at |-> "called"]
  BY <1>2, <1>3, <1>7 DEF Turn, On
<1> QED BY <1>2, <1>5, <1>6, <1>7, <1>8, InvokeStep

LEMMA AcquireAtomic ==
  ASSUME Inv, Disciplined, Linear, NEW t \in Thread, Acquire(t)
  PROVE  UNCHANGED Atomic!vars
<1>1. /\ thread[t].pc = "lock" /\ On(t) \in Stmt /\ thread[t].fn \in Locked
      /\ owner[On(t)] = Nothing /\ owner' = [owner EXCEPT ![On(t)] = t]
      /\ GoTo(t, Body(thread[t].fn)) /\ UNCHANGED <<stmt, table, fetched>>
  BY DEF Acquire, Inv, Path, Busy, At
<1>2. Body(thread[t].fn) = "check"
  BY <1>1 DEF Body, Locked, Changing
<1>3. /\ Frame(t) /\ thread'[t].pc = "check" /\ thread'[t].fn = thread[t].fn
      /\ thread'[t].on = On(t)
  BY <1>1, <1>2, Going DEF Frame
<1>4. Turn(t)' = Turn(t)
  <2>1. Stage(t) = "called" /\ Stage(t)' = "called"
    BY <1>1, <1>3 DEF Stage, At, Changed
  <2> QED BY <1>1, <1>3, <2>1, TurnAt
<1>5. ASSUME NEW x \in Stmt PROVE SameView(x)
  <2>1. CASE x = On(t)
    <3>1. owner'[On(t)'] = t /\ On(t)' = On(t)
      BY <1>1, <1>3 DEF On, Inv, TypeOK
    <3>2. Views(t)'
      BY <3>1, ViewsAfter
    <3>3. Settled(x)' = stmt'[x] /\ SettledFetches(x)' = fetched'[x]
      BY <1>3, <2>1, <3>1, <3>2 DEF Views
    <3> QED BY <1>1, <2>1, <3>3, ViewsOutside DEF SameView
  <2>2. CASE x # On(t)
    <3>1. owner'[x] = owner[x] /\ owner[x] # t
      BY <1>1, <2>2, NotHolding DEF Inv, TypeOK, Inside
    <3> QED BY <1>1, <1>3, <3>1, OtherViews
  <2> QED BY <2>1, <2>2
<1>6. SettledTable' = SettledTable
  BY <1>1, <1>3, TableSame
<1> QED BY <1>3, <1>4, <1>5, <1>6, HiddenStep

LEMMA ReleaseAtomic ==
  ASSUME Inv, Disciplined, Linear, NEW t \in Thread, Release(t)
  PROVE  Atomic!Next
<1>1. /\ thread[t].pc = "unlock" /\ thread[t].pc \in Inside
      /\ owner' = [owner EXCEPT ![On(t)] = Nothing]
      /\ Return(t) /\ UNCHANGED <<stmt, table, fetched>>
  BY DEF Release, At, Inside
<1>2. /\ Frame(t) /\ Turn(t)' = Atomic!Idle /\ thread'[t] = Idle
      /\ Stage(t) = "done"
  BY <1>1, IdleTurn, Returning DEF Stage, At
<1>3. ASSUME NEW x \in Stmt PROVE SameView(x)
  <2>1. CASE x = On(t)
    <3>1. owner[On(t)] = t /\ owner'[x] = Nothing
      BY <1>1, <2>1, HolderIs DEF Inv, TypeOK
    <3>2. Settled(x) = stmt[x] /\ SettledFetches(x) = fetched[x]
      BY <1>1, <2>1, <3>1, ViewsInside DEF Views
    <3> QED BY <1>1, <3>1, <3>2, ViewsOutside DEF SameView
  <2>2. CASE x # On(t)
    <3>1. owner'[x] = owner[x] /\ owner[x] # t
      BY <1>1, <2>2, HolderIs DEF Inv, TypeOK
    <3> QED BY <1>1, <1>2, <3>1, OtherViews
  <2> QED BY <2>1, <2>2
<1>4. SettledTable' = SettledTable
  BY <1>1, <1>2, TableSame DEF Idle
<1> QED BY <1>2, <1>3, <1>4, RespondStep

LEMMA LocalViews ==
  ASSUME Inv, Linear, NEW t \in Thread, thread[t].pc \in Inside, Local(t)
  PROVE  /\ Views(t) /\ Views(t)' /\ On(t)' = On(t)
         /\ On(t) \in Stmt /\ stmt[On(t)] \in Fields /\ fetched[On(t)] \in Seq(Int)
         /\ thread[t].left \in 0..MaxRow /\ Script(t) /\ Ready(t)
<1>1. owner[On(t)] = t /\ On(t)' = On(t) /\ owner'[On(t)'] = t
  BY HolderIs DEF Local, On
<1> QED BY <1>1, ViewsInside, ViewsAfter, InsideReady, InsideFacts

\* A step that writes nothing, between points at which nothing is pending.
LEMMA SameViewAtRest ==
  ASSUME Inv, Linear, NEW t \in Thread, Local(t), UNCHANGED <<stmt, fetched>>,
         thread[t].pc \in {"check", "query", "change", "advance", "get"},
         \/ thread'[t].pc \in {"query", "change", "advance", "get", "unlock"}
         \/ thread'[t].pc = "store" /\ thread[t].fn \notin Changing
  PROVE  SameView(On(t))
<1>1. Views(t) /\ Views(t)' /\ On(t)' = On(t)
  BY LocalViews DEF Inside
<1>2. Settled(On(t)) = stmt[On(t)] /\ SettledFetches(On(t)) = fetched[On(t)]
  BY <1>1 DEF Views
<1>3. Settled(On(t))' = stmt[On(t)] /\ SettledFetches(On(t))' = fetched[On(t)]
  BY <1>1 DEF Views, Local
<1> QED BY <1>1, <1>2, <1>3 DEF SameView

\* The calls that find nothing to do, or only read.
LEMMA NoEffect ==
  ASSUME Inv, Linear, NEW t \in Thread, thread[t].pc \in {"check", "query", "change"},
         NEW p \in {"unlock", "get"}, GoTo(t, p), UNCHANGED <<owner, stmt, table, fetched>>
  PROVE  Atomic!Next
<1>1. Local(t) /\ thread'[t].pc = p /\ thread[t].pc \in Inside
  BY MovesInside DEF Inside
<1>2. Stage(t) = "called" /\ Stage(t)' = "done"
  BY <1>1 DEF Stage, At, Changed
<1> QED BY <1>1, <1>2, SameViewAtRest, PerformInside

LEMMA QuietMove ==
  ASSUME Inv, Linear, NEW t \in Thread, NEW p, GoTo(t, p),
         UNCHANGED <<owner, stmt, table, fetched>>,
         \/ thread[t].pc = "check" /\ p \in {"query", "change", "advance"}
         \/ thread[t].pc = "get" /\ p = "unlock"
  PROVE  UNCHANGED Atomic!vars
<1>1. Local(t) /\ thread'[t].pc = p /\ thread[t].pc \in Inside
  BY MovesInside DEF Inside
<1>2. Stage(t)' = Stage(t)
  BY <1>1 DEF Stage, At, Changed
<1> QED BY <1>1, <1>2, SameViewAtRest, HiddenInside

LEMMA QueryAtomic ==
  ASSUME Inv, Linear, NEW t \in Thread, Query(t)
  PROVE  UNCHANGED Atomic!vars
<1>1. /\ thread[t].pc = "query" /\ thread[t].pc \in Inside
      /\ UNCHANGED <<owner, stmt, table, fetched>>
      /\ thread'[t].pc = "store" /\ thread'[t].fn = thread[t].fn /\ thread'[t].on = On(t)
      /\ \A u \in Thread : u # t => thread'[u] = thread[u]
  BY DEF Query, At, Inside, On, Inv, TypeOK
<1>2. thread[t].fn \notin Changing
  BY <1>1 DEF Linear, Script, Changing
<1>3. Local(t)
  BY <1>1 DEF Local, Frame, Inside
<1>4. Stage(t)' = Stage(t)
  BY <1>1, <1>2 DEF Stage, At, Changed
<1> QED BY <1>1, <1>2, <1>3, <1>4, SameViewAtRest, HiddenInside

LEMMA PrepareAtomic ==
  ASSUME Inv, Linear, NEW t \in Thread, SQLPrepare(t)
  PROVE  Atomic!Next
<1> DEFINE s == On(t)
           r == [stmt[s] EXCEPT !.executed = FALSE, !.open = FALSE]
<1>1. /\ thread[t].pc = "check" /\ thread[t].pc \in Inside /\ thread[t].fn = "SQLPrepare"
      /\ GoTo(t, "unlock") /\ UNCHANGED <<owner, table, fetched>>
      /\ stmt' = [stmt EXCEPT ![On(t)] = r]
  BY DEF SQLPrepare, At, Inside, Inv, TypeOK
<1>2. /\ On(t) \in Stmt /\ stmt[On(t)].alive = TRUE
      /\ stmt'[On(t)] = r /\ \A x \in Stmt : x # On(t) => stmt'[x] = stmt[x]
  BY <1>1, InsideReady DEF Inv, TypeOK
<1>3. Local(t) /\ thread'[t].pc = "unlock"
  BY <1>1, <1>2, MovesInside DEF Inside
<1>4. Stage(t) = "called" /\ Stage(t)' = "done"
  BY <1>1, <1>3 DEF Stage, At, Changed
<1>5. Views(t) /\ Views(t)' /\ On(t)' = On(t)
  BY <1>1, <1>3, LocalViews
<1>6. Settled(s) = stmt[s] /\ SettledFetches(s) = fetched[s]
  BY <1>1, <1>5 DEF Views
<1>7. Settled(s)' = r /\ SettledFetches(s)' = fetched[s]
  <2>1. Settled(s)' = stmt'[s'] /\ SettledFetches(s)' = fetched'[s']
    BY <1>3, <1>5 DEF Views
  <2> QED BY <1>1, <1>2, <1>5, <2>1
<1>8. Atomic!Becomes(s, r, fetched[s])
  BY <1>1, <1>3, <1>7, BecomesInside
<1>9. SettledTable' = SettledTable
  BY <1>1, <1>3, LocalElsewhere
<1>10. Atomic!Prepare(s)
  BY <1>2, <1>6, <1>8, <1>9 DEF Atomic!Prepare, Atomic!Keeping
<1>11. Atomic!Effect(t, thread[t].fn, s)
  BY <1>1, <1>2, <1>6, <1>10 DEF Atomic!Effect
<1> QED BY <1>1, <1>3, <1>4, <1>11, PerformInside

\* Rows that are all from one execution, and what is left of them to copy.
Copies(n, e) == [i \in 1..n |-> e]

LEMMA SameSequence ==
  ASSUME NEW S, NEW p \in Seq(S), NEW q \in Seq(S), Len(p) = Len(q),
         \A i \in 1..Len(p) : p[i] = q[i]
  PROVE  p = q
OBVIOUS

LEMMA Joined ==
  ASSUME NEW S, NEW p \in Seq(S), NEW q \in Seq(S)
  PROVE  p \o q \in Seq(S) /\ Len(p \o q) = Len(p) + Len(q)
OBVIOUS

LEMMA OneByOne ==
  ASSUME NEW S, NEW d \in Seq(S), NEW e \in S, NEW b \in Seq(S), NEW c \in Seq(S),
         Len(c) = Len(b) + 1, c[1] = e, \A i \in 1..Len(b) : c[i + 1] = b[i]
  PROVE  Append(d, e) \o b = d \o c
<1>1. Len(d) \in Nat /\ Len(b) \in Nat
  OBVIOUS
<1>2. Append(d, e) \in Seq(S) /\ Len(Append(d, e)) = Len(d) + 1
  OBVIOUS
<1>3. Append(d, e) \o b \in Seq(S) /\ Len(Append(d, e) \o b) = Len(d) + 1 + Len(b)
  BY <1>2
<1>4. d \o c \in Seq(S) /\ Len(d \o c) = Len(d) + 1 + Len(b)
  <2>1. d \o c \in Seq(S) /\ Len(d \o c) = Len(d) + Len(c)
    BY Joined
  <2> QED BY <1>1, <2>1
<1>5. ASSUME NEW i \in 1..(Len(d) + 1 + Len(b)) PROVE (Append(d, e) \o b)[i] = (d \o c)[i]
  <2>1. CASE i <= Len(d)
    <3>1. (Append(d, e) \o b)[i] = Append(d, e)[i]
      BY <1>1, <1>2, <2>1
    <3> QED BY <1>1, <2>1, <3>1
  <2>2. CASE i = Len(d) + 1
    <3>1. (Append(d, e) \o b)[i] = Append(d, e)[i] /\ Append(d, e)[i] = e
      BY <1>1, <1>2, <2>2
    <3>2. (d \o c)[i] = c[1]
      BY <1>1, <2>2
    <3> QED BY <3>1, <3>2
  <2>3. CASE i > Len(d) + 1
    <3>1. i - Len(d) - 1 \in 1..Len(b)
      BY <1>1, <2>3
    <3>2. (Append(d, e) \o b)[i] = b[i - Len(d) - 1]
      BY <1>1, <1>2, <2>3
    <3>3. (d \o c)[i] = c[i - Len(d)]
      BY <1>1, <2>3
    <3> DEFINE j == i - Len(d) - 1
    <3>4. c[j + 1] = b[j] /\ j + 1 = i - Len(d)
      <4>1. j \in 1..Len(b) /\ j + 1 = i - Len(d)
        BY <1>1, <3>1
      <4> HIDE DEF j
      <4> QED BY <4>1
    <3> QED BY <3>2, <3>3, <3>4
  <2> QED BY <1>1, <2>1, <2>2, <2>3
<1> QED BY <1>1, <1>3, <1>4, <1>5, SameSequence

LEMMA CopiesFacts ==
  ASSUME NEW S, NEW e \in S, NEW d \in Seq(S), NEW n \in Nat
  PROVE  /\ <<>> \o Copies(n, e) = Copies(n, e)
         /\ d \o Copies(0, e) = d
         /\ n > 0 => Append(d, e) \o Copies(n - 1, e) = d \o Copies(n, e)
<1>1. Copies(n, e) \in Seq(S) /\ Len(Copies(n, e)) = n
  BY DEF Copies
<1>2. Copies(0, e) \in Seq(S) /\ Len(Copies(0, e)) = 0
  BY DEF Copies
<1>3. <<>> \o Copies(n, e) = Copies(n, e)
  BY <1>1
<1>4. d \o Copies(0, e) = d
  BY <1>2
<1>5. ASSUME n > 0 PROVE Append(d, e) \o Copies(n - 1, e) = d \o Copies(n, e)
  <2>1. Copies(n - 1, e) \in Seq(S) /\ Len(Copies(n - 1, e)) = n - 1
    BY <1>5 DEF Copies
  <2>2. Copies(n, e)[1] = e /\ \A i \in 1..n - 1 : Copies(n, e)[i + 1] = Copies(n - 1, e)[i]
    BY <1>5 DEF Copies
  <2>3. /\ Len(Copies(n, e)) = Len(Copies(n - 1, e)) + 1
        /\ \A i \in 1..Len(Copies(n - 1, e)) : Copies(n, e)[i + 1] = Copies(n - 1, e)[i]
    BY <1>1, <2>1, <2>2
  <2> QED BY <1>1, <2>1, <2>2, <2>3, OneByOne
<1> QED BY <1>3, <1>4, <1>5

LEMMA CopiedFields ==
  ASSUME NEW x \in Fields, NEW e \in Thread
  PROVE  [x EXCEPT !.data = @ \o Copies(0, e)] = x
<1>1. x.data \in Seq(Thread)
  BY DEF Fields
<1>2. x.data \o Copies(0, e) = x.data
  BY <1>1, CopiesFacts
<1> QED BY <1>2 DEF Fields

LEMMA PushedCopy ==
  ASSUME NEW x \in Fields, NEW e \in Thread, NEW n \in Nat, n > 0
  PROVE  [[x EXCEPT !.data = Append(@, e)] EXCEPT !.data = @ \o Copies(n - 1, e)]
           = [x EXCEPT !.data = @ \o Copies(n, e)]
<1>1. x.data \in Seq(Thread)
  BY DEF Fields
<1>2. Append(x.data, e) \o Copies(n - 1, e) = x.data \o Copies(n, e)
  BY <1>1, CopiesFacts
<1> DEFINE p == [[x EXCEPT !.data = Append(@, e)] EXCEPT !.data = @ \o Copies(n - 1, e)]
           q == [x EXCEPT !.data = @ \o Copies(n, e)]
<1>3. p = [x EXCEPT !.data = Append(x.data, e) \o Copies(n - 1, e)]
  BY DEF Fields
<1>4. q = [x EXCEPT !.data = x.data \o Copies(n, e)]
  OBVIOUS
<1> QED BY <1>2, <1>3, <1>4

LEMMA SelectedFields ==
  ASSUME NEW e \in Thread, NEW n \in Nat
  PROVE  /\ [Rewound(TRUE, n > 0) EXCEPT !.data = @ \o Copies(n, e)]
              = [Atomic!Rewound(TRUE, n > 0) EXCEPT !.data = Copies(n, e)]
         /\ [Rewound(TRUE, FALSE) EXCEPT !.data = @ \o Copies(0, e)] = Rewound(TRUE, FALSE)
<1>1. <<>> \o Copies(n, e) = Copies(n, e) /\ <<>> \o Copies(0, e) = <<>>
  <2>1. <<>> \in Seq(Thread)
    OBVIOUS
  <2> QED BY <2>1, CopiesFacts
<1> QED BY <1>1 DEF Rewound, Atomic!Rewound

LEMMA RowFields ==
  ASSUME NEW x \in Fields, NEW h \in BOOLEAN
  PROVE  /\ [[x EXCEPT !.row = @ + 1] EXCEPT !.row = @ - 1] = x
         /\ LET y == [x EXCEPT !.row = @ - 1] IN
              /\ y.row + 1 = x.row /\ y.data = x.data /\ y.alive = x.alive
              /\ y.executed = x.executed
              /\ [y EXCEPT !.row = x.row, !.open = @ /\ h] = [x EXCEPT !.open = @ /\ h]
<1>1. [[x EXCEPT !.row = @ + 1] EXCEPT !.row = @ - 1] = x
  <2>1. (x.row + 1) - 1 = x.row
    BY DEF Fields
  <2>2. [[x EXCEPT !.row = @ + 1] EXCEPT !.row = @ - 1] = [x EXCEPT !.row = (x.row + 1) - 1]
    BY DEF Fields
  <2>3. [x EXCEPT !.row = x.row] = x
    BY DEF Fields
  <2> QED BY <2>1, <2>2, <2>3
<1> DEFINE y == [x EXCEPT !.row = @ - 1]
<1>2. /\ y.row + 1 = x.row /\ y.data = x.data /\ y.alive = x.alive
      /\ y.executed = x.executed /\ y.open = x.open
  BY DEF Fields
<1>3. [y EXCEPT !.row = x.row, !.open = @ /\ h] = [x EXCEPT !.open = @ /\ h]
  BY DEF Fields
<1> QED BY <1>1, <1>2, <1>3

LEMMA TableAfter ==
  ASSUME Inv, Disciplined, NEW t \in Thread, thread[t].pc \in Inside \cup Outside,
         Frame(t), thread'[t].pc # "rollback"
  PROVE  SettledTable' = table'
<1>1. ASSUME NEW u \in Thread, thread'[u].pc = "rollback" PROVE FALSE
  <2>1. u # t /\ thread[u].pc = "rollback"
    BY <1>1 DEF Frame
  <2>2. thread[t].pc = "idle"
    BY <2>1, OthersIdle DEF Outside
  <2> QED BY <2>2 DEF Inside, Outside
<1> QED BY <1>1 DEF SettledTable, At

\* A step inside a lock that writes r and f to its statement.
LEMMA WritesInside ==
  ASSUME Inv, Linear, NEW t \in Thread, thread[t].pc \in Inside, NEW p \in Inside, GoTo(t, p),
         owner' = owner, NEW r, NEW f,
         stmt' = [stmt EXCEPT ![On(t)] = r], fetched' = [fetched EXCEPT ![On(t)] = f]
  PROVE  /\ Local(t) /\ thread'[t].pc = p /\ thread'[t].left = thread[t].left
         /\ stmt'[On(t)] = r /\ fetched'[On(t)] = f
<1>1. /\ stmt'[On(t)] = r /\ fetched'[On(t)] = f
      /\ \A x \in Stmt : x # On(t) => stmt'[x] = stmt[x] /\ fetched'[x] = fetched[x]
  BY InsideFacts DEF Inv, TypeOK
<1> QED BY <1>1, MovesInside

LEMMA ChangeAtomic ==
  ASSUME Inv, Disciplined, Linear, NEW t \in Thread, Change(t)
  PROVE  Atomic!Next
<1> DEFINE s == On(t)
<1>1. /\ thread[t].pc = "change" /\ thread[t].pc \in Inside /\ thread[t].fn \in Changing
      /\ GoTo(t, "store") /\ UNCHANGED <<owner, stmt, fetched>>
  BY DEF Change, At, Inside, Inv, Path
<1>2. Local(t) /\ thread'[t].pc = "store" /\ thread'[t].fn \in Changing
  BY <1>1, MovesInside DEF Inside, Local
<1>3. Stage(t) = "called" /\ Stage(t)' = "done"
  BY <1>1, <1>2 DEF Stage, At, Changed
<1>4. Views(t) /\ Views(t)' /\ stmt[s].alive = TRUE
  BY <1>1, <1>2, LocalViews, InsideReady
<1>5. Settled(s) = stmt[s]
  BY <1>1, <1>4 DEF Views
<1>6. Settled(s)' = Rewound(TRUE, FALSE) /\ SettledFetches(s)' = <<>>
  BY <1>2, <1>4 DEF Views
<1>7. Atomic!Changed(s)
  BY <1>1, <1>2, <1>6, BecomesInside DEF Rewound, Atomic!Rewound, Atomic!Changed
<1>8. SettledTable = table /\ SettledTable' = table'
  <2>1. SettledTable = table
    BY <1>1, TableIs DEF Inside
  <2>2. SettledTable' = table'
    BY <1>1, <1>2, TableAfter DEF Local, Inside
  <2> QED BY <2>1, <2>2
<1>9. \/ thread[t].fn = "INSERT" /\ table \in 0..MaxRow - 1 /\ table' = table + 1
      \/ thread[t].fn = "CREATE" /\ table = NoTable /\ table' = 0
      \/ thread[t].fn = "DROP" /\ table # NoTable /\ table' = NoTable
  BY DEF Change
<1>10. \/ thread[t].fn = "INSERT" /\ Atomic!Insert(s)
       \/ thread[t].fn = "CREATE" /\ Atomic!Create(s)
       \/ thread[t].fn = "DROP" /\ Atomic!Drop(s)
  BY <1>7, <1>8, <1>9 DEF Atomic!Insert, Atomic!Create, Atomic!Drop, NoTable, Atomic!NoTable
<1>11. Atomic!Effect(t, thread[t].fn, s)
  BY <1>4, <1>5, <1>10, InsideFacts, <1>1 DEF Atomic!Effect
<1> QED BY <1>1, <1>2, <1>3, <1>11, PerformInside

LEMMA StoreAtomic ==
  ASSUME Inv, Disciplined, Linear, NEW t \in Thread, Store(t)
  PROVE  Atomic!Next \/ UNCHANGED Atomic!vars
<1> DEFINE s == On(t)
           n == thread[t].left
           r == Rewound(TRUE, n > 0)
<1>1. /\ thread[t].pc = "store" /\ thread[t].pc \in Inside
      /\ GoTo(t, "push") /\ UNCHANGED <<owner, table>>
      /\ stmt' = [stmt EXCEPT ![On(t)] = r] /\ fetched' = [fetched EXCEPT ![On(t)] = <<>>]
  BY DEF Store, At, Inside
<1>2. /\ Local(t) /\ thread'[t].pc = "push" /\ thread'[t].left = n
      /\ stmt'[s] = r /\ fetched'[s] = <<>>
  BY <1>1, WritesInside DEF Inside
<1>3. /\ Views(t) /\ Views(t)' /\ On(t)' = On(t) /\ n \in Nat /\ Ready(t) /\ Script(t)
      /\ stmt[s].alive = TRUE /\ s \in Stmt
  <2>1. n \in 0..MaxRow => n \in Nat
    BY LockingAssumption
  <2> QED BY <1>1, <1>2, <2>1, LocalViews, InsideReady
<1>4. thread[t].fn \in {"SELECT"} \cup Changing
  BY <1>1, <1>3 DEF Script
<1>5. Settled(s)' = [r EXCEPT !.data = @ \o Copies(n, t)] /\ SettledFetches(s)' = <<>>
  <2>1. /\ Settled(s)' = [stmt'[s'] EXCEPT !.data = @ \o [i \in 1..thread'[t].left |-> t]]
        /\ SettledFetches(s)' = fetched'[s']
    BY <1>2, <1>3 DEF Views
  <2> QED BY <1>2, <1>3, <2>1 DEF Copies
<1>6. CASE thread[t].fn \in Changing
  <2>1. n = 0
    BY <1>3, <1>6 DEF Script
  <2>2. Settled(s) = Rewound(TRUE, FALSE) /\ SettledFetches(s) = <<>>
    BY <1>1, <1>3, <1>6 DEF Views
  <2>3. Settled(s)' = Rewound(TRUE, FALSE)
    <3>1. r = Rewound(TRUE, FALSE)
      <4>1. (n > 0) = FALSE
        BY <2>1
      <4> QED BY <4>1, Zenon
    <3> HIDE DEF r
    <3> QED BY <1>5, <2>1, <3>1, SelectedFields
  <2>4. Stage(t) = "done" /\ Stage(t)' = "done"
    BY <1>1, <1>2, <1>6 DEF Stage, At, Changed
  <2> QED BY <1>1, <1>2, <1>5, <2>2, <2>3, <2>4, HiddenInside DEF SameView
<1>7. CASE thread[t].fn = "SELECT"
  <2>0. thread[t].fn \notin Changing /\ Atomic!NoTable # n
    BY <1>3, <1>7 DEF Changing, Atomic!NoTable
  <2>1. n = table /\ SettledTable = table /\ SettledTable' = SettledTable
    <3>1. SettledTable = table
      BY <1>1, TableIs DEF Inside
    <3> QED BY <1>1, <1>2, <1>3, <1>7, <3>1, LocalElsewhere DEF Ready
  <2>2. Settled(s) = stmt[s] /\ SettledFetches(s) = fetched[s]
    BY <1>1, <1>3, <2>0 DEF Views
  <2>3. Atomic!Becomes(s, Settled(s)', <<>>)
    BY <1>1, <1>2, <1>5, BecomesInside
  <2>4. Settled(s)' = [Atomic!Rewound(TRUE, SettledTable > 0) EXCEPT !.data = Copies(SettledTable, t)]
    BY <1>3, <1>5, <2>1, SelectedFields
  <2>5. Atomic!Select(t, s)
    BY <2>0, <2>1, <2>3, <2>4 DEF Atomic!Select, Copies
  <2>6. Atomic!Effect(t, thread[t].fn, s)
    BY <1>3, <1>7, <2>2, <2>5 DEF Atomic!Effect
  <2>7. Stage(t) = "called" /\ Stage(t)' = "done"
    BY <1>1, <1>2, <2>0 DEF Stage, At, Changed
  <2> QED BY <1>1, <1>2, <2>6, <2>7, PerformInside
<1> QED BY <1>4, <1>6, <1>7

LEMMA PushAtomic ==
  ASSUME Inv, Disciplined, Linear, NEW t \in Thread, Push(t)
  PROVE  UNCHANGED Atomic!vars
<1> DEFINE s == On(t)
           n == thread[t].left
<1>1. /\ thread[t].pc = "push" /\ thread[t].pc \in Inside
      /\ UNCHANGED <<owner, table, fetched>>
  BY DEF Push, At, Inside
<1>2. /\ stmt[s] \in Fields /\ s \in Stmt /\ n \in Nat
      /\ Settled(s) = [stmt[s] EXCEPT !.data = @ \o Copies(n, t)]
      /\ SettledFetches(s) = fetched[s]
  <2>1. Views(t)
    BY <1>1, HolderIs, ViewsInside
  <2>2. n \in 0..MaxRow => n \in Nat
    BY LockingAssumption
  <2> QED BY <1>1, <2>1, <2>2, InsideFacts DEF Views, Copies
<1>3. CASE n > 0
  <2> DEFINE r == [stmt[s] EXCEPT !.data = Append(@, t)]
  <2>1. /\ Local(t) /\ thread'[t].pc = "push" /\ thread'[t].left = n - 1 /\ stmt'[s] = r
    <3>1. /\ thread'[t].pc = "push" /\ thread'[t].left = n - 1
          /\ thread'[t].fn = thread[t].fn /\ thread'[t].on = On(t) /\ Frame(t)
      BY <1>1, <1>3 DEF Push, Frame, On, Inv, TypeOK
    <3>2. stmt'[s] = r /\ \A x \in Stmt : x # On(t) => stmt'[x] = stmt[x]
      BY <1>2, <1>3 DEF Push, Inv, TypeOK
    <3> QED BY <1>1, <3>1, <3>2 DEF Local, Inside
  <2>2. Views(t)' /\ On(t)' = On(t)
    BY <1>1, <2>1, LocalViews
  <2> HIDE DEF r
  <2>3. Settled(s)' = [r EXCEPT !.data = @ \o Copies(n - 1, t)] /\ SettledFetches(s)' = fetched[s]
    BY <1>1, <2>1, <2>2 DEF Views, Copies
  <2>4. Settled(s)' = Settled(s)
    <3>1. [r EXCEPT !.data = @ \o Copies(n - 1, t)] = [stmt[s] EXCEPT !.data = @ \o Copies(n, t)]
      BY <1>2, <1>3, PushedCopy, Zenon DEF r
    <3> QED BY <1>2, <2>3, <3>1, Zenon
  <2>5. Stage(t)' = Stage(t)
    BY <1>1, <2>1 DEF Stage, At, Changed
  <2> QED BY <1>1, <1>2, <2>1, <2>3, <2>4, <2>5, HiddenInside DEF SameView
<1>4. CASE ~(n > 0)
  <2>1. GoTo(t, "unlock") /\ stmt' = stmt /\ n = 0
    BY <1>2, <1>4 DEF Push
  <2>2. Local(t) /\ thread'[t].pc = "unlock"
    BY <1>1, <2>1, MovesInside DEF Inside
  <2>3. Views(t)' /\ On(t)' = On(t)
    BY <1>1, <2>2, LocalViews
  <2>4. Settled(s)' = stmt[s] /\ SettledFetches(s)' = fetched[s]
    BY <1>1, <2>1, <2>2, <2>3 DEF Views
  <2>5. Settled(s) = stmt[s]
    <3>1. [stmt[s] EXCEPT !.data = @ \o Copies(0, t)] = stmt[s]
      BY <1>2, CopiedFields, Zenon
    <3> QED BY <1>2, <2>1, <3>1, Zenon
  <2>6. Stage(t)' = Stage(t)
    BY <1>1, <2>2 DEF Stage, At, Changed
  <2> QED BY <1>1, <1>2, <2>2, <2>4, <2>5, <2>6, HiddenInside DEF SameView
<1> QED BY <1>3, <1>4

LEMMA AdvanceAtomic ==
  ASSUME Inv, Disciplined, Linear, NEW t \in Thread, Advance(t)
  PROVE  UNCHANGED Atomic!vars
<1> DEFINE s == On(t)
           r == [stmt[s] EXCEPT !.row = @ + 1]
<1>1. /\ thread[t].pc = "advance" /\ thread[t].pc \in Inside /\ GoTo(t, "bounds")
      /\ UNCHANGED <<owner, table, fetched>>
  BY DEF Advance, At, Inside
<1>2. stmt[s] \in Fields /\ s \in Stmt
  BY <1>1, InsideFacts
<1>3. stmt'[s] = r /\ \A x \in Stmt : x # On(t) => stmt'[x] = stmt[x]
  BY <1>2 DEF Advance, Inv, TypeOK
<1>4. Local(t) /\ thread'[t].pc = "bounds"
  BY <1>1, <1>3, MovesInside DEF Inside
<1>5. Views(t) /\ Views(t)' /\ On(t)' = On(t)
  BY <1>1, <1>4, LocalViews
<1> HIDE DEF r
<1>6. Settled(s) = stmt[s] /\ SettledFetches(s) = fetched[s]
  BY <1>1, <1>5 DEF Views
<1>7. Settled(s)' = [r EXCEPT !.row = @ - 1] /\ SettledFetches(s)' = fetched[s]
  BY <1>1, <1>3, <1>4, <1>5 DEF Views
<1>8. Settled(s)' = stmt[s]
  BY <1>2, <1>7, RowFields, Zenon DEF r
<1>9. Stage(t)' = Stage(t)
  BY <1>1, <1>4 DEF Stage, At, Changed
<1> QED BY <1>1, <1>4, <1>6, <1>7, <1>8, <1>9, HiddenInside DEF SameView

LEMMA BoundsAtomic ==
  ASSUME Inv, Disciplined, Linear, NEW t \in Thread, Bounds(t)
  PROVE  Atomic!Next
<1> DEFINE s == On(t)
           h == HasRow(s)
           r == [stmt[s] EXCEPT !.open = @ /\ h]
           p == IF h THEN "deliver" ELSE "unlock"
<1>1. /\ thread[t].pc = "bounds" /\ thread[t].pc \in Inside /\ GoTo(t, p)
      /\ UNCHANGED <<owner, table, fetched>> /\ p \in Inside
  BY DEF Bounds, At, Inside
<1>2. /\ stmt[s] \in Fields /\ s \in Stmt /\ stmt[s].alive = TRUE
      /\ Script(t) /\ Ready(t)
  BY <1>1, InsideReady
<1>3. stmt'[s] = r /\ \A x \in Stmt : x # On(t) => stmt'[x] = stmt[x]
  BY <1>2 DEF Bounds, Inv, TypeOK
<1>4. Local(t) /\ thread'[t].pc = p
  BY <1>1, <1>3, MovesInside
<1>5. Views(t) /\ Views(t)' /\ On(t)' = On(t)
  BY <1>1, <1>4, LocalViews
<1>6. h \in BOOLEAN /\ h = (stmt[s].row < Len(stmt[s].data))
  BY <1>2 DEF HasRow, Fields
<1>7. r.row = stmt[s].row
  BY <1>2 DEF Fields
<1> DEFINE y == [stmt[s] EXCEPT !.row = @ - 1]
<1>8. /\ y.row + 1 = stmt[s].row /\ y.data = stmt[s].data /\ y.alive = TRUE
      /\ y.executed = TRUE /\ [y EXCEPT !.row = stmt[s].row, !.open = @ /\ h] = r
  <2>1. stmt[s].executed = TRUE
    BY <1>1, <1>2 DEF Ready
  <2> HIDE DEF h
  <2> QED BY <1>2, <1>6, <2>1, RowFields, Zenon
<1>9. Settled(s) = y /\ SettledFetches(s) = fetched[s]
  BY <1>1, <1>5 DEF Views
<1> HIDE DEF h, y, r
<1>10. /\ Settled(s)' = r
       /\ SettledFetches(s)' = IF h THEN Append(fetched[s], stmt[s].row) ELSE fetched[s]
  BY <1>1, <1>3, <1>4, <1>5, <1>7 DEF Views
<1>11. Atomic!Becomes(s, r, IF h THEN Append(fetched[s], stmt[s].row) ELSE fetched[s])
  BY <1>1, <1>4, <1>10, BecomesInside
<1>12. SettledTable' = SettledTable
  BY <1>1, <1>4, LocalElsewhere
<1>13. Atomic!Fetch(s)
  BY <1>2, <1>6, <1>8, <1>9, <1>11, <1>12 DEF Atomic!Fetch
<1>14. thread[t].fn = "SQLFetch"
  BY <1>1, <1>2 DEF Script
<1>15. Atomic!Effect(t, thread[t].fn, s)
  BY <1>2, <1>8, <1>9, <1>13, <1>14 DEF Atomic!Effect
<1>16. Stage(t) = "called" /\ Stage(t)' = "done"
  BY <1>1, <1>4 DEF Stage, At, Changed
<1> QED BY <1>1, <1>4, <1>15, <1>16, PerformInside

LEMMA DeliverAtomic ==
  ASSUME Inv, Disciplined, Linear, NEW t \in Thread, Deliver(t)
  PROVE  UNCHANGED Atomic!vars
<1> DEFINE s == On(t)
<1>1. /\ thread[t].pc = "deliver" /\ thread[t].pc \in Inside /\ GoTo(t, "unlock")
      /\ UNCHANGED <<owner, stmt, table>>
  BY DEF Deliver, At, Inside
<1>2. /\ fetched'[s] = Append(fetched[s], stmt[s].row)
      /\ \A x \in Stmt : x # On(t) => fetched'[x] = fetched[x]
  BY <1>1, InsideFacts DEF Deliver, Inv, TypeOK
<1>3. Local(t) /\ thread'[t].pc = "unlock"
  BY <1>1, <1>2, MovesInside DEF Inside
<1>4. Views(t) /\ Views(t)' /\ On(t)' = On(t)
  BY <1>1, <1>3, LocalViews
<1>5. Settled(s) = stmt[s] /\ SettledFetches(s) = Append(fetched[s], stmt[s].row)
  BY <1>1, <1>4 DEF Views
<1>6. Settled(s)' = stmt[s] /\ SettledFetches(s)' = fetched'[s]
  BY <1>1, <1>3, <1>4 DEF Views
<1>7. Stage(t)' = Stage(t)
  BY <1>1, <1>3 DEF Stage, At, Changed
<1> QED BY <1>1, <1>2, <1>3, <1>5, <1>6, <1>7, HiddenInside DEF SameView

LEMMA LockedAtomic ==
  ASSUME Inv, Disciplined, Linear, NEW t \in Thread, LockedStep(t)
  PROVE  Atomic!Next \/ UNCHANGED Atomic!vars
<1>1. CASE Release(t) \/ SQLPrepare(t) \/ Change(t) \/ Bounds(t)
  BY <1>1, ReleaseAtomic, PrepareAtomic, ChangeAtomic, BoundsAtomic
<1>2. CASE Query(t) \/ Push(t) \/ Advance(t) \/ Deliver(t)
  BY <1>2, QueryAtomic, PushAtomic, AdvanceAtomic, DeliverAtomic
<1>3. CASE Store(t)
  BY <1>3, StoreAtomic
<1>4. CASE Refused(t) \/ Unfit(t) \/ SQLGetData(t)
  <2>1. /\ thread[t].pc \in {"check", "query", "change"} /\ UNCHANGED <<owner, stmt, table, fetched>>
        /\ GoTo(t, "unlock") \/ GoTo(t, "get")
    BY <1>4 DEF Refused, Unfit, SQLGetData, At
  <2> QED BY <2>1, NoEffect
<1>5. CASE ExecuteChecked(t) \/ Get(t)
  <2>1. /\ UNCHANGED <<owner, stmt, table, fetched>>
        /\ \/ thread[t].pc = "check" /\ (GoTo(t, "change") \/ GoTo(t, "query"))
           \/ thread[t].pc = "get" /\ GoTo(t, "unlock")
    BY <1>5 DEF ExecuteChecked, Get, At
  <2> QED BY <2>1, QuietMove
<1>6. CASE SQLFetch(t)
  <2>1. /\ thread[t].pc = "check" /\ UNCHANGED <<owner, stmt, table, fetched>>
        /\ GoTo(t, "advance")
    BY <1>6 DEF SQLFetch, At
  <2> QED BY <2>1, QuietMove
<1> QED BY <1>1, <1>2, <1>3, <1>4, <1>5, <1>6 DEF LockedStep

-----------------------------------------------------------------------------
(* The calls that hold no lock                                             *)

\* While such a call runs, everything is what it is.
LEMMA ViewsAlone ==
  ASSUME Inv, TypeOK', Disciplined, Linear, NEW t \in Thread, thread[t].pc \in Outside,
         owner' = owner
  PROVE  /\ [s \in Stmt |-> Settled(s)] = stmt /\ [s \in Stmt |-> Settled(s)]' = stmt'
         /\ [s \in Stmt |-> SettledFetches(s)] = fetched
         /\ [s \in Stmt |-> SettledFetches(s)]' = fetched'
<1>1. \A s \in Stmt : owner[s] = Nothing /\ owner'[s] = Nothing
  BY NobodyHolds
<1>2. \A s \in Stmt : /\ Settled(s) = stmt[s] /\ Settled(s)' = stmt'[s]
                      /\ SettledFetches(s) = fetched[s] /\ SettledFetches(s)' = fetched'[s]
  BY <1>1, ViewsOutside
<1>3. /\ stmt = [s \in Stmt |-> stmt[s]] /\ stmt' = [s \in Stmt |-> stmt'[s]]
      /\ fetched = [s \in Stmt |-> fetched[s]] /\ fetched' = [s \in Stmt |-> fetched'[s]]
  BY DEF Inv, TypeOK
<1> QED BY <1>2, <1>3

LEMMA PerformOutside ==
  ASSUME Inv, TypeOK', Disciplined, Linear, NEW t \in Thread,
         thread[t].pc \in Outside \ {"rollback"}, Return(t), owner' = owner,
         \/ Atomic!Effect(t, thread[t].fn, On(t))
         \/ UNCHANGED <<stmt, table, fetched>>
  PROVE  Atomic!Next
<1>1. Stage(t) = "called" /\ Frame(t) /\ Leaves(t) /\ thread'[t] = Idle
  BY IdleTurn, Returning DEF Stage, At, Changed, Outside, Leaves
<1>2. UNCHANGED <<stmt, table, fetched>> =>
        (\A x \in Stmt : SameView(x)) /\ SettledTable' = SettledTable
  <2> SUFFICES ASSUME UNCHANGED <<stmt, table, fetched>>
               PROVE  (\A x \in Stmt : SameView(x)) /\ SettledTable' = SettledTable
    OBVIOUS
  <2>1. \A x \in Stmt : owner[x] = Nothing /\ owner'[x] = Nothing
    BY NobodyHolds
  <2>2. \A x \in Stmt : SameView(x)
    BY <2>1, ViewsOutside DEF SameView
  <2>3. SettledTable' = SettledTable
    BY <1>1, TableSame DEF Idle
  <2> QED BY <2>2, <2>3
<1> QED BY <1>1, <1>2, PerformStep

LEMMA AloneTable ==
  ASSUME Inv, Disciplined, NEW t \in Thread, thread[t].pc \in Outside \ {"rollback"}, Return(t)
  PROVE  SettledTable = table /\ SettledTable' = table'
<1>1. SettledTable = table
  BY TableIs
<1>2. Frame(t) /\ thread'[t].pc # "rollback"
  BY Returning DEF Frame, Idle
<1> QED BY <1>1, <1>2, TableAfter

LEMMA AloneAtomic ==
  ASSUME Inv, TypeOK', Disciplined, Linear, NEW t \in Thread,
         \/ SQLAllocHandle(t) \/ SQLFreeHandle(t) \/ SQLDriverConnect(t)
         \/ SQLDisconnect(t) \/ Clear(t) \/ SQLCancel(t)
  PROVE  Atomic!Next
<1> DEFINE s == On(t)
<1> DEFINE c == [x \in Stmt |-> [stmt[x] EXCEPT !.open = FALSE, !.executed = FALSE]]
<1>0. SQLDisconnect(t) => /\ thread[t].pc = "disconnect" /\ Return(t) /\ stmt' = c
                          /\ UNCHANGED <<owner, table, fetched>>
  BY Zenon DEF SQLDisconnect, At
<1>1. /\ thread[t].pc \in Outside \ {"rollback"} /\ Return(t) /\ owner' = owner
  <2>1. CASE SQLDisconnect(t)
    BY <1>0, <2>1, Zenon DEF Outside
  <2>2. CASE ~SQLDisconnect(t)
    BY <2>2, Zenon DEF SQLAllocHandle, SQLFreeHandle, SQLDriverConnect, Clear, SQLCancel, At, Outside
  <2> QED BY <2>1, <2>2
<1>2. /\ [x \in Stmt |-> Settled(x)] = stmt /\ [x \in Stmt |-> Settled(x)]' = stmt'
      /\ [x \in Stmt |-> SettledFetches(x)] = fetched
      /\ [x \in Stmt |-> SettledFetches(x)]' = fetched'
  BY <1>1, ViewsAlone
<1>3. SettledTable = table /\ SettledTable' = table'
  BY <1>1, AloneTable
<1>4. s \in Stmt /\ Script(t) /\ Ready(t) /\ fetched = [fetched EXCEPT ![s] = fetched[s]]
  BY <1>1, OutsideFacts DEF Linear
<1>5. CASE SQLAllocHandle(t)
  <2>1. Atomic!Alloc(s)
    BY <1>2, <1>3, <1>5 DEF SQLAllocHandle, Atomic!Alloc, Atomic!Becomes, Atomic!Fresh, Fresh,
                            Atomic!Rewound, Rewound
  <2>2. thread[t].fn = "SQLAllocHandle" /\ stmt[s].alive = FALSE
    BY <1>4, <1>5 DEF SQLAllocHandle, At, Script, Ready
  <2>3. Atomic!Effect(t, thread[t].fn, s)
    BY <1>2, <2>1, <2>2 DEF Atomic!Effect
  <2> QED BY <1>1, <2>3, PerformOutside
<1>6. CASE SQLFreeHandle(t)
  <2>1. Atomic!Free(s)
    BY <1>2, <1>3, <1>4, <1>6 DEF SQLFreeHandle, Atomic!Free, Atomic!Keeping, Atomic!Becomes,
                            Atomic!Fresh, Fresh, Atomic!Rewound, Rewound
  <2>2. thread[t].fn = "SQLFreeHandle" /\ stmt[s].alive = TRUE
    BY <1>4, <1>6 DEF SQLFreeHandle, At, Script, Ready
  <2>3. Atomic!Effect(t, thread[t].fn, s)
    BY <1>2, <2>1, <2>2 DEF Atomic!Effect
  <2> QED BY <1>1, <2>3, PerformOutside
<1>7. CASE SQLDriverConnect(t)
  <2>1. Atomic!Reload \/ UNCHANGED <<stmt, table, fetched>>
    BY <1>2, <1>3, <1>7 DEF SQLDriverConnect, Atomic!Reload, NoTable, Atomic!NoTable
  <2>2. thread[t].fn = "SQLDriverConnect" /\ stmt[s].alive = TRUE
    BY <1>4, <1>7 DEF SQLDriverConnect, At, Script, Ready
  <2>3. Atomic!Effect(t, thread[t].fn, s) \/ UNCHANGED <<stmt, table, fetched>>
    BY <1>2, <2>1, <2>2 DEF Atomic!Effect
  <2> QED BY <1>1, <2>3, PerformOutside
<1>8. CASE SQLDisconnect(t)
  <2>1. Atomic!Disconnect
    BY <1>0, <1>2, <1>3, <1>8, Zenon DEF Atomic!Disconnect, Atomic!AllBecome
  <2>2. thread[t].fn = "SQLDisconnect" /\ stmt[s].alive = TRUE
    <3>1. thread[t].pc = "disconnect"
      BY <1>0, <1>8, Zenon
    <3> QED BY <1>4, <3>1 DEF Script, Ready
  <2>3. Atomic!Effect(t, thread[t].fn, s)
    BY <1>2, <2>1, <2>2 DEF Atomic!Effect
  <2> QED BY <1>1, <2>3, PerformOutside
<1>9. CASE Clear(t)
  <2>1. Atomic!Close(s)
    BY <1>2, <1>3, <1>4, <1>9 DEF Clear, Atomic!Close, Atomic!Keeping, Atomic!Becomes,
                            Atomic!Rewound, Rewound
  <2>2. /\ thread[t].fn \in {"SQLCloseCursor", "SQLFreeStmt"} /\ stmt[s].alive = TRUE
        /\ thread[t].fn = "SQLCloseCursor" => stmt[s].open = TRUE
    BY <1>4, <1>9 DEF Clear, At, Script, Ready
  <2>3. Atomic!Effect(t, thread[t].fn, s)
    BY <1>2, <2>1, <2>2 DEF Atomic!Effect
  <2> QED BY <1>1, <2>3, PerformOutside
<1>10. CASE SQLCancel(t)
  <2>1. Atomic!Cancel(s)
    BY <1>2, <1>3, <1>4, <1>10 DEF SQLCancel, Atomic!Cancel, Atomic!Keeping, Atomic!Becomes
  <2>2. thread[t].fn = "SQLCancel" /\ stmt[s].alive = TRUE
    BY <1>4, <1>10 DEF SQLCancel, At, Script, Ready
  <2>3. Atomic!Effect(t, thread[t].fn, s)
    BY <1>2, <2>1, <2>2 DEF Atomic!Effect
  <2> QED BY <1>1, <2>3, PerformOutside
<1> QED BY <1>5, <1>6, <1>7, <1>8, <1>9, <1>10

\* A rollback empties the table in a step of its own, which nobody can see.
LEMMA EndTranAtomic ==
  ASSUME Inv, TypeOK', Disciplined, Linear, NEW t \in Thread, SQLEndTran(t)
  PROVE  Atomic!Next
<1> DEFINE c == [x \in Stmt |-> [stmt[x] EXCEPT !.open = FALSE]]
           d == [x \in Stmt |-> [stmt[x] EXCEPT !.open = FALSE, !.executed = FALSE,
                                                !.data = <<>>]]
<1>1. /\ thread[t].pc = "endtran" /\ UNCHANGED <<owner, table, fetched>>
      /\ \/ stmt' = stmt /\ Return(t)
         \/ stmt' = c /\ Return(t)
         \/ stmt' = d /\ GoTo(t, "rollback")
  BY Zenon DEF SQLEndTran, At
<1>2. thread[t].pc \in Outside \ {"rollback"} /\ owner' = owner
  BY <1>1, Zenon DEF Outside
<1>4. /\ [x \in Stmt |-> Settled(x)] = stmt /\ [x \in Stmt |-> Settled(x)]' = stmt'
      /\ [x \in Stmt |-> SettledFetches(x)] = fetched
      /\ [x \in Stmt |-> SettledFetches(x)]' = fetched'
  BY <1>2, ViewsAlone
<1>5. On(t) \in Stmt /\ thread[t].fn = "SQLEndTran" /\ stmt[On(t)].alive = TRUE
  <2>1. On(t) \in Stmt /\ Script(t) /\ Ready(t) /\ thread[t].pc = "endtran"
    BY <1>1, <1>2, OutsideFacts, Zenon DEF Linear
  <2> HIDE DEF c, d
  <2> QED BY <2>1 DEF Script, Ready
<1>3. ASSUME stmt' = stmt, Return(t) PROVE Atomic!Next
  <2> HIDE DEF c, d
  <2> QED BY <1>1, <1>2, <1>3, PerformOutside
<1>6. ASSUME stmt' = c, Return(t) PROVE Atomic!Next
  <2>1. SettledTable' = SettledTable
    <3>1. table' = table
      BY <1>1, Zenon
    <3> HIDE DEF c, d
    <3> QED BY <1>2, <1>6, <3>1, AloneTable
  <2>2. Atomic!Commit
    BY <1>1, <1>4, <1>6, <2>1, Zenon DEF Atomic!Commit, Atomic!AllBecome
  <2>3. Atomic!Effect(t, thread[t].fn, On(t))
    <3> HIDE DEF c, d
    <3> QED BY <1>4, <1>5, <2>2 DEF Atomic!Effect
  <2> HIDE DEF c, d
  <2> QED BY <1>2, <1>6, <2>3, PerformOutside
<1>7. ASSUME stmt' = d, GoTo(t, "rollback") PROVE Atomic!Next
  <2>1. /\ thread'[t].pc = "rollback" /\ thread'[t].fn = thread[t].fn
        /\ thread'[t].on = On(t) /\ Frame(t)
    <3> HIDE DEF c, d
    <3> QED BY <1>7, Going DEF Frame
  <2>2. SettledTable' = IF SettledTable = Atomic!NoTable THEN Atomic!NoTable ELSE 0
    <3>1. SettledTable' = Emptied(table')
      BY <2>1, Zenon DEF SettledTable, At
    <3>2. SettledTable = table /\ table' = table
      <4>1. table' = table
        BY <1>1, Zenon
      <4> HIDE DEF c, d
      <4> QED BY <1>2, <4>1, TableIs
    <3>3. Atomic!NoTable = NoTable
      BY DEF NoTable, Atomic!NoTable
    <3> QED BY <3>1, <3>2, <3>3, Zenon DEF Emptied
  <2>3. Atomic!Rollback
    BY <1>1, <1>4, <1>7, <2>2, Zenon DEF Atomic!Rollback, Atomic!AllBecome
  <2> HIDE DEF c, d
  <2>4. Atomic!Effect(t, thread[t].fn, On(t))
    BY <1>4, <1>5, <2>3 DEF Atomic!Effect
  <2>5. Stage(t) = "called" /\ Stage(t)' = "done"
    BY <1>1, <2>1 DEF Stage, At, Changed
  <2>6. Leaves(t)
    BY <1>1, <2>1, <2>5, TurnAt
  <2> QED BY <2>1, <2>4, <2>5, <2>6, PerformStep
<1> QED BY <1>1, <1>3, <1>6, <1>7, Zenon

LEMMA RollbackAtomic ==
  ASSUME Inv, Disciplined, Linear, NEW t \in Thread, Rollback(t)
  PROVE  Atomic!Next
<1>1. /\ thread[t].pc = "rollback" /\ thread[t].pc \in Outside /\ Return(t)
      /\ table' = Emptied(table)
      /\ UNCHANGED <<owner, stmt, fetched>>
  BY DEF Rollback, At, Outside
<1>2. Frame(t) /\ Turn(t)' = Atomic!Idle /\ Stage(t) = "done" /\ thread'[t].pc # "rollback"
  BY <1>1, IdleTurn, Returning DEF Stage, At, Idle
<1>3. SettledTable = Emptied(table) /\ SettledTable' = Emptied(table)
  BY <1>1, <1>2, TableAfter DEF SettledTable, At
<1>4. \A x \in Stmt : owner[x] = Nothing /\ owner'[x] = Nothing
  BY <1>1, NobodyHolds
<1>5. \A x \in Stmt : SameView(x)
  BY <1>1, <1>4, ViewsOutside DEF SameView
<1> QED BY <1>2, <1>3, <1>5, RespondStep

LEMMA CloseCursorAtomic ==
  ASSUME Inv, TypeOK', Disciplined, Linear, NEW t \in Thread, SQLCloseCursor(t)
  PROVE  Atomic!Next \/ UNCHANGED Atomic!vars
<1>1. /\ thread[t].pc = "closing" /\ thread[t].pc \in Outside \ {"rollback"}
      /\ UNCHANGED <<owner, stmt, table, fetched>>
      /\ GoTo(t, "clear") \/ Return(t)
  BY DEF SQLCloseCursor, At, Outside
<1>2. CASE Return(t)
  BY <1>1, <1>2, PerformOutside
<1>3. CASE GoTo(t, "clear")
  <2>1. /\ thread'[t].pc = "clear" /\ thread'[t].fn = thread[t].fn
        /\ thread'[t].on = On(t) /\ Frame(t)
    BY <1>3, Going DEF Frame
  <2>2. Stage(t) = "called" /\ Stage(t)' = "called"
    BY <1>1, <2>1 DEF Stage, At, Changed
  <2>3. Turn(t)' = Turn(t)
    BY <1>1, <2>1, <2>2, TurnAt
  <2>4. \A x \in Stmt : owner[x] = Nothing /\ owner'[x] = Nothing
    BY <1>1, NobodyHolds
  <2>5. \A x \in Stmt : SameView(x)
    BY <1>1, <2>4, ViewsOutside DEF SameView
  <2>6. SettledTable' = SettledTable
    BY <1>1, <2>1, TableSame
  <2> QED BY <2>1, <2>3, <2>5, <2>6, HiddenStep
<1> QED BY <1>1, <1>2, <1>3

LEMMA StepAtomic ==
  ASSUME Inv, TypeOK', Disciplined, Linear, [Next]_vars
  PROVE  [Atomic!Next]_(Atomic!vars)
<1>1. CASE UNCHANGED vars
  <2>1. ASSUME NEW s \in Stmt PROVE SameView(s)
    BY <1>1, Undisturbed DEF vars
  <2>2. ASSUME NEW t \in Thread PROVE Turn(t)' = Turn(t)
    BY <1>1 DEF vars, Turn, Stage, On, At, Changed
  <2>3. SettledTable' = SettledTable
    BY <1>1 DEF vars, SettledTable, At
  <2>4. /\ [s \in Stmt |-> Settled(s)]' = [s \in Stmt |-> Settled(s)]
        /\ [s \in Stmt |-> SettledFetches(s)]' = [s \in Stmt |-> SettledFetches(s)]
        /\ [t \in Thread |-> Turn(t)]' = [t \in Thread |-> Turn(t)]
    BY <2>1, <2>2 DEF SameView
  <2> QED BY <2>3, <2>4 DEF Atomic!vars
<1>2. CASE Next
  <2>1. PICK t \in Thread : \/ \E fn \in Call, s \in Stmt : Begin(t, fn, s)
                           \/ Step(t)
    BY <1>2 DEF Next
  <2>2. CASE \E fn \in Call, s \in Stmt : Begin(t, fn, s)
    BY <2>2, BeginAtomic
  <2>3. CASE Acquire(t)
    BY <2>3, AcquireAtomic
  <2>4. CASE LockedStep(t)
    BY <2>4, LockedAtomic
  <2>5. CASE UnlockedStep(t)
    BY <2>5, AloneAtomic, EndTranAtomic, RollbackAtomic, CloseCursorAtomic DEF UnlockedStep
  <2> QED BY <2>1, <2>2, <2>3, <2>4, <2>5 DEF Step
<1> QED BY <1>1, <1>2

LEMMA InitAtomic == Init => Atomic!Init
<1> SUFFICES ASSUME Init PROVE Atomic!Init
  OBVIOUS
<1>1. \A s \in Stmt : Settled(s) = Atomic!Fresh /\ SettledFetches(s) = <<>>
  BY ViewsOutside DEF Init, Fresh, Rewound, Atomic!Fresh, Atomic!Rewound
<1>2. \A t \in Thread : Turn(t) = Atomic!Idle
  BY DEF Init, Idle, Turn, Stage, On, At, Atomic!Idle
<1>3. SettledTable = Atomic!NoTable
  BY DEF Init, Idle, SettledTable, At, NoTable, Atomic!NoTable
<1> QED BY <1>1, <1>2, <1>3 DEF Atomic!Init

\* Under the discipline every call of every thread takes effect at one
\* instant between being made and returning, once or not at all, whatever the
\* others do meanwhile: the threads might as well take turns (HandleLock,
\* handles.hpp:218-239, held from validation to return by SQLPrepare,
\* execute_statement and SQLFetch, statement_api.cpp:250-513).
THEOREM CallsTakeEffectAtOnce == ASSUME Disciplined PROVE Spec => CallsAreAtomic
<1>1. Inv /\ Inv' /\ Linear /\ [Next]_vars => [Atomic!Next]_(Atomic!vars)
  BY StepAtomic DEF Inv
<1> QED BY <1>1, InitAtomic, Invariance, LinearInvariance, PTL
        DEF Spec, CallsAreAtomic, Atomic!Spec
=============================================================================
