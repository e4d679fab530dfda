----------------------------- MODULE AtomicCalls -----------------------------
(***************************************************************************)
(* What the threads of an application may assume of the statements of one  *)
(* connection: every call takes effect at one instant between the moment   *)
(* it is made and the moment it returns, once or not at all, as if the     *)
(* threads took turns.  Each effect is the whole call; MockLocking, whose  *)
(* steps are pieces of calls, implements this module under its discipline. *)
(***************************************************************************)
EXTENDS Integers, Sequences

CONSTANTS Thread, Stmt, Call, Nothing

NoTable == -1

VARIABLES stmt,     \* [Stmt -> the statement]
          table,    \* rows of the table, or NoTable
          fetched,  \* [Stmt -> the positions fetched from its result]
          turn      \* [Thread -> its call, and whether it has taken effect]

vars == <<stmt, table, fetched, turn>>

Rewound(e, o) == [alive |-> TRUE, executed |-> e, open |-> o, row |-> -1, data |-> <<>>]
Fresh == Rewound(FALSE, FALSE)
Idle  == [fn |-> "none", on |-> Nothing, at |-> "idle"]

Init ==
  /\ stmt = [s \in Stmt |-> Fresh]
  /\ table = NoTable
  /\ fetched = [s \in Stmt |-> <<>>]
  /\ turn = [t \in Thread |-> Idle]

-----------------------------------------------------------------------------
(* The effects of the calls on statement s                                 *)

Becomes(s, r, f) == /\ stmt' = [stmt EXCEPT ![s] = r]
                    /\ fetched' = [fetched EXCEPT ![s] = f]

Keeping(s, r) == Becomes(s, r, fetched[s]) /\ UNCHANGED table

Prepare(s) == Keeping(s, [stmt[s] EXCEPT !.executed = FALSE, !.open = FALSE])

\* The rows of a result remember the thread that asked for it.
Select(t, s) ==
  /\ table # NoTable
  /\ Becomes(s, [Rewound(TRUE, table > 0) EXCEPT !.data = [i \in 1..table |-> t]], <<>>)
  /\ UNCHANGED table

Changed(s) == Becomes(s, Rewound(TRUE, FALSE), <<>>)

Insert(s) == table # NoTable /\ Changed(s) /\ table' = table + 1
Create(s) == table = NoTable /\ Changed(s) /\ table' = 0
Drop(s)   == table # NoTable /\ Changed(s) /\ table' = NoTable

Fetch(s) ==
  LET r   == stmt[s].row + 1
      has == r < Len(stmt[s].data)
  IN  /\ stmt[s].executed
      /\ Becomes(s, [stmt[s] EXCEPT !.row = r, !.open = @ /\ has],
                 IF has THEN Append(fetched[s], r) ELSE fetched[s])
      /\ UNCHANGED table

Close(s)  == Keeping(s, Rewound(stmt[s].executed, FALSE))
Cancel(s) == Keeping(s, [stmt[s] EXCEPT !.open = FALSE])
Free(s)   == Keeping(s, [Fresh EXCEPT !.alive = FALSE])
Alloc(s)  == Becomes(s, Fresh, <<>>) /\ UNCHANGED table

AllBecome(r) == stmt' = r /\ UNCHANGED fetched

Disconnect == /\ AllBecome([s \in Stmt |-> [stmt[s] EXCEPT !.open = FALSE, !.executed = FALSE]])
              /\ UNCHANGED table

Commit == /\ AllBecome([s \in Stmt |-> [stmt[s] EXCEPT !.open = FALSE]])
          /\ UNCHANGED table

Rollback == /\ AllBecome([s \in Stmt |-> [stmt[s] EXCEPT !.open = FALSE, !.executed = FALSE,
                                                         !.data = <<>>]])
            /\ table' = IF table = NoTable THEN NoTable ELSE 0

Reload == table' = NoTable /\ UNCHANGED <<stmt, fetched>>

\* A call on a statement needs the statement.
Effect(t, fn, s) ==
  \/ /\ stmt[s].alive
     /\ \/ fn = "SQLPrepare" /\ Prepare(s)
        \/ fn = "SELECT" /\ Select(t, s)
        \/ fn = "INSERT" /\ Insert(s)
        \/ fn = "CREATE" /\ Create(s)
        \/ fn = "DROP" /\ Drop(s)
        \/ fn = "SQLFetch" /\ Fetch(s)
        \/ fn = "SQLCloseCursor" /\ stmt[s].open /\ Close(s)
        \/ fn = "SQLFreeStmt" /\ Close(s)
        \/ fn = "SQLCancel" /\ Cancel(s)
        \/ fn = "SQLFreeHandle" /\ Free(s)
        \/ fn = "SQLDisconnect" /\ Disconnect
        \/ fn = "SQLEndTran" /\ (Commit \/ Rollback)
        \/ fn = "SQLDriverConnect" /\ Reload
  \/ ~stmt[s].alive /\ fn = "SQLAllocHandle" /\ Alloc(s)

-----------------------------------------------------------------------------
Invoke(t, fn, s) ==
  /\ turn[t].at = "idle"
  /\ turn' = [turn EXCEPT ![t] = [fn |-> fn, on |-> s, at |-> "called"]]
  /\ UNCHANGED <<stmt, table, fetched>>

\* The call takes effect, or has none; it may return in the same instant.
Perform(t) ==
  /\ turn[t].at = "called"
  /\ Effect(t, turn[t].fn, turn[t].on) \/ UNCHANGED <<stmt, table, fetched>>
  /\ \/ turn' = [turn EXCEPT ![t].at = "done"]
     \/ turn' = [turn EXCEPT ![t] = Idle]

Respond(t) ==
  /\ turn[t].at = "done"
  /\ turn' = [turn EXCEPT ![t] = Idle]
  /\ UNCHANGED <<stmt, table, fetched>>

Next == \E t \in Thread : \/ \E fn \in Call, s \in Stmt : Invoke(t, fn, s)
                          \/ Perform(t)
                          \/ Respond(t)

Spec == Init /\ [][Next]_vars
=============================================================================
