----------------------------- MODULE OdbcCursor -----------------------------
(***************************************************************************)
(* What a statement of the mock driver promises to the application that    *)
(* fetches from it: a cursor over one immutable result set.                *)
(*                                                                         *)
(* The cursor has a result set or none.  It stands before the first row    *)
(* (0), on a row (1 .. n) or after the last one (n + 1).  Every row the    *)
(* application receives, by a fetch or by SQLGetData, is the row the       *)
(* cursor stands on; a forward-only cursor yields the rows in order,       *)
(* skipping none.  How SQLPrepare, SQLExecute, the catalog functions,      *)
(* SQLEndTran and the rest produce these steps is MockStatement's concern. *)
(***************************************************************************)
EXTENDS Integers

CONSTANTS Source,      \* what can produce rows: statement texts, catalog functions
          NoSource     \* no rows at all

VARIABLES res,         \* the result set [by, n], or NoResult
          pos,         \* position of the cursor, 0 .. res.n + 1
          out,         \* the row the application received last
          forwardOnly  \* the cursor only moves to the next row

vars == <<res, pos, out, forwardOnly>>

NoResult == [by |-> NoSource, n |-> -1]
NoRow    == [by |-> NoSource, at |-> 0]

\* A result set is named by what produced it and by its number of rows.
ResultSet == {r \in [by : Source \cup {NoSource}, n : Nat] :
                 r.by = NoSource <=> r.n = 0}

Row(r, p) == [by |-> r.by, at |-> p]

TypeOK == /\ res \in ResultSet \cup {NoResult}
          /\ pos \in Nat
          /\ pos <= res.n + 1
          /\ out \in [by : Source \cup {NoSource}, at : Nat]
          /\ forwardOnly \in BOOLEAN

Init == /\ res = NoResult
        /\ pos = 0
        /\ out = NoRow
        /\ forwardOnly = TRUE

-----------------------------------------------------------------------------
\* A new result set (an empty one when the cursor is closed); the cursor
\* stands before it.
Open == /\ res' \in ResultSet
        /\ pos' = 0
        /\ UNCHANGED <<out, forwardOnly>>

Discard == /\ res' = NoResult
           /\ pos' = 0
           /\ UNCHANGED <<out, forwardOnly>>

MoveTo(p) == /\ res # NoResult
             /\ pos' = p
             /\ out' = IF p \in 1 .. res.n THEN Row(res, p) ELSE out
             /\ UNCHANGED <<res, forwardOnly>>

Next1 == MoveTo(IF pos > res.n THEN pos ELSE pos + 1)

Scroll == ~forwardOnly /\ \E p \in 0 .. res.n + 1 : MoveTo(p)

\* SQLGetData: only on a row, and it is that row.
Get == /\ res # NoResult
       /\ pos \in 1 .. res.n
       /\ out' = Row(res, pos)
       /\ UNCHANGED <<res, pos, forwardOnly>>

SetMode == forwardOnly' \in BOOLEAN /\ UNCHANGED <<res, pos, out>>

Next == Open \/ Discard \/ Next1 \/ Scroll \/ Get \/ SetMode

Spec == Init /\ [][Next]_vars
=============================================================================
