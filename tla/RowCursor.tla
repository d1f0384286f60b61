------------------------------- MODULE RowCursor -------------------------------
(***************************************************************************)
(* What a result set promises to SQLFetch: rows come in the order of the   *)
(* result, none twice, none left out unless a fetch failed; a fetch brings *)
(* less than it was asked for only when nothing more will ever come.  A    *)
(* failed fetch leaves out fewer rows than it was asked for, except one    *)
(* that could not read the rows that had come: it may leave out others.    *)
(***************************************************************************)
EXTENDS Integers, Sequences

CONSTANT MaxRowset    \* the largest rowset an application asks for

VARIABLES
    read,    \* numbers of the rows that successful fetches brought, in order
    pos,     \* number of the last row the cursor has moved past
    asked,   \* size of the rowset being fetched, 0 between calls
    over,    \* no row will come any more
    lost     \* a fetch could not read the rows that had come

vars == <<read, pos, asked, over, lost>>

TypeOK ==
    /\ read \in Seq(Nat \ {0})
    /\ pos \in Nat
    /\ asked \in 0..MaxRowset
    /\ over \in BOOLEAN /\ lost \in BOOLEAN

Init == read = <<>> /\ pos = 0 /\ asked = 0 /\ over = FALSE /\ lost = FALSE

Ask ==
    /\ asked = 0
    /\ asked' \in 1..MaxRowset
    /\ UNCHANGED <<read, pos, over, lost>>

(* A fetch returns k rows; a short one announces the end. *)
Answer ==
    /\ asked > 0
    /\ \E k \in 0..asked :
        /\ k > 0 => ~over
        /\ over' = (over \/ k < asked)
        /\ read' = read \o [i \in 1..k |-> pos + i]
        /\ pos' = pos + k
    /\ asked' = 0
    /\ UNCHANGED lost

(* A fetch fails.  The rows it had already passed are not repeated; the
   failure of the stream is also its end. *)
Fail ==
    /\ asked > 0
    /\ pos' \in pos..(pos + asked - 1)
    /\ over' \in {over, TRUE}
    /\ asked' = 0
    /\ UNCHANGED <<read, lost>>

(* A fetch fails with rows that came: the cursor is behind some of them. *)
Lose ==
    /\ asked > 0 /\ ~over
    /\ pos' \in Nat /\ pos' >= pos
    /\ asked' = 0 /\ lost' = TRUE
    /\ UNCHANGED <<read, over>>

(* SQLCancel or SQLCloseCursor. *)
Stop ==
    /\ asked = 0
    /\ over' = TRUE
    /\ UNCHANGED <<read, pos, asked, lost>>

Next == Ask \/ Answer \/ Fail \/ Lose \/ Stop

Spec == Init /\ [][Next]_vars
================================================================================
