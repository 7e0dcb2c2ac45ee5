---------------------------- MODULE RowDispenser ----------------------------
(***************************************************************************)
(* What a result stream promises: rows are handed out once each, in order, *)
(* in full chunks up to the last one, until the dispenser is closed.       *)
(***************************************************************************)
EXTENDS Naturals

VARIABLES
    rows,       \* the rows there are
    size,       \* the rows of a full chunk
    given,      \* rows handed out so far
    closed      \* nothing more is handed out

Init ==
    /\ rows \in Nat
    /\ size \in Nat
    /\ given = 0
    /\ closed = FALSE

Take(n) ==
    /\ ~closed
    /\ n \in 1 .. size
    /\ given + n <= rows
    /\ n = size \/ given + n = rows
    /\ given' = given + n
    /\ UNCHANGED <<rows, size, closed>>

Close == closed' = TRUE /\ UNCHANGED <<rows, size, given>>

Next == Close \/ \E n \in 1 .. size : Take(n)

Spec == Init /\ [][Next]_<<rows, size, given, closed>>
=============================================================================
