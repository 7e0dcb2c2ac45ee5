--------------------------- MODULE MCResultStream ---------------------------
(***************************************************************************)
(* Three tasks on one stream of three rows, in chunks of two (a full chunk,*)
(* a partial one and the end) or of none, which no check forbids.          *)
(***************************************************************************)
EXTENDS ResultStream, TLC

CONSTANTS t1, t2, t3

TaskSymmetry == Permutations(Tasks)
=============================================================================
