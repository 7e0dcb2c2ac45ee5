--------------------------- MODULE MCStreamManager ---------------------------
(***************************************************************************)
(* Two tasks and two streams: enough for one task to remove, read or cancel *)
(* a stream while the other is in the middle of cancelling all of them.    *)
(***************************************************************************)
EXTENDS StreamManager

CONSTANTS t1, t2, s1, s2
=============================================================================
