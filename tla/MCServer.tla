------------------------------ MODULE MCServer ------------------------------
(***************************************************************************)
(* Instances of Server for TLC: the signal, a disconnect and the tick of   *)
(* the monitoring task fall between any two steps of the calls.            *)
(***************************************************************************)
EXTENDS Server

CONSTANTS a, b, d, r1, r2

MCPermission == [k \in {a, b} |-> "ddl"]

On(k, tool, arg) == [tool |-> tool, key |-> k, db |-> d, arg |-> arg]

\* One call of each use of the lock: with and without a time limit, reading.
LockCalls ==
    {On(a, "execute", "dml"), On(b, "list_tables", "missing"),
     On(a, "connection_stats", "missing")}

TimedCalls == {On(a, "execute", "dml")}
=============================================================================
