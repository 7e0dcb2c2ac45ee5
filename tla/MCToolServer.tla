---------------------------- MODULE MCToolServer ----------------------------
(***************************************************************************)
(* Instances of ToolServer for TLC: two or three data sources, one         *)
(* database, and the sets of calls that the runs choose from.              *)
(***************************************************************************)
EXTENDS ToolServer, TLC

CONSTANTS a, b, c, d, r1, r2, r3

MCPermission == [k \in {a, b} |->
    IF k = a THEN "ddl" ELSE "update"]

\* One data source of each permission level.
ChecksPermission == [k \in {a, b, c} |->
    CASE k = a -> "ddl" [] k = b -> "update" [] k = c -> "query"]

On(k, tool, arg) == [tool |-> tool, key |-> k, db |-> d, arg |-> arg]

\* Every record of arguments, wrong ones included.
AllCalls == {x \in Call : WellFormed(x)}

\* The calls that compete: statements, a listing of one query, a listing with
\* best-effort details, a reader of the pools.
MixedCalls ==
    {On(a, "query", "select"), On(a, "execute", "dml"), On(b, "query", "select"),
     On(a, "list_databases", "missing"), On(b, "list_tables", "missing"),
     On(a, "connection_stats", "missing")}

\* Listings and statistics on a data source that works; on the other, which may
\* hang, a statement with its time limit.
AnswerableCalls ==
    {On(a, "list_databases", "missing"), On(a, "list_tables", "missing"),
     On(a, "connection_stats", "missing"), On(b, "execute", "dml")}

\* A listing of one data source beside a query to the other.
IsolationCalls == {On(a, "list_tables", "missing"), On(b, "query", "select")}

StatementCalls == {On(a, "execute", "dml")}

\* Calls of MixedCalls compete.  Any other call, the handlers with four details
\* per table and the calls with wrong arguments among them, runs alone.
ArriveAloneOrMixed(r) ==
    /\ Arrive(r)
    /\ \A q \in Requests \ {r} :
          pc[q] # "idle" => {call[q], call'[r]} \subseteq MixedCalls

MixedNext ==
    \/ Rest
    \/ \E k \in Keys : SetStatus(k)
    \/ \E r \in Requests : ArriveAloneOrMixed(r) \/ TaskStep(r) \/ MySqlStep(r)

MixedSpec == Init /\ [][MixedNext]_vars

\* The status changes between any two steps of a call that runs alone; calls
\* that compete are followed only while all data sources are available.
StatusChangesAlone ==
    \/ \A k \in Keys : status[k] = "Available"
    \/ \A r, q \in Requests : pc[r] = "idle" \/ pc[q] = "idle" \/ r = q

RequestSymmetry == Permutations(Requests)
=============================================================================
