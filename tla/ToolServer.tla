----------------------------- MODULE ToolServer -----------------------------
(***************************************************************************)
(* The request path of the MySQL MCP server: every tool call and resource  *)
(* read is a task of its own that validates its arguments, takes the one   *)
(* `pool_managers` lock of the server, opens a connection pool if there is *)
(* none, and talks to MySQL while it keeps the guard of that lock.         *)
(*                                                                         *)
(* A call is a record [tool, key, db, arg].  An argument is a model value  *)
(* of the call ("missing" when the JSON has no such string, "empty" when   *)
(* it is blank); the class of a statement, "select", "dml" or "ddl", is    *)
(* what is_ddl_statement and the statement's effect tell apart.  One       *)
(* action is what a task does between two awaits.                          *)
(***************************************************************************)
EXTENDS Naturals, FiniteSets, FairRwLock

CONSTANTS
    Requests,           \* the calls in flight, each made at most once
    OtherTasks,         \* tasks outside this module that use the lock
    Keys,               \* the keys of the configured data sources
    Databases,          \* the database names that calls mention
    Permission,         \* the permission level of each data source
    Calls,              \* the calls that clients make
    MaxConnections,     \* pool_config.max_connections
    HealthyKeys,        \* data sources that end every statement
    MaxRows,            \* bound on the names a listing query returns
    StatusMayChange     \* whether somebody calls set_status

Tools == {"query", "execute", "list_datasources", "list_databases",
          "list_tables", "describe_table", "connection_stats",
          "resource_datasources", "resource_databases", "resource_tables",
          "resource_table", "resource_schema", "resource_other", "unknown"}
StatementTools == {"query", "execute"}
Absent == {"missing", "empty"}
InformationSchema == "information_schema"
Pools == Keys \X (Databases \cup {InformationSchema})
Call == [tool : Tools,
         key  : Keys \cup Absent \cup {"unconfigured"},
         db   : Databases \cup Absent,
         arg  : Absent \cup {"select", "dml", "ddl", "table"}]

\* What the messages can hold.  parse_uri drops empty segments: the parts of a
\* resource URI are never empty.
WellFormed(c) ==
    /\ c.arg \in CASE c.tool \in StatementTools -> Absent \cup {"select", "dml", "ddl"}
                   [] c.tool \in {"describe_table", "resource_table"} -> Absent \cup {"table"}
                   [] OTHER -> {"missing"}
    /\ c.tool \in {"resource_databases", "resource_tables", "resource_table",
                   "resource_schema"} => c.key \notin Absent
    /\ c.tool \in {"resource_tables", "resource_table", "resource_schema"} =>
          c.db \notin Absent
    /\ c.tool = "resource_table" => c.arg \notin Absent

ASSUME RequestsAssumption ==
    /\ IsFiniteSet(Requests)
    /\ Requests \cap OtherTasks = {}
ASSUME KeysAssumption == Keys \cap (Absent \cup {"unconfigured"}) = {}
ASSUME PermissionAssumption ==
    Permission \in [Keys -> {"query", "update", "ddl"}]
ASSUME CallsAssumption == Calls \subseteq {c \in Call : WellFormed(c)}
ASSUME HealthyAssumption == HealthyKeys \subseteq Keys
ASSUME BoundsAssumption ==
    /\ MaxConnections \in Nat \ {0}
    /\ MaxRows \in Nat
    /\ StatusMayChange \in BOOLEAN

NoCall == [tool |-> "unknown", key |-> "missing", db |-> "missing",
           arg |-> "missing"]

\* How a call may end: rejected before the lock, or answered after it.
Rejections == {"InvalidParams", "InvalidResourceUri", "InvalidStatement",
               "InvalidDataSourceKey", "PermissionDenied", "DataSourceUnavailable"}
Outcomes == Rejections \cup
    {"Ok", "ConnectionFailed", "QueryExecutionError", "DatabaseNotFound",
     "TableNotFound", "QueryTimeout"}

VARIABLES
    status,     \* DataSourceManager.status
    managers,   \* the keys of the `pool_managers` map
    pools,      \* the pool of each (data source, database) pair
    pc,         \* where the task of each request is
    call,       \* the arguments of each request
    left,       \* follow-up queries that the request still has to make
    reply,      \* the outcome sent to the client, "none" before
    stmt,       \* what MySQL does with the statement last sent
    applied,    \* how often MySQL carried out the client's own statement
    opened      \* history: how often each pool was opened

requestVars == <<pc, call, left, reply>>
mysqlVars == <<stmt, applied>>
poolVars == <<managers, pools, opened>>
vars == <<waiters, guards, status, managers, pools, pc, call, left, reply,
          stmt, applied, opened>>

-----------------------------------------------------------------------------
(* Checks made before the lock, in the order of the source.                *)

IsAvailable(key) == key \in Keys /\ status[key] = "Available"

\* Each permission level includes the ones below it.
AllowedBy(level) ==
    CASE level = "query"  -> {"query"}
      [] level = "update" -> {"query", "update"}
      [] level = "ddl"    -> {"query", "update", "ddl"}

Allows(key, operation) == key \in Keys /\ operation \in AllowedBy(Permission[key])

\* A check is the set of errors that it raises: one, or none.
Check(fails, error) == IF fails THEN {error} ELSE {}
Argument(a) == Check(a \in Absent, "InvalidStatement")
ValidateKey(c) == Check(c.key \notin Keys, "InvalidDataSourceKey")
Available(c) == Check(~IsAvailable(c.key), "DataSourceUnavailable")
CheckQueryPermission(c) == Check(~Allows(c.key, "query"), "PermissionDenied")
CheckUpdatePermission(c) == Check(~Allows(c.key, "update"), "PermissionDenied")
CheckDdlPermission(c) == Check(~Allows(c.key, "ddl"), "PermissionDenied")

QueryChecks(c) ==
    <<Argument(c.key), Argument(c.db), Argument(c.arg), ValidateKey(c),
      CheckQueryPermission(c), Available(c)>>

\* Mutant: the permissions of data and schema statements are swapped.
ExecuteChecksSwapped(c) ==
    <<Argument(c.key), Argument(c.db), Argument(c.arg), ValidateKey(c),
      Available(c),
      IF c.arg = "ddl" THEN CheckUpdatePermission(c) ELSE CheckDdlPermission(c)>>

\* Unlike a query, a statement is first checked for availability.
ExecuteChecks(c) ==
    <<Argument(c.key), Argument(c.db), Argument(c.arg), ValidateKey(c),
      Available(c),
      IF c.arg = "ddl" THEN CheckDdlPermission(c) ELSE CheckUpdatePermission(c)>>

ListTablesChecks(c) ==
    <<Argument(c.key), Argument(c.db), ValidateKey(c), Available(c)>>

DescribeTableChecks(c) ==
    <<Argument(c.key), Argument(c.db), Argument(c.arg), ValidateKey(c),
      Available(c)>>

ListDatabasesChecks(c) == <<Argument(c.key), ValidateKey(c), Available(c)>>

\* Without a key the statistics of all data sources are reported.
StatsChecks(c) ==
    IF c.key = "missing" THEN <<>> ELSE <<Argument(c.key), ValidateKey(c)>>

\* A parsed resource URI has no empty segment, so only its key is checked.
ResourceChecks(c) == <<ValidateKey(c), Available(c)>>

Checks(c) ==
    CASE c.tool = "query"            -> QueryChecks(c)
      [] c.tool = "execute"          -> ExecuteChecks(c)
      [] c.tool = "list_databases"   -> ListDatabasesChecks(c)
      [] c.tool = "list_tables"      -> ListTablesChecks(c)
      [] c.tool = "describe_table"   -> DescribeTableChecks(c)
      [] c.tool = "connection_stats" -> StatsChecks(c)
      [] c.tool = "unknown"          -> <<Check(TRUE, "InvalidParams")>>
      [] c.tool = "resource_other"   -> <<Check(TRUE, "InvalidResourceUri")>>
      [] c.tool \in {"list_datasources", "resource_datasources"} -> <<>>
      [] OTHER                       -> ResourceChecks(c)

\* e is raised by the first check of c that fails.
FailsWith(c, e) ==
    \E i \in DOMAIN Checks(c) :
        /\ e \in Checks(c)[i]
        /\ \A j \in 1 .. (i - 1) : Checks(c)[j] = {}

Admitted(c) == \A i \in DOMAIN Checks(c) : Checks(c)[i] = {}

-----------------------------------------------------------------------------
(* What a call does under the lock.                                        *)

LocalTools == {"list_datasources", "resource_datasources"}

\* Mutant: statements other than queries have no time limit.
TimedQueriesOnly(c) == c.tool = "query"

\* Only the tools that run the client's statement have a time limit.
Timed(c) == c.tool \in StatementTools

PoolOf(c) ==
    <<c.key, IF c.tool \in {"list_databases", "resource_databases"}
             THEN InformationSchema ELSE c.db>>

\* Mutant: queries take the lock for reading.
TicketOfReadingQueries(r) ==
    Ticket(r, IF call[r].tool \in {"connection_stats", "query"}
              THEN "read" ELSE "write")

TicketOf(r) ==
    Ticket(r, IF call[r].tool = "connection_stats" THEN "read" ELSE "write")

\* Columns, primary key, foreign keys and indexes of one table.
DetailQueries == 4

\* How many queries can follow a first query that succeeded.
FollowUps(c) ==
    CASE c.tool \in {"describe_table", "resource_table"} -> {DetailQueries}
      [] c.tool \in {"list_databases", "resource_databases"} -> 0 .. MaxRows
      [] c.tool = "resource_schema" -> {DetailQueries * n : n \in 0 .. MaxRows}
      [] OTHER -> {0}

\* The size query of a database is best effort: its errors are dropped.
Swallowed(r) ==
    left[r] > 0 /\ call[r].tool \in {"list_databases", "resource_databases"}

InUse(r) == pc[r] \in {"connecting", "sending", "awaiting"}

\* Connections of pool p that MySQL still keeps busy.
Busy(p) == {r \in Requests : stmt[r] = "running" /\ PoolOf(call[r]) = p}

-----------------------------------------------------------------------------
Init ==
    /\ LockInit
    /\ status = [k \in Keys |-> "Available"]
    /\ managers = {}
    /\ pools = [p \in Pools |-> "absent"]
    /\ pc = [r \in Requests |-> "idle"]
    /\ call = [r \in Requests |-> NoCall]
    /\ left = [r \in Requests |-> 0]
    /\ reply = [r \in Requests |-> "none"]
    /\ stmt = [r \in Requests |-> "idle"]
    /\ applied = [r \in Requests |-> 0]
    /\ opened = [p \in Pools |-> 0]

\* DataSourceManager::set_status, which nothing in the server calls.
SetStatus(k) ==
    /\ StatusMayChange
    /\ \E s \in {"Available", "Unavailable"} : status' = [status EXCEPT ![k] = s]
    /\ UNCHANGED <<lockVars, poolVars, requestVars, mysqlVars>>

\* The client's message is read from stdin and a task is spawned for it.
Arrive(r) ==
    /\ pc[r] = "idle"
    /\ \E c \in Calls : call' = [call EXCEPT ![r] = c]
    /\ pc' = [pc EXCEPT ![r] = "received"]
    /\ UNCHANGED <<lockVars, status, poolVars, left, reply, mysqlVars>>

Reply(r, outcome) ==
    /\ reply' = [reply EXCEPT ![r] = outcome]
    /\ pc' = [pc EXCEPT ![r] = "replied"]
    /\ UNCHANGED call

\* Mutant: the guard outlives the handler.
FinishKeepingGuard(r, outcome) == Reply(r, outcome) /\ UNCHANGED lockVars

\* The guard lives to the end of the handler: replying drops it.
Finish(r, outcome) ==
    /\ Reply(r, outcome)
    /\ Drop(TicketOf(r))

\* Mutant: the pool manager is created before the checks are made.
RejectAfterManager(r) ==
    /\ pc[r] = "received"
    /\ \E e \in Rejections : FailsWith(call[r], e) /\ Reply(r, e)
    /\ managers' = managers \cup ({call[r].key} \cap Keys)
    /\ UNCHANGED <<lockVars, status, pools, opened, left, mysqlVars>>

Reject(r) ==
    /\ pc[r] = "received"
    /\ \E e \in Rejections : FailsWith(call[r], e) /\ Reply(r, e)
    /\ UNCHANGED <<lockVars, status, poolVars, left, mysqlVars>>

\* The list of data sources is read from the manager alone.
ListSources(r) ==
    /\ pc[r] = "received"
    /\ call[r].tool \in LocalTools
    /\ Reply(r, "Ok")
    /\ UNCHANGED <<lockVars, status, poolVars, left, mysqlVars>>

\* pool_managers.write().await or .read().await
RequestLock(r) ==
    /\ pc[r] = "received"
    /\ call[r].tool \notin LocalTools
    /\ Admitted(call[r])
    /\ Enqueue(TicketOf(r))
    /\ pc' = [pc EXCEPT ![r] = "waiting"]
    /\ UNCHANGED <<status, poolVars, call, left, reply, mysqlVars>>

\* A statistics call reads the counters and drops its guard without an await.
ReadStats(r) ==
    /\ pc[r] = "waiting"
    /\ call[r].tool = "connection_stats"
    /\ GrantAndDrop(TicketOf(r))
    /\ Reply(r, "Ok")
    /\ UNCHANGED <<status, poolVars, left, mysqlVars>>

\* Mutant: the new manager is entered under the name of the database.
LookupPoolByDatabase(r) ==
    /\ pc[r] = "waiting"
    /\ call[r].tool # "connection_stats"
    /\ Grant(TicketOf(r))
    /\ managers' = managers \cup {call[r].db}
    /\ pc' = [pc EXCEPT ![r] = IF pools[PoolOf(call[r])] = "absent"
                               THEN "connecting" ELSE "sending"]
    /\ UNCHANGED <<status, pools, opened, call, left, reply, mysqlVars>>

\* The write guard is granted: get or create the manager, look up the pool.
LookupPool(r) ==
    /\ pc[r] = "waiting"
    /\ call[r].tool # "connection_stats"
    /\ Grant(TicketOf(r))
    /\ managers' = managers \cup {call[r].key}
    /\ pc' = [pc EXCEPT ![r] = IF pools[PoolOf(call[r])] = "absent"
                               THEN "connecting" ELSE "sending"]
    /\ UNCHANGED <<status, pools, opened, call, left, reply, mysqlVars>>

\* create_pool connected: the pool enters the map and is used at once.
OpenPool(r) ==
    /\ pc[r] = "connecting"
    /\ pools' = [pools EXCEPT ![PoolOf(call[r])] = "open"]
    /\ opened' = [opened EXCEPT ![PoolOf(call[r])] = @ + 1]
    /\ pc' = [pc EXCEPT ![r] = "sending"]
    /\ UNCHANGED <<lockVars, status, managers, call, left, reply, mysqlVars>>

\* create_pool failed or reached acquire_timeout: no entry is left behind.
OpenPoolFails(r) ==
    /\ pc[r] = "connecting"
    /\ Finish(r, "ConnectionFailed")
    /\ UNCHANGED <<status, poolVars, left, mysqlVars>>

\* The pool lends a connection and the query goes out on it.
Send(r) ==
    /\ pc[r] = "sending"
    /\ pools[PoolOf(call[r])] = "open"
    /\ Cardinality(Busy(PoolOf(call[r]))) < MaxConnections
    /\ stmt' = [stmt EXCEPT ![r] = "running"]
    /\ pc' = [pc EXCEPT ![r] = "awaiting"]
    /\ UNCHANGED <<lockVars, status, poolVars, call, left, reply, applied>>

\* One query is over: make the next of the n that are left, or reply.
Proceed(r, n) ==
    \/ /\ n > 0
       /\ left' = [left EXCEPT ![r] = n]
       /\ pc' = [pc EXCEPT ![r] = "sending"]
       /\ UNCHANGED <<lockVars, call, reply>>
    \/ /\ n = 0
       /\ Finish(r, "Ok")
       /\ left' = [left EXCEPT ![r] = 0]

\* Five handlers tell "Unknown database" of their first query from the rest.
QueryErrors(r) ==
    IF /\ left[r] = 0
       /\ call[r].tool \in {"query", "execute", "list_tables",
                            "resource_tables", "resource_schema"}
    THEN {"QueryExecutionError", "DatabaseNotFound"}
    ELSE {"QueryExecutionError"}

QueryFails(r) ==
    \/ /\ Swallowed(r)
       /\ Proceed(r, left[r] - 1)
    \/ /\ ~Swallowed(r)
       /\ \E e \in QueryErrors(r) : Finish(r, e)
       /\ UNCHANGED left

\* No connection: the pool is closed, exhausted until acquire_timeout, or a
\* connection it opens on demand fails.
AcquireFails(r) ==
    /\ pc[r] = "sending"
    /\ QueryFails(r)
    /\ UNCHANGED <<status, poolVars, mysqlVars>>

AnswerOk(r) ==
    /\ pc[r] = "awaiting"
    /\ stmt[r] = "done"
    /\ stmt' = [stmt EXCEPT ![r] = "idle"]
    /\ \E n \in IF left[r] = 0 THEN FollowUps(call[r]) ELSE {left[r] - 1} :
          Proceed(r, n)
    /\ UNCHANGED <<status, poolVars, applied>>

\* The existence query of a table counted no row.
AnswerNoTable(r) ==
    /\ pc[r] = "awaiting"
    /\ stmt[r] = "done"
    /\ left[r] = 0
    /\ call[r].tool \in {"describe_table", "resource_table"}
    /\ stmt' = [stmt EXCEPT ![r] = "idle"]
    /\ Finish(r, "TableNotFound")
    /\ UNCHANGED <<status, poolVars, left, applied>>

\* Mutant: a query that failed is sent once more.
AnswerErrorRetried(r) ==
    /\ pc[r] = "awaiting"
    /\ stmt[r] = "failed"
    /\ stmt' = [stmt EXCEPT ![r] = "idle"]
    /\ QueryFails(r) \/ (pc' = [pc EXCEPT ![r] = "sending"]
                         /\ UNCHANGED <<lockVars, call, left, reply>>)
    /\ UNCHANGED <<status, poolVars, applied>>

AnswerError(r) ==
    /\ pc[r] = "awaiting"
    /\ stmt[r] = "failed"
    /\ stmt' = [stmt EXCEPT ![r] = "idle"]
    /\ QueryFails(r)
    /\ UNCHANGED <<status, poolVars, applied>>

\* Mutants: the guard is lost with the future that is given up; the elapsed
\* timer is reported like a failed connection, or like a failed query.
TimeOutKeepingGuard(r) ==
    /\ InUse(r) /\ Timed(call[r])
    /\ Reply(r, "QueryTimeout")
    /\ UNCHANGED <<lockVars, status, poolVars, left, mysqlVars>>

TimeOutAsConnectionFailed(r) ==
    /\ InUse(r) /\ Timed(call[r])
    /\ Finish(r, "ConnectionFailed")
    /\ UNCHANGED <<status, poolVars, left, mysqlVars>>

TimeOutAsQueryError(r) ==
    /\ InUse(r) /\ Timed(call[r])
    /\ Finish(r, "QueryExecutionError")
    /\ UNCHANGED <<status, poolVars, left, mysqlVars>>

\* tokio::time::timeout gives up on the future; MySQL is not told.
TimeOut(r) ==
    /\ InUse(r)
    /\ Timed(call[r])
    /\ Finish(r, "QueryTimeout")
    /\ UNCHANGED <<status, poolVars, left, mysqlVars>>

-----------------------------------------------------------------------------
(* MySQL, an external service.                                             *)

Execute(r) ==
    /\ stmt[r] = "running"
    /\ stmt' = [stmt EXCEPT ![r] = "done"]
    /\ applied' = IF call[r].tool \in StatementTools
                  THEN [applied EXCEPT ![r] = @ + 1] ELSE applied
    /\ UNCHANGED <<lockVars, status, poolVars, requestVars>>

\* MySQL refuses the statement, or the connection breaks before it is run.
Refuse(r) ==
    /\ stmt[r] = "running"
    /\ stmt' = [stmt EXCEPT ![r] = "failed"]
    /\ UNCHANGED <<lockVars, status, poolVars, requestVars, applied>>

\* The connection breaks after the statement has been run.
LoseAnswer(r) ==
    /\ stmt[r] = "done"
    /\ pc[r] = "awaiting"
    /\ stmt' = [stmt EXCEPT ![r] = "failed"]
    /\ UNCHANGED <<lockVars, status, poolVars, requestVars, applied>>

-----------------------------------------------------------------------------
\* The steps of the task of r that the runtime and the timers bring about.
TaskStep(r) ==
    \/ Reject(r) \/ ListSources(r) \/ RequestLock(r)
    \/ ReadStats(r) \/ LookupPool(r)
    \/ OpenPool(r) \/ OpenPoolFails(r)
    \/ Send(r) \/ AcquireFails(r)
    \/ AnswerOk(r) \/ AnswerNoTable(r) \/ AnswerError(r)
    \/ TimeOut(r)

MySqlStep(r) == Execute(r) \/ Refuse(r) \/ LoseAnswer(r)

\* All calls are answered and MySQL is idle: the server waits for messages.
Rest ==
    /\ \A r \in Requests : pc[r] = "replied" /\ stmt[r] # "running"
    /\ UNCHANGED vars

Next ==
    \/ Rest
    \/ \E k \in Keys : SetStatus(k)
    \/ \E r \in Requests : Arrive(r) \/ TaskStep(r) \/ MySqlStep(r)

Spec == Init /\ [][Next]_vars

\* The runtime polls every task that can go on, and timers fire.
TaskFairness == \A r \in Requests : WF_vars(TaskStep(r))

\* A healthy data source ends every statement, one way or the other; on the
\* others a statement may run for ever.
MySqlFairness ==
    \A r \in Requests :
        WF_vars(call[r].key \in HealthyKeys /\ (Execute(r) \/ Refuse(r)))

FairSpec == Spec /\ TaskFairness /\ MySqlFairness

-----------------------------------------------------------------------------
TypeOK ==
    /\ waiters \in Seq([who : Requests \cup OtherTasks, mode : {"read", "write"}])
    /\ guards \subseteq [who : Requests \cup OtherTasks, mode : {"read", "write"}]
    /\ status \in [Keys -> {"Available", "Unavailable"}]
    /\ managers \subseteq Keys
    /\ pools \in [Pools -> {"absent", "open", "closed"}]
    /\ pc \in [Requests -> {"idle", "received", "waiting", "connecting",
                            "sending", "awaiting", "replied"}]
    /\ call \in [Requests -> Call]
    /\ left \in [Requests -> Nat]
    /\ reply \in [Requests -> Outcomes \cup {"none"}]
    /\ stmt \in [Requests -> {"idle", "running", "done", "failed"}]
    /\ applied \in [Requests -> Nat]
    /\ opened \in [Pools -> Nat]

\* The write guard is kept over every await on MySQL, so at most one call of
\* the whole server opens a pool or waits for a query.
OneCallAtATime ==
    \A r, s \in Requests : InUse(r) /\ InUse(s) => r = s

\* A guard is alive exactly while its call is at work: no way out of a handler
\* (an error returned by `?`, a timeout, a reply) leaves the server locked.
NoGuardLeaked ==
    {g \in guards : g.who \in Requests} = {TicketOf(r) : r \in {q \in Requests : InUse(q)}}

\* Looking up, opening and inserting a pool are separated by awaits, and still
\* no pool is ever opened twice: get_pool never drops a pool in use.
PoolsOpenedOnce ==
    \A p \in Pools :
        /\ opened[p] = (IF pools[p] = "absent" THEN 0 ELSE 1)
        /\ pools[p] # "absent" => p[1] \in managers

\* What an answer tells the client about its statement: Ok means that it was
\* carried out exactly once; a rejection or a failed connection that it was
\* not and never will be; only an error or a timeout leaves it open.
AnswerTellsEffect ==
    \A r \in Requests :
        /\ applied[r] <= 1
        /\ reply[r] = "Ok" /\ call[r].tool \in StatementTools => applied[r] = 1
        /\ reply[r] \in Rejections \cup {"ConnectionFailed"} =>
              applied[r] = 0 /\ stmt[r] = "idle"

\* A call that is rejected leaves no trace: every pool manager was created for
\* a call that passed all its checks.
NoTraceOfRejectedCalls ==
    \A k \in managers : \E r \in Requests :
        /\ call[r].key = k
        /\ pc[r] \in {"connecting", "sending", "awaiting", "replied"}
        /\ reply[r] \notin Rejections

\* The operations that the documentation denies to each permission level.
DeniedTo(level) ==
    CASE level = "query"  -> {"dml", "ddl"}
      [] level = "update" -> {"ddl"}
      [] level = "ddl"    -> {}

\* What the execute tool has carried out is never among the operations denied
\* to the level of its data source, and on the level "query" it carries out
\* nothing, whatever is wrong or right with the other arguments of the call.
LevelLimitsExecute ==
    \A r \in Requests :
        applied[r] > 0 /\ call[r].tool = "execute" =>
            /\ call[r].key \in Keys
            /\ Permission[call[r].key] # "query"
            /\ call[r].arg \notin DeniedTo(Permission[call[r].key])

\* Connections are kept busy by the one call at work and by statements that
\* their callers gave up on, never by a call that was answered otherwise.
BusyConnectionsAccountedFor ==
    /\ \A r \in Requests :
          stmt[r] = "running" => pc[r] = "awaiting" \/ reply[r] = "QueryTimeout"
    /\ \A p \in Pools : Cardinality(Busy(p)) <= MaxConnections

-----------------------------------------------------------------------------
\* Every call is answered: no order of arrival, timeout, failed connection or
\* statement given up leaves a task waiting for the lock or for MySQL for ever.
EveryCallAnswered ==
    \A r \in Requests : pc[r] # "idle" ~> reply[r] # "none"

\* The claim of the documentation that a level denies operations, by whatever
\* tool: nothing but SELECT on the level "query", no DDL below "ddl".
LevelLimitsStatements ==
    \A r \in Requests :
        applied[r] > 0 => call[r].arg \notin DeniedTo(Permission[call[r].key])

\* The claim of the documentation that a query over 30 seconds is terminated:
\* once the timeout is reported, the statement takes no effect any more.
TimeoutTerminatesStatement ==
    [][\A r \in Requests :
          reply[r] = "QueryTimeout" => applied'[r] = applied[r]]_vars

\* The claim of the documentation that data sources do not affect each other:
\* a call whose data source ends its statements is answered, whatever another
\* data source does.
HealthyCallsAnswered ==
    \A r \in Requests :
        pc[r] = "received" /\ call[r].key \in HealthyKeys ~> reply[r] # "none"

-----------------------------------------------------------------------------
\* The promise of the request path that the detailed steps keep.
Nobody == "nobody"
ASSUME NobodyAssumption == Nobody \notin Requests

Service == INSTANCE StatementService WITH
    TurnedAway <- Rejections,
    NotStarted <- {"ConnectionFailed"},
    serving <- IF \E r \in Requests : InUse(r)
               THEN CHOOSE r \in Requests : InUse(r) ELSE Nobody,
    statements <- {r \in Requests : call[r].tool \in StatementTools},
    answer <- reply,
    effects <- applied

\* The server, with its lock, pools and queries, is a serial service of
\* statements with honest answers.
KeepsServicePromise == Service!Spec
=============================================================================
