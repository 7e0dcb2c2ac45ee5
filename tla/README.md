# A TLA+ model of mysql-mcp-rust

The server lets MCP clients run statements and read schema information on several
MySQL data sources over one stdio connection. This directory models its control:
who waits for what, what is locked while MySQL works, what an answer tells the
client, what happens on a timeout, a lost connection, a signal. Source paths
below are relative to `src/src/`.

## 1. Inventory

| component | source | state | operations |
|---|---|---|---|
| handler | `mcp_server.rs` | manager, `pool_managers` (one `RwLock<HashMap>` for all data sources), monitoring service | `call_tool`, `read_resource`, `cleanup` |
| tools | `tools/mod.rs` | none that outlives a call (the handler makes a tool per call) | query, execute, list_tables, describe_table, list_databases, list_datasources, connection statistics |
| resources | `resources/mod.rs` | none | datasources, databases, tables, table schema, database schema |
| connection pools | `pool/mod.rs` | per data source: database -> sqlx pool | `get_pool`, `create_pool`, `get_stats`, `close_all` |
| data source manager | `manager/mod.rs` | sources, status (`RwLock`), reconnection task | key, permission and status checks, `set_status`, reconnection |
| monitoring | `monitoring/mod.rs` | one task | report every 60 s, `stop` aborts the task |
| process | `main.rs` | where `main` is, the signal's oneshot | handshake, wait for a signal, drop the service, cleanup |
| result streams | `tools/mod.rs` 555-685 | `cancelled`, `current_position`, `rows`, each in a tokio mutex | `next_chunk`, `cancel` |
| stream manager | `tools/mod.rs` 699-774 | id -> stream (`RwLock`) | register, get, remove, cancel_all |
| database list cache | `tools/mod.rs` 1419-1590 | key -> (list, time) in a `RwLock` of one `ListTool` | fill, read, clear |
| first statement | `tools/mod.rs` 135-162 | a scanner's three flags | `extract_first_statement`, used by the query tool |
| TtlCache | `cache/mod.rs` | entries (`RwLock`), time to live, capacity | get, insert, remove, clear, evict_expired; only tests and benchmarks call it |
| memory tracker | `memory.rs` | three atomic counters | add, remove, stats, reset; only its tests call it |
| retry | `error/mod.rs` | the loop's attempt and last error | `retry_with_backoff`; only its tests call it |
| configuration | `config/mod.rs`, `main.rs` | the list of data sources | load, take passwords from the environment, validate, filter |
| logging, sanitizing | `logging/mod.rs`, `error/mod.rs` | none | text only |

How they interact. rmcp reads messages from stdin and spawns a task per request.
Each task checks its arguments, the key, the permission and the availability of
the data source, then takes the write guard of `pool_managers` (the statistics
call takes a read guard) and keeps it, through `get_pool` and every query, until
the handler returns. Only the query and execute tools wrap that work in a
30-second `tokio::time::timeout`. The monitoring task and `cleanup` take read
guards of the same lock. `main` waits for the handshake, then for a signal,
then drops the service and runs `cleanup`; tasks of calls are not stopped until
`main` returns. The runtime that `#[tokio::main]` made is dropped then, and waits for
its blocking threads, of which a read of stdin is one.

What is hard here: a fair lock shared by calls that take seconds or never end;
futures dropped by a timeout or an abort with a statement in flight; answers that
are lost after the statement was executed; checks made before a wait and relied
upon after it; a cleanup that runs beside live calls; three mutexes per stream and
a map of streams that is locked while streams are cancelled; cache fills that take
as long as their queries; counters that wrap around or are read one by one.
`PROJECT.json` lists these hazards at their lines with the properties about them.

What makes each part correct:

- requests: one call at a time works on the pools; a guard never outlives its
  handler; no pool is opened twice; an answer is honest about the effect of the
  statement; rejected calls have no effect; every call is answered;
- shutdown: no pool is closed under a running call, nothing is left running on a
  closed pool, and a signal brings `main` to its end;
- permissions: `execute` does nothing that the level of the data source denies;
- streams: chunks partition the rows in order, nothing is sent after a cancel, no
  order of the mutexes blocks;
- registry of streams: what leaves the map is cleared, `cancel_all` misses nothing,
  and holding the map's lock over a cancellation blocks nobody;
- caches: no older list after a newer one, a clear lasts, the capacity holds, a live
  entry is not evicted while an expired one stays;
- retries, counters, reports, configuration, first statement: retries are bounded
  and honest, counters are what is in use, a report is possible, what the server
  runs with is valid, a statement is not cut inside a string.

## 2. Modules

| module | models |
|---|---|
| `FairRwLock` | tokio's fair `RwLock` as used here (external): a queue of tickets, the guards that are alive |
| `ToolServer` | the request path: every tool call and resource read, the pools, MySQL |
| `StatementService` | what the request path promises about statements, without lock, pools or queries |
| `Server` | the process around `ToolServer`: handshake, signal, service loop, monitoring task, cleanup |
| `ResultStream` | `QueryResultStream` |
| `RowDispenser` | what a stream promises about its rows |
| `StreamManager` | `StreamManager` and, of its streams, what `cancel` changes |
| `DatabaseListCache` | `list_databases` of a `ListTool` that tasks share, and its cache |
| `TtlCache`, `Retry`, `MemoryTracker` | the library code of `cache`, `error`, `memory` |
| `PoolStatistics` | `get_stats`: two readings of a pool in use |
| `Configuration` | from the file to the registered data sources |
| `FirstStatement` | `extract_first_statement` |
| `ToolServerProofs`, `ToolServerEffectProofs` | theorems about `ToolServer`, the second about effects, connections and the refinement |
| `ServerProofs` | theorems about `Server` |
| `ResultStreamProofs`, `StreamManagerProofs` | theorems about streams and their manager |
| `FirstStatementProofs` | theorems about `FirstStatement` |
| `LibraryProofs` | theorems about the other small components, and about their sum in `MCLibrary` |
| `FairRwLockProofs` | facts about the line of the lock, whoever stands in it |
| `MCToolServer`, `MCServer`, `MCResultStream`, `MCStreamManager`, `MCLibrary` | constants for TLC; `MCLibrary` also the sum of the seven small components |

`Server` extends `ToolServer`, which extends `FairRwLock`, as `StreamManager` does.
`ToolServer` refines `StatementService`, `ResultStream` refines `RowDispenser`.
`ServerProofs` extends `Server` and `ToolServerEffectProofs`, which extends
`ToolServerProofs`, and cites their lemmas about calls for the process around them.
`ToolServerProofs` and `StreamManagerProofs`, the users of the lock, extend
`FairRwLockProofs`; `LibraryProofs` extends `FirstStatementProofs`.

### ToolServer

A request is a task with a program counter `pc`: `received` (spawned), `waiting`
(for the lock), `connecting` (in `create_pool`), `sending` (waiting for a
connection of the pool), `awaiting` (MySQL's answer), `replied`. One action is what
the task does between two awaits.

A call is `[tool, key, db, arg]`. Strings are abstracted to what the code tells
apart: `missing` and `empty` arguments, configured and unconfigured keys, the class
of a statement (`select`, `dml`, `ddl`; the last is what `is_ddl_statement`
recognises). `Checks` gives for each tool the checks in the order of the source,
each one an error or nothing; `Reject` answers with the first error. The execute
tool checks availability before permission, the query tool after it.

`LookupPool` grants the write guard, creates the manager of the data source and
looks the pool up; `OpenPool` / `OpenPoolFails` end `create_pool`. A handler makes
one query (`query`, `execute`, `list_tables`), one and four more (`describe_table`),
one and one more per name (`list_databases`, whose size queries are best effort), or
one and four per name (the database schema); `left` counts the queries to come.
`Finish` is the only way to reply under the lock and drops the guard.

MySQL is a state per request (`stmt`): the query sent last is running, done or
failed. It may fail before or after it was executed (`Refuse`, `LoseAnswer`). After
`TimeOut` the statement goes on: the connection stays busy until MySQL ends it.
`applied` counts how often the client's own statement was carried out, `opened` how
often a pool was opened; both are history variables.

`SetStatus` is `DataSourceManager::set_status`. No code of the server calls it, so
it has a constant of its own, `StatusMayChange`.

Not in the model: the rows, the text of statements and URIs, the JSON of answers;
`notifications/cancelled`, which the handlers ignore; the wait for the status lock,
which is never held across an await.

### Server

`mainPc` follows `main.rs`: handshake, serving, stopping (service dropped), locking
and closing (in `cleanup`), cleaned, returned, exited. `service` is rmcp's loop: a dropped
service is `cancelled` until its loop notices, and may accept a last message.
`Disconnect` (stdin closed) ends the loop and leaves `main` waiting. `stdin` is what
tokio's blocking read of it is doing: `reading` as long as the service wants messages,
and after that until the client writes once more (`ClientWrites`, then `idle`) or closes
it (`closed`); a handshake that failed has ended its read. `Return` ends every task,
`Exit` the process, which waits for the read: nothing in `main.rs` calls
`process::exit`. The other blocking work, name lookups, is taken to end by itself, and
the client to read what is written to stdout. The cleanup
queues for a read guard like everybody; `ClosePool` marks one pool and goes on to
the next when no connection of it is lent, which is what `Pool::close` awaits.
`MonitorCancelled` is the abort taking effect: the task is dropped at whatever await
it is in, with its ticket or guard.

### ResultStream

`next_chunk` reads the flag under its mutex and releases it (`CheckCancelled`), then
takes the position (`LockPosition`) and the rows, and returns a chunk, the end, or
panics on a chunk size of 0. `cancel` takes the flag and keeps it while it clears
the rows. `DropCall` drops the future of a call at any await. The mutex of the rows
is only ever held between two awaits, so it needs no owner. The number of rows and
the chunk size are chosen when the stream is made and are variables that never change.

### StreamManager

The map is a set of ids behind a `FairRwLock`; a stream is its flag, its rows (cleared
or not) and the owner of the flag's mutex. `remove_stream` takes the entry out
(`Unlink`), then goes through `cancel` (`SetFlag`, `ClearRows`) with the write guard in
hand; `cancel_all` does the same for every stream of the map, in the order of the hash
map, which is any order, and then empties the map. `get_stream` hands out an `Arc`,
with which `cancel` is called without the lock. `DropCall` drops any of these futures
at any await. A `remove_stream` dropped inside `cancel` leaves a stream that is neither
in the map nor cleared; the history variable `orphaned` names it, and the properties
except it: nothing in the code takes care of it. Ids are fresh (UUIDs), so no
registration replaces another. `cancel` returns no error in this code, so the `?`
after it never leaves early.

### DatabaseListCache

A list is the version of the data source it was read from; `ChangeDatabases` makes a
new version. A call looks into the cache (`Hit`, `Miss`), takes the lock of the pools,
reads (`Fetch`: the names; the size queries follow under the same lock), stamps its
list with the time at which it stores it, and returns. The lock of the cache is never
kept over an await and needs no owner. The lock of the pools is reduced to its owner,
because every task here is a writer; `ToolServer` has it with its queue. The checks of
the key and of the availability are those of `ToolServer`. `clear_cache` does not take
the lock of the pools, so a fill that has read its list stores it after the clear:
`overlapped` is the history of these fills.

### The small components

- `TtlCache`: every method is one critical section, hence one action. Entries are
  records without their value; equal instants leave the choice of the oldest open.
  `new` is an action, so that all capacities and times to live are in one run.
- `Retry`: one action per way an attempt can end (`Succeed`, `FailForGood`,
  `FailForNow`), `Wake` after a pause and `GiveUp` after the loop. The code computes
  `initial * multiplier^attempt` in floating point and cuts it at the maximum; the model
  multiplies whole numbers. `errors` and `pauses` are histories.
- `MemoryTracker`: `usize` is `0 .. Word - 1`. `stats` loads and `reset` stores one
  counter per step. Owners remove what they added. `spoiled` names counters that were
  reset while something was in use: these wrap around later.
- `PoolStatistics`: `UsePool` is what sqlx may do to a pool between the two readings.
- `Configuration`: of a data source it keeps what validation tells apart. `validate` is
  part of loading, after the passwords were taken from the environment. `ServerConfig` is a
  public type, so a caller of the library may parse one itself (`ParseByCaller`), with
  `$VARIABLE` passwords as they are written, and may call `validate_and_filter` on it or on
  one it loaded; `origin` and `filtered` tell these ways apart. No code of the repository
  calls `validate_and_filter` but its tests.
- `FirstStatement`: a text is a sequence of kinds of characters, one action per arm of
  the `match`. The property defines the first statement without a scanner, as text cut
  into tokens (strings, escaped pairs, single characters).

## 3. Runs

| run | asks | instance |
|---|---|---|
| `requests_mixed` | lock, pools, checks, answers, refinement of `StatementService` | 3 calls of 6 kinds at once, or 1 of any well-formed shape; a data source of each permission level, 1 connection per pool, symmetric requests |
| `requests_answered` | is every call answered | 3 calls: listings on a data source that works, statements on one that may hang |
| `requests_isolation` | does a hanging listing stop calls to other data sources (violated) | 2 calls, 2 data sources |
| `requests_timeout` | does a timeout end the statement (violated) | 1 statement |
| `requests_levels` | does a level deny operations to every tool (violated) | 1 call of any well-formed shape, a data source of each permission level |
| `server_shutdown` | cleanup beside calls and monitoring, does it end | 2 calls, 2 data sources |
| `server_late_call` | are all pools closed after the cleanup (violated) | 1 call |
| `server_hung` | does `main` come to its end when a statement never ends (violated) | 1 statement |
| `server_handshake` | does a signal before the handshake start the shutdown (violated) | 1 call |
| `stream_shared` | chunks, cancellation, mutexes, panics, refinement of `RowDispenser` | 3 tasks, 3 rows, chunks of 2 or 0 |
| `stream_registry` | removal, `cancel_all`, handles, locks, dropped calls | 2 tasks, 2 streams |
| `library` | the seven small components, each by itself | see below |

Bounds. `Requests`: each request is made once; three are enough for one call at
work, one waiting behind it, and one that was given up on and still runs in MySQL.
`MaxConnections` is 1 in the request runs, so that a single abandoned statement
exhausts the pool, and 2 in the server runs. `MaxRows` bounds the names a listing
returns: 0 and 1 show a listing without and with follow-up queries. A third data
source or a second database adds pools that behave like the others, since nothing
but the key chooses a pool. Three rows in chunks of two make a full chunk, a partial
one and the end; with three tasks two readers and a canceller meet. Two streams make
`cancel_all` wait between them while the other task removes, cancels or registers.

`requests_mixed` is a sum of two kinds of behaviours: either calls of `MixedCalls`
compete for available data sources, or one call runs alone, with every combination of
arguments, wrong ones included, while `set_status` may come between any two of its steps
(`MixedNext`, which is `Next` with a guard on arrivals, and the constraint
`StatusChangesAlone`). What a step does is the same in both.

The run `library` is a sum: the initial states choose a component, and only that one
moves. Its bounds: two tasks, three versions and three ticks of time with a list valid
for one (two fills, a clear and a change between any two steps); three keys for
capacities 0, 1 and 2, times to live 0 and 1, four instants; retries with 0 to 4
attempts, pauses below, at and above the cap; words of 4 values with one byte in use
per kind, the smallest word in which the sum of three counters fits and a wrapped one
does not; pools of 2 connections; files of up to 2 data sources, usable ones and ones
with each fault that validation looks for; all texts of up to 5 characters of the 6 kinds, enough
for a quote of the other kind, or an escaped one, inside a string before a semicolon.
The components stop when their bounds are reached, so this run has no deadlock check.

Fairness. `TaskFairness`: the tokio runtime polls every task that can go on, and
its timers fire. `MySqlFairness`: only the data sources in `HealthyKeys` end their
statements; nothing is assumed of the others. The server run assumes the same of
`main`, the monitoring task and the loop of the service; nothing is assumed of the
client, of signals or of the monitoring timer. Strong fairness of a call on a stream, on
the stream manager and on the shared `ListTool` stands for the fairness of tokio's
mutexes and locks: a task that waits is not overtaken for ever. For the `ListTool` it
includes that MySQL answers or refuses a query, without which `requests_isolation` shows
what happens. `RetryFairness` is weak: the operation ends and timers fire. None of the
fairness conditions covers `SetStatus`, `Arrive`, `Clear`, `DropCall` or `DropList`.

`Rest` and `Gone` are the states in which the system rightly does nothing, so that
every other state without a successor is a deadlock that TLC reports.

### What the violated runs show

Each is a sentence of the repository's documents that the code does not keep; the
findings in `PROJECT.json` quote them.

- A timeout drops the future of the statement and does not tell MySQL. The
  statement may take effect after the client was told `QueryTimeout`.
- The write guard of all data sources is kept during queries, and only two tools
  have a time limit: a listing that hangs on one data source stops all.
- A call that waits for the lock during the cleanup gets it afterwards and opens a
  pool that nobody closes.
- An abandoned statement that never ends keeps its connection, and `Pool::close`
  waits for it: the cleanup does not end.
- `main` looks at the signal only after the handshake.
- The query tool asks for the level `query` whatever the statement is, so it carries out
  INSERT and DDL on data sources documented as read-only. `LevelLimitsExecute`, which
  holds, is the same claim for the execute tool.

Two more disagreements can be read off the model and have no run of their own.

- After the cleanup `main` returns into `#[tokio::main]` (`main.rs:19`, `:80`), and the
  runtime waits for the thread that reads stdin for `stdio()` (`main.rs:44`): the process
  stays until the client writes to stdin or closes it, where
  `docs/main-entry-point.md:93-98` has a signal stop the server. `Return` and `Exit` are
  two actions for this reason, and `ShutdownCompletes`, which holds, claims no more than
  that `main` comes to its end.
- `.kiro/specs/mysql-mcp-multi-datasource/requirements.md:149` and `design.md:699` beside
  it have `execute` reject every DDL statement; the code, and
  `docs/permission-control.md:88`, allow it on the level `ddl` (`ExecuteChecks`).

## 4. Theorems

Checked by TLAPS for every value of the constants that the named assumptions allow. For
`ToolServer` these are finitely many requests, any keys, permissions, calls, connections
and rows; `Server` adds that the other tasks are `main` and the monitoring task; for
the rest see below the table.

| theorem | module | states |
|---|---|---|
| `TypeCorrect` | `ToolServerProofs` | the types; managers exist for configured keys only |
| `GuardsFollowCalls` | `ToolServerProofs` | the live guards are those of the calls at work |
| `MutualExclusion` | `ToolServerProofs` | at most one call opens a pool or waits for MySQL |
| `PoolsAreUnique` | `ToolServerProofs` | no pool is opened twice |
| `CallsWaitInLine` | `ToolServerProofs` | a waiting call has one place in the line, a gone one none, and nobody overtakes |
| `AnswersAreHonest` | `ToolServerEffectProofs` | an answer is true of the effect of its statement |
| `ConnectionsAreBounded` | `ToolServerEffectProofs` | at most `max_connections` statements per pool, each awaited or timed out |
| `PermissionsAreRespected` | `ToolServerEffectProofs` | `execute` does nothing that the level of the data source denies |
| `RejectedCallsLeaveNoTrace` | `ToolServerEffectProofs` | a manager belongs to a call that was served |
| `ImplementsService` | `ToolServerEffectProofs` | refinement of `StatementService` |
| `MutexesFollowCalls` | `ResultStreamProofs` | the mutexes of a stream are held by the calls inside |
| `ChunksAreTheRows` | `ResultStreamProofs` | chunks partition the rows before the position |
| `CancelStopsChunks` | `ResultStreamProofs` | no chunk after a cancel has returned |
| `EndMeansEnd` | `ResultStreamProofs` | no end before the end, unless cancelled |
| `ImplementsDispenser` | `ResultStreamProofs` | refinement of `RowDispenser` |
| `StreamTypes` | `ResultStreamProofs` | the types of a stream |
| `StreamWaitsEnd` | `ResultStreamProofs` | who waits for a mutex waits for a call that can go on |
| `ServerTypes` | `ServerProofs` | the types of the process |
| `CleanupExcludesCalls` | `ServerProofs` | no call is at work while the cleanup closes pools |
| `ClosedPoolsAreLeft` | `ServerProofs` | nothing runs on the pools that the cleanup closed |
| `AnswersAreHonestToTheEnd` | `ServerProofs` | answers stay true through the shutdown |
| `RequestPathInProcess` | `ServerProofs` | the invariants of the request path hold in the process around it |
| `ProcessImplementsService` | `ServerProofs` | the whole process refines `StatementService` |
| `ProcessWaitsInLine` | `ServerProofs` | the line of calls, cleanup and report together |
| `OnlyPeersStallProcess` | `ServerProofs` | when nothing can go on, nothing has to, or a peer is awaited: MySQL in one of two ways, or the client |
| `ManagerTypes` | `StreamManagerProofs` | the types of the manager |
| `ManagerLocksFollowCalls` | `StreamManagerProofs` | lock and mutexes are held by the calls inside |
| `RemovalClears` | `StreamManagerProofs` | what has left the map is cleared |
| `CancelAllCompletes` | `StreamManagerProofs` | `cancel_all` misses no stream |
| `ManagerCallsWaitInLine` | `StreamManagerProofs` | the same line, with dropped calls |
| `ManagerWaitsAreShort` | `StreamManagerProofs` | two waits at most separate a call from one that can go on |
| `ListsStayNewest` | `LibraryProofs` | no call returns a list older than one returned before |
| `ClearsLast` | `LibraryProofs` | a clear lasts, but for an overlapping fill |
| `CacheFitsCapacity` | `LibraryProofs` | the bound of `TtlCache` |
| `EvictionSparesLive` | `LibraryProofs` | live entries go only when nothing has expired |
| `RetriesStayHonest` | `LibraryProofs` | retries, pauses and the error returned |
| `CountersStayExact` | `LibraryProofs` | counters are what is in use, and sums do not overflow |
| `ReportsStayPlausible` | `LibraryProofs` | a report counts no more than the pool may have |
| `RunsWithUsableSources` | `LibraryProofs` | what the server loads is valid and its passwords resolved; what a caller filters is valid; keys are unique |
| `LibraryTypes`, `LibraryKeepsPromises` | `LibraryProofs` | all of these hold of the sum that the run `library` checks |
| `ScanStaysInText` | `FirstStatementProofs` | the types of the scanner, which never leaves its text |
| `FirstStatementFound` | `FirstStatementProofs` | the first statement ends where the tokens of the text say |

Of `ResultStream` natural numbers of rows and chunk sizes (0 included) are assumed, of it
and of `StreamManager` and `DatabaseListCache` that `"free"` is no task. `TtlCache` has natural
times and capacities. `Retry` takes any configuration with a natural multiplier; that its
powers are natural numbers is part of its assumption, since exponentiation is defined by a
recursion the prover does not unfold. `MemoryTracker` assumes that what is in use fits in
a word, all three kinds together. A pool has at least one connection. `Configuration`
takes files of any length over any set of data sources (`FileSourcesAssumption` says that
these are data sources), and `FirstStatement` texts of any length.

The inductive invariant of the request path has these parts. `TypeInv` adds to the
types what is known of the arguments of a call past its checks: its key is configured
(`AdmittedNamesSource`, from the checks of each tool), it is no local tool. `LockInv`
says that a write guard is alone and that the live guards are those of the calls at
work; mutual exclusion follows, because a call at work has a write guard. `PoolInv`
adds that a call that is connecting finds its pool absent, which is preserved only
because no other call is at work: it needs mutual exclusion.

`EffectInv` relates, per request, where its task is, what MySQL did with its statement
and what was answered: nothing is sent before the lock, a statement that runs or is
about to be sent has not been carried out, one that is awaited and done was carried
out once, and a statement that runs without being awaited was answered `QueryTimeout`.
It is needed because `AnswerTellsEffect` says nothing of a call between the execution
and its answer. A step of one request keeps it for all others (`StepIsLocal`,
`EffectLocal`), so each action is looked at for its own request only. The bound on
connections, the permissions and the traces of rejected calls follow from it with one
more conjunct each (`BusyBounded`, `PermissionKept`, the property itself).

The refinement maps `serving` to the call at work, which mutual exclusion makes unique
(`ServingIs`). Granting the lock is `Begin`, replying under it is `End`, carrying out a
statement is `TakeEffect`, before or after a timeout; opening a pool, sending and the
follow-up queries are stutters.

For a stream, `FlagsAgree` says that cleared rows imply the flag and that a returned
cancel has cleared them: a reader that passed the flag's check then finds no row left.
`WholeChunks` (the position is a whole number of chunks, or the end) gives the chunk
numbers, which the code computes by a division.

For the process, `CleanupHasGuard` and `ClosedByCleanup` are added to the invariant of the
calls: the cleanup closes pools only with its read guard in hand, which excludes the write
guard of every call at work, and no pool is closed before. A late call may reopen the map
for a new pool, but `ClosePool` marks a pool only when its statements are over, and no
step sends one on a closed pool. The steps of calls are taken over from the proofs of
`ToolServer`; the ones of the process only touch the queue, the guards and the pools.
`StepOrAside` says so once: a step of the process is one of the request path or leaves
requests, statements and managers alone, no pool being opened. With it the invariants of
the request path and its refinement carry over to the process
(`RequestPathInProcess`, `ProcessImplementsService`): the shutdown takes answers away, it
does not change them.

Who waits for the lock stands in a line, and a ticket in it whose task was dropped would
keep the lock from all others for ever. `LineInv` says that the tickets of calls in the line
are those of the calls that wait, each once; `KeepsOrder`, of a step, that nobody who stays
has somebody new before him. Both rest on facts about joining, serving and leaving a line
(`FairRwLockProofs`), and `WaitInv` adds the tickets and guards of the cleanup and of the
monitoring task, whose abort may come at any await.

From these follows what can block. `Stalled` is a process in which no task can go on, told
by the guards of the steps (`CallReady`, `MainReady`, `MonitorReady`) since ENABLED is out of
the prover's reach. `OnlyPeersStall`: such a process has nothing to do, or a call waits for
a query that no timer limits, or the cleanup waits for a statement that its caller gave up
on, or `main` has returned and the process waits for its read of stdin. `requests_isolation`
and `server_hung` show the first two waits, and `ShutdownCompletes` has to except the
third; the theorem says that there is no fourth.

For the stream manager, `WorkInv` says of a `cancel_all` under way that every stream of
the map is cleared, still to come, or in hand; with the write lock held (`LocksFollowCalls`)
nobody registers one meanwhile. `RemovedIsCleared` is inductive with it.

`ShortWaits` and, for one stream, `WaitsEndAtOnce` exclude circles of waits. A holder of a
stream's mutex waits for nobody, a holder of the map's lock waits for a mutex at most, and
who stands in the line waits for the lock or for its head. This is the part of "holding the
lock over a cancellation blocks nobody" that needs no fairness; that the wait ends is
checked by the runs.

For the shared `ListTool`, `FillInv` says that a list in the hands of a fill is at least as
new as what is cached and what was returned: it was read under the lock of the pools, so
no other fill can store in between. `BoundInv` bounds all lists by the source's version.
For the retry loop, `LoopInv` counts errors and pauses by the attempt; for the tracker,
`SumInv` bounds what has been loaded by what may be in use.

For the configuration, `LoadInv` says what each phase has made sure of: known passwords
after they were resolved; after the validation of a file data sources that are valid with
known passwords, at least one, with unique keys; after a filter only valid ones.
`validate_and_filter` takes the valid positions in their order, stated in the model as the
increasing map onto them, so that no recursion is needed to say what is left of a list; the
map is one-to-one, which keeps the keys of a loaded list unique, and onto every position
when all are valid, which keeps it from becoming empty.

For the first statement the definition without a scanner cuts the text into tokens.
`ScanInv` says where the scanner is: at a cut, behind an escaping backslash or inside a
string that began at a cut, and that no semicolon it passed ends a statement. At the end
two readings meet, the scanner's and the definition's. Tokens that begin at the same place
are equal, so two readings of one text have the same cuts as far as the shorter one goes;
the least cut at which they differ gives a contradiction (`Least`, `Greatest`, from the
library's `WFMin`, which unlike the induction theorems has no operator for a parameter).

The sum `LibrarySpec` implies the specification of each component (`LibraryParts`), because
a step of one leaves the variables of the others alone.

Only model-checked, because it is beyond the prover: liveness, which needs fairness and
ENABLED (calls are answered, the process ends, locks are passed on, retries end). Every
invariant and every action property of the passing runs is stated by a theorem.

## 5. Not modelled

- The reconnection task of `DataSourceManager`: the server does not start it, and it only
  reads the unavailable keys and logs them. `src/README.md` (lines 13, 330 and 334) speaks
  of automatic retries and reconnection; in the code only tests call `retry_with_backoff`,
  nothing but tests sets a status, and `ToolServer` accordingly has neither.
- The requirements (`.kiro/specs/mysql-mcp-multi-datasource/requirements.md`, line 29) let
  the server skip an invalid data source; `Configuration` shows the code's `validate`
  refusing the whole file.
- Whether the server should end when its client closes stdin: `Server` models that it
  waits for a signal.
- `is_ddl_statement` is the class of a statement in `ToolServer`; its prefix test is not
  modelled character by character. Comments and back-quoted names, which
  `extract_first_statement` does not recognise, are letters in `FirstStatement`.
- `get_connection`, `health_check`, `has_pool` of the pools, `estimate_*` of `memory.rs` and
  the read-only accessors, which nothing in the server calls or which change nothing.
- In the server every call makes its own `ListTool`, so a shared cache is reached only by
  other users of the library; `DatabaseListCache` is not composed with `ToolServer`.

Left out for good: sqlx, rmcp and tokio beyond what the code relies on; logging and
sanitizing, which keep no state; the generation of the tool list.
