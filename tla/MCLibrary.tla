------------------------------ MODULE MCLibrary ------------------------------
(***************************************************************************)
(* The components that share no state with the server or with each other,  *)
(* checked side by side: every behaviour is one of one component, and the  *)
(* others keep their initial states.                                       *)
(***************************************************************************)
EXTENDS DatabaseListCache, TtlCache, Retry, MemoryTracker, PoolStatistics,
        Configuration, FirstStatement

VARIABLE component

libraryVars == <<component, listVars, ttlVars, retryVars, memoryVars, poolVars,
                 configVars, scanVars>>

LibraryInit ==
    /\ component \in {"lists", "ttl", "retry", "memory", "pool", "config", "scan"}
    /\ ListInit /\ TtlInit /\ RetryInit /\ MemoryInit /\ PoolInit /\ ConfigInit
    /\ ScanInit

Only(c) ==
    /\ component = c
    /\ UNCHANGED component
    /\ IF c = "lists" THEN TRUE ELSE UNCHANGED listVars
    /\ IF c = "ttl" THEN TRUE ELSE UNCHANGED ttlVars
    /\ IF c = "retry" THEN TRUE ELSE UNCHANGED retryVars
    /\ IF c = "memory" THEN TRUE ELSE UNCHANGED memoryVars
    /\ IF c = "pool" THEN TRUE ELSE UNCHANGED poolVars
    /\ IF c = "config" THEN TRUE ELSE UNCHANGED configVars
    /\ IF c = "scan" THEN TRUE ELSE UNCHANGED scanVars

LibraryNext ==
    \/ Only("lists") /\ ListNext
    \/ Only("ttl") /\ TtlNext
    \/ Only("retry") /\ RetryNext
    \/ Only("memory") /\ MemoryNext
    \/ Only("pool") /\ PoolNext
    \/ Only("config") /\ ConfigNext
    \/ Only("scan") /\ ScanNext

LibrarySpec ==
    /\ LibraryInit /\ [][LibraryNext]_libraryVars
    /\ ListFairness /\ RetryFairness

\* Each component keeps its types and the conditions that go with them.
LibraryTypeOK ==
    /\ ListTypeOK /\ TtlTypeOK /\ RetryTypeOK /\ MemoryTypeOK /\ PoolTypeOK
    /\ ConfigTypeOK /\ ScanTypeOK

\* A caller of list_databases or of retry_with_backoff gets an answer, though a
\* fill keeps the pools locked and an operation may fail every time.
LibraryCallsReturn == ListCallsReturn /\ RetryEnds

-----------------------------------------------------------------------------
RetryCase(attempts, initial, cap, multiplier) ==
    [max_attempts |-> attempts, initial_backoff_ms |-> initial,
     max_backoff_ms |-> cap, backoff_multiplier |-> multiplier]

\* The default of the code in seconds, none and a single attempt, a first pause
\* above the cap, and a multiplier that keeps the pauses as they are.
MCRetryConfigs ==
    {RetryCase(3, 1, 4, 2), RetryCase(4, 1, 3, 2), RetryCase(0, 1, 4, 2),
     RetryCase(1, 1, 4, 2), RetryCase(2, 5, 4, 2), RetryCase(3, 2, 4, 1)}

MCErrorKinds == {"ConnectionFailed", "NetworkError", "PoolError",
                 "DataSourceUnavailable", "QueryTimeout", "AuthenticationError"}

\* A usable data source, and others that differ from it in one field or two.
MCFileSources ==
    {ds \in [key : {"", "a", "b"}, blank : {"none", "host", "port", "username"},
             password : Passwords, max_connections : {0, 1},
             min_connections : {0, 1, 2}] :
       /\ ds.blank # "none" => ds.password = "given" /\ ds.max_connections = 1
       /\ ds.key = "" => ds.password = "given"
       /\ ds.password # "given" => ds.max_connections = 1 /\ ds.min_connections = 1}
=============================================================================
