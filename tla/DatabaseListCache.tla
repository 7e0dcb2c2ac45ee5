-------------------------- MODULE DatabaseListCache --------------------------
(***************************************************************************)
(* list_databases of a ListTool that several tasks share: a list of        *)
(* databases is served from the cache for `cache_duration`, or read from   *)
(* the server and stored.  A fill keeps the write lock of `pool_managers`  *)
(* from before its query until its list is in the cache; clear_cache needs *)
(* only the lock of the cache, which nobody keeps over an await.  A list   *)
(* is the version of the data source it was read from.                     *)
(***************************************************************************)
EXTENDS Naturals

CONSTANTS
    Callers,        \* the tasks that share the tool
    ListedSources,  \* the keys of the data sources
    CacheDuration,  \* cache_duration, in ticks
    MaxVersion,     \* bound: how often a data source changes
    MaxListTime     \* bound: the last tick

ASSUME CallersAssumption == "free" \notin Callers

VARIABLES
    version,        \* the databases there are: their version, per data source
    listTime,       \* Instant::now()
    databaseCache,  \* the lists in the cache, a set of entries
    poolsOwner,     \* the task with the write lock of pool_managers, or "free"
    listPc,         \* where each task is in list_databases, "idle" outside
    listKey,        \* the data source of its call
    listRead,       \* the list its query has read
    answer,         \* the lists its last call returned: one, or none
    shown,          \* history: the newest list returned so far, per source
    atCall,         \* history: `shown` when the task's call began
    clearedAt,      \* history: the version at the last clear of the source
    overlapped      \* history: sources cleared while a fill had read its list

listHistory == <<shown, atCall, clearedAt, overlapped>>
listVars == <<version, listTime, databaseCache, poolsOwner, listPc, listKey,
              listRead, answer, listHistory>>

ListEntry == [key : ListedSources, list : Nat, at : Nat]

ListInit ==
    /\ version = [k \in ListedSources |-> 0]
    /\ listTime = 0
    /\ databaseCache = {}
    /\ poolsOwner = "free"
    /\ listPc = [t \in Callers |-> "idle"]
    /\ listKey = [t \in Callers |-> "none"]
    /\ listRead = [t \in Callers |-> 0]
    /\ answer = [t \in Callers |-> {}]
    /\ shown = [k \in ListedSources |-> 0]
    /\ atCall = [t \in Callers |-> 0]
    /\ clearedAt = [k \in ListedSources |-> 0]
    /\ overlapped = {}

CachedFor(k) == {e \in databaseCache : e.key = k}

CallList(t, k) ==
    /\ listPc[t] = "idle"
    /\ listPc' = [listPc EXCEPT ![t] = "lookup"]
    /\ listKey' = [listKey EXCEPT ![t] = k]
    /\ answer' = [answer EXCEPT ![t] = {}]
    /\ atCall' = [atCall EXCEPT ![t] = shown[k]]
    /\ UNCHANGED <<version, listTime, databaseCache, poolsOwner, listRead, shown,
                   clearedAt, overlapped>>

ReturnList(t, list) ==
    /\ listPc' = [listPc EXCEPT ![t] = "idle"]
    /\ answer' = [answer EXCEPT ![t] = {list}]
    /\ shown' = [shown EXCEPT ![listKey[t]] = IF list > @ THEN list ELSE @]

ReturnNothing(t) ==
    /\ listPc' = [listPc EXCEPT ![t] = "idle"]
    /\ UNCHANGED <<answer, shown>>

\* timestamp.elapsed() < cache_duration
Servable(e) == listTime - e.at < CacheDuration

Hit(t) ==
    /\ listPc[t] = "lookup"
    /\ \E e \in CachedFor(listKey[t]) : Servable(e) /\ ReturnList(t, e.list)
    /\ UNCHANGED <<version, listTime, databaseCache, poolsOwner, listKey, listRead,
                   atCall, clearedAt, overlapped>>

Miss(t) ==
    /\ listPc[t] = "lookup"
    /\ \A e \in CachedFor(listKey[t]) : ~Servable(e)
    /\ listPc' = [listPc EXCEPT ![t] = "pools"]
    /\ UNCHANGED <<version, listTime, databaseCache, poolsOwner, listKey, listRead,
                   answer, listHistory>>

LockPools(t) ==
    /\ listPc[t] = "pools"
    /\ poolsOwner = "free"
    /\ poolsOwner' = t
    /\ listPc' = [listPc EXCEPT ![t] = "query"]
    /\ UNCHANGED <<version, listTime, databaseCache, listKey, listRead, answer,
                   listHistory>>

\* Mutant: the lock of the pools is released with the rows in hand.
FetchAndUnlock(t) ==
    /\ listPc[t] = "query"
    /\ listRead' = [listRead EXCEPT ![t] = version[listKey[t]]]
    /\ listPc' = [listPc EXCEPT ![t] = "store"]
    /\ poolsOwner' = "free"
    /\ UNCHANGED <<version, listTime, databaseCache, listKey, answer, listHistory>>

\* The names are read; the queries for the sizes follow under the same lock.
Fetch(t) ==
    /\ listPc[t] = "query"
    /\ listRead' = [listRead EXCEPT ![t] = version[listKey[t]]]
    /\ listPc' = [listPc EXCEPT ![t] = "store"]
    /\ UNCHANGED <<version, listTime, databaseCache, poolsOwner, listKey, answer,
                   listHistory>>

\* Mutant: `?` returns with the lock in another task's hands.
FetchFailsLocked(t) ==
    /\ listPc[t] = "query"
    /\ ReturnNothing(t)
    /\ UNCHANGED <<version, listTime, databaseCache, poolsOwner, listKey, listRead,
                   atCall, clearedAt, overlapped>>

\* No pool, or the query fails: nothing is stored.
FetchFails(t) ==
    /\ listPc[t] = "query"
    /\ poolsOwner' = "free"
    /\ ReturnNothing(t)
    /\ UNCHANGED <<version, listTime, databaseCache, listKey, listRead, atCall,
                   clearedAt, overlapped>>

\* The entry is stamped now, not when its list was read.
Store(t) ==
    /\ listPc[t] = "store"
    /\ databaseCache' = (databaseCache \ CachedFor(listKey[t]))
                          \cup {[key |-> listKey[t], list |-> listRead[t],
                                 at |-> listTime]}
    /\ poolsOwner' = IF poolsOwner = t THEN "free" ELSE poolsOwner
    /\ ReturnList(t, listRead[t])
    /\ UNCHANGED <<version, listTime, listKey, listRead, atCall, clearedAt,
                   overlapped>>

\* The future of a call is dropped at an await, and its guard with it.
DropList(t) ==
    /\ listPc[t] # "idle"
    /\ poolsOwner' = IF poolsOwner = t THEN "free" ELSE poolsOwner
    /\ ReturnNothing(t)
    /\ UNCHANGED <<version, listTime, databaseCache, listKey, listRead, atCall,
                   clearedAt, overlapped>>

FillHasRead(k) == \E t \in Callers : listPc[t] = "store" /\ listKey[t] = k

\* Mutant: only what would not be served any more is removed.
ClearNotServable(keys) ==
    /\ databaseCache' = {e \in databaseCache : e.key \notin keys \/ Servable(e)}
    /\ clearedAt' = [k \in ListedSources |->
                        IF k \in keys THEN version[k] ELSE clearedAt[k]]
    /\ overlapped' = (overlapped \ keys) \cup {k \in keys : FillHasRead(k)}
    /\ UNCHANGED <<version, listTime, poolsOwner, listPc, listKey, listRead,
                   answer, shown, atCall>>

\* clear_cache of one source, or clear_all_caches.
Clear(keys) ==
    /\ databaseCache' = {e \in databaseCache : e.key \notin keys}
    /\ clearedAt' = [k \in ListedSources |->
                        IF k \in keys THEN version[k] ELSE clearedAt[k]]
    /\ overlapped' = (overlapped \ keys) \cup {k \in keys : FillHasRead(k)}
    /\ UNCHANGED <<version, listTime, poolsOwner, listPc, listKey, listRead,
                   answer, shown, atCall>>

\* Databases are created and dropped, and time passes.
ChangeDatabases(k) ==
    /\ version[k] < MaxVersion
    /\ version' = [version EXCEPT ![k] = @ + 1]
    /\ UNCHANGED <<listTime, databaseCache, poolsOwner, listPc, listKey, listRead,
                   answer, listHistory>>

ListTick ==
    /\ listTime < MaxListTime
    /\ listTime' = listTime + 1
    /\ UNCHANGED <<version, databaseCache, poolsOwner, listPc, listKey, listRead,
                   answer, listHistory>>

ListStep(t) ==
    \/ Hit(t) \/ Miss(t) \/ LockPools(t) \/ Fetch(t) \/ FetchFails(t) \/ Store(t)

ListNext ==
    \/ \E t \in Callers, k \in ListedSources : CallList(t, k)
    \/ \E t \in Callers : ListStep(t) \/ DropList(t)
    \/ \E k \in ListedSources : Clear({k}) \/ ChangeDatabases(k)
    \/ Clear(ListedSources)
    \/ ListTick

ListSpec == ListInit /\ [][ListNext]_listVars

\* The lock of the pools is fair and the server answers or refuses a query.
ListFairness == \A t \in Callers : SF_listVars(ListStep(t))

-----------------------------------------------------------------------------
ListTypeOK ==
    /\ version \in [ListedSources -> Nat]
    /\ listTime \in Nat
    /\ databaseCache \subseteq ListEntry
    /\ \A e, f \in databaseCache : e.key = f.key => e = f
    /\ \A e \in databaseCache : e.at <= listTime /\ e.list <= version[e.key]
    /\ poolsOwner \in Callers \cup {"free"}
    /\ \A t \in Callers : listPc[t] \in {"query", "store"} <=> poolsOwner = t
    /\ listPc \in [Callers -> {"idle", "lookup", "pools", "query", "store"}]
    /\ listKey \in [Callers -> ListedSources \cup {"none"}]
    /\ \A t \in Callers : listPc[t] # "idle" => listKey[t] \in ListedSources
    /\ listRead \in [Callers -> Nat]
    /\ answer \in [Callers -> SUBSET Nat]
    /\ shown \in [ListedSources -> Nat]
    /\ atCall \in [Callers -> Nat]
    /\ clearedAt \in [ListedSources -> Nat]
    /\ overlapped \subseteq ListedSources

\* A call never returns a list older than one that some call returned before it
\* began, whoever reads, fills, clears or gives up in between: the lock that a
\* fill keeps until it has stored its list keeps an older one from coming last.
ListsNeverGoBack ==
    \A t \in Callers : \A list \in answer[t] : list >= atCall[t]

\* After a clear the cache holds no list older than the clear, except one whose
\* fill had already read it when the cache was cleared.
ClearIsLasting ==
    \A e \in databaseCache :
        e.key \in overlapped \/ e.list >= clearedAt[e.key]

\* Every call returns, though a fill keeps the pools locked over its queries.
ListCallsReturn == \A t \in Callers : listPc[t] # "idle" ~> listPc[t] = "idle"
=============================================================================
