---------------------------- MODULE LibraryProofs ----------------------------
(***************************************************************************)
(* Theorems about DatabaseListCache, TtlCache, Retry, MemoryTracker,       *)
(* PoolStatistics and Configuration, for every number of tasks and data    *)
(* sources, every capacity, retry configuration, word size, number of      *)
(* connections and file; and what they say together, with those about      *)
(* FirstStatement, of the components put side by side in MCLibrary.        *)
(***************************************************************************)
EXTENDS MCLibrary, FirstStatementProofs, FiniteSetTheorems, TLAPS

-----------------------------------------------------------------------------
(* DatabaseListCache                                                       *)

\* The cached list of a source is at least as new as what was returned of it.
CacheInv ==
    \A e \in databaseCache : shown[e.key] <= e.list

\* A fill that has read its list holds the newest one: neither what is cached
\* nor what was returned meanwhile is newer, and only a clear that overlaps with
\* it may be.
FillInv ==
    \A t \in Callers : listPc[t] = "store" =>
        /\ shown[listKey[t]] <= listRead[t]
        /\ listRead[t] <= version[listKey[t]]
        /\ \A e \in CachedFor(listKey[t]) : e.list <= listRead[t]
        /\ listKey[t] \in overlapped \/ listRead[t] >= clearedAt[listKey[t]]

\* Nothing returned or cleared is newer than the source, and a call began with
\* no more shown than there is now.
BoundInv ==
    /\ \A k \in ListedSources : shown[k] <= version[k] /\ clearedAt[k] <= version[k]
    /\ \A t \in Callers : listPc[t] # "idle" => atCall[t] <= shown[listKey[t]]

\* The inductive invariant: the properties and what they rest on.
ListInv ==
    /\ ListTypeOK /\ CacheInv /\ FillInv /\ BoundInv
    /\ ListsNeverGoBack /\ ClearIsLasting

\* A new tool has cached nothing.
LEMMA ListInvInit == ListInit => ListInv
  BY CallersAssumption
     DEF ListInit, ListInv, ListTypeOK, CacheInv, FillInv, BoundInv,
         ListsNeverGoBack, ClearIsLasting

\* Every step keeps the types, and the lock of the pools with the fills.
LEMMA ListTypeStep == ListInv /\ [ListNext]_listVars => ListTypeOK'
<1> SUFFICES ASSUME ListInv, [ListNext]_listVars PROVE ListTypeOK'
  OBVIOUS
<1> USE CallersAssumption DEF ListInv
<1>1. CASE UNCHANGED listVars
  BY <1>1 DEF listVars, listHistory, ListTypeOK
<1>2. ASSUME NEW t \in Callers, NEW k \in ListedSources, CallList(t, k)
      PROVE  ListTypeOK'
  BY <1>2 DEF CallList, ListTypeOK
<1>3. ASSUME NEW t \in Callers, Hit(t) PROVE ListTypeOK'
  BY <1>3 DEF Hit, ReturnList, CachedFor, ListEntry, ListTypeOK
<1>4. ASSUME NEW t \in Callers, Miss(t) \/ LockPools(t) \/ Fetch(t) PROVE ListTypeOK'
  BY <1>4 DEF Miss, LockPools, Fetch, listHistory, ListTypeOK
<1>5. ASSUME NEW t \in Callers, FetchFails(t) \/ DropList(t) PROVE ListTypeOK'
  BY <1>5 DEF FetchFails, DropList, ReturnNothing, ListTypeOK
<1>6. ASSUME NEW t \in Callers, Store(t) PROVE ListTypeOK'
  <2> DEFINE stored == [key |-> listKey[t], list |-> listRead[t], at |-> listTime]
  <2>1. databaseCache' \subseteq ListEntry
    BY <1>6 DEF Store, CachedFor, ListEntry, ListTypeOK
  <2>2. \A e \in databaseCache' : e = stored \/ (e \in databaseCache /\ e.key # stored.key)
    <3>1. stored.key = listKey[t]
      OBVIOUS
    <3>2. databaseCache' = (databaseCache \ CachedFor(stored.key)) \cup {stored}
      BY <1>6, <3>1 DEF Store
    <3> HIDE DEF stored
    <3> QED BY ONLY <3>2 DEF CachedFor
  <2>3. stored.at = listTime /\ stored.list <= version[stored.key]
    BY <1>6 DEF Store, FillInv
  <2>4. \A e \in databaseCache' : e.at <= listTime /\ e.list <= version[e.key]
    BY <2>2, <2>3 DEF ListTypeOK
  <2>5. \A e, f \in databaseCache' : e.key = f.key => e = f
    BY <2>2 DEF ListTypeOK
  <2> HIDE DEF stored
  <2> QED BY <1>6, <2>1, <2>4, <2>5 DEF Store, ReturnList, ListTypeOK
<1>7. ASSUME NEW keys \in SUBSET ListedSources, Clear(keys) PROVE ListTypeOK'
  BY <1>7 DEF Clear, ListTypeOK
<1>8. ASSUME NEW k \in ListedSources, ChangeDatabases(k) PROVE ListTypeOK'
  BY <1>8 DEF ChangeDatabases, listHistory, ListEntry, ListTypeOK
<1>9. CASE ListTick
  BY <1>9 DEF ListTick, listHistory, ListEntry, ListTypeOK
<1> QED BY <1>1, <1>2, <1>3, <1>4, <1>5, <1>6, <1>7, <1>8, <1>9
        DEF ListNext, ListStep

\* Every step keeps the cache and the fills as new as what was returned.
LEMMA ListNewestStep ==
    ListInv /\ [ListNext]_listVars => CacheInv' /\ FillInv' /\ BoundInv'
<1> SUFFICES ASSUME ListInv, [ListNext]_listVars
             PROVE  CacheInv' /\ FillInv' /\ BoundInv'
  OBVIOUS
<1> USE CallersAssumption DEF ListInv
<1>1. CASE UNCHANGED listVars
  BY <1>1
     DEF listVars, listHistory, CachedFor, CacheInv, FillInv, BoundInv
<1>2. ASSUME NEW t \in Callers, NEW k \in ListedSources, CallList(t, k)
      PROVE  CacheInv' /\ FillInv' /\ BoundInv'
  BY <1>2 DEF CallList, CachedFor, ListTypeOK, CacheInv, FillInv, BoundInv
<1>3. ASSUME NEW t \in Callers, Hit(t) PROVE CacheInv' /\ FillInv' /\ BoundInv'
  BY <1>3 DEF Hit, ReturnList, CachedFor, ListEntry, ListTypeOK, CacheInv,
     FillInv, BoundInv
<1>4. ASSUME NEW t \in Callers, Miss(t) \/ LockPools(t)
      PROVE  CacheInv' /\ FillInv' /\ BoundInv'
  BY <1>4 DEF Miss, LockPools, CachedFor, listHistory, ListTypeOK, CacheInv,
     FillInv, BoundInv
<1>5. ASSUME NEW t \in Callers, Fetch(t) PROVE CacheInv' /\ FillInv' /\ BoundInv'
  BY <1>5 DEF Fetch, CachedFor, listHistory, ListEntry, ListTypeOK, CacheInv,
     FillInv, BoundInv
<1>6. ASSUME NEW t \in Callers, FetchFails(t) \/ DropList(t)
      PROVE  CacheInv' /\ FillInv' /\ BoundInv'
  BY <1>6 DEF FetchFails, DropList, ReturnNothing, CachedFor, ListTypeOK,
     CacheInv, FillInv, BoundInv
<1>7. ASSUME NEW t \in Callers, Store(t) PROVE CacheInv' /\ FillInv' /\ BoundInv'
  <2>1. listPc[t] = "store" /\ listKey[t] \in ListedSources
    BY <1>7 DEF Store, ListTypeOK
  <2>2. \A s \in Callers : listPc'[s] # "store"
    BY <1>7, <2>1 DEF Store, ReturnList, ListTypeOK
  <2>3. \A k \in ListedSources : shown'[k] <= version'[k] /\ shown[k] <= shown'[k]
    BY <1>7, <2>1 DEF Store, ReturnList, ListTypeOK, FillInv, BoundInv
  <2>4. shown'[listKey[t]] = listRead[t]
    BY <1>7, <2>1 DEF Store, ReturnList, ListTypeOK, FillInv
  <2>5. \A k \in ListedSources : k # listKey[t] => shown'[k] = shown[k]
    BY <1>7 DEF Store, ReturnList, ListTypeOK
  <2>6. CacheInv'
    BY <1>7, <2>1, <2>4, <2>5 DEF Store, CachedFor, ListEntry, ListTypeOK, CacheInv
  <2>7. BoundInv'
    BY <1>7, <2>3 DEF Store, ReturnList, ListTypeOK, BoundInv
  <2> QED BY <2>2, <2>6, <2>7 DEF FillInv
<1>8. ASSUME NEW keys \in SUBSET ListedSources, Clear(keys)
      PROVE  CacheInv' /\ FillInv' /\ BoundInv'
  BY <1>8 DEF Clear, FillHasRead, CachedFor, ListTypeOK, CacheInv, FillInv, BoundInv
<1>9. ASSUME NEW k \in ListedSources, ChangeDatabases(k)
      PROVE  CacheInv' /\ FillInv' /\ BoundInv'
  BY <1>9 DEF ChangeDatabases, listHistory, CachedFor, ListTypeOK, CacheInv,
     FillInv, BoundInv
<1>10. CASE ListTick
  BY <1>10 DEF ListTick, listHistory, CachedFor, CacheInv, FillInv, BoundInv
<1> QED BY <1>1, <1>2, <1>3, <1>4, <1>5, <1>6, <1>7, <1>8, <1>9, <1>10
        DEF ListNext, ListStep

\* Every step returns only what is new enough.
LEMMA ListAnswerStep == ListInv /\ [ListNext]_listVars => ListsNeverGoBack'
<1> SUFFICES ASSUME ListInv, [ListNext]_listVars PROVE ListsNeverGoBack'
  OBVIOUS
<1> USE DEF ListInv
<1>1. ASSUME UNCHANGED <<answer, atCall>> PROVE ListsNeverGoBack'
  BY <1>1 DEF ListsNeverGoBack
<1>2. ASSUME NEW t \in Callers, NEW k \in ListedSources, CallList(t, k)
      PROVE  ListsNeverGoBack'
  BY <1>2 DEF CallList, ListTypeOK, ListsNeverGoBack
<1>3. ASSUME NEW t \in Callers, Hit(t) PROVE ListsNeverGoBack'
  BY <1>3 DEF Hit, ReturnList, CachedFor, ListEntry, ListTypeOK, CacheInv,
     BoundInv, ListsNeverGoBack
<1>4. ASSUME NEW t \in Callers, Store(t) PROVE ListsNeverGoBack'
  BY <1>4 DEF Store, ReturnList, ListTypeOK, FillInv, BoundInv, ListsNeverGoBack
<1> QED BY <1>1, <1>2, <1>3, <1>4
        DEF listVars, listHistory, ListNext, ListStep, Miss, LockPools, Fetch,
            FetchFails, DropList, ReturnNothing, Clear, ChangeDatabases, ListTick

\* Every step caches only what no clear was meant for.
LEMMA ListClearStep == ListInv /\ [ListNext]_listVars => ClearIsLasting'
<1> SUFFICES ASSUME ListInv, [ListNext]_listVars PROVE ClearIsLasting'
  OBVIOUS
<1> USE DEF ListInv
<1>1. ASSUME UNCHANGED <<databaseCache, clearedAt, overlapped>> PROVE ClearIsLasting'
  BY <1>1 DEF ClearIsLasting
<1>2. ASSUME NEW t \in Callers, Store(t) PROVE ClearIsLasting'
  BY <1>2 DEF Store, CachedFor, ListTypeOK, FillInv, ClearIsLasting
<1>3. ASSUME NEW keys \in SUBSET ListedSources, Clear(keys) PROVE ClearIsLasting'
  BY <1>3 DEF Clear, ListEntry, ListTypeOK, ClearIsLasting
<1> QED BY <1>1, <1>2, <1>3
        DEF listVars, listHistory, ListNext, ListStep, CallList, Hit, Miss,
            LockPools, Fetch, FetchFails, DropList, ReturnNothing,
            ChangeDatabases, ListTick

\* ListInv holds in every state, whatever the tasks do.
LEMMA ListInvariant == ListSpec => []ListInv
<1>1. ListInv /\ [ListNext]_listVars => ListInv'
  BY ListTypeStep, ListNewestStep, ListAnswerStep, ListClearStep DEF ListInv
<1> QED BY ListInvInit, <1>1, PTL DEF ListSpec

\* No call of list_databases returns an older list than one returned before it
\* began: the write lock of pool_managers, kept over the whole fill, orders them.
THEOREM ListsStayNewest == ListSpec => []ListsNeverGoBack
<1>1. ListInv => ListsNeverGoBack
  BY DEF ListInv
<1> QED BY ListInvariant, <1>1, PTL

\* What clear_cache has removed does not come back, save by a fill that had
\* already read its list.
THEOREM ClearsLast == ListSpec => []ClearIsLasting
<1>1. ListInv => ClearIsLasting
  BY DEF ListInv
<1> QED BY ListInvariant, <1>1, PTL

-----------------------------------------------------------------------------
(* TtlCache                                                                *)

\* What is left of the entries when a new one for k is put among them.
Kept(k, evicted) == {e \in entries \ evicted : e.key # k}

\* Whatever is evicted, there is room for the new entry.
LEMMA InsertFits ==
    ASSUME TtlTypeOK, CapacityHolds, NEW k \in CacheKeys, insert(k)
    PROVE  IsFiniteSet(entries') /\ CapacityHolds'
<1> DEFINE made == [key |-> k, inserted_at |-> ttlTime]
<1>1. PICK evicted \in IF AtCapacity(k) /\ entries # {} THEN find_oldest_key ELSE {{}} :
         entries' = Kept(k, evicted) \cup {made}
  BY DEF insert, Kept
<1> HIDE DEF made
<1>2. IsFiniteSet(entries) /\ Cardinality(entries) \in Nat /\ max_capacity \in Nat
  BY FS_CardinalityType DEF TtlTypeOK
<1>3. Kept(k, evicted) \subseteq entries
  BY DEF Kept
<1>4. IsFiniteSet(Kept(k, evicted)) /\ Cardinality(Kept(k, evicted)) \in Nat
      /\ Cardinality(Kept(k, evicted)) <= Cardinality(entries)
  BY <1>2, <1>3, FS_Subset, FS_CardinalityType
<1>5. IsFiniteSet(entries') /\ Cardinality(entries') \in Nat
      /\ Cardinality(entries') <= Cardinality(Kept(k, evicted)) + 1
  BY <1>1, <1>4, FS_AddElement, FS_CardinalityType
<1>6. max_capacity' = max_capacity
  BY DEF insert
<1>7. ASSUME NEW d \in entries, d \notin Kept(k, evicted)
      PROVE  Cardinality(Kept(k, evicted)) + 1 <= Cardinality(entries)
  <2>1. Kept(k, evicted) \subseteq entries \ {d}
    BY <1>3, <1>7
  <2>2. IsFiniteSet(entries \ {d})
        /\ Cardinality(entries \ {d}) = Cardinality(entries) - 1
    BY <1>2, FS_RemoveElement
  <2>3. Cardinality(Kept(k, evicted)) <= Cardinality(entries \ {d})
    BY <2>1, <2>2, FS_Subset
  <2> QED BY <1>2, <1>4, <2>2, <2>3
<1>8. CASE k \in KeysOf(entries)
  <2>1. PICK d \in entries : d.key = k
    BY <1>8 DEF KeysOf
  <2>2. d \notin Kept(k, evicted)
    BY <2>1 DEF Kept
  <2>3. Cardinality(entries') <= Cardinality(entries)
    BY <1>2, <1>4, <1>5, <1>7, <2>2
  <2> QED BY <1>2, <1>5, <1>6, <2>3 DEF CapacityHolds
<1>9. CASE k \notin KeysOf(entries) /\ Cardinality(entries) < max_capacity
  BY <1>2, <1>4, <1>5, <1>6, <1>9 DEF CapacityHolds
<1>10. CASE k \notin KeysOf(entries) /\ Cardinality(entries) >= max_capacity
  <2>1. CASE entries = {}
    <3>1. Kept(k, evicted) = {} /\ Cardinality(Kept(k, evicted)) = 0
      BY <2>1, FS_EmptySet DEF Kept
    <3> QED BY <1>2, <1>5, <1>6, <3>1 DEF CapacityHolds
  <2>2. CASE entries # {}
    <3>1. PICK d \in entries : evicted = {d}
      BY <1>10, <2>2 DEF AtCapacity, find_oldest_key
    <3>2. d \notin Kept(k, evicted)
      BY <3>1 DEF Kept
    <3>3. Cardinality(entries') <= Cardinality(entries)
      BY <1>2, <1>4, <1>5, <1>7, <3>2
    <3> QED BY <1>2, <1>5, <1>6, <3>3 DEF CapacityHolds
  <2> QED BY <2>1, <2>2
<1> QED BY <1>2, <1>5, <1>8, <1>9, <1>10

\* Removing entries leaves no more of them.
LEMMA FewerFit ==
    ASSUME TtlTypeOK, CapacityHolds, entries' \subseteq entries,
           UNCHANGED max_capacity
    PROVE  IsFiniteSet(entries') /\ CapacityHolds'
<1>1. IsFiniteSet(entries) /\ Cardinality(entries) \in Nat /\ max_capacity \in Nat
  BY FS_CardinalityType DEF TtlTypeOK
<1>2. IsFiniteSet(entries') /\ Cardinality(entries') \in Nat
      /\ Cardinality(entries') <= Cardinality(entries)
  BY <1>1, FS_Subset, FS_CardinalityType
<1> QED BY <1>1, <1>2 DEF CapacityHolds

\* No method of the cache breaks its types or its bound.
LEMMA TtlStep ==
    TtlTypeOK /\ CapacityHolds /\ [TtlNext]_ttlVars => TtlTypeOK' /\ CapacityHolds'
<1> SUFFICES ASSUME TtlTypeOK, CapacityHolds, [TtlNext]_ttlVars
             PROVE  TtlTypeOK' /\ CapacityHolds'
  OBVIOUS
<1>1. ASSUME NEW duration \in Ttls, NEW capacity \in Capacities,
             new(duration, capacity)
      PROVE  TtlTypeOK' /\ CapacityHolds'
  <2>1. entries' = {} /\ Cardinality(entries') = 0 /\ IsFiniteSet(entries')
    BY <1>1, FS_EmptySet DEF new, TtlTypeOK
  <2>2. ttl' \in Nat /\ max_capacity' \in Nat /\ ttlTime' \in Nat
    BY <1>1, TtlAssumption DEF new, TtlTypeOK
  <2> QED BY <2>1, <2>2 DEF TtlTypeOK, CapacityHolds
<1>2. ASSUME NEW k \in CacheKeys, insert(k) PROVE TtlTypeOK' /\ CapacityHolds'
  <2>1. IsFiniteSet(entries') /\ CapacityHolds'
    BY <1>2, InsertFits
  <2> QED BY <1>2, <2>1 DEF insert, Called, CacheEntry, TtlTypeOK
<1>3. ASSUME NEW k \in CacheKeys, remove(k) PROVE TtlTypeOK' /\ CapacityHolds'
  <2>1. IsFiniteSet(entries') /\ CapacityHolds'
    BY <1>3, FewerFit DEF remove
  <2> QED BY <1>3, <2>1 DEF remove, Called, TtlTypeOK
<1>4. ASSUME clear \/ evict_expired PROVE TtlTypeOK' /\ CapacityHolds'
  <2>1. IsFiniteSet(entries') /\ CapacityHolds'
    BY <1>4, FewerFit DEF clear, evict_expired
  <2> QED BY <1>4, <2>1 DEF clear, evict_expired, Called, TtlTypeOK
<1>5. CASE TtlTick
  BY <1>5 DEF TtlTick, Called, CacheEntry, TtlTypeOK, CapacityHolds
<1>6. CASE UNCHANGED ttlVars
  BY <1>6 DEF ttlVars, TtlTypeOK, CapacityHolds
<1> QED BY <1>1, <1>2, <1>3, <1>4, <1>5, <1>6 DEF TtlNext

\* Both hold in every state of a cache.
LEMMA TtlInvariant == TtlSpec => [](TtlTypeOK /\ CapacityHolds)
<1>1. TtlInit => TtlTypeOK /\ CapacityHolds
  BY FS_EmptySet DEF TtlInit, TtlTypeOK, CapacityHolds
<1> QED BY <1>1, TtlStep, PTL DEF TtlSpec

\* TtlCache::insert never lets the cache outgrow its capacity, save by the one
\* entry of a cache of capacity 0.
THEOREM CacheFitsCapacity == TtlSpec => []CapacityHolds
BY TtlInvariant, PTL

\* The entry that TtlCache::insert evicts has expired before any other has.
THEOREM EvictionSparesLive == TtlSpec => NoLiveEntryLost
<1> DEFINE Spared ==
      \A e \in entries :
          ~is_expired(e) /\ e.key \notin KeysOf(entries') =>
             \/ lastOp' \in {"remove", "clear"}
             \/ /\ lastOp' = "insert"
                /\ Cardinality(entries) >= max_capacity
                /\ \A d \in entries : ~is_expired(d)
<1>1. TtlTypeOK /\ [TtlNext]_ttlVars => [Spared]_ttlVars
  <2> SUFFICES ASSUME TtlTypeOK, TtlNext, NEW e \in entries, ~is_expired(e),
                      e.key \notin KeysOf(entries')
               PROVE  \/ lastOp' \in {"remove", "clear"}
                      \/ /\ lastOp' = "insert"
                         /\ Cardinality(entries) >= max_capacity
                         /\ \A d \in entries : ~is_expired(d)
    OBVIOUS
  <2>1. e \notin entries'
    BY DEF KeysOf
  <2>2. ASSUME NEW k \in CacheKeys, insert(k)
        PROVE  /\ lastOp' = "insert"
               /\ Cardinality(entries) >= max_capacity
               /\ \A d \in entries : ~is_expired(d)
    <3> DEFINE made == [key |-> k, inserted_at |-> ttlTime]
    <3>1. PICK evicted \in
              IF AtCapacity(k) /\ entries # {} THEN find_oldest_key ELSE {{}} :
             entries' = Kept(k, evicted) \cup {made}
      BY <2>2 DEF insert, Kept
    <3>2. made \in entries' /\ made.key = k
      BY <3>1
    <3>3. k \in KeysOf(entries')
      BY <3>2 DEF KeysOf
    <3> HIDE DEF made
    <3>4. e \in evicted
      BY <2>1, <3>1, <3>3 DEF Kept
    <3>5. AtCapacity(k) /\ evicted \in find_oldest_key
      BY <3>1, <3>4
    <3>6. \A d \in entries : e.inserted_at <= d.inserted_at
      BY <3>4, <3>5 DEF find_oldest_key
    <3>7. \A d \in entries : ~is_expired(d)
      BY <3>6 DEF is_expired, TtlTypeOK, CacheEntry
    <3> QED BY <2>2, <3>5, <3>7 DEF insert, Called, AtCapacity
  <2>3. ASSUME NEW k \in CacheKeys, remove(k) PROVE lastOp' = "remove"
    BY <2>3 DEF remove, Called
  <2>4. CASE clear
    BY <2>4 DEF clear, Called
  <2>5. CASE evict_expired
    BY <2>1, <2>5 DEF evict_expired
  <2>6. ASSUME NEW duration \in Ttls, NEW capacity \in Capacities,
               new(duration, capacity)
        PROVE  FALSE
    BY <2>1, <2>6 DEF new
  <2>7. CASE TtlTick
    BY <2>1, <2>7 DEF TtlTick
  <2> QED BY <2>2, <2>3, <2>4, <2>5, <2>6, <2>7 DEF TtlNext
<1> QED BY <1>1, TtlInvariant, PTL DEF TtlSpec, NoLiveEntryLost, Spared

-----------------------------------------------------------------------------
(* Retry                                                                   *)

\* How the loop variable, the errors seen and the pauses made go together.
LoopInv ==
    /\ retryPc = "new" => config.max_attempts = 0 /\ pauses = <<>>
    /\ retryPc # "new" => config \in RetryConfigs
    /\ retryPc \in {"new", "call"} =>
          /\ Len(errors) = attempt
          /\ outcome = "none"
          /\ last_error = "none" <=> errors = <<>>
    /\ retryPc = "sleep" =>
          /\ attempt + 1 < config.max_attempts
          /\ Len(errors) = attempt + 1 /\ Len(pauses) = attempt + 1
          /\ outcome = "none"
    /\ retryPc = "call" =>
          Len(pauses) = IF attempt < config.max_attempts \/ attempt = 0
                        THEN attempt ELSE attempt - 1
    /\ retryPc \in {"call", "sleep"} =>
          \A i \in DOMAIN errors : is_transient(errors[i])
    /\ retryPc \in {"call", "sleep"} /\ errors # <<>> =>
          last_error = errors[Len(errors)]

\* The inductive invariant of the retry loop.
RetryInv == RetryTypeOK /\ LoopInv /\ RetriesAreHonest

\* Before the first attempt nothing has failed and nobody waits.
LEMMA RetryInvInit == RetryInit => RetryInv
  BY RetryAssumption
     DEF RetryInit, RetryInv, RetryTypeOK, LoopInv, RetryConfig,
         RetriesAreHonest, OutcomeIsHonest, PausesAreBounded

\* A pause is a number within the cap.
LEMMA BackoffCapped ==
    ASSUME RetryTypeOK, config \in RetryConfigs, attempt < config.max_attempts
    PROVE  /\ backoff_duration(attempt) \in Nat
           /\ backoff_duration(attempt) <= config.max_backoff_ms
<1>1. config \in RetryConfig /\ attempt \in 0 .. config.max_attempts
  BY DEF RetryTypeOK
<1>2. config.backoff_multiplier ^ attempt \in Nat
  BY <1>1, RetryAssumption
<1>3. config.initial_backoff_ms \in Nat /\ config.max_backoff_ms \in Nat
  BY <1>1 DEF RetryConfig
<1> DEFINE power == config.backoff_multiplier ^ attempt
<1>4. power \in Nat
  BY <1>2
<1>5. backoff_duration(attempt) =
         IF config.initial_backoff_ms * power < config.max_backoff_ms
         THEN config.initial_backoff_ms * power ELSE config.max_backoff_ms
  BY DEF backoff_duration
<1> HIDE DEF power
<1>6. config.initial_backoff_ms * power \in Nat
  BY <1>3, <1>4
<1> QED BY <1>3, <1>5, <1>6

\* Each way an attempt, a pause or the loop can end keeps the invariant.
LEMMA RetryStepKeeps == RetryInv /\ [RetryNext]_retryVars => RetryInv'
<1> SUFFICES ASSUME RetryInv, [RetryNext]_retryVars PROVE RetryInv'
  OBVIOUS
<1> USE RetryAssumption DEF RetryInv
<1>1. CASE UNCHANGED retryVars
  BY <1>1 DEF retryVars, RetryTypeOK, LoopInv, RetriesAreHonest, OutcomeIsHonest,
     PausesAreBounded
<1>2. ASSUME NEW c \in RetryConfigs, StartRetry(c) PROVE RetryInv'
  <2>1. RetryTypeOK'
    BY <1>2 DEF StartRetry, RetryTypeOK, LoopInv, RetryConfig
  <2>2. LoopInv'
    BY <1>2 DEF StartRetry, RetryTypeOK, LoopInv, RetryConfig
  <2>3. RetriesAreHonest'
    BY <1>2 DEF StartRetry, RetryTypeOK, LoopInv, RetryConfig,
       RetriesAreHonest, OutcomeIsHonest, PausesAreBounded
  <2> QED BY <2>1, <2>2, <2>3
<1>3. CASE Succeed
  <2>1. RetryTypeOK'
    BY <1>3 DEF Succeed, FinishRetry, RetryTypeOK
  <2>2. LoopInv'
    BY <1>3 DEF Succeed, Attempting, FinishRetry, LoopInv
  <2>3. RetriesAreHonest'
    BY <1>3 DEF Succeed, Attempting, FinishRetry, RetryTypeOK, LoopInv,
       RetryConfig, RetriesAreHonest, OutcomeIsHonest, PausesAreBounded
  <2> QED BY <2>1, <2>2, <2>3
<1>4. ASSUME NEW e \in ErrorKinds, FailForGood(e) PROVE RetryInv'
  <2>1. RetryTypeOK'
    BY <1>4 DEF FailForGood, FinishRetry, RetryTypeOK
  <2>2. LoopInv'
    BY <1>4 DEF FailForGood, Attempting, FinishRetry, LoopInv
  <2>3. /\ retryPc = "call" /\ attempt < config.max_attempts /\ ~is_transient(e)
        /\ errors' = Append(errors, e) /\ errors \in Seq(ErrorKinds)
        /\ retryPc' = "done" /\ outcome' = e /\ config' = config
        /\ pauses' = pauses
    BY <1>4 DEF FailForGood, Attempting, FinishRetry, RetryTypeOK
  <2>4. /\ Len(errors) = attempt /\ Len(pauses) = attempt
        /\ \A i \in DOMAIN errors : is_transient(errors[i])
    BY <2>3 DEF LoopInv
  <2>5. /\ Len(errors') = attempt + 1 /\ errors'[Len(errors')] = e
        /\ errors' # <<>> /\ attempt \in Nat
        /\ \A i \in DOMAIN errors' : i < Len(errors') => errors'[i] = errors[i]
                                                       /\ i \in DOMAIN errors
    BY <2>3, <2>4 DEF RetryTypeOK
  <2>6. OutcomeIsHonest'
    <3>1. e # "ok" /\ e # "panic" /\ config.max_attempts # 0
      BY <2>3, <2>5, RetryAssumption DEF RetryTypeOK, RetryConfig
    <3> QED BY <2>3, <2>4, <2>5, <3>1 DEF OutcomeIsHonest, is_transient
  <2>7. PausesAreBounded'
    <3>1. e # "ok"
      BY RetryAssumption
    <3> QED BY <2>3, <2>4, <2>5, <3>1 DEF RetriesAreHonest, PausesAreBounded
  <2> QED BY <2>1, <2>2, <2>6, <2>7 DEF RetriesAreHonest
<1>5. ASSUME NEW e \in ErrorKinds, FailForNow(e) PROVE RetryInv'
  <2>1. backoff_duration(attempt) \in Nat
        /\ backoff_duration(attempt) <= config.max_backoff_ms
    BY <1>5, BackoffCapped DEF FailForNow, Attempting, LoopInv
  <2>2. /\ errors' = Append(errors, e) /\ last_error' = e /\ is_transient(e)
        /\ e # "none" /\ outcome = "none" /\ outcome' = outcome
        /\ config' = config /\ retryPc = "call"
    BY <1>5 DEF FailForNow, Attempting, LoopInv
  <2>3. /\ errors \in Seq(ErrorKinds) /\ pauses \in Seq(Nat)
        /\ attempt \in Nat /\ config.max_attempts \in Nat
        /\ attempt < config.max_attempts
        /\ Len(errors) = attempt /\ Len(pauses) = attempt
    BY <1>5, <2>2 DEF FailForNow, Attempting, RetryTypeOK, RetryConfig, LoopInv
  <2>4. /\ Len(errors') = attempt + 1 /\ errors' # <<>>
        /\ errors'[Len(errors')] = e
        /\ \A i \in DOMAIN errors' : is_transient(errors'[i])
    <3>1. \A i \in DOMAIN errors : is_transient(errors[i])
      BY <2>2 DEF LoopInv
    <3>2. \A i \in DOMAIN errors' : \/ i \in DOMAIN errors /\ errors'[i] = errors[i]
                                   \/ errors'[i] = e
      BY <2>2, <2>3
    <3> QED BY <2>2, <2>3, <3>1, <3>2
  <2>5. CASE attempt + 1 < config.max_attempts
    <3>1. /\ retryPc' = "sleep" /\ attempt' = attempt
          /\ pauses' = Append(pauses, backoff_duration(attempt))
      BY <1>5, <2>3, <2>5 DEF FailForNow
    <3>2. /\ Len(pauses') = attempt + 1
          /\ \A i \in DOMAIN pauses' : \/ i \in DOMAIN pauses /\ pauses'[i] = pauses[i]
                                       \/ pauses'[i] = backoff_duration(attempt)
      BY <2>1, <2>3, <3>1
    <3>3. \A i \in DOMAIN pauses' : pauses'[i] <= config.max_backoff_ms
      BY <2>1, <3>2 DEF RetriesAreHonest, PausesAreBounded
    <3>4. LoopInv'
      BY <2>2, <2>3, <2>4, <2>5, <3>1, <3>2 DEF LoopInv
    <3>5. RetriesAreHonest'
      BY <2>2, <2>4, <3>1, <3>3
         DEF RetriesAreHonest, OutcomeIsHonest, PausesAreBounded
    <3>6. RetryTypeOK'
      BY <2>1, <2>2, <2>3, <2>5, <3>1 DEF RetryTypeOK
    <3> QED BY <3>4, <3>5, <3>6
  <2>6. CASE attempt + 1 >= config.max_attempts
    <3>1. /\ retryPc' = "call" /\ attempt' = attempt + 1 /\ pauses' = pauses
      BY <1>5, <2>2, <2>3, <2>6 DEF FailForNow
    <3>2. LoopInv'
      BY <2>2, <2>3, <2>4, <2>6, <3>1 DEF LoopInv
    <3>3. RetriesAreHonest'
      BY <2>2, <2>4, <3>1 DEF RetriesAreHonest, OutcomeIsHonest, PausesAreBounded
    <3>4. RetryTypeOK'
      BY <2>2, <2>3, <2>6, <3>1 DEF RetryTypeOK
    <3> QED BY <3>2, <3>3, <3>4
  <2> QED BY <2>3, <2>5, <2>6
<1>6. CASE Wake
  <2>1. RetryTypeOK'
    BY <1>6 DEF Wake, RetryTypeOK, LoopInv, RetryConfig
  <2>2. LoopInv'
    BY <1>6 DEF Wake, RetryTypeOK, LoopInv, RetryConfig
  <2>3. RetriesAreHonest'
    BY <1>6 DEF Wake, RetriesAreHonest, OutcomeIsHonest, PausesAreBounded
  <2> QED BY <2>1, <2>2, <2>3
<1>7. CASE GiveUp
  <2>1. RetryTypeOK'
    BY <1>7 DEF GiveUp, FinishRetry, RetryTypeOK
  <2>2. LoopInv'
    BY <1>7 DEF GiveUp, FinishRetry, LoopInv
  <2>3. RetriesAreHonest'
    BY <1>7 DEF GiveUp, FinishRetry, RetryTypeOK, LoopInv,
       RetryConfig, RetriesAreHonest, OutcomeIsHonest, PausesAreBounded
  <2> QED BY <2>1, <2>2, <2>3
<1> QED BY <1>1, <1>2, <1>3, <1>4, <1>5, <1>6, <1>7 DEF RetryNext, RetryStep

\* The invariant holds in every state of a retry loop.
LEMMA RetryInvariant == RetrySpec => []RetryInv
BY RetryInvInit, RetryStepKeeps, PTL DEF RetrySpec

\* retry_with_backoff retries transient errors only, max_attempts times at most,
\* with pauses within max_backoff_ms, and hands its caller the last error.
THEOREM RetriesStayHonest == RetrySpec => []RetriesAreHonest
<1>1. RetryInv => RetriesAreHonest
  BY DEF RetryInv
<1> QED BY <1>1, RetryInvariant, PTL

-----------------------------------------------------------------------------
(* MemoryTracker                                                           *)

\* What wraps around stays within the word.
LEMMA WordRange ==
    ASSUME NEW w \in Nat \ {0}, NEW x \in Nat
    PROVE  x % w \in 0 .. w - 1
  OBVIOUS

\* A value within the word stays what it is, also after a whole turn.
LEMMA WordSmall ==
    ASSUME NEW w \in Nat \ {0}, NEW x \in 0 .. w - 1
    PROVE  x % w = x /\ (x + w) % w = x
  OBVIOUS

\* The sum of what stats has loaded so far, unless it has loaded a counter that
\* was reset while something was in use.
SumInv ==
    ~tainted =>
       /\ statsNext = 1 => sum = 0
       /\ statsNext = 2 => sum <= MaxHeld
       /\ statsNext = 3 => sum <= MaxHeld + MaxHeld

\* The inductive invariant of the tracker.
MemoryInv == MemoryTypeOK /\ CountersFollowUse /\ SumInv

\* What the assumption says: the bytes of all kinds in use fit in a word.
LEMMA WordBounds ==
    /\ Word \in Nat \ {0} /\ MaxHeld \in Nat /\ Sizes \subseteq Nat
    /\ 3 * MaxHeld < Word
  BY WordAssumption

\* No add, remove, load or store breaks the invariant of the tracker.
LEMMA MemoryStep == MemoryInv /\ [MemoryNext]_memoryVars => MemoryInv'
<1> SUFFICES ASSUME MemoryInv, [MemoryNext]_memoryVars PROVE MemoryInv'
  OBVIOUS
<1> USE DEF MemoryInv
<1>1. Word \in Nat \ {0} /\ MaxHeld \in Nat /\ Sizes \subseteq Nat
      /\ 3 * MaxHeld < Word
  BY WordBounds
<1>2. ASSUME NEW c \in Kinds, NEW bytes \in Sizes, AddMemory(c, bytes)
      PROVE  MemoryInv'
  <2>1. counter[c] \in 0 .. Word - 1 /\ inUse[c] \in 0 .. MaxHeld /\ bytes \in Nat
    BY <1>1 DEF MemoryTypeOK
  <2>2. inUse[c] + bytes <= MaxHeld
    BY <1>2 DEF AddMemory
  <2>3. (counter[c] + bytes) % Word \in 0 .. Word - 1
    BY <1>1, <2>1, WordRange
  <2>4. inUse[c] + bytes \in 0 .. Word - 1
    BY <1>1, <2>1, <2>2
  <2>5. (inUse[c] + bytes) % Word = inUse[c] + bytes
    BY <1>1, <2>4, WordSmall
  <2>6. MemoryTypeOK'
    BY <1>2, <2>1, <2>2, <2>3 DEF AddMemory, MemoryTypeOK
  <2>7. CountersFollowUse'
    BY <1>2, <2>5 DEF AddMemory, MemoryTypeOK, CountersFollowUse
  <2> QED BY <1>2, <2>6, <2>7 DEF AddMemory, SumInv
<1>3. ASSUME NEW c \in Kinds, NEW bytes \in Sizes, RemoveMemory(c, bytes)
      PROVE  MemoryInv'
  <2>1. counter[c] \in 0 .. Word - 1 /\ inUse[c] \in 0 .. MaxHeld /\ bytes \in Nat
    BY <1>1 DEF MemoryTypeOK
  <2>2. bytes <= inUse[c]
    BY <1>3 DEF RemoveMemory
  <2>3. counter[c] + Word - bytes \in Nat
    BY <1>1, <2>1, <2>2
  <2>4. (counter[c] + Word - bytes) % Word \in 0 .. Word - 1
    BY <1>1, <2>3, WordRange
  <2>5. inUse[c] - bytes \in 0 .. Word - 1
    BY <1>1, <2>1, <2>2
  <2>6. (inUse[c] - bytes + Word) % Word = inUse[c] - bytes
    BY <1>1, <2>5, WordSmall
  <2>7. inUse[c] + Word - bytes = inUse[c] - bytes + Word
    BY <1>1, <2>1
  <2>8. MemoryTypeOK'
    <3>1. inUse[c] - bytes \in 0 .. MaxHeld
      BY <1>1, <2>1, <2>2
    <3> QED BY <1>3, <2>4, <3>1 DEF RemoveMemory, MemoryTypeOK
  <2>9. CountersFollowUse'
    BY <1>3, <2>6, <2>7 DEF RemoveMemory, MemoryTypeOK, CountersFollowUse
  <2> QED BY <1>3, <2>8, <2>9 DEF RemoveMemory, SumInv
<1>4. CASE CallStats
  <2>1. MemoryTypeOK'
    <3>1. overflowed' \in BOOLEAN /\ tainted' \in BOOLEAN
      BY <1>4, Zenon DEF CallStats
    <3>2. statsNext' \in 0 .. 3 /\ sum' \in Nat
          /\ UNCHANGED <<counter, inUse, resetNext, spoiled>>
      BY <1>4 DEF CallStats
    <3> QED BY <3>1, <3>2 DEF MemoryTypeOK
  <2>2. overflowed' = FALSE /\ UNCHANGED <<counter, inUse, spoiled>>
    BY <1>4 DEF CallStats
  <2>3. statsNext' = 1 /\ sum' = 0
    BY <1>4 DEF CallStats
  <2> QED BY <2>1, <2>2, <2>3 DEF CountersFollowUse, SumInv
<1>5. CASE Load
  <2>1. statsNext \in 1 .. 3 /\ sum \in Nat /\ statsNext' = (statsNext + 1) % 4
    BY <1>5 DEF Load, MemoryTypeOK
  <2>2. counter[statsNext] \in Nat /\ sum' = sum + counter[statsNext]
    BY <1>1, <1>5, <2>1 DEF Load, MemoryTypeOK, Kinds
  <2>3. ~tainted' => ~tainted /\ counter[statsNext] <= MaxHeld
    <3>1. ~tainted' => ~tainted /\ statsNext \notin spoiled
      BY <1>5, Zenon DEF Load
    <3>2. statsNext \in Kinds /\ inUse[statsNext] <= MaxHeld
      BY <1>1, <2>1 DEF MemoryTypeOK, Kinds
    <3>3. statsNext \notin spoiled => counter[statsNext] = inUse[statsNext]
      BY <3>2 DEF CountersFollowUse
    <3> QED BY <3>1, <3>2, <3>3
  <2>4. MemoryTypeOK'
    BY <1>5, <2>1, <2>2 DEF Load, MemoryTypeOK
  <2>5. SumInv'
    BY <1>1, <2>1, <2>2, <2>3 DEF SumInv
  <2>6. overflowed' => tainted'
    <3>1. overflowed' => statsNext = 3 /\ sum' >= Word
      BY <1>5, Zenon DEF Load
    <3>2. statsNext = 3 /\ ~tainted' => sum' <= MaxHeld + MaxHeld + MaxHeld
      BY <1>1, <2>1, <2>2, <2>3 DEF SumInv
    <3>3. sum' \in Nat
      BY <2>1, <2>2
    <3> QED BY <1>1, <3>1, <3>2, <3>3
  <2> QED BY <1>5, <2>4, <2>5, <2>6 DEF Load, CountersFollowUse
<1>6. CASE CallReset
  BY <1>6 DEF CallReset, MemoryTypeOK, CountersFollowUse, SumInv
<1>7. CASE StoreZero
  <2>1. MemoryTypeOK'
    BY <1>1, <1>7 DEF StoreZero, MemoryTypeOK, Kinds
  <2>2. CountersFollowUse'
    BY <1>7 DEF StoreZero, MemoryTypeOK, CountersFollowUse, Kinds
  <2> QED BY <1>7, <2>1, <2>2 DEF StoreZero, SumInv
<1>8. CASE UNCHANGED memoryVars
  BY <1>8 DEF memoryVars, MemoryTypeOK, CountersFollowUse, SumInv
<1> QED BY <1>2, <1>3, <1>4, <1>5, <1>6, <1>7, <1>8 DEF MemoryNext

\* The invariant holds in every state of the tracker.
LEMMA MemoryInvariant == MemorySpec => []MemoryInv
<1>1. MemoryInit => MemoryInv
  <2> SUFFICES ASSUME MemoryInit PROVE MemoryInv
    OBVIOUS
  <2>1. MemoryTypeOK
    <3>1. overflowed \in BOOLEAN /\ tainted \in BOOLEAN
      BY Zenon DEF MemoryInit
    <3>2. /\ counter \in [Kinds -> 0 .. Word - 1] /\ inUse \in [Kinds -> 0 .. MaxHeld]
          /\ statsNext \in 0 .. 3 /\ resetNext \in 0 .. 3 /\ sum \in Nat
          /\ spoiled \subseteq Kinds
      BY WordBounds DEF MemoryInit
    <3> QED BY <3>1, <3>2 DEF MemoryTypeOK
  <2>2. CountersFollowUse
    BY DEF MemoryInit, CountersFollowUse
  <2>3. SumInv
    BY DEF MemoryInit, SumInv
  <2> QED BY <2>1, <2>2, <2>3 DEF MemoryInv
<1> QED BY <1>1, MemoryStep, PTL DEF MemorySpec

\* The counters of MemoryTracker say what is in use, whatever the width of the
\* word, and stats overflows only after a reset of memory in use.
THEOREM CountersStayExact == MemorySpec => []CountersFollowUse
<1>1. MemoryInv => CountersFollowUse
  BY DEF MemoryInv
<1> QED BY <1>1, MemoryInvariant, PTL

-----------------------------------------------------------------------------
(* PoolStatistics                                                          *)

\* The inductive invariant of a report.
PoolInv == PoolTypeOK /\ ReportIsPlausible

\* It holds in every state of a pool.
LEMMA PoolInvariant == PoolSpec => []PoolInv
<1>1. PoolInit => PoolInv
  BY MaxConnectionsAssumption
     DEF PoolInit, PoolInv, PoolTypeOK, PoolStats, ReportIsPlausible
<1>2. PoolInv /\ [PoolNext]_poolVars => PoolInv'
  <2> SUFFICES ASSUME PoolInv, [PoolNext]_poolVars PROVE PoolInv'
    OBVIOUS
  <2>1. CASE UsePool
    BY <2>1, MaxConnectionsAssumption
       DEF UsePool, PoolInv, PoolTypeOK, ReportIsPlausible
  <2>2. CASE ReadSize
    BY <2>2, MaxConnectionsAssumption
       DEF ReadSize, PoolInv, PoolTypeOK, ReportIsPlausible
  <2>3. CASE ReadIdle
    BY <2>3, MaxConnectionsAssumption
       DEF ReadIdle, saturating_sub, PoolInv, PoolTypeOK, PoolStats,
           ReportIsPlausible
  <2>4. CASE UNCHANGED poolVars
    BY <2>4 DEF poolVars, PoolInv, PoolTypeOK, ReportIsPlausible
  <2> QED BY <2>1, <2>2, <2>3, <2>4 DEF PoolNext
<1> QED BY <1>1, <1>2, PTL DEF PoolSpec

\* get_stats reports no more connections of any kind than the pool may have,
\* though it reads the two numbers at different moments.
THEOREM ReportsStayPlausible == PoolSpec => []ReportIsPlausible
<1>1. PoolInv => ReportIsPlausible
  BY DEF PoolInv
<1> QED BY <1>1, PoolInvariant, PTL

-----------------------------------------------------------------------------
(* Configuration                                                           *)

\* Data sources whose passwords are known, those that pass validation, and
\* those of a file that does.
Known == {ds \in DataSourceConfig : ds.password \in {"given", "empty"}}
Checked == {ds \in DataSourceConfig : SourceValid(ds)}
Usable == Known \cap Checked

\* What each phase of the loading has made sure of.
LoadInv ==
    /\ data_sources \in Seq(DataSourceConfig)
    /\ configPhase = "start" => ~filtered /\ reason = "none"
    /\ configPhase = "parsed" => origin = "file"
    /\ configPhase = "resolved" => origin = "file" /\ data_sources \in Seq(Known)
    /\ configPhase = "loaded" =>
          /\ origin # "none"
          /\ filtered => data_sources \in Seq(Checked)
          /\ origin = "file" =>
                data_sources \in Seq(Usable) /\ data_sources # <<>> /\ UniqueKeys

ConfigInv == ConfigTypeOK /\ LoadInv /\ RunningIsUsable

\* What is left of a list is a list of its valid elements, and the whole list
\* when every element is valid.
LEMMA FilterKeeps == ASSUME ConfigInv, validate_and_filter PROVE ConfigInv'
<1> DEFINE n == Cardinality(Valid)
<1>1. /\ configPhase = "loaded" /\ configPhase' = "loaded" /\ filtered' = TRUE
      /\ data_sources \in Seq(DataSourceConfig) /\ origin # "none"
      /\ UNCHANGED <<origin, registered, reason>>
  BY DEF validate_and_filter, ConfigInv, LoadInv
<1>2. n \in Nat /\ (Valid = DOMAIN data_sources => n = Len(data_sources))
  <2>1. /\ Valid \subseteq 1 .. Len(data_sources) /\ Len(data_sources) \in Nat
        /\ DOMAIN data_sources = 1 .. Len(data_sources)
    BY <1>1 DEF Valid
  <2>2. ASSUME NEW m \in Nat
        PROVE  IsFiniteSet(1 .. m) /\ Cardinality(1 .. m) = m
    <3>1. 1 \in Int /\ m \in Int
      OBVIOUS
    <3>2. /\ IsFiniteSet(1 .. m)
          /\ Cardinality(1 .. m) = IF 1 > m THEN 0 ELSE m - 1 + 1
      BY ONLY <3>1, FS_Interval
    <3> QED BY <3>2
  <2> QED BY <2>1, <2>2, FS_Subset, FS_CardinalityType
<1>3. PICK kept \in [1 .. n -> Valid] :
         /\ \A i, j \in 1 .. n : i < j => kept[i] < kept[j]
         /\ data_sources' = [i \in 1 .. n |-> data_sources[kept[i]]]
  BY DEF validate_and_filter
<1> HIDE DEF n
<1>4. \A i \in 1 .. n : /\ kept[i] \in DOMAIN data_sources
                        /\ data_sources[kept[i]] \in Checked
  BY <1>1, <1>3 DEF Valid, Checked
<1>5. data_sources' \in Seq(Checked)
  BY <1>2, <1>3, <1>4
<1>6. data_sources' \in Seq(DataSourceConfig)
  BY <1>5 DEF Checked
<1>7. ASSUME origin = "file"
      PROVE  data_sources' \in Seq(Usable) /\ data_sources' # <<>> /\ UniqueKeys'
  <2>1. data_sources \in Seq(Usable) /\ data_sources # <<>> /\ UniqueKeys
    BY <1>1, <1>7 DEF ConfigInv, LoadInv
  <2>2. \A i \in 1 .. n : data_sources[kept[i]] \in Usable
    BY <1>4, <2>1
  <2>3. data_sources' \in Seq(Usable)
    BY <1>2, <1>3, <2>2
  <2>4. n # 0
    <3>1. \A i \in DOMAIN data_sources : data_sources[i] \in Checked
      BY <2>1 DEF Usable
    <3>2. Valid = DOMAIN data_sources
      BY <3>1 DEF Valid, Checked
    <3> QED BY <1>2, <2>1, <3>2
  <2>5. ASSUME NEW i \in 1 .. n, NEW j \in 1 .. n,
               data_sources[kept[i]].key = data_sources[kept[j]].key
        PROVE  i = j
    <3>1. kept[i] = kept[j]
      BY <1>4, <2>1, <2>5 DEF UniqueKeys
    <3>2. kept[i] \in Nat /\ kept[j] \in Nat
      BY <1>1, <1>4
    <3> QED BY <1>2, <1>3, <3>1, <3>2
  <2>6. UniqueKeys'
    BY <1>2, <1>3, <2>5 DEF UniqueKeys
  <2> QED BY <1>2, <1>3, <2>3, <2>4, <2>6
<1> QED BY <1>1, <1>5, <1>6, <1>7 DEF ConfigInv, ConfigTypeOK, LoadInv, RunningIsUsable

\* What is resolved is known.
LEMMA ResolveKeeps == ASSUME ConfigInv, ResolvePasswords PROVE ConfigInv'
<1>1. /\ \A i \in DOMAIN data_sources : data_sources[i].password # "$unset"
      /\ data_sources' = [i \in DOMAIN data_sources |->
            [data_sources[i] EXCEPT !.password = Resolved(@)]]
      /\ configPhase' = "resolved" /\ data_sources \in Seq(DataSourceConfig)
      /\ origin = "file" /\ UNCHANGED <<origin, registered, filtered, reason>>
  BY DEF ResolvePasswords, ConfigInv, LoadInv
<1>2. ASSUME NEW ds \in DataSourceConfig, ds.password # "$unset"
      PROVE  [ds EXCEPT !.password = Resolved(@)] \in Known
  <2>1. ds.password \in Passwords
    BY DEF DataSourceConfig
  <2>2. Resolved(ds.password) \in {"given", "empty"}
    BY <1>2, <2>1 DEF Resolved, Passwords
  <2> QED BY <2>2 DEF Known, DataSourceConfig, Passwords
<1>3. \A i \in DOMAIN data_sources : data_sources'[i] \in Known
  BY <1>1, <1>2
<1>4. data_sources' \in Seq(Known)
  BY <1>1, <1>3
<1>5. data_sources' \in Seq(DataSourceConfig)
  BY <1>4 DEF Known
<1> QED BY <1>1, <1>4, <1>5 DEF ConfigInv, ConfigTypeOK, LoadInv, RunningIsUsable

(* validate lets only a list through whose every data source was looked at. *)
LEMMA ValidateKeeps == ASSUME ConfigInv, validate PROVE ConfigInv'
<1>1. /\ configPhase = "resolved" /\ data_sources \in Seq(Known)
      /\ origin = "file" /\ UNCHANGED <<origin, data_sources, registered, filtered>>
  BY DEF validate, Stop, ConfigInv, LoadInv
<1>2. CASE ConfigValid /\ configPhase' = "loaded" /\ UNCHANGED reason
  <2>1. \A i \in DOMAIN data_sources : data_sources[i] \in Usable
    BY <1>1, <1>2 DEF ConfigValid, Usable, Checked, Known
  <2>2. data_sources \in Seq(Usable) /\ data_sources \in Seq(Checked)
    BY <1>1, <2>1 DEF Usable
  <2>3. data_sources # <<>> /\ UniqueKeys'
    BY <1>1, <1>2 DEF ConfigValid, UniqueKeys
  <2> QED BY <1>1, <1>2, <2>2, <2>3
          DEF ConfigInv, ConfigTypeOK, LoadInv, RunningIsUsable
<1>3. CASE Stop("ValidationError")
  BY <1>1, <1>3 DEF Stop, ConfigInv, ConfigTypeOK, LoadInv, RunningIsUsable
<1> QED BY <1>1, <1>2, <1>3 DEF validate

\* The manager takes what it is given, unless a caller left a key twice.
LEMMA RegisterKeeps == ASSUME ConfigInv, Register PROVE ConfigInv'
<1>1. /\ configPhase = "loaded" /\ origin # "none"
      /\ filtered => data_sources \in Seq(Checked)
      /\ origin = "file" =>
            data_sources \in Seq(Usable) /\ data_sources # <<>> /\ UniqueKeys
      /\ UNCHANGED <<origin, data_sources, filtered>>
      /\ data_sources \in Seq(DataSourceConfig)
  BY DEF Register, Stop, ConfigInv, LoadInv
<1>2. CASE /\ UniqueKeys /\ registered' = Range(data_sources)
           /\ configPhase' = "running" /\ UNCHANGED reason
  <2>1. \A d \in registered' : \E i \in DOMAIN data_sources : d = data_sources[i]
    BY <1>2 DEF Range
  <2>2. /\ registered' \subseteq DataSourceConfig
        /\ filtered => registered' \subseteq Checked
        /\ origin = "file" => registered' \subseteq Usable
    BY <1>1, <2>1
  <2>3. \A d, e \in registered' : d.key = e.key => d = e
    BY <1>2, <2>1 DEF UniqueKeys
  <2>4. ASSUME NEW d \in Checked
        PROVE  /\ d.key # "" /\ d.blank = "none" /\ d.password # "empty"
               /\ d.max_connections \in Nat \ {0}
               /\ d.min_connections <= d.max_connections
    BY DEF Checked, SourceValid, PoolConfigValid, DataSourceConfig
  <2>5. \A d \in Usable : d \in Checked /\ d.password = "given"
    BY <2>4 DEF Usable, Known
  <2>6. data_sources # <<>> => registered' # {}
    <3>1. data_sources # <<>> => data_sources[1] \in registered'
      BY <1>1, <1>2 DEF Range
    <3> QED BY <3>1
  <2>7. ConfigTypeOK'
    BY <1>1, <1>2, <2>2 DEF ConfigInv, ConfigTypeOK
  <2>8. RunningIsUsable'
    BY <1>1, <1>2, <2>2, <2>3, <2>4, <2>5, <2>6 DEF ConfigInv, RunningIsUsable
  <2> QED BY <1>1, <1>2, <2>7, <2>8 DEF ConfigInv, LoadInv
<1>3. CASE ~UniqueKeys /\ Stop("Duplicate data source key")
  <2>1. origin' = "caller"
    BY <1>1, <1>3 DEF ConfigInv, ConfigTypeOK
  <2>2. configPhase' = "stopped" /\ registered' = registered
    BY <1>3 DEF Stop
  <2>3. ConfigTypeOK'
    BY <1>1, <2>2 DEF ConfigInv, ConfigTypeOK
  <2> QED BY <1>1, <2>1, <2>2, <2>3 DEF ConfigInv, LoadInv, RunningIsUsable
<1> QED BY <1>1, <1>2, <1>3 DEF Register

\* A file that cannot be read, or that can, and a variable that is not set.
LEMMA ParseKeeps ==
    ASSUME ConfigInv, OpenFails \/ Parse \/ ParseByCaller \/ VariableMissing
    PROVE  ConfigInv'
<1>1. CASE OpenFails
  BY <1>1 DEF OpenFails, Stop, ConfigInv, ConfigTypeOK, LoadInv, RunningIsUsable
<1>2. CASE Parse \/ ParseByCaller
  <2>1. data_sources' \in Seq(DataSourceConfig)
    <3>1. data_sources' \in SeqOf(FileSources, MaxFileSources)
      BY <1>2 DEF Parse, ParseByCaller
    <3> QED BY ONLY <3>1, FileSourcesAssumption DEF SeqOf
  <2>2. /\ configPhase = "start" /\ ~filtered /\ reason = "none"
        /\ UNCHANGED <<registered, filtered, reason>>
        /\ \/ configPhase' = "parsed" /\ origin' = "file"
           \/ configPhase' = "loaded" /\ origin' = "caller"
    BY <1>2 DEF Parse, ParseByCaller, ConfigInv, LoadInv
  <2>3. LoadInv'
    BY <2>1, <2>2 DEF LoadInv
  <2>4. ConfigTypeOK' /\ RunningIsUsable'
    BY <2>1, <2>2 DEF ConfigInv, ConfigTypeOK, RunningIsUsable
  <2> QED BY <2>3, <2>4 DEF ConfigInv
<1>3. CASE VariableMissing
  BY <1>3 DEF VariableMissing, Stop, ConfigInv, ConfigTypeOK, LoadInv, RunningIsUsable
<1> QED BY <1>1, <1>2, <1>3

(* Before the file is read nothing runs. *)
LEMMA ConfigInvInit == ConfigInit => ConfigInv
<1> SUFFICES ASSUME ConfigInit PROVE ConfigInv
  OBVIOUS
<1>1. data_sources \in Seq(DataSourceConfig) /\ registered \subseteq DataSourceConfig
  BY DEF ConfigInit
<1> QED BY <1>1 DEF ConfigInit, ConfigInv, ConfigTypeOK, LoadInv, RunningIsUsable

(* Loading, overriding, validating, filtering and registering keep the invariant. *)
LEMMA ConfigStep == ConfigInv /\ [ConfigNext]_configVars => ConfigInv'
<1> SUFFICES ASSUME ConfigInv, [ConfigNext]_configVars PROVE ConfigInv'
  OBVIOUS
<1>1. CASE UNCHANGED configVars
  BY <1>1 DEF configVars, ConfigInv, ConfigTypeOK, LoadInv, UniqueKeys, RunningIsUsable
<1> QED BY <1>1, ParseKeeps, ResolveKeeps, ValidateKeeps, FilterKeeps, RegisterKeeps
        DEF ConfigNext

\* The invariant holds in every state of the loading.
LEMMA ConfigInvariant == ConfigSpec => []ConfigInv
BY ConfigInvInit, ConfigStep, PTL DEF ConfigSpec

\* What is registered has a key of its own.  Whatever the file, there is some,
\* it passed validation and its password is resolved; of a list that a caller
\* parsed and filtered only the validation is sure, and only the list of a
\* caller can be refused for its keys.
THEOREM RunsWithUsableSources == ConfigSpec => []RunningIsUsable
<1>1. ConfigInv => RunningIsUsable
  BY DEF ConfigInv
<1> QED BY <1>1, ConfigInvariant, PTL

-----------------------------------------------------------------------------
(* The components side by side                                             *)

\* A behaviour of the library is one of each component: a step of one leaves
\* the others as they are.
LEMMA LibraryParts ==
    LibrarySpec => /\ ListSpec /\ TtlSpec /\ RetrySpec /\ MemorySpec /\ PoolSpec
                   /\ ConfigSpec /\ ScanSpec
<1>1. LibraryInit => /\ ListInit /\ TtlInit /\ RetryInit /\ MemoryInit /\ PoolInit
                     /\ ConfigInit /\ ScanInit
  BY DEF LibraryInit
<1>2. [LibraryNext]_libraryVars => [ListNext]_listVars
  BY DEF LibraryNext, libraryVars, Only
<1>3. [LibraryNext]_libraryVars => [TtlNext]_ttlVars
  BY DEF LibraryNext, libraryVars, Only
<1>4. [LibraryNext]_libraryVars => [RetryNext]_retryVars
  BY DEF LibraryNext, libraryVars, Only
<1>5. [LibraryNext]_libraryVars => [MemoryNext]_memoryVars
  BY DEF LibraryNext, libraryVars, Only
<1>6. [LibraryNext]_libraryVars => [PoolNext]_poolVars
  BY DEF LibraryNext, libraryVars, Only
<1>7. [LibraryNext]_libraryVars => [ConfigNext]_configVars
  BY DEF LibraryNext, libraryVars, Only
<1>8. [LibraryNext]_libraryVars => [ScanNext]_scanVars
  BY DEF LibraryNext, libraryVars, Only
<1> QED BY <1>1, <1>2, <1>3, <1>4, <1>5, <1>6, <1>7, <1>8, PTL
        DEF LibrarySpec, ListSpec, TtlSpec, RetrySpec, MemorySpec, PoolSpec,
            ConfigSpec, ScanSpec

\* Each component of the library keeps its types.
THEOREM LibraryTypes == LibrarySpec => []LibraryTypeOK
<1>1. /\ ListInv => ListTypeOK
      /\ RetryInv => RetryTypeOK
      /\ MemoryInv => MemoryTypeOK
      /\ PoolInv => PoolTypeOK
      /\ ConfigInv => ConfigTypeOK
  BY DEF ListInv, RetryInv, MemoryInv, PoolInv, ConfigInv
<1>2. ListTypeOK /\ TtlTypeOK /\ RetryTypeOK /\ MemoryTypeOK /\ PoolTypeOK
      /\ ConfigTypeOK /\ ScanTypeOK => LibraryTypeOK
  BY DEF LibraryTypeOK
<1> QED BY <1>1, <1>2, LibraryParts, ListInvariant, TtlInvariant, RetryInvariant,
        MemoryInvariant, PoolInvariant, ConfigInvariant, ScanStaysInText, PTL

\* What was proved of each component holds of the library.
THEOREM LibraryKeepsPromises ==
    LibrarySpec =>
        /\ [](ListsNeverGoBack /\ ClearIsLasting /\ CapacityHolds)
        /\ [](RetriesAreHonest /\ CountersFollowUse /\ ReportIsPlausible)
        /\ [](RunningIsUsable /\ FirstStatementIsFirst)
        /\ NoLiveEntryLost
BY LibraryParts, ListsStayNewest, ClearsLast, CacheFitsCapacity, RetriesStayHonest,
   CountersStayExact, ReportsStayPlausible, RunsWithUsableSources,
   FirstStatementFound, EvictionSparesLive, PTL
=============================================================================
