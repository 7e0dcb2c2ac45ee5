------------------------------ MODULE TtlCache ------------------------------
(***************************************************************************)
(* TtlCache: entries that expire `ttl` after their insertion, at most      *)
(* `max_capacity` of them.  Every method works under one acquisition of    *)
(* the lock of the entries and awaits nothing else, so that each is one    *)
(* step; get, len and stats change nothing.  Entries inserted in the same  *)
(* tick have equal instants, of which the oldest is any.                   *)
(***************************************************************************)
EXTENDS Naturals, FiniteSets

CONSTANTS
    CacheKeys,      \* the keys
    Ttls,           \* the times to live a cache may be made with, in ticks
    Capacities,     \* the capacities, of which 0 is one
    MaxTtlTime      \* bound: the last tick

ASSUME TtlAssumption == Ttls \subseteq Nat /\ Capacities \subseteq Nat

VARIABLES
    ttl,
    max_capacity,
    entries,        \* the entries: a set of records, one per key
    ttlTime,        \* Instant::now()
    lastOp          \* the method called last, "none" before the cache is made

ttlVars == <<ttl, max_capacity, entries, ttlTime, lastOp>>

CacheEntry == [key : CacheKeys, inserted_at : Nat]

TtlInit ==
    /\ ttl = 0 /\ max_capacity = 0
    /\ entries = {}
    /\ ttlTime = 0
    /\ lastOp = "none"

is_expired(e) == ttlTime - e.inserted_at > ttl

Called(method) == lastOp # "none" /\ lastOp' = method

new(duration, capacity) ==
    /\ lastOp = "none"
    /\ ttl' = duration /\ max_capacity' = capacity
    /\ lastOp' = "new"
    /\ UNCHANGED <<entries, ttlTime>>

KeysOf(some) == {e.key : e \in some}

\* Mutant: any entry may have to go.
AnyEntry == {{e} : e \in entries}

\* What find_oldest_key may return: an entry that no other is older than.
find_oldest_key ==
    {{e} : e \in {d \in entries : \A f \in entries : d.inserted_at <= f.inserted_at}}

AtCapacity(k) == Cardinality(entries) >= max_capacity /\ k \notin KeysOf(entries)

\* Mutant: `>` for `>=` in the test of the capacity.
InsertOneMore(k) ==
    /\ Called("insert")
    /\ \E evicted \in IF Cardinality(entries) > max_capacity /\ k \notin KeysOf(entries)
                         /\ entries # {}
                      THEN find_oldest_key ELSE {{}} :
          entries' = {e \in entries \ evicted : e.key # k}
                       \cup {[key |-> k, inserted_at |-> ttlTime]}
    /\ UNCHANGED <<ttl, max_capacity, ttlTime>>

\* With capacity 0 there is no entry to evict, and the new one is kept.
insert(k) ==
    /\ Called("insert")
    /\ \E evicted \in IF AtCapacity(k) /\ entries # {} THEN find_oldest_key ELSE {{}} :
          entries' = {e \in entries \ evicted : e.key # k}
                       \cup {[key |-> k, inserted_at |-> ttlTime]}
    /\ UNCHANGED <<ttl, max_capacity, ttlTime>>

remove(k) ==
    /\ Called("remove")
    /\ entries' = {e \in entries : e.key # k}
    /\ UNCHANGED <<ttl, max_capacity, ttlTime>>

clear ==
    /\ Called("clear")
    /\ entries' = {}
    /\ UNCHANGED <<ttl, max_capacity, ttlTime>>

evict_expired ==
    /\ Called("evict_expired")
    /\ entries' = {e \in entries : ~is_expired(e)}
    /\ UNCHANGED <<ttl, max_capacity, ttlTime>>

TtlTick ==
    /\ ttlTime < MaxTtlTime
    /\ ttlTime' = ttlTime + 1
    /\ Called("tick")
    /\ UNCHANGED <<ttl, max_capacity, entries>>

TtlNext ==
    \/ \E duration \in Ttls, capacity \in Capacities : new(duration, capacity)
    \/ \E k \in CacheKeys : insert(k) \/ remove(k)
    \/ clear \/ evict_expired
    \/ TtlTick

TtlSpec == TtlInit /\ [][TtlNext]_ttlVars

-----------------------------------------------------------------------------
TtlTypeOK ==
    /\ ttl \in Nat /\ max_capacity \in Nat
    /\ entries \subseteq CacheEntry
    /\ IsFiniteSet(entries)
    /\ \A d, e \in entries : d.key = e.key => d = e
    /\ ttlTime \in Nat
    /\ \A e \in entries : e.inserted_at <= ttlTime
    /\ lastOp = "none" => entries = {}

\* However keys are inserted, refreshed, removed and expired, the cache holds
\* no more entries than its capacity, or one where the capacity is 0.
CapacityHolds ==
    Cardinality(entries) <= (IF max_capacity = 0 THEN 1 ELSE max_capacity)

\* An entry that has not expired leaves the cache only when it is removed or the
\* cache is cleared, or for a new key once nothing in a full cache has expired:
\* the oldest entry is also the one that expired first.
NoLiveEntryLost ==
    [][\A e \in entries :
          ~is_expired(e) /\ e.key \notin KeysOf(entries') =>
             \/ lastOp' \in {"remove", "clear"}
             \/ /\ lastOp' = "insert"
                /\ Cardinality(entries) >= max_capacity
                /\ \A d \in entries : ~is_expired(d)]_ttlVars
=============================================================================
