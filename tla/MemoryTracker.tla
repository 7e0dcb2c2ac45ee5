---------------------------- MODULE MemoryTracker ----------------------------
(***************************************************************************)
(* MemoryTracker: three atomic counters that owners of memory add to and   *)
(* subtract from.  fetch_add and fetch_sub wrap around; stats loads the    *)
(* counters one by one and adds them up, which panics on overflow where    *)
(* the build checks it; reset stores 0 in one counter after the other.     *)
(***************************************************************************)
EXTENDS Naturals

CONSTANTS
    Word,           \* the number of values of a usize
    Sizes,          \* the sizes that owners add and remove
    MaxHeld         \* bound: the bytes of one kind in use at a time

ASSUME WordAssumption ==
    /\ Word \in Nat /\ MaxHeld \in Nat /\ Sizes \subseteq Nat
    /\ 3 * MaxHeld < Word

VARIABLES
    counter,        \* pool_memory, cache_memory and stream_memory: 1, 2 and 3
    inUse,          \* the bytes that their owners have added and not removed
    statsNext,      \* the counter that stats loads next, 0 outside
    sum,            \* the sum of what it has loaded
    overflowed,     \* whether the last stats overflowed
    resetNext,      \* the counter that reset stores next, 0 outside
    spoiled,        \* history: counters reset while they counted something
    tainted         \* history: this stats has loaded a spoiled counter

memoryVars == <<counter, inUse, statsNext, sum, overflowed, resetNext, spoiled,
                tainted>>

Kinds == 1 .. 3

MemoryInit ==
    /\ counter = [c \in Kinds |-> 0]
    /\ inUse = [c \in Kinds |-> 0]
    /\ statsNext = 0 /\ sum = 0 /\ overflowed = FALSE
    /\ resetNext = 0
    /\ spoiled = {} /\ tainted = FALSE

\* add_pool_memory, add_cache_memory, add_stream_memory
AddMemory(c, bytes) ==
    /\ inUse[c] + bytes <= MaxHeld
    /\ inUse' = [inUse EXCEPT ![c] = @ + bytes]
    /\ counter' = [counter EXCEPT ![c] = (@ + bytes) % Word]
    /\ UNCHANGED <<statsNext, sum, overflowed, resetNext, spoiled, tainted>>

\* Mutant: the third of three copies of a method names the second's counter.
RemoveFromOther(c, bytes) ==
    /\ bytes <= inUse[c]
    /\ inUse' = [inUse EXCEPT ![c] = @ - bytes]
    /\ LET named == IF c = 3 THEN 2 ELSE c
       IN  counter' = [counter EXCEPT ![named] = (@ + Word - bytes) % Word]
    /\ UNCHANGED <<statsNext, sum, overflowed, resetNext, spoiled, tainted>>

\* remove_pool_memory, ...: an owner removes what it added.
RemoveMemory(c, bytes) ==
    /\ bytes <= inUse[c]
    /\ inUse' = [inUse EXCEPT ![c] = @ - bytes]
    /\ counter' = [counter EXCEPT ![c] = (@ + Word - bytes) % Word]
    /\ UNCHANGED <<statsNext, sum, overflowed, resetNext, spoiled, tainted>>

CallStats ==
    /\ statsNext = 0
    /\ statsNext' = 1
    /\ sum' = 0 /\ overflowed' = FALSE /\ tainted' = FALSE
    /\ UNCHANGED <<counter, inUse, resetNext, spoiled>>

\* The next counter is loaded; the addition overflows after the last of them.
Load ==
    /\ statsNext # 0
    /\ sum' = sum + counter[statsNext]
    /\ tainted' = (tainted \/ statsNext \in spoiled)
    /\ statsNext' = (statsNext + 1) % 4
    /\ overflowed' = (statsNext = 3 /\ sum' >= Word)
    /\ UNCHANGED <<counter, inUse, resetNext, spoiled>>

CallReset ==
    /\ resetNext = 0
    /\ resetNext' = 1
    /\ UNCHANGED <<counter, inUse, statsNext, sum, overflowed, spoiled, tainted>>

\* What is in use is no longer counted, and will be subtracted all the same.
StoreZero ==
    /\ resetNext # 0
    /\ counter' = [counter EXCEPT ![resetNext] = 0]
    /\ spoiled' = IF inUse[resetNext] = 0 THEN spoiled \ {resetNext}
                  ELSE spoiled \cup {resetNext}
    /\ resetNext' = (resetNext + 1) % 4
    /\ UNCHANGED <<inUse, statsNext, sum, overflowed, tainted>>

MemoryNext ==
    \/ \E c \in Kinds, bytes \in Sizes : AddMemory(c, bytes) \/ RemoveMemory(c, bytes)
    \/ CallStats \/ Load
    \/ CallReset \/ StoreZero

MemorySpec == MemoryInit /\ [][MemoryNext]_memoryVars

-----------------------------------------------------------------------------
MemoryTypeOK ==
    /\ counter \in [Kinds -> 0 .. Word - 1]
    /\ inUse \in [Kinds -> 0 .. MaxHeld]
    /\ statsNext \in 0 .. 3 /\ resetNext \in 0 .. 3
    /\ sum \in Nat
    /\ overflowed \in BOOLEAN /\ tainted \in BOOLEAN
    /\ spoiled \subseteq Kinds

\* A counter is the number of bytes in use, however adds, removes and resets
\* interleave, unless it was last reset while something was in use; only then
\* can the total of stats, loaded counter by counter, overflow.
CountersFollowUse ==
    /\ \A c \in Kinds \ spoiled : counter[c] = inUse[c]
    /\ overflowed => tainted
=============================================================================
