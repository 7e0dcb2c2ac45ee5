--------------------------- MODULE PoolStatistics ---------------------------
(***************************************************************************)
(* get_stats of ConnectionPoolManager, as StatsTool and the monitoring     *)
(* service call it: it reads `size` and then `num_idle` of a pool while    *)
(* other tasks open, use, return and close its connections.                *)
(***************************************************************************)
EXTENDS Naturals

CONSTANT MaxConnections     \* max_connections of the pool

ASSUME MaxConnectionsAssumption == MaxConnections \in Nat \ {0}

VARIABLES
    size,           \* connections of the pool, counted while they are opened
    idle,           \* those that nobody uses
    statsPc,        \* "idle", "read" after the first reading, "done"
    sizeRead,       \* the first reading
    stats           \* the last report

poolVars == <<size, idle, statsPc, sizeRead, stats>>

PoolStats == [active_connections : Nat, idle_connections : Nat,
              total_connections : Nat]

PoolInit ==
    /\ size = 0 /\ idle = 0
    /\ statsPc = "idle"
    /\ sizeRead = 0
    /\ stats = [active_connections |-> 0, idle_connections |-> 0,
                total_connections |-> 0]

\* A connection is opened for a task, taken from the idle ones, given back, or
\* closed by the pool (idle_timeout, max_lifetime, an error).
UsePool ==
    /\ \/ size < MaxConnections /\ size' = size + 1 /\ UNCHANGED idle
       \/ idle > 0 /\ idle' = idle - 1 /\ UNCHANGED size
       \/ idle < size /\ idle' = idle + 1 /\ UNCHANGED size
       \/ idle > 0 /\ idle' = idle - 1 /\ size' = size - 1
       \/ idle < size /\ size' = size - 1 /\ UNCHANGED idle
    /\ UNCHANGED <<statsPc, sizeRead, stats>>

ReadSize ==
    /\ statsPc # "read"
    /\ sizeRead' = size
    /\ statsPc' = "read"
    /\ UNCHANGED <<size, idle, stats>>

\* Mutant: a subtraction that wraps around.
Wrapping(total, unused) == (total + 2 ^ 16 - unused) % 2 ^ 16

\* size.saturating_sub(idle)
saturating_sub(total, unused) == IF unused < total THEN total - unused ELSE 0

ReadIdle ==
    /\ statsPc = "read"
    /\ stats' = [active_connections |-> saturating_sub(sizeRead, idle),
                 idle_connections |-> idle,
                 total_connections |-> sizeRead]
    /\ statsPc' = "done"
    /\ UNCHANGED <<size, idle, sizeRead>>

PoolNext == UsePool \/ ReadSize \/ ReadIdle

PoolSpec == PoolInit /\ [][PoolNext]_poolVars

-----------------------------------------------------------------------------
PoolTypeOK ==
    /\ size \in 0 .. MaxConnections
    /\ idle \in 0 .. size
    /\ statsPc \in {"idle", "read", "done"}
    /\ sizeRead \in 0 .. MaxConnections
    /\ stats \in PoolStats

\* Though the two readings may be of different moments, a report never counts
\* more connections of any kind than the pool may have.
ReportIsPlausible ==
    /\ stats.active_connections <= stats.total_connections
    /\ stats.total_connections <= MaxConnections
    /\ stats.idle_connections <= MaxConnections
=============================================================================
