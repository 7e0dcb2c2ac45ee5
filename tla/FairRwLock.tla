----------------------------- MODULE FairRwLock -----------------------------
(***************************************************************************)
(* The tokio RwLock that guards `pool_managers`, as the server uses it.    *)
(* External code: a fair lock whose waiters are served strictly in the     *)
(* order of their `.read().await` / `.write().await`, so that a reader     *)
(* does not overtake a writer that waits before it.  A ticket is a task's  *)
(* claim on the lock; it is in `waiters` until it is granted and in        *)
(* `guards` for as long as the task keeps the guard alive.                 *)
(***************************************************************************)
EXTENDS Naturals, Sequences

VARIABLES
    waiters,    \* tickets waiting for the lock, in order of arrival
    guards      \* tickets whose guard is alive

lockVars == <<waiters, guards>>

Ticket(who, mode) == [who |-> who, mode |-> mode]

LockInit ==
    /\ waiters = <<>>
    /\ guards = {}

\* A write guard excludes every other guard, a read guard every write guard.
Compatible(t) ==
    \A g \in guards : t.mode = "read" /\ g.mode = "read"

\* The lock may be handed to t: it is first in line and fits the live guards.
Grantable(t) ==
    /\ waiters # <<>>
    /\ Head(waiters) = t
    /\ Compatible(t)

Enqueue(t) ==
    /\ waiters' = Append(waiters, t)
    /\ UNCHANGED guards

Grant(t) ==
    /\ Grantable(t)
    /\ waiters' = Tail(waiters)
    /\ guards' = guards \cup {t}

\* A guard that is taken and dropped with no await in between.
GrantAndDrop(t) ==
    /\ Grantable(t)
    /\ waiters' = Tail(waiters)
    /\ UNCHANGED guards

\* Dropping the guard t (or nothing, when t is not held).
Drop(t) ==
    /\ guards' = guards \ {t}
    /\ UNCHANGED waiters

\* The line without t, which stands in it once at most.
Without(line, t) ==
    LET places == {i \in DOMAIN line : line[i] = t}
        place  == CHOOSE i \in places : TRUE
    IN  IF places = {} THEN line
        ELSE [i \in 1 .. Len(line) - 1 |-> line[IF i < place THEN i ELSE i + 1]]

\* The future that waits for the lock, or holds it, is dropped.
Leave(t) ==
    /\ waiters' = Without(waiters, t)
    /\ guards' = guards \ {t}
=============================================================================
