---------------------------- MODULE StreamManager ----------------------------
(***************************************************************************)
(* StreamManager: the map of result streams behind one RwLock.  Removing a *)
(* stream and cancelling all of them keep the write lock of the map while  *)
(* they wait for the mutexes of the streams; a task with a handle of its   *)
(* own cancels a stream without that lock.  Of a stream itself this module *)
(* keeps what its `cancel` changes (ResultStream has the rest).  A caller  *)
(* may drop the future of its call at any await.                           *)
(***************************************************************************)
EXTENDS FairRwLock

CONSTANTS
    Tasks,      \* the tasks that share the manager
    Streams     \* stream ids; every stream made gets a fresh one

ASSUME ManagerTasksAssumption == "free" \notin Tasks

VARIABLES
    streams,    \* the ids in the map
    flagged,    \* streams whose `cancelled` flag is set
    cleared,    \* streams whose rows have been cleared
    flagOwner,  \* the task that holds the mutex of a stream's flag, or "free"
    held,       \* streams that get_stream has handed out
    made,       \* ids in use
    pc,         \* the lock that each task waits for, "idle" between calls
    op,         \* its method
    target,     \* the stream it works on
    todo,       \* the streams that its cancel_all has still to cancel
    result,     \* how its last call ended, "none" while one is under way
    listed,     \* history: streams that have been in the map
    orphaned    \* history: streams whose removal was dropped half way

cancelVars == <<flagged, cleared, flagOwner>>
idVars == <<held, made, listed, orphaned>>
vars == <<lockVars, streams, cancelVars, idVars, pc, op, target, todo, result>>

Ops == {"none", "register", "get", "remove", "cancel_all", "cancel"}
Results == {"none", "ok", "dropped"}

ReadTicket(t) == Ticket(t, "read")
WriteTicket(t) == Ticket(t, "write")

Init ==
    /\ LockInit
    /\ streams = {} /\ flagged = {} /\ cleared = {}
    /\ flagOwner = [s \in Streams |-> "free"]
    /\ held = {} /\ made = {} /\ listed = {} /\ orphaned = {}
    /\ pc = [t \in Tasks |-> "idle"]
    /\ op = [t \in Tasks |-> "none"]
    /\ target = [t \in Tasks |-> "none"]
    /\ todo = [t \in Tasks |-> {}]
    /\ result = [t \in Tasks |-> "none"]

Goto(t, label) == pc' = [pc EXCEPT ![t] = label]

Call(t, method, s, label) ==
    /\ pc[t] = "idle"
    /\ Goto(t, label)
    /\ op' = [op EXCEPT ![t] = method]
    /\ target' = [target EXCEPT ![t] = s]
    /\ result' = [result EXCEPT ![t] = "none"]
    /\ UNCHANGED <<streams, cancelVars, todo, listed, orphaned>>

Return(t, outcome) ==
    /\ Goto(t, "idle")
    /\ op' = [op EXCEPT ![t] = "none"]
    /\ target' = [target EXCEPT ![t] = "none"]
    /\ todo' = [todo EXCEPT ![t] = {}]
    /\ result' = [result EXCEPT ![t] = outcome]

-----------------------------------------------------------------------------
(* register_stream and get_stream                                          *)

\* register_stream takes the stream by value: nobody else knows it yet.
CallRegister(t) ==
    \E s \in Streams \ made :
        /\ Call(t, "register", s, "lock")
        /\ Enqueue(WriteTicket(t))
        /\ made' = made \cup {s}
        /\ UNCHANGED held

Insert(t) ==
    /\ pc[t] = "lock" /\ op[t] = "register"
    /\ GrantAndDrop(WriteTicket(t))
    /\ streams' = streams \cup {target[t]}
    /\ listed' = listed \cup {target[t]}
    /\ Return(t, "ok")
    /\ UNCHANGED <<cancelVars, held, made, orphaned>>

CallGet(t) ==
    \E s \in Streams :
        /\ Call(t, "get", s, "lock")
        /\ Enqueue(ReadTicket(t))
        /\ UNCHANGED <<held, made>>

\* The handle that get_stream returns outlives the removal of the stream.
Find(t) ==
    /\ pc[t] = "lock" /\ op[t] = "get"
    /\ GrantAndDrop(ReadTicket(t))
    /\ held' = held \cup ({target[t]} \cap streams)
    /\ Return(t, "ok")
    /\ UNCHANGED <<streams, cancelVars, made, listed, orphaned>>

-----------------------------------------------------------------------------
(* remove_stream and cancel_all                                            *)

CallRemove(t) ==
    \E s \in Streams :
        /\ Call(t, "remove", s, "lock")
        /\ Enqueue(WriteTicket(t))
        /\ UNCHANGED <<held, made>>

RemoveAbsent(t) ==
    /\ pc[t] = "lock" /\ op[t] = "remove"
    /\ target[t] \notin streams
    /\ GrantAndDrop(WriteTicket(t))
    /\ Return(t, "ok")
    /\ UNCHANGED <<streams, cancelVars, idVars>>

\* Mutant: the entry is taken out and the stream is left to its readers.
UnlinkOnly(t) ==
    /\ pc[t] = "lock" /\ op[t] = "remove"
    /\ target[t] \in streams
    /\ GrantAndDrop(WriteTicket(t))
    /\ streams' = streams \ {target[t]}
    /\ Return(t, "ok")
    /\ UNCHANGED <<cancelVars, idVars>>

\* The entry is taken out before the stream is cancelled.
Unlink(t) ==
    /\ pc[t] = "lock" /\ op[t] = "remove"
    /\ target[t] \in streams
    /\ Grant(WriteTicket(t))
    /\ streams' = streams \ {target[t]}
    /\ Goto(t, "flag")
    /\ UNCHANGED <<cancelVars, idVars, op, target, todo, result>>

CallCancelAll(t) ==
    /\ Call(t, "cancel_all", "none", "lock")
    /\ Enqueue(WriteTicket(t))
    /\ UNCHANGED <<held, made>>

CancelNone(t) ==
    /\ pc[t] = "lock" /\ op[t] = "cancel_all"
    /\ streams = {}
    /\ GrantAndDrop(WriteTicket(t))
    /\ Return(t, "ok")
    /\ UNCHANGED <<streams, cancelVars, idVars>>

\* The loop goes on with any stream that is left, in the order of the map.
CancelOneOf(t, left) ==
    \E s \in left :
        /\ target' = [target EXCEPT ![t] = s]
        /\ todo' = [todo EXCEPT ![t] = left \ {s}]
        /\ Goto(t, "flag")

\* Mutant: the lock of the map is released once the streams are known.
CancelFirstUnlocked(t) ==
    /\ pc[t] = "lock" /\ op[t] = "cancel_all"
    /\ streams # {}
    /\ GrantAndDrop(WriteTicket(t))
    /\ CancelOneOf(t, streams)
    /\ UNCHANGED <<streams, cancelVars, idVars, op, result>>

CancelFirst(t) ==
    /\ pc[t] = "lock" /\ op[t] = "cancel_all"
    /\ streams # {}
    /\ Grant(WriteTicket(t))
    /\ CancelOneOf(t, streams)
    /\ UNCHANGED <<streams, cancelVars, idVars, op, result>>

-----------------------------------------------------------------------------
(* QueryResultStream::cancel, called with or without the lock of the map   *)

CallCancel(t) ==
    \E s \in held :
        /\ Call(t, "cancel", s, "flag")
        /\ UNCHANGED <<lockVars, held, made>>

\* Mutant: the rows go, the flag stays down.
TakeFlag(t) ==
    /\ pc[t] = "flag"
    /\ flagOwner[target[t]] = "free"
    /\ flagOwner' = [flagOwner EXCEPT ![target[t]] = t]
    /\ Goto(t, "rows")
    /\ UNCHANGED <<lockVars, streams, flagged, cleared, idVars, op, target, todo,
                   result>>

SetFlag(t) ==
    /\ pc[t] = "flag"
    /\ flagOwner[target[t]] = "free"
    /\ flagOwner' = [flagOwner EXCEPT ![target[t]] = t]
    /\ flagged' = flagged \cup {target[t]}
    /\ Goto(t, "rows")
    /\ UNCHANGED <<lockVars, streams, cleared, idVars, op, target, todo, result>>

\* The rows are cleared, both mutexes released, and the caller goes on: it
\* returns, takes up the next stream, or empties the map.
ClearRows(t) ==
    /\ pc[t] = "rows"
    /\ cleared' = cleared \cup {target[t]}
    /\ flagOwner' = [flagOwner EXCEPT ![target[t]] = "free"]
    /\ \/ /\ op[t] = "cancel" \/ op[t] = "remove"
          /\ Drop(WriteTicket(t))
          /\ Return(t, "ok")
          /\ UNCHANGED streams
       \/ /\ op[t] = "cancel_all" /\ todo[t] # {}
          /\ CancelOneOf(t, todo[t])
          /\ UNCHANGED <<lockVars, streams, op, result>>
       \/ /\ op[t] = "cancel_all" /\ todo[t] = {}
          /\ streams' = {}
          /\ Drop(WriteTicket(t))
          /\ Return(t, "ok")
    /\ UNCHANGED <<flagged, idVars>>

-----------------------------------------------------------------------------
\* Mutant: the guard of the map outlives the dropped future.
DropCallKeepingGuard(t) ==
    /\ pc[t] # "idle"
    /\ waiters' = Without(waiters, IF op[t] = "get" THEN ReadTicket(t)
                                   ELSE WriteTicket(t))
    /\ UNCHANGED guards
    /\ flagOwner' = [s \in Streams |-> IF flagOwner[s] = t THEN "free"
                                       ELSE flagOwner[s]]
    /\ orphaned' = IF op[t] = "remove" /\ pc[t] \in {"flag", "rows"}
                   THEN orphaned \cup {target[t]} ELSE orphaned
    /\ Return(t, "dropped")
    /\ UNCHANGED <<streams, flagged, cleared, held, made, listed>>

\* The future of a call is dropped at an await, and its guards with it.
DropCall(t) ==
    /\ pc[t] # "idle"
    /\ Leave(IF op[t] = "get" THEN ReadTicket(t) ELSE WriteTicket(t))
    /\ flagOwner' = [s \in Streams |-> IF flagOwner[s] = t THEN "free"
                                       ELSE flagOwner[s]]
    /\ orphaned' = IF op[t] = "remove" /\ pc[t] \in {"flag", "rows"}
                   THEN orphaned \cup {target[t]} ELSE orphaned
    /\ Return(t, "dropped")
    /\ UNCHANGED <<streams, flagged, cleared, held, made, listed>>

CallStep(t) ==
    \/ Insert(t) \/ Find(t)
    \/ RemoveAbsent(t) \/ Unlink(t) \/ CancelNone(t) \/ CancelFirst(t)
    \/ SetFlag(t) \/ ClearRows(t)

Next ==
    \E t \in Tasks :
        \/ CallRegister(t) \/ CallGet(t) \/ CallRemove(t)
        \/ CallCancelAll(t) \/ CallCancel(t)
        \/ CallStep(t) \/ DropCall(t)

Spec == Init /\ [][Next]_vars

\* Both kinds of lock are fair: a task that waits for one gets it.
FairSpec == Spec /\ \A t \in Tasks : SF_vars(CallStep(t))

-----------------------------------------------------------------------------
InMapLock(t) == op[t] \in {"remove", "cancel_all"} /\ pc[t] \in {"flag", "rows"}

ManagerTypeOK ==
    /\ streams \subseteq listed /\ listed \subseteq made /\ made \subseteq Streams
    /\ held \subseteq listed /\ orphaned \subseteq listed
    /\ cleared \subseteq flagged /\ flagged \subseteq listed
    /\ flagOwner \in [Streams -> Tasks \cup {"free"}]
    /\ pc \in [Tasks -> {"idle", "lock", "flag", "rows"}]
    /\ op \in [Tasks -> Ops]
    /\ target \in [Tasks -> Streams \cup {"none"}]
    /\ todo \in [Tasks -> SUBSET Streams]
    /\ result \in [Tasks -> Results]

\* The lock of the map and the mutex of a stream are held by the calls that
\* are inside them and by nobody else, however many calls are dropped.
LocksFollowCalls ==
    /\ guards = {WriteTicket(t) : t \in {u \in Tasks : InMapLock(u)}}
    /\ \A g, h \in guards : g = h
    /\ \A t \in Tasks, s \in Streams :
          flagOwner[s] = t <=> pc[t] = "rows" /\ target[t] = s

\* A stream that has left the map holds no rows any more, whoever still has a
\* handle of it: except while its removal is under way, and after a removal
\* that was dropped half way, which nobody can finish through the manager.
RemovedIsCleared ==
    \A s \in listed \ streams :
        \/ s \in cleared
        \/ s \in orphaned
        \/ \E t \in Tasks : op[t] = "remove" /\ target[t] = s
                            /\ pc[t] \in {"flag", "rows"}

\* When cancel_all returns, no stream registered before is left: the map is
\* empty and every stream that was ever in it is cleared, orphans excepted.
CancelAllIsComplete ==
    [][\A t \in Tasks :
          op[t] = "cancel_all" /\ pc[t] # "idle" /\ pc'[t] = "idle"
              /\ result'[t] = "ok"
          => streams' = {} /\ listed' \ orphaned' \subseteq cleared']_vars

\* The lock of the map, held while a stream is cancelled, and the mutexes of
\* the streams block no call for ever.
EveryManagerCallReturns ==
    \A t \in Tasks : pc[t] # "idle" ~> pc[t] = "idle"
=============================================================================
