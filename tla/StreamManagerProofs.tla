------------------------- MODULE StreamManagerProofs -------------------------
(***************************************************************************)
(* Theorems about StreamManager for every number of tasks and streams.     *)
(***************************************************************************)
EXTENDS StreamManager, FairRwLockProofs, TLAPS

\* The task is inside the cancel of a stream.
Cancelling(t) == pc[t] \in {"flag", "rows"}

\* What a call that cancels streams works on: a stream that has been in the
\* map, flagged once its mutex is held; a cancel_all has every stream of the
\* map behind it, before it, or in hand.
WorkInv ==
    /\ \A t \in Tasks : Cancelling(t) => op[t] \in {"remove", "cancel_all", "cancel"}
    /\ \A t \in Tasks : Cancelling(t) => target[t] \in listed
    /\ \A t \in Tasks : pc[t] = "rows" => target[t] \in flagged
    /\ \A t \in Tasks : pc[t] = "lock" => op[t] # "cancel"
    /\ \A t \in Tasks : pc[t] = "lock" /\ op[t] # "cancel_all"
                           => target[t] \in Streams
    /\ \A t \in Tasks : pc[t] = "lock" /\ op[t] = "register"
                           => target[t] \in made
    /\ \A t \in Tasks : todo[t] \subseteq listed
    /\ \A t \in Tasks : Cancelling(t) /\ op[t] = "cancel_all"
                           => streams \subseteq cleared \cup todo[t] \cup {target[t]}

\* The inductive invariant of the manager.
ManagerInv == ManagerTypeOK /\ LocksFollowCalls /\ RemovedIsCleared /\ WorkInv

\* A new manager is empty.
LEMMA ManagerInit == Init => ManagerInv
<1> SUFFICES ASSUME Init PROVE ManagerInv
  OBVIOUS
<1>1. ManagerTypeOK
  BY DEF Init, ManagerTypeOK, Ops, Results
<1>2. LocksFollowCalls
  BY ManagerTasksAssumption DEF Init, LockInit, LocksFollowCalls, InMapLock
<1>3. RemovedIsCleared /\ WorkInv
  BY DEF Init, RemovedIsCleared, WorkInv, Cancelling
<1> QED BY <1>1, <1>2, <1>3 DEF ManagerInv

\* Every step keeps the types and the life of a stream: made, listed, flagged,
\* cleared.
LEMMA ManagerTypeStep == ManagerInv /\ [Next]_vars => ManagerTypeOK'
<1> SUFFICES ASSUME ManagerInv, [Next]_vars PROVE ManagerTypeOK'
  OBVIOUS
<1> USE DEF ManagerInv
<1>1. CASE UNCHANGED vars
  BY <1>1
     DEF vars, ManagerTypeOK, WorkInv, Cancelling, Ops, Results, cancelVars,
         idVars, lockVars
<1>2. ASSUME NEW t \in Tasks,
             CallRegister(t) \/ CallGet(t) \/ CallRemove(t) \/ CallCancelAll(t)
      PROVE  ManagerTypeOK'
  <2>1. CASE CallRegister(t)
    BY <2>1
       DEF CallRegister, Call, Enqueue, Goto, cancelVars, ManagerTypeOK, Ops, Results
  <2>2. CASE CallGet(t)
    BY <2>2
       DEF CallGet, Call, Enqueue, Goto, cancelVars, ManagerTypeOK, Ops, Results
  <2>3. CASE CallRemove(t)
    BY <2>3
       DEF CallRemove, Call, Enqueue, Goto, cancelVars, ManagerTypeOK, Ops, Results
  <2>4. CASE CallCancelAll(t)
    BY <2>4
       DEF CallCancelAll, Call, Enqueue, Goto, cancelVars, ManagerTypeOK, Ops, Results
  <2> QED BY <1>2, <2>1, <2>2, <2>3, <2>4
<1>3. ASSUME NEW t \in Tasks, CallCancel(t) PROVE ManagerTypeOK'
  BY <1>3
     DEF CallCancel, Call, Goto, cancelVars, lockVars, ManagerTypeOK, WorkInv,
         Cancelling, Ops, Results
<1>4. ASSUME NEW t \in Tasks, Insert(t) \/ Find(t) PROVE ManagerTypeOK'
  BY <1>4
     DEF Insert, Find, GrantAndDrop, Goto, Return, cancelVars, ManagerTypeOK,
         WorkInv, Cancelling, Ops, Results
<1>5. ASSUME NEW t \in Tasks, RemoveAbsent(t) \/ CancelNone(t) PROVE ManagerTypeOK'
  BY <1>5 DEF RemoveAbsent, CancelNone, GrantAndDrop, Goto, Return, cancelVars,
     idVars, ManagerTypeOK, WorkInv, Cancelling, Ops, Results
<1>6. ASSUME NEW t \in Tasks, Unlink(t) PROVE ManagerTypeOK'
  BY <1>6
     DEF Unlink, Grant, Grantable, Compatible, Ticket, Goto, cancelVars,
         idVars, ManagerTypeOK, WorkInv, Cancelling, Ops, Results
<1>7. ASSUME NEW t \in Tasks, CancelFirst(t) PROVE ManagerTypeOK'
  BY <1>7
     DEF CancelFirst, CancelOneOf, Grant, Grantable, Compatible, Ticket, Goto,
         cancelVars, idVars, ManagerTypeOK, WorkInv, Cancelling, Ops, Results
<1>8. ASSUME NEW t \in Tasks, SetFlag(t) PROVE ManagerTypeOK'
  BY <1>8
     DEF SetFlag, Goto, idVars, lockVars, ManagerTypeOK, WorkInv, Cancelling,
         Ops, Results
<1>9. ASSUME NEW t \in Tasks, ClearRows(t) PROVE ManagerTypeOK'
  BY <1>9
     DEF ClearRows, CancelOneOf, Drop, Goto, Return, idVars, lockVars,
         ManagerTypeOK, WorkInv, Cancelling, Ops, Results
<1>10. ASSUME NEW t \in Tasks, DropCall(t) PROVE ManagerTypeOK'
  BY <1>10
     DEF DropCall, Leave, Goto, Return, ManagerTypeOK, WorkInv, Cancelling,
         Ops, Results
<1> QED BY <1>1, <1>2, <1>3, <1>4, <1>5, <1>6, <1>7, <1>8, <1>9, <1>10
        DEF Next, CallStep

\* Every step keeps the locks with the calls that are inside.
LEMMA LocksStep == ManagerInv /\ [Next]_vars => LocksFollowCalls'
<1> SUFFICES ASSUME ManagerInv, [Next]_vars PROVE LocksFollowCalls'
  OBVIOUS
<1> USE DEF ManagerInv
<1>1. CASE UNCHANGED vars
  BY <1>1
     DEF vars, LocksFollowCalls, InMapLock, ManagerTypeOK, WorkInv,
         Cancelling, WriteTicket, Ticket, cancelVars, idVars, lockVars
<1>2. ASSUME NEW t \in Tasks,
             CallRegister(t) \/ CallGet(t) \/ CallRemove(t) \/ CallCancelAll(t)
      PROVE  LocksFollowCalls'
  <2>1. CASE CallRegister(t)
    BY <2>1, ManagerTasksAssumption
       DEF CallRegister, Call, Enqueue, Goto, cancelVars, LocksFollowCalls, InMapLock,
           ManagerTypeOK, WriteTicket, Ticket
  <2>2. CASE CallGet(t)
    BY <2>2, ManagerTasksAssumption
       DEF CallGet, Call, Enqueue, Goto, cancelVars, LocksFollowCalls, InMapLock,
           ManagerTypeOK, WriteTicket, Ticket
  <2>3. CASE CallRemove(t)
    BY <2>3, ManagerTasksAssumption
       DEF CallRemove, Call, Enqueue, Goto, cancelVars, LocksFollowCalls, InMapLock,
           ManagerTypeOK, WriteTicket, Ticket
  <2>4. CASE CallCancelAll(t)
    BY <2>4, ManagerTasksAssumption
       DEF CallCancelAll, Call, Enqueue, Goto, cancelVars, LocksFollowCalls, InMapLock,
           ManagerTypeOK, WriteTicket, Ticket
  <2> QED BY <1>2, <2>1, <2>2, <2>3, <2>4
<1>3. ASSUME NEW t \in Tasks, CallCancel(t) PROVE LocksFollowCalls'
  BY <1>3, ManagerTasksAssumption
     DEF CallCancel, Call, Goto, cancelVars, lockVars, LocksFollowCalls,
         InMapLock, ManagerTypeOK, WorkInv, Cancelling, WriteTicket, Ticket
<1>4. ASSUME NEW t \in Tasks, Insert(t) \/ Find(t) PROVE LocksFollowCalls'
  BY <1>4, ManagerTasksAssumption
     DEF Insert, Find, GrantAndDrop, Goto, Return, cancelVars,
         LocksFollowCalls, InMapLock, ManagerTypeOK, WorkInv, Cancelling,
         WriteTicket, Ticket
<1>5. ASSUME NEW t \in Tasks, RemoveAbsent(t) \/ CancelNone(t) PROVE LocksFollowCalls'
  BY <1>5, ManagerTasksAssumption
     DEF RemoveAbsent, CancelNone, GrantAndDrop, Goto, Return, cancelVars,
         idVars, LocksFollowCalls, InMapLock, ManagerTypeOK, WorkInv,
         Cancelling, WriteTicket, Ticket
<1>6. ASSUME NEW t \in Tasks, Unlink(t) PROVE LocksFollowCalls'
  BY <1>6, ManagerTasksAssumption
     DEF Unlink, Grant, Grantable, Compatible, Ticket, Goto, cancelVars,
         idVars, LocksFollowCalls, InMapLock, ManagerTypeOK, WorkInv,
         Cancelling, WriteTicket, Ticket
<1>7. ASSUME NEW t \in Tasks, CancelFirst(t) PROVE LocksFollowCalls'
  BY <1>7, ManagerTasksAssumption
     DEF CancelFirst, CancelOneOf, Grant, Grantable, Compatible, Ticket, Goto,
         cancelVars, idVars, LocksFollowCalls, InMapLock, ManagerTypeOK,
         WorkInv, Cancelling, WriteTicket, Ticket
<1>8. ASSUME NEW t \in Tasks, SetFlag(t) PROVE LocksFollowCalls'
  BY <1>8, ManagerTasksAssumption
     DEF SetFlag, Goto, idVars, lockVars, LocksFollowCalls, InMapLock,
         ManagerTypeOK, WorkInv, Cancelling, WriteTicket, Ticket
<1>9. ASSUME NEW t \in Tasks, ClearRows(t) PROVE LocksFollowCalls'
  BY <1>9, ManagerTasksAssumption
     DEF ClearRows, CancelOneOf, Drop, Goto, Return, idVars, lockVars,
         LocksFollowCalls, InMapLock, ManagerTypeOK, WorkInv, Cancelling,
         WriteTicket, Ticket
<1>10. ASSUME NEW t \in Tasks, DropCall(t) PROVE LocksFollowCalls'
  <2>1. guards' = guards \ {WriteTicket(t)}
    <3>1. CASE op[t] = "get"
      <4>1. \A g \in guards : g # ReadTicket(t) /\ g # WriteTicket(t)
        <5>1. ~InMapLock(t)
          BY <3>1 DEF InMapLock
        <5>2. \A u \in Tasks : /\ WriteTicket(u) # ReadTicket(t)
                               /\ WriteTicket(u) = WriteTicket(t) => u = t
          BY DEF WriteTicket, ReadTicket, Ticket
        <5> QED BY <5>1, <5>2 DEF LocksFollowCalls
      <4>2. guards' = guards \ {ReadTicket(t)}
        BY <1>10, <3>1 DEF DropCall, Leave
      <4> QED BY <4>1, <4>2
    <3>2. CASE op[t] # "get"
      BY <1>10, <3>2 DEF DropCall, Leave
    <3> QED BY <3>1, <3>2
  <2>2. \A u \in Tasks : InMapLock(u)' <=> InMapLock(u) /\ u # t
    BY <1>10 DEF DropCall, Goto, Return, InMapLock, ManagerTypeOK
  <2>3. \A u \in Tasks : WriteTicket(u) = WriteTicket(t) => u = t
    BY DEF WriteTicket, Ticket
  <2>4. guards' = {WriteTicket(u) : u \in {v \in Tasks : InMapLock(v)'}}
    BY <2>1, <2>2, <2>3 DEF LocksFollowCalls
  <2>5. \A g, h \in guards' : g = h
    BY <2>1 DEF LocksFollowCalls
  <2>6. \A u \in Tasks, s \in Streams :
           flagOwner'[s] = u <=> pc'[u] = "rows" /\ target'[u] = s
    BY <1>10, ManagerTasksAssumption
       DEF DropCall, Goto, Return, LocksFollowCalls, ManagerTypeOK
  <2> QED BY <2>4, <2>5, <2>6 DEF LocksFollowCalls, WriteTicket, Ticket
<1> QED BY <1>1, <1>2, <1>3, <1>4, <1>5, <1>6, <1>7, <1>8, <1>9, <1>10
        DEF Next, CallStep

\* Every step accounts for the streams that have left the map.
LEMMA RemovedStep == ManagerInv /\ [Next]_vars => RemovedIsCleared'
<1> SUFFICES ASSUME ManagerInv, [Next]_vars PROVE RemovedIsCleared'
  OBVIOUS
<1> USE DEF ManagerInv
<1>1. CASE UNCHANGED vars
  BY <1>1
     DEF vars, RemovedIsCleared, ManagerTypeOK, WorkInv, Cancelling,
         InMapLock, LocksFollowCalls, cancelVars, idVars, lockVars
<1>2. ASSUME NEW t \in Tasks,
             CallRegister(t) \/ CallGet(t) \/ CallRemove(t) \/ CallCancelAll(t)
      PROVE  RemovedIsCleared'
  BY <1>2
     DEF CallRegister, CallGet, CallRemove, CallCancelAll, Call, Enqueue,
         Goto, cancelVars, RemovedIsCleared, ManagerTypeOK, WorkInv,
         Cancelling, InMapLock, LocksFollowCalls
<1>3. ASSUME NEW t \in Tasks, CallCancel(t) PROVE RemovedIsCleared'
  BY <1>3
     DEF CallCancel, Call, Goto, cancelVars, lockVars, RemovedIsCleared,
         ManagerTypeOK, WorkInv, Cancelling, InMapLock, LocksFollowCalls
<1>4. ASSUME NEW t \in Tasks, Insert(t) \/ Find(t) PROVE RemovedIsCleared'
  BY <1>4
     DEF Insert, Find, GrantAndDrop, Goto, Return, cancelVars,
         RemovedIsCleared, ManagerTypeOK, WorkInv, Cancelling, InMapLock,
         LocksFollowCalls
<1>5. ASSUME NEW t \in Tasks, RemoveAbsent(t) \/ CancelNone(t) PROVE RemovedIsCleared'
  BY <1>5
     DEF RemoveAbsent, CancelNone, GrantAndDrop, Goto, Return, cancelVars,
         idVars, RemovedIsCleared, ManagerTypeOK, WorkInv, Cancelling,
         InMapLock, LocksFollowCalls
<1>6. ASSUME NEW t \in Tasks, Unlink(t) PROVE RemovedIsCleared'
  BY <1>6
     DEF Unlink, Grant, Grantable, Compatible, Ticket, Goto, cancelVars,
         idVars, RemovedIsCleared, ManagerTypeOK, WorkInv, Cancelling,
         InMapLock, LocksFollowCalls
<1>7. ASSUME NEW t \in Tasks, CancelFirst(t) PROVE RemovedIsCleared'
  BY <1>7
     DEF CancelFirst, CancelOneOf, Grant, Grantable, Compatible, Ticket, Goto,
         cancelVars, idVars, RemovedIsCleared, ManagerTypeOK, WorkInv,
         Cancelling, InMapLock, LocksFollowCalls
<1>8. ASSUME NEW t \in Tasks, SetFlag(t) PROVE RemovedIsCleared'
  BY <1>8
     DEF SetFlag, Goto, idVars, lockVars, RemovedIsCleared, ManagerTypeOK,
         WorkInv, Cancelling, InMapLock, LocksFollowCalls
<1>9. ASSUME NEW t \in Tasks, ClearRows(t) PROVE RemovedIsCleared'
  BY <1>9
     DEF ClearRows, CancelOneOf, Drop, Goto, Return, idVars, lockVars,
         RemovedIsCleared, ManagerTypeOK, WorkInv, Cancelling, InMapLock,
         LocksFollowCalls
<1>10. ASSUME NEW t \in Tasks, DropCall(t) PROVE RemovedIsCleared'
  BY <1>10
     DEF DropCall, Leave, Goto, Return, RemovedIsCleared, ManagerTypeOK,
         WorkInv, Cancelling, InMapLock, LocksFollowCalls
<1> QED BY <1>1, <1>2, <1>3, <1>4, <1>5, <1>6, <1>7, <1>8, <1>9, <1>10
        DEF Next, CallStep

\* Every step keeps the streams that a cancel_all has before and behind it.
LEMMA WorkStep == ManagerInv /\ [Next]_vars => WorkInv'
<1> SUFFICES ASSUME ManagerInv, [Next]_vars PROVE WorkInv'
  OBVIOUS
<1> USE DEF ManagerInv
<1>1. CASE UNCHANGED vars
  BY <1>1
     DEF vars, WorkInv, ManagerTypeOK, Cancelling, InMapLock,
         LocksFollowCalls, WriteTicket, Ticket, cancelVars, idVars, lockVars
<1>2. ASSUME NEW t \in Tasks,
             CallRegister(t) \/ CallGet(t) \/ CallRemove(t) \/ CallCancelAll(t)
      PROVE  WorkInv'
  <2>1. /\ made \subseteq made'
        /\ pc' = [pc EXCEPT ![t] = "lock"]
        /\ UNCHANGED <<streams, flagged, cleared, todo, listed>>
    BY <1>2 DEF CallRegister, CallGet, CallRemove, CallCancelAll, Call, Goto,
                cancelVars
  <2>2. PICK m \in Ops, s \in Streams \cup {"none"} :
           /\ op' = [op EXCEPT ![t] = m] /\ target' = [target EXCEPT ![t] = s]
           /\ m # "cancel" /\ (m # "cancel_all" => s \in Streams)
           /\ m = "register" => s \in made'
    BY <1>2 DEF CallRegister, CallGet, CallRemove, CallCancelAll, Call, Ops
  <2> QED BY <2>1, <2>2 DEF WorkInv, ManagerTypeOK, Cancelling
<1>3. ASSUME NEW t \in Tasks, CallCancel(t) PROVE WorkInv'
  BY <1>3
     DEF CallCancel, Call, Goto, cancelVars, WorkInv, ManagerTypeOK,
         Cancelling
<1>4. ASSUME NEW t \in Tasks, Insert(t) \/ Find(t) PROVE WorkInv'
  <2>1. CASE Insert(t)
    <3>1. guards = {}
      BY <2>1
         DEF Insert, GrantAndDrop, Grantable, Compatible, WriteTicket, Ticket
    <3>2. \A u \in Tasks : ~InMapLock(u)
      BY <3>1 DEF LocksFollowCalls
    <3> QED BY <2>1, <3>2
               DEF Insert, Goto, Return, cancelVars, WorkInv, ManagerTypeOK,
                   Cancelling, InMapLock
  <2>2. CASE Find(t)
    BY <2>2
       DEF Find, Goto, Return, cancelVars, WorkInv, ManagerTypeOK, Cancelling
  <2> QED BY <1>4, <2>1, <2>2
<1>5. ASSUME NEW t \in Tasks, RemoveAbsent(t) \/ CancelNone(t) PROVE WorkInv'
  BY <1>5
     DEF RemoveAbsent, CancelNone, GrantAndDrop, Goto, Return, cancelVars,
         idVars, WorkInv, ManagerTypeOK, Cancelling, InMapLock,
         LocksFollowCalls, WriteTicket, Ticket
<1>6. ASSUME NEW t \in Tasks, Unlink(t) PROVE WorkInv'
  BY <1>6
     DEF Unlink, Grant, Grantable, Compatible, Ticket, Goto, cancelVars,
         idVars, WorkInv, ManagerTypeOK, Cancelling, InMapLock,
         LocksFollowCalls, WriteTicket, Ticket
<1>7. ASSUME NEW t \in Tasks, CancelFirst(t) PROVE WorkInv'
  BY <1>7
     DEF CancelFirst, CancelOneOf, Grant, Grantable, Compatible, Ticket, Goto,
         cancelVars, idVars, WorkInv, ManagerTypeOK, Cancelling, InMapLock,
         LocksFollowCalls, WriteTicket, Ticket
<1>8. ASSUME NEW t \in Tasks, SetFlag(t) PROVE WorkInv'
  BY <1>8
     DEF SetFlag, Goto, idVars, lockVars, WorkInv, ManagerTypeOK, Cancelling,
         InMapLock, LocksFollowCalls, WriteTicket, Ticket
<1>9. ASSUME NEW t \in Tasks, ClearRows(t) PROVE WorkInv'
  BY <1>9
     DEF ClearRows, CancelOneOf, Drop, Goto, Return, idVars, lockVars,
         WorkInv, ManagerTypeOK, Cancelling, InMapLock, LocksFollowCalls,
         WriteTicket, Ticket
<1>10. ASSUME NEW t \in Tasks, DropCall(t) PROVE WorkInv'
  BY <1>10
     DEF DropCall, Leave, Goto, Return, WorkInv, ManagerTypeOK, Cancelling,
         InMapLock, LocksFollowCalls, WriteTicket, Ticket
<1> QED BY <1>1, <1>2, <1>3, <1>4, <1>5, <1>6, <1>7, <1>8, <1>9, <1>10
        DEF Next, CallStep

\* The parts together.
LEMMA ManagerStep == ManagerInv /\ [Next]_vars => ManagerInv'
BY ManagerTypeStep, LocksStep, RemovedStep, WorkStep DEF ManagerInv

-----------------------------------------------------------------------------
\* A stream is made, then listed, then flagged, then cleared, and every task's
\* call is one of the manager's methods at one of its awaits.
THEOREM ManagerTypes == Spec => []ManagerTypeOK
<1>1. ManagerInv => ManagerTypeOK
  BY DEF ManagerInv
<1> QED BY <1>1, ManagerInit, ManagerStep, PTL DEF Spec

\* No dropped call leaves the map or a stream locked, and at most one task is
\* inside the lock of the map.
THEOREM ManagerLocksFollowCalls == Spec => []LocksFollowCalls
<1>1. ManagerInv => LocksFollowCalls
  BY DEF ManagerInv
<1> QED BY <1>1, ManagerInit, ManagerStep, PTL DEF Spec

\* remove_stream leaves no stream with its rows outside the map, unless its
\* own future is dropped between the two.
THEOREM RemovalClears == Spec => []RemovedIsCleared
<1>1. ManagerInv => RemovedIsCleared
  BY DEF ManagerInv
<1> QED BY <1>1, ManagerInit, ManagerStep, PTL DEF Spec

\* The lock that cancel_all keeps over its awaits makes it complete: no stream
\* that was registered before it returns has rows left.
THEOREM CancelAllCompletes == Spec => CancelAllIsComplete
<1> DEFINE Ends(t) == /\ op[t] = "cancel_all" /\ pc[t] # "idle" /\ pc'[t] = "idle"
                      /\ result'[t] = "ok"
<1>1. ASSUME ManagerInv, [Next]_vars, NEW t \in Tasks, Ends(t)
      PROVE  streams' = {} /\ listed' \ orphaned' \subseteq cleared'
  <2>1. CancelNone(t) \/ ClearRows(t)
    <3>1. PICK u \in Tasks : \/ CallRegister(u) \/ CallGet(u) \/ CallRemove(u)
                             \/ CallCancelAll(u) \/ CallCancel(u)
                             \/ CallStep(u) \/ DropCall(u)
      BY <1>1 DEF Next, vars
    <3>2. u = t
      BY <1>1, <3>1
         DEF CallRegister, CallGet, CallRemove, CallCancelAll, CallCancel,
             Call, CallStep, Insert, Find, RemoveAbsent, CancelNone, Unlink,
             CancelFirst, CancelOneOf, SetFlag, ClearRows, DropCall, Goto,
             Return, ManagerInv, ManagerTypeOK
    <3> QED BY <1>1, <3>1, <3>2 DEF CallRegister, CallGet, CallRemove,
         CallCancelAll, CallCancel, Call, CallStep, Insert, Find, RemoveAbsent,
         Unlink, CancelFirst, CancelOneOf, SetFlag, DropCall, Goto, Return,
         ManagerInv, ManagerTypeOK
  <2>2. CASE CancelNone(t)
    <3>1. streams = {} /\ guards = {}
      BY <2>2
         DEF CancelNone, GrantAndDrop, Grantable, Compatible, WriteTicket,
             Ticket
    <3>2. \A u \in Tasks : ~InMapLock(u)
      BY <1>1, <3>1 DEF ManagerInv, LocksFollowCalls
    <3>3. listed \ orphaned \subseteq cleared
      BY <1>1, <3>1, <3>2 DEF ManagerInv, RemovedIsCleared, InMapLock
    <3> QED BY <2>2, <3>1, <3>3 DEF CancelNone, cancelVars, idVars
  <2>3. CASE ClearRows(t)
    <3>1. pc[t] = "rows" /\ todo[t] = {} /\ streams' = {}
      BY <1>1, <2>3 DEF ClearRows, CancelOneOf, Goto, Return, ManagerInv,
                        ManagerTypeOK
    <3>2. \A u \in Tasks : InMapLock(u) => u = t
      <4>1. \A u \in Tasks : InMapLock(u) => WriteTicket(u) = WriteTicket(t)
        BY <1>1, <3>1 DEF ManagerInv, LocksFollowCalls, InMapLock
      <4> QED BY <4>1 DEF WriteTicket, Ticket
    <3>3. \A u \in Tasks : ~(op[u] = "remove" /\ pc[u] \in {"flag", "rows"})
      BY <1>1, <3>2 DEF InMapLock
    <3>4. listed \ streams \subseteq cleared \cup orphaned
      BY <1>1, <3>3 DEF ManagerInv, RemovedIsCleared
    <3>5. streams \subseteq cleared \cup {target[t]}
      BY <1>1, <3>1 DEF ManagerInv, WorkInv, Cancelling
    <3> QED BY <2>3, <3>1, <3>4, <3>5 DEF ClearRows, idVars
  <2> QED BY <2>1, <2>2, <2>3
<1>2. ManagerInv /\ [Next]_vars =>
         \A t \in Tasks :
            op[t] = "cancel_all" /\ pc[t] # "idle" /\ pc'[t] = "idle"
                /\ result'[t] = "ok"
            => streams' = {} /\ listed' \ orphaned' \subseteq cleared'
  BY <1>1
<1> QED BY <1>2, ManagerInit, ManagerStep, PTL DEF Spec, CancelAllIsComplete

-----------------------------------------------------------------------------
(* Who waits for whom.                                                     *)

\* The ticket that a call takes for the lock of the map.
TicketFor(t) == IF op[t] = "get" THEN ReadTicket(t) ELSE WriteTicket(t)

Tickets == [who : Tasks, mode : {"read", "write"}]

\* The calls that wait for the lock of the map stand in its line, each once;
\* a dropped call has left it.
LineInv ==
    /\ waiters \in Lines(Tickets)
    /\ Range(waiters) = {TicketFor(t) : t \in {u \in Tasks : pc[u] = "lock"}}
    /\ \A t \in Tasks : pc[t] = "lock" => op[t] \in Ops \ {"none", "cancel"}

\* What a step does to the line.
LineKept == LineInv' /\ KeepsOrder(waiters, waiters')

\* A ticket names its task.
LEMMA TicketNames ==
    /\ \A t \in Tasks : TicketFor(t) \in Tickets /\ TicketFor(t).who = t
    /\ \A t, u \in Tasks : TicketFor(t) = TicketFor(u) => t = u
BY DEF TicketFor, Tickets, ReadTicket, WriteTicket, Ticket

\* A call asks for the lock.
LEMMA LineJoined ==
    ASSUME ManagerTypeOK, LineInv, NEW t \in Tasks, pc[t] = "idle",
           NEW m \in Ops \ {"none", "cancel"}, op' = [op EXCEPT ![t] = m],
           pc' = [pc EXCEPT ![t] = "lock"],
           waiters' = Append(waiters, IF m = "get" THEN ReadTicket(t) ELSE WriteTicket(t))
    PROVE  LineKept
<1> DEFINE new == IF m = "get" THEN ReadTicket(t) ELSE WriteTicket(t)
<1>1. /\ TicketFor(t)' = new /\ new \in Tickets /\ new.who = t
      /\ \A u \in Tasks : u # t => TicketFor(u)' = TicketFor(u)
  BY DEF ManagerTypeOK, TicketFor, Tickets, ReadTicket, WriteTicket, Ticket
<1> HIDE DEF new
<1>2. \A u \in Tasks : pc'[u] = "lock" <=> pc[u] = "lock" \/ u = t
  BY DEF ManagerTypeOK
<1>3. new \notin Range(waiters)
  BY <1>1, TicketNames DEF LineInv
<1>4. waiters' = Append(waiters, new)
  BY DEF new
<1>5. /\ waiters' \in Lines(Tickets) /\ KeepsOrder(waiters, waiters')
      /\ Range(waiters') = Range(waiters) \cup {new}
  BY <1>1, <1>3, <1>4, JoinLine DEF LineInv
<1>6. Range(waiters') = {TicketFor(u)' : u \in {v \in Tasks : pc'[v] = "lock"}}
  BY <1>1, <1>2, <1>5 DEF LineInv
<1>7. \A u \in Tasks : pc'[u] = "lock" => op'[u] \in Ops \ {"none", "cancel"}
  BY <1>2 DEF ManagerTypeOK, LineInv
<1> QED BY <1>5, <1>6, <1>7 DEF LineKept, LineInv

\* A call leaves the line, served or dropped; or it was not in it.
LEMMA LineLeft ==
    ASSUME ManagerTypeOK, LineInv, NEW t \in Tasks,
           \A u \in Tasks : pc'[u] = "lock" <=> pc[u] = "lock" /\ u # t,
           \A u \in Tasks : u # t => op'[u] = op[u],
           waiters' \in Lines(Tickets), KeepsOrder(waiters, waiters'),
           Range(waiters') = Range(waiters) \ {TicketFor(t)}
    PROVE  LineKept
<1>1. \A u \in Tasks : u # t => TicketFor(u)' = TicketFor(u)
  BY DEF TicketFor
<1>2. Range(waiters') = {TicketFor(u)' : u \in {v \in Tasks : pc'[v] = "lock"}}
  BY <1>1, TicketNames DEF LineInv
<1>3. \A u \in Tasks : pc'[u] = "lock" => op'[u] \in Ops \ {"none", "cancel"}
  BY DEF LineInv
<1> QED BY <1>2, <1>3 DEF LineKept, LineInv

\* A call that is not in the line goes on.
LEMMA LineBeside ==
    ASSUME ManagerTypeOK, LineInv, waiters' = waiters, NEW t \in Tasks, pc[t] # "lock",
           NEW l \in {"idle", "flag", "rows"}, pc' = [pc EXCEPT ![t] = l],
           \A u \in Tasks : u # t => op'[u] = op[u]
    PROVE  LineKept
<1>1. TicketFor(t) \notin Range(waiters)
  BY TicketNames DEF LineInv
<1>2. \A u \in Tasks : pc'[u] = "lock" <=> pc[u] = "lock" /\ u # t
  BY DEF ManagerTypeOK
<1>3. KeepsOrder(waiters, waiters')
  BY DEF KeepsOrder
<1> QED BY <1>1, <1>2, <1>3, LineLeft DEF LineInv

\* A call whose turn has come.
LEMMA LineServed ==
    ASSUME ManagerTypeOK, LineInv, NEW t \in Tasks,
           \/ Insert(t) \/ Find(t) \/ RemoveAbsent(t) \/ Unlink(t)
           \/ CancelNone(t) \/ CancelFirst(t)
    PROVE  LineKept
<1>1. Grantable(TicketFor(t)) /\ waiters' = Tail(waiters)
  BY DEF Insert, Find, RemoveAbsent, Unlink, CancelNone, CancelFirst, Grant,
         GrantAndDrop, TicketFor
<1>2. PICK l \in {"idle", "flag"} : pc' = [pc EXCEPT ![t] = l]
  BY DEF Insert, Find, RemoveAbsent, Unlink, CancelNone, CancelFirst, CancelOneOf,
         Return, Goto
<1>3. \A u \in Tasks : u # t => op'[u] = op[u]
  BY DEF Insert, Find, RemoveAbsent, Unlink, CancelNone, CancelFirst, Return,
         ManagerTypeOK
<1>4. /\ waiters' \in Lines(Tickets) /\ KeepsOrder(waiters, waiters')
      /\ Range(waiters') = Range(waiters) \ {TicketFor(t)}
  BY <1>1, ServeLine DEF LineInv, Grantable
<1>5. \A u \in Tasks : pc'[u] = "lock" <=> pc[u] = "lock" /\ u # t
  BY <1>2 DEF ManagerTypeOK
<1> QED BY <1>3, <1>4, <1>5, LineLeft

\* Every step keeps the line with the calls that wait for the lock.
LEMMA LineStep == ManagerTypeOK /\ LineInv /\ [Next]_vars => LineKept
<1> SUFFICES ASSUME ManagerTypeOK, LineInv, [Next]_vars PROVE LineKept
  OBVIOUS
<1>1. CASE UNCHANGED vars
  <2>1. UNCHANGED <<waiters, pc, op>>
    BY <1>1 DEF vars, lockVars
  <2>2. \A t \in Tasks : TicketFor(t)' = TicketFor(t)
    BY <2>1 DEF TicketFor
  <2> QED BY <2>1, <2>2 DEF LineKept, LineInv, KeepsOrder
<1>2. ASSUME NEW t \in Tasks,
             CallRegister(t) \/ CallGet(t) \/ CallRemove(t) \/ CallCancelAll(t)
      PROVE  LineKept
  <2>1. pc[t] = "idle" /\ pc' = [pc EXCEPT ![t] = "lock"]
    BY <1>2 DEF CallRegister, CallGet, CallRemove, CallCancelAll, Call, Goto
  <2>2. CASE CallRegister(t)
    <3>1. op' = [op EXCEPT ![t] = "register"] /\ "register" \in Ops \ {"none", "cancel"}
      BY <2>2 DEF CallRegister, Call, Ops
    <3>2. waiters' = Append(waiters, WriteTicket(t))
      BY <2>2 DEF CallRegister, Enqueue
    <3>3. waiters' = Append(waiters, IF "register" = "get" THEN ReadTicket(t) ELSE WriteTicket(t))
      BY <3>2
    <3> QED BY <2>1, <3>1, <3>3, LineJoined
  <2>3. CASE CallGet(t)
    <3>1. op' = [op EXCEPT ![t] = "get"] /\ "get" \in Ops \ {"none", "cancel"}
      BY <2>3 DEF CallGet, Call, Ops
    <3>2. waiters' = Append(waiters, ReadTicket(t))
      BY <2>3 DEF CallGet, Enqueue
    <3>3. waiters' = Append(waiters, IF "get" = "get" THEN ReadTicket(t) ELSE WriteTicket(t))
      BY <3>2
    <3> QED BY <2>1, <3>1, <3>3, LineJoined
  <2>4. CASE CallRemove(t)
    <3>1. op' = [op EXCEPT ![t] = "remove"] /\ "remove" \in Ops \ {"none", "cancel"}
      BY <2>4 DEF CallRemove, Call, Ops
    <3>2. waiters' = Append(waiters, WriteTicket(t))
      BY <2>4 DEF CallRemove, Enqueue
    <3>3. waiters' = Append(waiters, IF "remove" = "get" THEN ReadTicket(t) ELSE WriteTicket(t))
      BY <3>2
    <3> QED BY <2>1, <3>1, <3>3, LineJoined
  <2>5. CASE CallCancelAll(t)
    <3>1. op' = [op EXCEPT ![t] = "cancel_all"] /\ "cancel_all" \in Ops \ {"none", "cancel"}
      BY <2>5 DEF CallCancelAll, Call, Ops
    <3>2. waiters' = Append(waiters, WriteTicket(t))
      BY <2>5 DEF CallCancelAll, Enqueue
    <3>3. waiters' = Append(waiters, IF "cancel_all" = "get" THEN ReadTicket(t) ELSE WriteTicket(t))
      BY <3>2
    <3> QED BY <2>1, <3>1, <3>3, LineJoined
  <2> QED BY <1>2, <2>2, <2>3, <2>4, <2>5
<1>3. ASSUME NEW t \in Tasks, CallCancel(t) \/ SetFlag(t) \/ ClearRows(t)
      PROVE  LineKept
  <2>1. pc[t] # "lock" /\ waiters' = waiters
    BY <1>3 DEF CallCancel, SetFlag, ClearRows, Call, Drop, lockVars
  <2>2. PICK l \in {"idle", "flag", "rows"} : pc' = [pc EXCEPT ![t] = l]
    BY <1>3 DEF CallCancel, SetFlag, ClearRows, Call, CancelOneOf, Return, Goto
  <2>3. \A u \in Tasks : u # t => op'[u] = op[u]
    BY <1>3 DEF CallCancel, SetFlag, ClearRows, Call, Return, ManagerTypeOK
  <2> QED BY <2>1, <2>2, <2>3, LineBeside
<1>4. ASSUME NEW t \in Tasks, DropCall(t) PROVE LineKept
  <2>1. waiters' = Without(waiters, TicketFor(t))
    BY <1>4 DEF DropCall, Leave, TicketFor
  <2>2. /\ \A u \in Tasks : pc'[u] = "lock" <=> pc[u] = "lock" /\ u # t
        /\ \A u \in Tasks : u # t => op'[u] = op[u]
    BY <1>4 DEF DropCall, Return, Goto, ManagerTypeOK
  <2>3. /\ waiters' \in Lines(Tickets) /\ KeepsOrder(waiters, waiters')
        /\ Range(waiters') = Range(waiters) \ {TicketFor(t)}
    BY <2>1, LeaveLine DEF LineInv
  <2> QED BY <2>2, <2>3, LineLeft
<1> QED BY <1>1, <1>2, <1>3, <1>4, LineServed DEF Next, CallStep

\* The manager starts with an empty line.
LEMMA ManagerLineInit == Init => LineInv
BY EmptyLine DEF Init, LockInit, LineInv

\* Every call that waits for the lock of the map has one place in the line, no
\* dropped call keeps one, and nobody overtakes.
THEOREM ManagerCallsWaitInLine ==
    Spec => []LineInv /\ [][KeepsOrder(waiters, waiters')]_vars
<1>1. ManagerInv /\ LineInv /\ [Next]_vars => LineInv' /\ KeepsOrder(waiters, waiters')
  BY LineStep DEF LineKept, ManagerInv
<1> QED BY <1>1, ManagerLineInit, ManagerInit, ManagerStep, PTL DEF Spec

\* The guards of CallStep: the call of t goes on as soon as it is polled.
CanGoOn(t) ==
    \/ pc[t] = "lock" /\ Grantable(TicketFor(t))
    \/ pc[t] = "flag" /\ flagOwner[target[t]] = "free"
    \/ pc[t] = "rows"

\* u keeps t waiting: it holds the mutex or the lock that t waits for, or
\* stands before it in the line.
Blocks(u, t) ==
    \/ pc[t] = "flag" /\ flagOwner[target[t]] = u
    \/ pc[t] = "lock" /\ WriteTicket(u) \in guards
    \/ pc[t] = "lock" /\ pc[u] = "lock" /\ Before(waiters, TicketFor(u), TicketFor(t))

\* Somebody who keeps t waiting can go on.
WaitsForReady(t) == \E u \in Tasks : Blocks(u, t) /\ CanGoOn(u)

\* Two waits at most separate a call from one that goes on: no circle of calls
\* can wait for each other.
ShortWaits ==
    \A t \in Tasks : pc[t] # "idle" =>
        \/ CanGoOn(t) \/ WaitsForReady(t)
        \/ \E u \in Tasks : Blocks(u, t) /\ WaitsForReady(u)

\* The mutex of a stream is taken last: who holds it waits for nobody.
LEMMA FlagWaits ==
    ASSUME ManagerInv, NEW t \in Tasks, pc[t] = "flag"
    PROVE  CanGoOn(t) \/ WaitsForReady(t)
<1>1. target[t] \in Streams
  BY DEF ManagerInv, WorkInv, Cancelling, ManagerTypeOK
<1>2. CASE flagOwner[target[t]] = "free"
  BY <1>2 DEF CanGoOn
<1>3. CASE flagOwner[target[t]] # "free"
  <2>1. PICK u \in Tasks : flagOwner[target[t]] = u
    BY <1>1, <1>3 DEF ManagerInv, ManagerTypeOK
  <2>2. pc[u] = "rows"
    BY <1>1, <2>1 DEF ManagerInv, LocksFollowCalls
  <2> QED BY <2>1, <2>2 DEF Blocks, CanGoOn, WaitsForReady
<1> QED BY <1>2, <1>3

\* Nobody is in the lock of the map: the head of its line is served.
LEMMA LineWaits ==
    ASSUME LineInv, guards = {}, NEW t \in Tasks, pc[t] = "lock"
    PROVE  CanGoOn(t) \/ WaitsForReady(t)
<1> DEFINE mine == TicketFor(t)
<1>1. mine \in Range(waiters)
  BY DEF LineInv
<1> HIDE DEF mine
<1>2. waiters # <<>> /\ Head(waiters) \in Range(waiters) /\ Grantable(Head(waiters))
  BY <1>1, HeadIsServed DEF LineInv
<1>3. PICK u \in Tasks : pc[u] = "lock" /\ Head(waiters) = TicketFor(u)
  BY <1>2 DEF LineInv
<1>4. CanGoOn(u)
  BY <1>2, <1>3 DEF CanGoOn
<1>5. CASE u # t
  <2>1. PICK j \in DOMAIN waiters : waiters[j] = mine
    BY <1>1 DEF Range
  <2>2. /\ waiters \in Seq(Tickets) /\ DOMAIN waiters = 1 .. Len(waiters)
        /\ Head(waiters) = waiters[1] /\ Len(waiters) \in Nat
    BY <1>2 DEF LineInv, Lines
  <2>3. waiters[1] # waiters[j]
    BY <1>3, <1>5, <2>1, <2>2, TicketNames DEF mine
  <2>4. 1 \in DOMAIN waiters /\ 1 < j
    BY <2>1, <2>2, <2>3
  <2>5. Before(waiters, TicketFor(u), TicketFor(t))
    BY <1>3, <2>1, <2>2, <2>4 DEF Before, mine
  <2> QED BY <1>3, <1>4, <2>5 DEF Blocks, WaitsForReady
<1> QED BY <1>4, <1>5

\* However many calls wait for the map, for streams or for each other, and
\* however many were dropped: each of them can go on, or what it waits for is
\* in the hands of a call that can, with one call in between at most.  The lock
\* of the map is kept while the mutexes of streams are awaited, but never the
\* other way round.
THEOREM ManagerWaitsAreShort == Spec => []ShortWaits
<1>1. ManagerInv /\ LineInv => ShortWaits
  <2> SUFFICES ASSUME ManagerInv, LineInv, NEW t \in Tasks, pc[t] # "idle"
               PROVE  \/ CanGoOn(t) \/ WaitsForReady(t)
                      \/ \E u \in Tasks : Blocks(u, t) /\ WaitsForReady(u)
    BY DEF ShortWaits
  <2>1. CASE pc[t] = "rows"
    BY <2>1 DEF CanGoOn
  <2>2. CASE pc[t] = "flag"
    BY <2>2, FlagWaits
  <2>3. CASE pc[t] = "lock" /\ guards = {}
    BY <2>3, LineWaits
  <2>4. CASE pc[t] = "lock" /\ guards # {}
    <3>1. PICK u \in Tasks : InMapLock(u) /\ WriteTicket(u) \in guards
      BY <2>4 DEF ManagerInv, LocksFollowCalls
    <3>2. Blocks(u, t)
      BY <2>4, <3>1 DEF Blocks
    <3>3. CanGoOn(u) \/ WaitsForReady(u)
      BY <3>1, FlagWaits DEF InMapLock, CanGoOn
    <3> QED BY <3>2, <3>3 DEF WaitsForReady
  <2> QED BY <2>1, <2>2, <2>3, <2>4 DEF ManagerInv, ManagerTypeOK
<1> QED BY <1>1, ManagerCallsWaitInLine, ManagerInit, ManagerStep, PTL DEF Spec
=============================================================================
