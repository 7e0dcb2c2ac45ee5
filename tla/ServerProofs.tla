---------------------------- MODULE ServerProofs ----------------------------
(***************************************************************************)
(* Theorems about Server for every number of calls, data sources and pools.*)
(* A step of a call is a step of ToolServer, whose invariants hold here    *)
(* too; what is added is the lock of the cleanup and the closed pools.     *)
(***************************************************************************)
EXTENDS Server, ToolServerEffectProofs

\* While it closes pools the cleanup has its guard.
CleanupHasGuard == mainPc = "closing" => CleanupTicket \in guards

\* Pools are closed by the cleanup only.
ClosedByCleanup ==
    mainPc \in {"handshake", "serving", "stopping", "locking"} =>
        \A p \in Pools : pools[p] # "closed"

\* Where the process, its service and its monitoring task are.
ProcessTypes ==
    /\ mainPc \in {"handshake", "serving", "stopping", "locking", "closing",
                   "cleaned", "returned", "exited"}
    /\ service \in {"starting", "running", "cancelled", "ended"}
    /\ stdin \in {"reading", "idle", "closed"}
    /\ signal \in {"none", "sent"}
    /\ monitor \in {"sleeping", "waiting", "reporting", "aborted", "stopped"}

\* The inductive invariant: that of the calls, and the three of the process.
ServerInv ==
    /\ TypeInv /\ LockInv /\ EffectInv
    /\ ProcessTypes /\ CleanupHasGuard /\ ClosedByCleanup /\ ClosedPoolsStayIdle

\* The tasks of the process are not calls.
LEMMA ProcessTasks ==
    /\ "main" \notin Requests /\ "monitor" \notin Requests
    /\ "main" \in OtherTasks /\ "monitor" \in OtherTasks
BY OtherTasksAssumption, RequestsAssumption

\* The process starts with nothing open, queued or running.
LEMMA ServerInvInit == ServerInit => ServerInv
<1> SUFFICES ASSUME ServerInit PROVE ServerInv
  OBVIOUS
<1>1. TypeInv /\ LockInv /\ EffectInv
  BY TypeInit, LockInit_, EffectInit DEF ServerInit
<1>2. ProcessTypes /\ CleanupHasGuard /\ ClosedPoolsStayIdle
  BY DEF ServerInit, ProcessTypes, CleanupHasGuard, ClosedPoolsStayIdle
<1>3. ClosedByCleanup
  BY DEF ServerInit, Init, ClosedByCleanup
<1> QED BY <1>1, <1>2, <1>3 DEF ServerInv

-----------------------------------------------------------------------------
(* Steps of the calls and of MySQL                                         *)

\* A step of ToolServer takes no guard from the tasks of the process.
LEMMA GuardsOfOthersStay ==
    ASSUME TypeInv, NEW r \in Requests,
           Arrive(r) \/ TaskStep(r) \/ MySqlStep(r),
           NEW g \in guards, g.who \notin Requests
    PROVE  g \in guards'
<1>1. CASE Arrive(r) \/ MySqlStep(r)
  BY <1>1 DEF Arrive, MySqlStep, Execute, Refuse, LoseAnswer, lockVars
<1>2. CASE Reject(r) \/ ListSources(r) \/ OpenPool(r) \/ Send(r)
  BY <1>2 DEF Reject, ListSources, OpenPool, Send, lockVars
<1>3. CASE RequestLock(r) \/ ReadStats(r) \/ LookupPool(r)
  BY <1>3 DEF RequestLock, ReadStats, LookupPool, Enqueue, GrantAndDrop, Grant
<1>4. CASE Ends(r)
  <2>1. StepResult(r)
    BY <1>4, EndsResult
  <2>2. TicketOf(r).who = r
    BY TicketType
  <2> QED BY <2>1, <2>2 DEF StepResult, FinishResult
<1> QED BY <1>1, <1>2, <1>3, <1>4 DEF TaskStep, Ends

\* It closes no pool, and sends no statement to a closed one.
LEMMA ClosedPoolsUntouched ==
    ASSUME TypeInv, EffectInv, NEW r \in Requests,
           Arrive(r) \/ TaskStep(r) \/ MySqlStep(r),
           NEW p \in Pools, pools'[p] = "closed"
    PROVE  pools[p] = "closed" /\ Busy(p)' \subseteq Busy(p)
<1>1. pools[p] = "closed"
  <2>1. CASE OpenPool(r)
    BY <2>1 DEF OpenPool, TypeInv, TypeOK
  <2>2. CASE ~OpenPool(r)
    <3>1. CASE Arrive(r) \/ MySqlStep(r)
      BY <3>1 DEF Arrive, MySqlStep, Execute, Refuse, LoseAnswer, poolVars
    <3>2. CASE Reject(r) \/ ListSources(r) \/ RequestLock(r) \/ ReadStats(r)
               \/ LookupPool(r) \/ Send(r)
      BY <3>2 DEF Reject, ListSources, RequestLock, ReadStats, LookupPool, Send,
         poolVars
    <3>3. CASE Ends(r)
      BY <3>3 DEF Ends, OpenPoolFails, AcquireFails, AnswerOk, AnswerNoTable,
         AnswerError, TimeOut, poolVars
    <3> QED BY <2>2, <3>1, <3>2, <3>3 DEF TaskStep, Ends
  <2> QED BY <2>1, <2>2
<1>2. CASE Send(r)
  <2>1. /\ stmt' = [stmt EXCEPT ![r] = "running"] /\ call' = call
        /\ pools[PoolOf(call[r])] = "open"
    BY <1>2 DEF Send
  <2>2. p # PoolOf(call[r])
    BY <1>1, <2>1
  <2> QED BY <1>1, <2>1, <2>2 DEF Busy, PoolOf, TypeInv, TypeOK
<1>3. CASE ~Send(r)
  <2>1. \A q \in Requests :
           stmt'[q] = "running" => stmt[q] = "running" /\ call'[q] = call[q]
    BY <1>3, RunningStays
  <2> QED BY <1>1, <2>1 DEF Busy, PoolOf
<1> QED BY <1>2, <1>3

\* A step of a call, served by the process, keeps the invariant.
LEMMA ServerCallStep ==
    ASSUME ServerInv, NEW r \in Requests,
           Arrive(r) \/ TaskStep(r) \/ MySqlStep(r), UNCHANGED serverVars
    PROVE  ServerInv'
<1>1. [Next]_vars
  BY DEF Next
<1>2. TypeInv' /\ LockInv' /\ EffectInv'
  BY <1>1, TypeStep, LockStep, EffectStep DEF ServerInv
<1>3. mainPc' = mainPc /\ ProcessTypes'
  BY DEF serverVars, ServerInv, ProcessTypes
<1>4. CleanupHasGuard'
  <2>1. CleanupTicket.who \notin Requests /\ CleanupTicket' = CleanupTicket
    BY ProcessTasks DEF CleanupTicket, Ticket
  <2> QED BY <1>3, <2>1, GuardsOfOthersStay DEF ServerInv, CleanupHasGuard
<1>5. \A p \in Pools : pools'[p] = "closed" =>
         pools[p] = "closed" /\ Busy(p)' \subseteq Busy(p)
  BY ClosedPoolsUntouched DEF ServerInv
<1>6. ClosedByCleanup'
  BY <1>3, <1>5 DEF ServerInv, ClosedByCleanup, Pools
<1>7. ClosedPoolsStayIdle'
  BY <1>3, <1>5 DEF ServerInv, ClosedPoolsStayIdle, ClosedAndIdle, Pools
<1> QED BY <1>2, <1>3, <1>4, <1>6, <1>7 DEF ServerInv

-----------------------------------------------------------------------------
(* Steps of the process                                                    *)

\* A queue without a ticket is a queue.
LEMMA WithoutType ==
    ASSUME NEW S, NEW line \in Seq(S), NEW t
    PROVE  Without(line, t) \in Seq(S)
<1> DEFINE places == {i \in DOMAIN line : line[i] = t}
           place == CHOOSE i \in places : TRUE
<1>1. CASE places = {}
  BY <1>1 DEF Without
<1>2. CASE places # {}
  <2>1. Len(line) \in Nat /\ DOMAIN line = 1 .. Len(line)
        /\ \A i \in 1 .. Len(line) : line[i] \in S
    OBVIOUS
  <2>2. place \in 1 .. Len(line)
    BY <1>2, <2>1
  <2>3. Without(line, t) =
           [i \in 1 .. Len(line) - 1 |-> line[IF i < place THEN i ELSE i + 1]]
    BY <1>2 DEF Without
  <2> HIDE DEF places, place
  <2>4. Len(line) - 1 \in Nat
    BY <2>1, <2>2
  <2>5. \A i \in 1 .. Len(line) - 1 : line[IF i < place THEN i ELSE i + 1] \in S
    BY <2>1, <2>2
  <2> QED BY <2>3, <2>4, <2>5
<1> QED BY <1>1, <1>2

\* A guard of the process is lawful among the guards of the calls.
LEMMA ProcessGuards ==
    ASSUME ServerInv, UNCHANGED callVars,
           waiters' \in Seq([who : Requests \cup OtherTasks, mode : {"read", "write"}]),
           guards' \subseteq guards \cup {CleanupTicket, MonitorTicket},
           \A g \in guards : g.who \in Requests => g \in guards',
           guards' \subseteq guards \/ \A g \in guards : g.mode = "read"
    PROVE  TypeInv' /\ LockInv' /\ EffectInv'
<1>1. /\ CleanupTicket \in [who : Requests \cup OtherTasks, mode : {"read", "write"}]
      /\ MonitorTicket \in [who : Requests \cup OtherTasks, mode : {"read", "write"}]
      /\ CleanupTicket.mode = "read" /\ MonitorTicket.mode = "read"
      /\ CleanupTicket.who \notin Requests /\ MonitorTicket.who \notin Requests
  BY ProcessTasks DEF CleanupTicket, MonitorTicket, Ticket
<1>2. TypeInv'
  <2>1. guards' \subseteq [who : Requests \cup OtherTasks, mode : {"read", "write"}]
    BY <1>1 DEF ServerInv, TypeInv, TypeOK
  <2>2. TypeOK'
    BY <2>1 DEF ServerInv, TypeInv, TypeOK, callVars, poolVars, requestVars, mysqlVars
  <2>3. CallsChecked'
    BY DEF ServerInv, TypeInv, CallsChecked, PastChecks, InUse, callVars, requestVars
  <2> QED BY <2>2, <2>3 DEF TypeInv
<1>3. LockInv'
  <2>1. GuardsExclude'
    BY <1>1 DEF ServerInv, LockInv, GuardsExclude
  <2>2. {g \in guards' : g.who \in Requests} = {g \in guards : g.who \in Requests}
    BY <1>1
  <2>3. NoGuardLeaked'
    BY <2>2 DEF ServerInv, LockInv, NoGuardLeaked, InUse, TicketOf, callVars,
       requestVars
  <2> QED BY <2>1, <2>3 DEF LockInv
<1>4. EffectInv'
  BY DEF ServerInv, EffectInv, Effect, Unsent, AppliedOnce, Answered, IsStatement,
     callVars, requestVars, mysqlVars
<1> QED BY <1>2, <1>3, <1>4

\* Steps that leave the pools and the calls to themselves.
LEMMA PoolsKept ==
    ASSUME UNCHANGED callVars
    PROVE  /\ pools' = pools
           /\ \A p \in Pools : ClosedAndIdle(p)' <=> ClosedAndIdle(p)
BY DEF ClosedAndIdle, Busy, PoolOf, callVars, poolVars, requestVars, mysqlVars

\* The cleanup has not yet got its guard.
BeforeCleanup == {"handshake", "serving", "stopping", "locking"}

\* main goes on, or stays where it is, without looking at pools or lock.
LEMMA ServerMainStep ==
    ASSUME ServerInv, UNCHANGED vars, ProcessTypes',
           \/ mainPc' = mainPc
           \/ mainPc \in BeforeCleanup /\ mainPc' \in BeforeCleanup \cup {"returned"}
           \/ mainPc \in {"cleaned", "returned"} /\ mainPc' \in {"returned", "exited"}
    PROVE  ServerInv'
<1>1. UNCHANGED <<callVars, waiters, guards>>
  BY DEF vars, callVars, poolVars, requestVars, mysqlVars
<1>2. TypeInv' /\ LockInv' /\ EffectInv'
  <2>1. waiters \in Seq([who : Requests \cup OtherTasks, mode : {"read", "write"}])
    BY DEF ServerInv, TypeInv, TypeOK
  <2> QED BY <1>1, <2>1, ProcessGuards
<1>3. pools' = pools /\ \A p \in Pools : ClosedAndIdle(p)' <=> ClosedAndIdle(p)
  BY <1>1, PoolsKept
<1>4. CleanupHasGuard'
  BY <1>1 DEF ServerInv, CleanupHasGuard, BeforeCleanup, CleanupTicket
<1>5. ClosedByCleanup'
  BY <1>3 DEF ServerInv, ClosedByCleanup, BeforeCleanup, Pools
<1>6. ClosedPoolsStayIdle'
  <2>1. CASE mainPc \in BeforeCleanup
    <3>1. \A p \in Pools : ClosedAndIdle(p)
      BY <2>1 DEF ServerInv, ClosedByCleanup, BeforeCleanup, ClosedAndIdle
    <3> QED BY <1>3, <3>1 DEF ClosedPoolsStayIdle, Pools
  <2>2. CASE mainPc \notin BeforeCleanup
    BY <1>3, <2>2 DEF ServerInv, ClosedPoolsStayIdle, Pools
  <2> QED BY <2>1, <2>2
<1> QED BY <1>2, <1>4, <1>5, <1>6 DEF ServerInv

\* main or the monitoring task uses the lock.
LEMMA ServerLockStep ==
    ASSUME ServerInv, UNCHANGED <<callVars, service, stdin, signal>>,
           \/ StopMonitoring \/ StartClosing \/ CleanupDone
           \/ MonitorTick \/ MonitorReport \/ MonitorSleep \/ MonitorCancelled
    PROVE  ServerInv'
<1> DEFINE Line == Seq([who : Requests \cup OtherTasks, mode : {"read", "write"}])
<1>1. /\ CleanupTicket \in [who : Requests \cup OtherTasks, mode : {"read", "write"}]
      /\ MonitorTicket \in [who : Requests \cup OtherTasks, mode : {"read", "write"}]
      /\ CleanupTicket.mode = "read" /\ MonitorTicket.mode = "read"
      /\ CleanupTicket.who \notin Requests /\ MonitorTicket.who \notin Requests
      /\ CleanupTicket # MonitorTicket
  BY ProcessTasks DEF CleanupTicket, MonitorTicket, Ticket
<1>2. waiters \in Line
  BY DEF ServerInv, TypeInv, TypeOK
<1>3. waiters' \in Line
  <2>1. CASE StopMonitoring \/ MonitorTick
    <3>1. PICK t \in {CleanupTicket, MonitorTicket} : waiters' = Append(waiters, t)
      BY <2>1 DEF StopMonitoring, MonitorTick, Enqueue
    <3> QED BY ONLY <1>1, <1>2, <3>1
  <2>2. CASE StartClosing \/ MonitorReport
    <3>1. waiters # <<>> /\ waiters' = Tail(waiters)
      BY <2>2 DEF StartClosing, MonitorReport, Grant, Grantable
    <3> QED BY ONLY <1>2, <3>1
  <2>3. CASE CleanupDone \/ MonitorSleep
    BY <1>2, <2>3 DEF CleanupDone, MonitorSleep, Drop
  <2>4. CASE MonitorCancelled
    BY <1>2, <2>4, WithoutType DEF MonitorCancelled, Leave
  <2> QED BY <2>1, <2>2, <2>3, <2>4
<1>4. /\ guards' \subseteq guards \cup {CleanupTicket, MonitorTicket}
      /\ \A g \in guards : g.who \in Requests => g \in guards'
      /\ guards' \subseteq guards \/ \A g \in guards : g.mode = "read"
  <2>1. CASE StopMonitoring \/ MonitorTick
    BY <2>1 DEF StopMonitoring, MonitorTick, Enqueue
  <2>2. CASE StartClosing \/ MonitorReport
    BY <2>2 DEF StartClosing, MonitorReport, Grant, Grantable, Compatible
  <2>3. CASE CleanupDone \/ MonitorSleep \/ MonitorCancelled
    BY <1>1, <2>3 DEF CleanupDone, MonitorSleep, MonitorCancelled, Drop, Leave
  <2> QED BY <2>1, <2>2, <2>3
<1>5. TypeInv' /\ LockInv' /\ EffectInv'
  BY <1>3, <1>4, ProcessGuards
<1>6. pools' = pools /\ \A p \in Pools : ClosedAndIdle(p)' <=> ClosedAndIdle(p)
  BY PoolsKept
<1>7. ProcessTypes'
  BY DEF StopMonitoring, StartClosing, CleanupDone, MonitorTick, MonitorReport,
         MonitorSleep, MonitorCancelled, ServerInv, ProcessTypes
<1>8. CleanupHasGuard'
  <2>1. CASE StopMonitoring \/ CleanupDone
    BY <2>1 DEF StopMonitoring, CleanupDone, CleanupHasGuard
  <2>2. CASE StartClosing
    BY <2>2 DEF StartClosing, Grant, CleanupHasGuard, CleanupTicket
  <2>3. CASE MonitorTick \/ MonitorReport \/ MonitorSleep \/ MonitorCancelled
    <3>1. mainPc' = mainPc
      BY <2>3 DEF MonitorTick, MonitorReport, MonitorSleep, MonitorCancelled
    <3>2. \A g \in guards : g # MonitorTicket => g \in guards'
      BY <2>3 DEF MonitorTick, MonitorReport, MonitorSleep, MonitorCancelled,
                  Enqueue, Grant, Drop, Leave
    <3> QED BY <1>1, <3>1, <3>2 DEF ServerInv, CleanupHasGuard, CleanupTicket
  <2> QED BY <2>1, <2>2, <2>3
<1>9. ClosedByCleanup'
  BY <1>6 DEF StopMonitoring, StartClosing, CleanupDone, MonitorTick,
     MonitorReport, MonitorSleep, MonitorCancelled, ServerInv, ClosedByCleanup, Pools
<1>10. ClosedPoolsStayIdle'
  <2>1. CASE StopMonitoring \/ StartClosing
    BY <2>1 DEF StopMonitoring, StartClosing, ClosedPoolsStayIdle
  <2>2. CASE CleanupDone
    BY <1>6, <2>2 DEF CleanupDone, ClosedPoolsStayIdle, Pools
  <2>3. CASE MonitorTick \/ MonitorReport \/ MonitorSleep \/ MonitorCancelled
    BY <1>6, <2>3 DEF MonitorTick, MonitorReport, MonitorSleep, MonitorCancelled,
       ServerInv, ClosedPoolsStayIdle, Pools
  <2> QED BY <2>1, <2>2, <2>3
<1> QED BY <1>5, <1>7, <1>8, <1>9, <1>10 DEF ServerInv

\* The cleanup closes a pool.
LEMMA ServerCloseStep ==
    ASSUME ServerInv, NEW p \in Pools, ClosePool(p)
    PROVE  ServerInv'
<1>1. /\ mainPc = "closing" /\ UNCHANGED serverVars
      /\ UNCHANGED <<waiters, guards, status, managers, opened, requestVars, mysqlVars>>
      /\ pools' = [pools EXCEPT ![p] = "closed"]
  BY DEF ClosePool, lockVars
<1>2. TypeInv'
  BY <1>1 DEF ServerInv, TypeInv, TypeOK, CallsChecked, PastChecks, InUse,
     requestVars, mysqlVars
<1>3. LockInv'
  BY <1>1 DEF ServerInv, LockInv, GuardsExclude, NoGuardLeaked, InUse, TicketOf,
     requestVars
<1>4. EffectInv'
  BY <1>1 DEF ServerInv, EffectInv, Effect, Unsent, AppliedOnce, Answered,
     IsStatement, requestVars, mysqlVars
<1>5. ProcessTypes' /\ CleanupHasGuard' /\ ClosedByCleanup' /\ ClosedPoolsStayIdle'
  BY <1>1 DEF serverVars, ServerInv, ProcessTypes, CleanupHasGuard, CleanupTicket,
     ClosedByCleanup, ClosedPoolsStayIdle
<1> QED BY <1>2, <1>3, <1>4, <1>5 DEF ServerInv

\* So does every step of the process, of a call or of the monitoring task.
LEMMA ServerStep == ServerInv /\ [ServerNext]_allVars => ServerInv'
<1> SUFFICES ASSUME ServerInv, [ServerNext]_allVars PROVE ServerInv'
  OBVIOUS
<1>1. CASE Signal \/ Handshake \/ HandshakeFails \/ Disconnect \/ ClientWrites
           \/ ServiceEnds \/ DropService \/ Return \/ Exit \/ Gone \/ UNCHANGED allVars
  <2>1. UNCHANGED vars
    BY <1>1 DEF Signal, Handshake, HandshakeFails, Disconnect, ClientWrites,
                ServiceEnds, DropService, Return, Exit, Gone, allVars
  <2>2. \/ mainPc' = mainPc
        \/ mainPc \in BeforeCleanup /\ mainPc' \in BeforeCleanup \cup {"returned"}
        \/ mainPc \in {"cleaned", "returned"} /\ mainPc' \in {"returned", "exited"}
    BY <1>1 DEF Signal, Handshake, HandshakeFails, Disconnect, ClientWrites,
                ServiceEnds, DropService, Return, Exit, Gone, allVars, serverVars, BeforeCleanup
  <2>3. ProcessTypes'
    BY <1>1 DEF Signal, Handshake, HandshakeFails, Disconnect, ClientWrites,
                ServiceEnds, DropService, Return, Exit, Gone, allVars, serverVars, ServerInv, ProcessTypes
  <2> QED BY <2>1, <2>2, <2>3, ServerMainStep
<1>2. CASE StopMonitoring \/ StartClosing \/ CleanupDone \/ MonitorTick
           \/ MonitorReport \/ MonitorSleep \/ MonitorCancelled
  <2>1. UNCHANGED <<callVars, service, stdin, signal>>
    BY <1>2 DEF StopMonitoring, StartClosing, CleanupDone, MonitorTick,
                MonitorReport, MonitorSleep, MonitorCancelled
  <2> QED BY <1>2, <2>1, ServerLockStep
<1>3. ASSUME NEW p \in Pools, ClosePool(p) PROVE ServerInv'
  BY <1>3, ServerCloseStep
<1>4. ASSUME NEW r \in Requests,
             ServedArrival(r) \/ CallStep(r) \/ (MySqlStep(r) /\ UNCHANGED serverVars)
      PROVE  ServerInv'
  BY <1>4, ServerCallStep DEF ServedArrival, CallStep
<1> QED BY <1>1, <1>2, <1>3, <1>4 DEF ServerNext, MainStep, MonitorStep

\* The invariant of the process holds in every state.
LEMMA ServerInvariant == ServerSpec => []ServerInv
BY ServerInvInit, ServerStep, PTL DEF ServerSpec

-----------------------------------------------------------------------------
\* Every variable of the process keeps its type, cleanup included.
THEOREM ServerTypes == ServerSpec => []ServerTypeOK
<1>1. ServerInv => ServerTypeOK
  BY DEF ServerInv, TypeInv, ProcessTypes, ServerTypeOK
<1> QED BY ServerInvariant, <1>1, PTL

\* cleanup never closes a pool that a handler uses: the read guard it keeps
\* excludes the write guard of every call at work.
THEOREM CleanupExcludesCalls == ServerSpec => []NoCallAtWorkDuringCleanup
<1>1. ServerInv => NoCallAtWorkDuringCleanup
  <2> SUFFICES ASSUME ServerInv, mainPc = "closing", NEW r \in Requests, InUse(r)
               PROVE  FALSE
    BY DEF NoCallAtWorkDuringCleanup
  <2>1. CleanupTicket \in guards /\ CleanupTicket.who \notin Requests
    BY ProcessTasks DEF ServerInv, CleanupHasGuard, CleanupTicket, Ticket
  <2>2. TicketOf(r) \in guards
    BY DEF ServerInv, LockInv, NoGuardLeaked
  <2>3. TicketOf(r).mode = "write" /\ TicketOf(r).who = r
    BY TicketType DEF ServerInv, TypeInv, CallsChecked
  <2> QED BY <2>1, <2>2, <2>3 DEF ServerInv, LockInv, GuardsExclude
<1> QED BY ServerInvariant, <1>1, PTL

\* Once cleanup is over no statement runs on a closed pool, whatever calls and
\* abandoned statements are still around.
THEOREM ClosedPoolsAreLeft == ServerSpec => []ClosedPoolsStayIdle
<1>1. ServerInv => ClosedPoolsStayIdle
  BY DEF ServerInv
<1> QED BY ServerInvariant, <1>1, PTL

\* The shutdown does not make an answer less honest.
THEOREM AnswersAreHonestToTheEnd == ServerSpec => []AnswerTellsEffect
<1>1. ServerInv => AnswerTellsEffect
  BY DEF ServerInv, EffectInv, Effect, AppliedOnce, Answered, IsStatement, NotRun,
     AnswerTellsEffect
<1> QED BY ServerInvariant, <1>1, PTL

-----------------------------------------------------------------------------
(* The request path within the process.  What ToolServer guarantees by     *)
(* itself it guarantees here: the steps of the process leave the calls and *)
(* the statements alone, and turn open pools into closed ones.             *)

\* What the steps of main and of the monitoring task do to the request path.
Aside ==
    /\ UNCHANGED <<managers, opened, requestVars, mysqlVars>>
    /\ \A p \in Pools :
          pools'[p] = pools[p] \/ (pools[p] = "open" /\ pools'[p] = "closed")

\* Every step is one of the request path or aside from it.
LEMMA StepOrAside ==
    ASSUME TypeInv, [ServerNext]_allVars
    PROVE  [Next]_vars \/ Aside
<1>1. CASE UNCHANGED callVars
  BY <1>1 DEF Aside, callVars, poolVars
<1>2. ASSUME NEW p \in Pools, ClosePool(p) PROVE Aside
  BY <1>2 DEF ClosePool, Aside, TypeInv, TypeOK
<1>3. ASSUME NEW r \in Requests, ServedArrival(r) \/ CallStep(r) \/ MySqlStep(r)
      PROVE  [Next]_vars
  BY <1>3 DEF ServedArrival, CallStep, Next
<1>4. CASE \/ Signal \/ Handshake \/ HandshakeFails \/ Disconnect \/ ClientWrites
           \/ ServiceEnds \/ DropService \/ StopMonitoring \/ StartClosing
           \/ CleanupDone \/ Return \/ Exit
           \/ MonitorTick \/ MonitorReport \/ MonitorSleep \/ MonitorCancelled
           \/ Gone \/ UNCHANGED allVars
  <2>1. UNCHANGED callVars
    BY <1>4 DEF Signal, Handshake, HandshakeFails, Disconnect, ClientWrites,
                ServiceEnds, DropService, StopMonitoring, StartClosing,
                CleanupDone, Return, Exit,
                MonitorTick, MonitorReport, MonitorSleep, MonitorCancelled, Gone,
                allVars, vars, callVars, poolVars, requestVars, mysqlVars
  <2> QED BY <1>1, <2>1
<1> QED BY <1>2, <1>3, <1>4 DEF ServerNext, MainStep, MonitorStep

\* What is proved of ToolServer from its own invariants.
PathInv == PoolInv /\ BusyBounded /\ PermissionKept /\ NoTraceOfRejectedCalls

(* When the process starts no call has arrived. *)
LEMMA PathInvInit == ServerInit => PathInv
<1> SUFFICES ASSUME Init PROVE PathInv
  BY DEF ServerInit
<1>1. BusyBounded
  <2>1. \A p \in Pools : Busy(p) = {}
    BY DEF Init, Busy
  <2> QED BY <2>1, FS_EmptySet, BoundsAssumption DEF BusyBounded
<1>2. PermissionKept /\ NoTraceOfRejectedCalls
  BY DEF Init, PermissionKept, NoTraceOfRejectedCalls
<1> QED BY <1>1, <1>2, PoolInit DEF PathInv

\* A step aside changes nothing that these speak of, but for closing pools that
\* were opened once.
LEMMA AsideKeepsPath ==
    ASSUME ServerInv, PathInv, Aside PROVE PathInv'
<1>1. PoolInv'
  <2>1. PoolsOpenedOnce'
    BY DEF Aside, PathInv, PoolInv, PoolsOpenedOnce, Pools
  <2>2. \A r \in Requests : InUse(r)' => call[r].key \in managers
    BY DEF Aside, PathInv, PoolInv, InUse, requestVars
  <2>3. ASSUME NEW r \in Requests, pc[r] = "connecting",
               NEW q \in Pools, q = PoolOf(call[r])
        PROVE  pools'[q] = "absent"
    BY <2>3 DEF Aside, PathInv, PoolInv
  <2> QED BY <2>1, <2>2, <2>3 DEF Aside, PoolInv, requestVars, PoolOf, Pools
<1>2. BusyBounded'
  BY DEF Aside, PathInv, BusyBounded, Busy, PoolOf, requestVars, mysqlVars, Pools
<1>3. PermissionKept'
  BY DEF Aside, PathInv, PermissionKept, Allows, requestVars
<1>4. NoTraceOfRejectedCalls'
  BY DEF Aside, PathInv, NoTraceOfRejectedCalls, requestVars
<1> QED BY <1>1, <1>2, <1>3, <1>4 DEF PathInv

(* A step of a call keeps the invariants of the calls, and so does what    *)
(* main, the monitoring task and the loop of the service do beside them.   *)
LEMMA PathStep == ServerInv /\ PathInv /\ [ServerNext]_allVars => PathInv'
<1> SUFFICES ASSUME ServerInv, PathInv, [ServerNext]_allVars PROVE PathInv'
  OBVIOUS
<1>1. TypeInv /\ LockInv /\ EffectInv /\ OneCallAtATime
  BY LockGivesOneCall DEF ServerInv
<1>2. CASE [Next]_vars
  BY <1>1, <1>2, PoolStep, BusyStep, PermissionStep, NoTraceStep DEF PathInv
<1>3. CASE Aside
  BY <1>3, AsideKeepsPath
<1> QED BY <1>1, <1>2, <1>3, StepOrAside

\* The calls of a process that shuts down around them still work one at a time,
\* hold the lock exactly while they work, open each pool once, leave no trace
\* when rejected, do what their permission allows, and keep within the pools.
THEOREM RequestPathInProcess ==
    ServerSpec => /\ [](OneCallAtATime /\ NoGuardLeaked /\ PoolsOpenedOnce)
                  /\ [](NoTraceOfRejectedCalls /\ LevelLimitsExecute)
                  /\ []BusyConnectionsAccountedFor
<1>1. ServerSpec => [](ServerInv /\ PathInv)
  BY ServerInvInit, ServerStep, PathInvInit, PathStep, PTL DEF ServerSpec
<1>2. ServerInv /\ PathInv =>
        /\ OneCallAtATime /\ NoGuardLeaked /\ PoolsOpenedOnce
        /\ NoTraceOfRejectedCalls /\ LevelLimitsExecute
        /\ BusyConnectionsAccountedFor
  BY LockGivesOneCall, PermissionHolds, BusyAccounted
     DEF ServerInv, PathInv, LockInv, PoolInv
<1> QED BY <1>1, <1>2, PTL

\* Whatever the process does, its clients see the serial service of statements:
\* the shutdown ends calls without an answer, never with a wrong one.
THEOREM ProcessImplementsService == ServerSpec => KeepsServicePromise
<1>1. ServerInit => Service!Init
  BY ServiceInit DEF ServerInit
<1>2. ServerInv /\ ServerInv' /\ [ServerNext]_allVars => [Service!Next]_Service!svars
  <2> SUFFICES ASSUME ServerInv, ServerInv', [ServerNext]_allVars
               PROVE  [Service!Next]_Service!svars
    OBVIOUS
  <2>1. TypeInv' /\ LockInv' => OneCallAtATime'
    BY LockGivesOneCall, PTL
  <2>2. /\ TypeInv /\ EffectInv /\ EffectInv'
        /\ OneCallAtATime /\ OneCallAtATime'
    BY <2>1, LockGivesOneCall DEF ServerInv
  <2>3. CASE [Next]_vars
    BY <2>2, <2>3, ServiceStep, UnseenStutters
  <2>4. CASE Aside
    <3>1. /\ \A r \in Requests : InUse(r)' <=> InUse(r)
          /\ call' = call /\ reply' = reply /\ applied' = applied
      BY <2>4 DEF Aside, InUse, requestVars, mysqlVars
    <3> QED BY <2>2, <3>1, SameCallUnseen, UnseenStutters
  <2> QED BY <2>2, <2>3, <2>4, StepOrAside
<1> QED BY <1>1, <1>2, ServerInvariant, PTL
        DEF ServerSpec, KeepsServicePromise, Service!Spec

-----------------------------------------------------------------------------
(* What can stall the process.                                             *)

\* Of the other tasks, those stand in the line that wait for the lock; an
\* aborted monitoring task may stand there until it is dropped.
LineOfProcess ==
    /\ OfOthers(waiters) \subseteq {CleanupTicket, MonitorTicket}
    /\ CleanupTicket \in Range(waiters) <=> mainPc = "locking"
    /\ MonitorTicket \in Range(waiters) => monitor \in {"waiting", "aborted"}
    /\ monitor = "waiting" => MonitorTicket \in Range(waiters)

\* And those have a guard that work with one.
GuardsOfProcess ==
    /\ \A g \in guards : g.who \in Requests \/ g \in {CleanupTicket, MonitorTicket}
    /\ CleanupTicket \in guards <=> mainPc = "closing"
    /\ MonitorTicket \in guards => monitor \in {"reporting", "aborted"}

WaitInv == LineInv /\ LineOfProcess /\ GuardsOfProcess

\* What a step does to the line and to the guards.
WaitKept == WaitInv' /\ KeepsOrder(waiters, waiters')

\* At the start nobody waits and nobody holds the lock.
LEMMA WaitInit == ServerInit => WaitInv
<1> SUFFICES ASSUME ServerInit PROVE WaitInv
  OBVIOUS
<1>1. LineInv /\ waiters = <<>> /\ guards = {}
  BY LineInit DEF ServerInit, Init, LockInit
<1> QED BY <1>1, EmptyLine
        DEF WaitInv, LineOfProcess, GuardsOfProcess, OfOthers, ServerInit

\* A step of the calls gives no guard to the tasks of the process.
LEMMA NoGuardForOthers ==
    ASSUME TypeInv, NEW r \in Requests,
           Arrive(r) \/ TaskStep(r) \/ MySqlStep(r),
           NEW g \in guards', g.who \notin Requests
    PROVE  g \in guards
<1>1. CASE Arrive(r) \/ MySqlStep(r)
  BY <1>1 DEF Arrive, MySqlStep, Execute, Refuse, LoseAnswer, lockVars
<1>2. CASE Reject(r) \/ ListSources(r) \/ OpenPool(r) \/ Send(r)
  BY <1>2 DEF Reject, ListSources, OpenPool, Send, lockVars
<1>3. CASE RequestLock(r) \/ ReadStats(r) \/ LookupPool(r)
  BY <1>3, TicketType
     DEF RequestLock, ReadStats, LookupPool, Enqueue, GrantAndDrop, Grant
<1>4. CASE Ends(r)
  <2>1. StepResult(r)
    BY <1>4, EndsResult
  <2> QED BY <2>1 DEF StepResult, FinishResult
<1> QED BY <1>1, <1>2, <1>3, <1>4 DEF TaskStep, Ends

\* A step of a call.
LEMMA WaitCallStep ==
    ASSUME TypeInv, WaitInv, NEW r \in Requests,
           Arrive(r) \/ TaskStep(r) \/ MySqlStep(r), UNCHANGED serverVars
    PROVE  WaitKept
<1>1. LineKept
  BY LineStep DEF WaitInv, Next
<1>2. /\ CleanupTicket.who \notin Requests /\ MonitorTicket.who \notin Requests
      /\ mainPc' = mainPc /\ monitor' = monitor
  BY ProcessTasks DEF CleanupTicket, MonitorTicket, Ticket, serverVars
<1>3. LineOfProcess'
  BY <1>1, <1>2
     DEF LineKept, OfOthers, WaitInv, LineOfProcess, CleanupTicket, MonitorTicket
<1>4. \A g : g.who \notin Requests => (g \in guards' <=> g \in guards)
  BY GuardsOfOthersStay, NoGuardForOthers
<1>5. GuardsOfProcess'
  BY <1>2, <1>4 DEF WaitInv, GuardsOfProcess, CleanupTicket, MonitorTicket
<1> QED BY <1>1, <1>3, <1>5 DEF WaitKept, WaitInv, LineKept

\* The tasks of the process have tickets of their own.
LEMMA ProcessTickets ==
    /\ CleanupTicket \in Tickets /\ MonitorTicket \in Tickets
    /\ CleanupTicket.who \notin Requests /\ MonitorTicket.who \notin Requests
    /\ CleanupTicket # MonitorTicket
BY ProcessTasks DEF CleanupTicket, MonitorTicket, Ticket, Tickets

\* The line of the calls is the same whoever else joins or leaves it.
LEMMA LineBeside ==
    ASSUME LineInv, UNCHANGED callVars, waiters' \in Lines(Tickets),
           OfCalls(waiters') = OfCalls(waiters)
    PROVE  LineInv'
<1>1. \A r \in Requests : TicketOf(r)' = TicketOf(r) /\ pc'[r] = pc[r]
  BY DEF TicketOf, callVars, requestVars
<1> QED BY <1>1 DEF LineInv, OfCalls

\* main or the monitoring task joins the line.
LEMMA WaitJoinStep ==
    ASSUME ServerInv, WaitInv, StopMonitoring \/ MonitorTick
    PROVE  WaitKept
<1>1. PICK t \in {CleanupTicket, MonitorTicket} :
         /\ waiters' = Append(waiters, t) /\ t \notin Range(waiters)
         /\ UNCHANGED <<guards, callVars>>
         /\ \/ /\ t = CleanupTicket /\ mainPc = "stopping" /\ mainPc' = "locking"
               /\ monitor' = "aborted"
            \/ /\ t = MonitorTicket /\ mainPc' = mainPc
               /\ monitor = "sleeping" /\ monitor' = "waiting"
  BY DEF StopMonitoring, MonitorTick, Enqueue, WaitInv, LineOfProcess
<1>2. /\ waiters' \in Lines(Tickets) /\ KeepsOrder(waiters, waiters')
      /\ Range(waiters') = Range(waiters) \cup {t}
  BY <1>1, ProcessTickets, JoinLine DEF WaitInv, LineInv
<1>3. LineInv'
  BY <1>1, <1>2, ProcessTickets, LineBeside DEF WaitInv, OfCalls
<1>4. LineOfProcess'
  BY <1>1, <1>2, ProcessTickets
     DEF WaitInv, LineOfProcess, OfOthers, CleanupTicket, MonitorTicket
<1>5. GuardsOfProcess'
  BY <1>1, ProcessTickets DEF WaitInv, GuardsOfProcess, CleanupTicket, MonitorTicket
<1> QED BY <1>2, <1>3, <1>4, <1>5 DEF WaitKept, WaitInv

\* The turn of main or of the monitoring task has come.
LEMMA WaitServedStep ==
    ASSUME ServerInv, WaitInv, StartClosing \/ MonitorReport
    PROVE  WaitKept
<1>1. PICK t \in {CleanupTicket, MonitorTicket} :
         /\ waiters # <<>> /\ Head(waiters) = t /\ waiters' = Tail(waiters)
         /\ guards' = guards \cup {t} /\ UNCHANGED callVars
         /\ \/ /\ t = CleanupTicket /\ mainPc = "locking" /\ mainPc' = "closing"
               /\ monitor' = monitor
            \/ /\ t = MonitorTicket /\ mainPc' = mainPc
               /\ monitor = "waiting" /\ monitor' = "reporting"
  BY DEF StartClosing, MonitorReport, Grant, Grantable
<1>2. /\ waiters' \in Lines(Tickets) /\ KeepsOrder(waiters, waiters')
      /\ Range(waiters') = Range(waiters) \ {t}
  BY <1>1, ServeLine DEF WaitInv, LineInv
<1>3. LineInv'
  BY <1>1, <1>2, ProcessTickets, LineBeside DEF WaitInv, OfCalls
<1>4. LineOfProcess'
  BY <1>1, <1>2, ProcessTickets
     DEF WaitInv, LineOfProcess, OfOthers, CleanupTicket, MonitorTicket
<1>5. GuardsOfProcess'
  BY <1>1, ProcessTickets DEF WaitInv, GuardsOfProcess, CleanupTicket, MonitorTicket
<1> QED BY <1>2, <1>3, <1>4, <1>5 DEF WaitKept, WaitInv

\* One of them drops its guard, or is dropped in the line.
LEMMA WaitReleaseStep ==
    ASSUME ServerInv, WaitInv, CleanupDone \/ MonitorSleep \/ MonitorCancelled
    PROVE  WaitKept
<1>1. /\ UNCHANGED callVars
      /\ \/ /\ waiters' = waiters /\ guards' = guards \ {CleanupTicket}
            /\ mainPc = "closing" /\ mainPc' = "cleaned" /\ monitor' = monitor
         \/ /\ waiters' = waiters /\ guards' = guards \ {MonitorTicket}
            /\ mainPc' = mainPc /\ monitor = "reporting" /\ monitor' = "sleeping"
         \/ /\ waiters' = Without(waiters, MonitorTicket)
            /\ guards' = guards \ {MonitorTicket}
            /\ mainPc' = mainPc /\ monitor = "aborted" /\ monitor' = "stopped"
  BY DEF CleanupDone, MonitorSleep, MonitorCancelled, Drop, Leave
<1>2. /\ waiters' \in Lines(Tickets) /\ KeepsOrder(waiters, waiters')
      /\ IF monitor' = monitor \/ monitor' = "sleeping" THEN waiters' = waiters
         ELSE Range(waiters') = Range(waiters) \ {MonitorTicket}
  BY <1>1, LeaveLine DEF WaitInv, LineInv, KeepsOrder
<1>3. LineInv'
  BY <1>1, <1>2, ProcessTickets, LineBeside DEF WaitInv, OfCalls
<1>4. LineOfProcess'
  BY <1>1, <1>2, ProcessTickets
     DEF WaitInv, LineOfProcess, OfOthers, CleanupTicket, MonitorTicket
<1>5. GuardsOfProcess'
  BY <1>1, ProcessTickets DEF WaitInv, GuardsOfProcess, CleanupTicket, MonitorTicket
<1> QED BY <1>2, <1>3, <1>4, <1>5 DEF WaitKept, WaitInv

\* The other steps leave the lock alone.
LEMMA WaitAsideStep ==
    ASSUME WaitInv, UNCHANGED <<waiters, guards, pc, call>>, monitor' = monitor,
           mainPc' = mainPc \/ {mainPc, mainPc'} \cap {"locking", "closing"} = {}
    PROVE  WaitKept
<1>1. \A r \in Requests : TicketOf(r)' = TicketOf(r)
  BY DEF TicketOf
<1>2. LineInv'
  BY <1>1 DEF WaitInv, LineInv, OfCalls
<1>3. LineOfProcess' /\ GuardsOfProcess'
  BY DEF WaitInv, LineOfProcess, GuardsOfProcess, OfOthers, CleanupTicket, MonitorTicket
<1> QED BY <1>2, <1>3 DEF WaitKept, WaitInv, KeepsOrder

\* Every step keeps the line and the guards with the tasks that are there.
LEMMA WaitStep == ServerInv /\ WaitInv /\ [ServerNext]_allVars => WaitKept
<1> SUFFICES ASSUME ServerInv, WaitInv, [ServerNext]_allVars PROVE WaitKept
  OBVIOUS
<1>1. CASE Signal \/ Handshake \/ HandshakeFails \/ Disconnect \/ ClientWrites
           \/ ServiceEnds \/ DropService \/ Return \/ Exit \/ Gone \/ UNCHANGED allVars
  <2>1. UNCHANGED <<waiters, guards, pc, call>> /\ monitor' = monitor
    BY <1>1 DEF Signal, Handshake, HandshakeFails, Disconnect, ClientWrites,
                ServiceEnds, DropService, Return, Exit, Gone, allVars, vars, serverVars
  <2>2. mainPc' = mainPc \/ {mainPc, mainPc'} \cap {"locking", "closing"} = {}
    BY <1>1 DEF Signal, Handshake, HandshakeFails, Disconnect, ClientWrites,
                ServiceEnds, DropService, Return, Exit, Gone, allVars, serverVars
  <2> QED BY <2>1, <2>2, WaitAsideStep
<1>2. ASSUME NEW p \in Pools, ClosePool(p) PROVE WaitKept
  BY <1>2, WaitAsideStep DEF ClosePool, lockVars, requestVars, serverVars
<1>3. ASSUME NEW r \in Requests,
             ServedArrival(r) \/ CallStep(r) \/ (MySqlStep(r) /\ UNCHANGED serverVars)
      PROVE  WaitKept
  BY <1>3, WaitCallStep DEF ServedArrival, CallStep, ServerInv
<1> QED BY <1>1, <1>2, <1>3, WaitJoinStep, WaitServedStep, WaitReleaseStep
        DEF ServerNext, MainStep, MonitorStep

\* However calls, cleanup and monitoring report interleave, the line consists of
\* tasks that are there to take their turn, and nobody overtakes another.
THEOREM ProcessWaitsInLine ==
    ServerSpec => []WaitInv /\ [][KeepsOrder(waiters, waiters')]_allVars
<1>1. ServerInit => ServerInv /\ WaitInv
  BY ServerInvInit, WaitInit
<1>2. ServerInv /\ WaitInv /\ [ServerNext]_allVars => ServerInv' /\ WaitInv'
  BY ServerStep, WaitStep DEF WaitKept
<1>3. ServerInv /\ WaitInv /\ [ServerNext]_allVars => KeepsOrder(waiters, waiters')
  BY WaitStep DEF WaitKept
<1> QED BY <1>1, <1>2, <1>3, PTL DEF ServerSpec

\* The guards of TaskStep: a call can go on by itself unless it waits for the
\* lock, or for MySQL without a time limit.
CallReady(r) ==
    \/ /\ pc[r] = "received"
       /\ \/ call[r].tool \in LocalTools \/ Admitted(call[r])
          \/ \E e \in Rejections : FailsWith(call[r], e)
    \/ pc[r] = "waiting" /\ Grantable(TicketOf(r))
    \/ pc[r] \in {"connecting", "sending"}
    \/ pc[r] = "awaiting" /\ (stmt[r] \in {"done", "failed"} \/ Timed(call[r]))

\* The guards of MainStep.
MainReady ==
    \/ mainPc = "serving" /\ signal = "sent"
    \/ mainPc \in {"stopping", "cleaned"}
    \/ mainPc = "returned" /\ stdin # "reading"
    \/ mainPc = "locking" /\ Grantable(CleanupTicket)
    \/ mainPc = "closing" /\ \A p \in Pools : ClosedAndIdle(p)

\* The guards of MonitorStep.
MonitorReady ==
    \/ monitor = "waiting" /\ Grantable(MonitorTicket)
    \/ monitor \in {"reporting", "aborted"}

\* Nothing in the process can go on by itself; tasks are polled until main
\* returns, and then only the process has to end.
Stalled ==
    /\ mainPc # "exited" /\ ~MainReady
    /\ Alive => ~MonitorReady /\ \A r \in Requests : ~CallReady(r)

\* Nothing in the process has anything to do.
Idle ==
    /\ \A r \in Requests : pc[r] \in {"idle", "replied"}
    /\ mainPc \in {"handshake", "serving"}
    /\ monitor \in {"sleeping", "stopped"}

\* A call has asked MySQL for something no timer limits.
UntimedCall ==
    \E r \in Requests : pc[r] = "awaiting" /\ stmt[r] = "running" /\ ~Timed(call[r])

\* The cleanup waits for a statement that its caller gave up on.
AbandonedStatement ==
    /\ mainPc = "closing"
    /\ \E r \in Requests : /\ stmt[r] = "running"
                           /\ reply[r] = "QueryTimeout"
                           /\ pools[PoolOf(call[r])] = "closed"

\* main has returned, and the runtime waits for a read of stdin.
ClientAwaited == mainPc = "returned" /\ stdin = "reading"

OnlyPeersStall ==
    Stalled => Idle \/ UntimedCall \/ AbandonedStatement \/ ClientAwaited

\* In a stalled process the calls at work wait for MySQL without a time limit.
LEMMA StalledCalls ==
    ASSUME ServerInv, Stalled, Alive, ~UntimedCall, NEW r \in Requests
    PROVE  pc[r] \in {"idle", "waiting", "replied"}
<1>1. ~CallReady(r) /\ call[r] \in Call /\ Unsent(r)
  BY DEF Stalled, ServerInv, TypeInv, TypeOK, EffectInv, Effect
<1>2. pc[r] # "received"
  BY <1>1, ChecksDecide DEF CallReady
<1>3. pc[r] # "awaiting"
  BY <1>1 DEF CallReady, UntimedCall, Unsent, ServerInv, TypeInv, TypeOK
<1> QED BY <1>1, <1>2, <1>3 DEF CallReady, ServerInv, TypeInv, TypeOK

\* So nobody but the cleanup keeps the lock from the others.
LEMMA StalledGuards ==
    ASSUME ServerInv, WaitInv, Stalled, Alive, ~UntimedCall, NEW g \in guards
    PROVE  g = CleanupTicket /\ mainPc = "closing"
<1>1. g.who \notin Requests
  <2>1. \A r \in Requests : ~InUse(r)
    BY StalledCalls DEF InUse
  <2> QED BY <2>1 DEF ServerInv, LockInv, NoGuardLeaked
<1>2. g # MonitorTicket
  BY DEF WaitInv, GuardsOfProcess, Stalled, MonitorReady
<1> QED BY <1>1, <1>2 DEF WaitInv, GuardsOfProcess

\* A cleanup that stalls waits for an abandoned statement.
LEMMA StalledCleanup ==
    ASSUME ServerInv, Stalled, ~UntimedCall, mainPc = "closing"
    PROVE  AbandonedStatement
<1>1. PICK p \in Pools : ~ClosedAndIdle(p)
  BY DEF Stalled, MainReady
<1>2. PICK r \in Requests : stmt[r] = "running" /\ PoolOf(call[r]) = p
  BY <1>1 DEF ClosedAndIdle, Busy
<1>3. reply[r] = "QueryTimeout"
  <2>1. Answered(r) /\ pc[r] # "awaiting"
    BY StalledCalls DEF Alive, ServerInv, EffectInv, Effect
  <2> QED BY <1>2, <2>1 DEF Answered
<1> QED BY <1>1, <1>2, <1>3 DEF AbandonedStatement, ClosedAndIdle

\* A free lock is handed to the head of the line, whoever that is.
LEMMA StalledLine ==
    ASSUME ServerInv, WaitInv, Stalled, Alive, guards = {}
    PROVE  Range(waiters) = {}
<1> SUFFICES ASSUME NEW t \in Range(waiters) PROVE FALSE
  OBVIOUS
<1> DEFINE head == Head(waiters)
<1>1. head \in Range(waiters) /\ Grantable(head)
  BY HeadIsServed DEF WaitInv, LineInv
<1> HIDE DEF head
<1>2. CASE head.who \in Requests
  <2>1. PICK r \in Requests : pc[r] = "waiting" /\ head = TicketOf(r)
    BY <1>1, <1>2 DEF WaitInv, LineInv, OfCalls
  <2> QED BY <1>1, <2>1 DEF Stalled, CallReady
<1>3. CASE head.who \notin Requests
  <2>1. head \in {CleanupTicket, MonitorTicket}
    BY <1>1, <1>3 DEF WaitInv, LineOfProcess, OfOthers
  <2>2. CASE head = CleanupTicket
    BY <1>1, <2>2 DEF WaitInv, LineOfProcess, Stalled, MainReady
  <2>3. CASE head = MonitorTicket
    BY <1>1, <2>3 DEF WaitInv, LineOfProcess, Stalled, MonitorReady
  <2> QED BY <2>1, <2>2, <2>3
<1> QED BY <1>2, <1>3

\* Calls, cleanup and monitoring never block one another: a process in which
\* nothing can go on has nothing to do, or it waits for a peer.  It waits for
\* MySQL, either for a query without a time limit or, while it shuts down, for a
\* statement that was given up; or main has returned and it waits for the client
\* to write to stdin or to close it.  A lost wake-up, a guard left behind or a
\* circle of tasks would be a fourth way.
THEOREM OnlyPeersStallProcess == ServerSpec => []OnlyPeersStall
<1>1. ServerInv /\ WaitInv => OnlyPeersStall
  <2> SUFFICES ASSUME ServerInv, WaitInv, Stalled, ~UntimedCall, ~AbandonedStatement,
                      ~ClientAwaited
               PROVE  Idle
    BY DEF OnlyPeersStall
  <2>1. Alive
    BY DEF Stalled, MainReady, ClientAwaited, Alive
  <2>2. mainPc # "closing"
    BY StalledCleanup
  <2>3. guards = {}
    BY <2>1, <2>2, StalledGuards
  <2>4. Range(waiters) = {}
    BY <2>1, <2>3, StalledLine
  <2>5. \A r \in Requests : pc[r] \in {"idle", "replied"}
    <3>1. \A r \in Requests : pc[r] # "waiting"
      BY <2>4 DEF WaitInv, LineInv, OfCalls
    <3> QED BY <2>1, <3>1, StalledCalls
  <2>6. mainPc \in {"handshake", "serving"} /\ monitor \in {"sleeping", "stopped"}
    BY <2>1, <2>2, <2>4 DEF WaitInv, LineOfProcess, Stalled, Alive, MainReady,
       MonitorReady, ServerInv, ProcessTypes
  <2> QED BY <2>5, <2>6 DEF Idle
<1> QED BY <1>1, ProcessWaitsInLine, ServerInvariant, PTL
=============================================================================
