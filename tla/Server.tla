------------------------------- MODULE Server -------------------------------
(***************************************************************************)
(* The life of the server process around the request path of ToolServer:   *)
(* the handshake, the signal that starts the shutdown, the monitoring task *)
(* that reports pool statistics every minute, and the cleanup that closes  *)
(* the pools.  The monitoring task and the cleanup use the same            *)
(* `pool_managers` lock as the calls.  Dropping the MCP service ends the   *)
(* reading of messages, not the tasks of the calls already read: they run  *)
(* until main returns.  The process then still waits for a read of stdin   *)
(* that is under way: the runtime does such reads on a thread of its own   *)
(* and cannot cancel them.                                                 *)
(***************************************************************************)
EXTENDS ToolServer

VARIABLES
    mainPc,     \* where main is
    service,    \* the loop that reads messages
    stdin,      \* "reading" while a thread of the runtime is reading it
    signal,     \* "sent" once SIGTERM or SIGINT was received
    monitor     \* the task of the monitoring service

serverVars == <<mainPc, service, stdin, signal, monitor>>
allVars == <<vars, serverVars>>

ASSUME OtherTasksAssumption == OtherTasks = {"main", "monitor"}

CleanupTicket == Ticket("main", "read")
MonitorTicket == Ticket("monitor", "read")

\* The runtime runs its tasks.
Alive == mainPc \notin {"returned", "exited"}

\* Everything that belongs to the calls.
callVars == <<status, poolVars, requestVars, mysqlVars>>

-----------------------------------------------------------------------------
\* main before the handshake: the handler exists, so the monitoring task runs.
ServerInit ==
    /\ Init
    /\ mainPc = "handshake"
    /\ service = "starting"
    /\ stdin = "reading"
    /\ signal = "none"
    /\ monitor = "sleeping"

\* The future of the signal task; nobody looks at it during the handshake.
Signal ==
    /\ Alive
    /\ signal' = "sent"
    /\ UNCHANGED <<vars, mainPc, service, stdin, monitor>>

\* The client sent its initialize request: `serve(transport).await?` is over.
Handshake ==
    /\ mainPc = "handshake"
    /\ mainPc' = "serving"
    /\ service' = "running"
    /\ UNCHANGED <<vars, stdin, signal, monitor>>

\* stdin held something else or was closed: main returns the error of `?`.
HandshakeFails ==
    /\ mainPc = "handshake"
    /\ mainPc' = "returned"
    /\ service' = "ended"
    /\ stdin' \in {"idle", "closed"}
    /\ UNCHANGED <<vars, signal, monitor>>

\* The client closes stdin, which ends a read under way and the loop of the
\* service.  main goes on waiting for a signal.
Disconnect ==
    /\ mainPc # "exited"
    /\ service # "starting"
    /\ stdin # "closed"
    /\ stdin' = "closed"
    /\ service' = "ended"
    /\ UNCHANGED <<vars, mainPc, signal, monitor>>

\* The client sends a message when there is no service left to take it: it
\* ends the read that the service left behind, and nobody starts another.
ClientWrites ==
    /\ mainPc # "exited"
    /\ service = "ended"
    /\ stdin = "reading"
    /\ stdin' = "idle"
    /\ UNCHANGED <<vars, mainPc, service, signal, monitor>>

\* The signal is taken, the service dropped; its loop notices a little later.
DropService ==
    /\ mainPc = "serving"
    /\ signal = "sent"
    /\ mainPc' = "stopping"
    /\ service' = IF service = "running" THEN "cancelled" ELSE service
    /\ UNCHANGED <<vars, stdin, signal, monitor>>

\* The loop ends; the read it asked for goes on.
ServiceEnds ==
    /\ Alive
    /\ service = "cancelled"
    /\ service' = "ended"
    /\ UNCHANGED <<vars, mainPc, stdin, signal, monitor>>

\* cleanup: abort the monitoring task, then queue for the read lock.
StopMonitoring ==
    /\ mainPc = "stopping"
    /\ monitor' = "aborted"
    /\ mainPc' = "locking"
    /\ Enqueue(CleanupTicket)
    /\ UNCHANGED <<callVars, service, stdin, signal>>

\* Mutant: the pools are closed without waiting for the lock.
StartClosingUnlocked ==
    /\ mainPc = "locking"
    /\ waiters' = Without(waiters, CleanupTicket)
    /\ mainPc' = "closing"
    /\ UNCHANGED <<callVars, guards, service, stdin, signal, monitor>>

StartClosing ==
    /\ mainPc = "locking"
    /\ Grant(CleanupTicket)
    /\ mainPc' = "closing"
    /\ UNCHANGED <<callVars, service, stdin, signal, monitor>>

\* Pool::close marks the pool and waits for the connections that are lent.
ClosedAndIdle(p) == pools[p] = "closed" => Busy(p) = {}

\* close_all, one pool after the other, with the read guard held.
ClosePool(p) ==
    /\ mainPc = "closing"
    /\ pools[p] = "open"
    /\ \A q \in Pools : ClosedAndIdle(q)
    /\ pools' = [pools EXCEPT ![p] = "closed"]
    /\ UNCHANGED <<lockVars, status, managers, opened, requestVars, mysqlVars,
                   serverVars>>

\* Mutant: closing a pool is started and not awaited.
CleanupDoneEarly ==
    /\ mainPc = "closing"
    /\ \A p \in Pools : pools[p] # "open"
    /\ Drop(CleanupTicket)
    /\ mainPc' = "cleaned"
    /\ UNCHANGED <<callVars, service, stdin, signal, monitor>>

CleanupDone ==
    /\ mainPc = "closing"
    /\ \A p \in Pools : pools[p] # "open" /\ ClosedAndIdle(p)
    /\ Drop(CleanupTicket)
    /\ mainPc' = "cleaned"
    /\ UNCHANGED <<callVars, service, stdin, signal, monitor>>

\* main returns and the runtime drops every task that is left, the loop of
\* the service included.
Return ==
    /\ mainPc = "cleaned"
    /\ mainPc' = "returned"
    /\ service' = "ended"
    /\ UNCHANGED <<vars, stdin, signal, monitor>>

\* The process is gone when the threads that block have returned, that of a
\* read of stdin included.
Exit ==
    /\ mainPc = "returned"
    /\ stdin # "reading"
    /\ mainPc' = "exited"
    /\ UNCHANGED <<vars, service, stdin, signal, monitor>>

-----------------------------------------------------------------------------
\* The interval ticks: log_pool_statistics asks for the lock.
MonitorTick ==
    /\ Alive
    /\ monitor = "sleeping"
    /\ monitor' = "waiting"
    /\ Enqueue(MonitorTicket)
    /\ UNCHANGED <<callVars, mainPc, service, stdin, signal>>

\* The guard is kept while the status of each data source is awaited.
MonitorReport ==
    /\ Alive
    /\ monitor = "waiting"
    /\ Grant(MonitorTicket)
    /\ monitor' = "reporting"
    /\ UNCHANGED <<callVars, mainPc, service, stdin, signal>>

MonitorSleep ==
    /\ Alive
    /\ monitor = "reporting"
    /\ Drop(MonitorTicket)
    /\ monitor' = "sleeping"
    /\ UNCHANGED <<callVars, mainPc, service, stdin, signal>>

\* Mutant: the aborted task keeps its claim on the lock.
MonitorCancelledKeepingTicket ==
    /\ Alive
    /\ monitor = "aborted"
    /\ monitor' = "stopped"
    /\ UNCHANGED <<lockVars, callVars, mainPc, service, stdin, signal>>

\* The aborted task is dropped at its await, with its place in the queue or
\* its guard.
MonitorCancelled ==
    /\ Alive
    /\ monitor = "aborted"
    /\ monitor' = "stopped"
    /\ Leave(MonitorTicket)
    /\ UNCHANGED <<callVars, mainPc, service, stdin, signal>>

-----------------------------------------------------------------------------
\* A message is read only by a service that runs or has yet to notice its end.
ServedArrival(r) ==
    /\ Alive
    /\ service \in {"running", "cancelled"}
    /\ Arrive(r)
    /\ UNCHANGED serverVars

CallStep(r) == Alive /\ TaskStep(r) /\ UNCHANGED serverVars

MainStep ==
    \/ DropService \/ StopMonitoring \/ StartClosing
    \/ \E p \in Pools : ClosePool(p)
    \/ CleanupDone \/ Return \/ Exit

MonitorStep == MonitorReport \/ MonitorSleep \/ MonitorCancelled

\* The process is gone and MySQL has nothing left to do.
Gone ==
    /\ mainPc = "exited"
    /\ \A r \in Requests : stmt[r] # "running"
    /\ UNCHANGED allVars

ServerNext ==
    \/ Signal \/ Handshake \/ HandshakeFails \/ Disconnect \/ ClientWrites
    \/ ServiceEnds \/ MainStep
    \/ MonitorTick \/ MonitorStep
    \/ \E r \in Requests : ServedArrival(r) \/ CallStep(r)
    \/ \E r \in Requests : MySqlStep(r) /\ UNCHANGED serverVars
    \/ Gone

ServerSpec == ServerInit /\ [][ServerNext]_allVars

\* The runtime polls main, the monitoring task and every call that can go on;
\* nothing is assumed of the client, of signals or of the monitoring timer.
ServerFairSpec ==
    /\ ServerSpec
    /\ WF_allVars(MainStep) /\ WF_allVars(MonitorStep) /\ WF_allVars(ServiceEnds)
    /\ \A r \in Requests : WF_allVars(CallStep(r))
    /\ \A r \in Requests :
          WF_allVars(call[r].key \in HealthyKeys /\ (Execute(r) \/ Refuse(r))
                     /\ UNCHANGED serverVars)

-----------------------------------------------------------------------------
ServerTypeOK ==
    /\ TypeOK
    /\ mainPc \in {"handshake", "serving", "stopping", "locking", "closing",
                   "cleaned", "returned", "exited"}
    /\ service \in {"starting", "running", "cancelled", "ended"}
    /\ stdin \in {"reading", "idle", "closed"}
    /\ signal \in {"none", "sent"}
    /\ monitor \in {"sleeping", "waiting", "reporting", "aborted", "stopped"}

\* Pools are closed while calls are still around, but never under the feet of
\* one that uses them: its guard and the guard of the cleanup exclude another.
NoCallAtWorkDuringCleanup ==
    mainPc = "closing" => \A r \in Requests : ~InUse(r)

\* A pool that the cleanup has left behind is closed for good: no statement
\* runs on it any more, late calls and abandoned statements included.
ClosedPoolsStayIdle ==
    mainPc \in {"cleaned", "returned", "exited"} =>
        \A p \in Pools : ClosedAndIdle(p)

\* Every signal received while serving brings main to its end, and the process
\* too unless a read of stdin is under way, which only the client ends: no call,
\* monitoring report or abandoned statement blocks the cleanup for ever.
ShutdownCompletes ==
    mainPc = "serving" /\ signal = "sent" ~>
        mainPc = "exited" \/ (mainPc = "returned" /\ stdin = "reading")

\* A report that is due is made, however many calls compete for the lock.
MonitorReports ==
    monitor = "waiting" ~> monitor \in {"reporting", "stopped"} \/ ~Alive

\* "All active database connections are closed gracefully": when the cleanup
\* is complete no pool is open.
NoPoolAfterCleanup ==
    mainPc = "cleaned" => \A p \in Pools : pools[p] # "open"

\* SIGTERM and SIGINT start the shutdown, whenever they come.
SignalStartsShutdown == signal = "sent" ~> mainPc \notin {"handshake", "serving"}
=============================================================================
