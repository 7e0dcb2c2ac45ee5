-------------------------- MODULE ToolServerProofs --------------------------
(***************************************************************************)
(* Theorems about ToolServer for every number of requests, data sources,   *)
(* connections and rows.  The inductive invariant has a part for the types,*)
(* one for the lock, one for the line of those who wait for it and one for *)
(* the pools, each proved from those before it; ToolServerEffectProofs     *)
(* adds the statements.                                                    *)
(***************************************************************************)
EXTENDS ToolServer, FairRwLockProofs, TLAPS

\* A call that passed its checks, and needs a pool, names a configured source.
LEMMA AdmittedNamesSource ==
    ASSUME NEW c \in Call, Admitted(c),
           c.tool \notin LocalTools, c.tool # "connection_stats"
    PROVE  c.key \in Keys
<1>1. c.tool \notin {"unknown", "resource_other"}
  <2>1. SUFFICES ASSUME c.tool \in {"unknown", "resource_other"} PROVE FALSE
    OBVIOUS
  <2>2. \/ Checks(c) = <<Check(TRUE, "InvalidParams")>>
        \/ Checks(c) = <<Check(TRUE, "InvalidResourceUri")>>
    BY <2>1 DEF Checks
  <2> QED BY <2>2 DEF Admitted, Check
<1>2. \E n \in DOMAIN Checks(c) : Checks(c)[n] = ValidateKey(c)
  <2>1. CASE c.tool = "query"
    BY <2>1 DEF Checks, QueryChecks
  <2>2. CASE c.tool = "execute"
    BY <2>2 DEF Checks, ExecuteChecks
  <2>3. CASE c.tool = "describe_table"
    BY <2>3 DEF Checks, DescribeTableChecks
  <2>4. CASE c.tool = "list_tables"
    BY <2>4 DEF Checks, ListTablesChecks
  <2>5. CASE c.tool = "list_databases"
    BY <2>5 DEF Checks, ListDatabasesChecks
  <2>6. CASE c.tool \in {"resource_databases", "resource_tables",
                         "resource_table", "resource_schema"}
    <3>1. Checks(c) = <<ValidateKey(c), Available(c)>>
      BY <2>6 DEF Checks, ResourceChecks
    <3> QED BY <3>1
  <2> QED BY <1>1, <2>1, <2>2, <2>3, <2>4, <2>5, <2>6 DEF Call, Tools, LocalTools
<1> QED BY <1>2 DEF Admitted, ValidateKey, Check

\* Every call is decided: it needs no lock, passes all its checks, or is rejected
\* with the error of the first one that fails.
LEMMA ChecksDecide ==
    ASSUME NEW c \in Call
    PROVE  \/ c.tool \in LocalTools \/ Admitted(c)
           \/ \E e \in Rejections : FailsWith(c, e)
<1>1. /\ DOMAIN Checks(c) \subseteq 1 .. 6
      /\ \A i \in DOMAIN Checks(c), j \in 1 .. 6 : j < i => j \in DOMAIN Checks(c)
      /\ \A i \in DOMAIN Checks(c) : Checks(c)[i] \subseteq Rejections
  <2> DEFINE Short(s) == /\ DOMAIN s \subseteq 1 .. 6
                         /\ \A i \in DOMAIN s, j \in 1 .. 6 : j < i => j \in DOMAIN s
                         /\ \A i \in DOMAIN s : s[i] \subseteq Rejections
  <2>1. /\ \A a : Argument(a) \subseteq Rejections
        /\ ValidateKey(c) \subseteq Rejections /\ Available(c) \subseteq Rejections
        /\ CheckQueryPermission(c) \subseteq Rejections
        /\ CheckUpdatePermission(c) \subseteq Rejections
        /\ CheckDdlPermission(c) \subseteq Rejections
        /\ Check(TRUE, "InvalidParams") \subseteq Rejections
        /\ Check(TRUE, "InvalidResourceUri") \subseteq Rejections
    BY DEF Argument, ValidateKey, Available, CheckQueryPermission,
           CheckUpdatePermission, CheckDdlPermission, Check, Rejections
  <2> SUFFICES Short(Checks(c))
    OBVIOUS
  <2> HIDE DEF Short
  <2>2. /\ Short(<<>>)
        /\ \A a \in SUBSET Rejections : Short(<<a>>)
        /\ \A a, b \in SUBSET Rejections : Short(<<a, b>>)
        /\ \A a, b, d \in SUBSET Rejections : Short(<<a, b, d>>)
        /\ \A a, b, d, e \in SUBSET Rejections : Short(<<a, b, d, e>>)
        /\ \A a, b, d, e, f \in SUBSET Rejections : Short(<<a, b, d, e, f>>)
        /\ \A a, b, d, e, f, g \in SUBSET Rejections : Short(<<a, b, d, e, f, g>>)
    BY DEF Short
  <2>3. CASE c.tool = "query"
    BY <2>1, <2>2, <2>3 DEF Checks, QueryChecks
  <2>4. CASE c.tool = "execute"
    BY <2>1, <2>2, <2>4 DEF Checks, ExecuteChecks
  <2>5. CASE c.tool = "describe_table"
    BY <2>1, <2>2, <2>5 DEF Checks, DescribeTableChecks
  <2>6. CASE c.tool = "list_tables"
    BY <2>1, <2>2, <2>6 DEF Checks, ListTablesChecks
  <2>7. CASE c.tool = "list_databases"
    BY <2>1, <2>2, <2>7 DEF Checks, ListDatabasesChecks
  <2>8. CASE c.tool = "connection_stats"
    BY <2>1, <2>2, <2>8 DEF Checks, StatsChecks
  <2>9. CASE c.tool = "unknown"
    BY <2>2, <2>9 DEF Checks, Check, Rejections
  <2>10. CASE c.tool = "resource_other"
    BY <2>2, <2>10 DEF Checks, Check, Rejections
  <2>11. CASE c.tool \in LocalTools
    BY <2>2, <2>11 DEF Checks, LocalTools
  <2>12. CASE c.tool \in {"resource_databases", "resource_tables",
                          "resource_table", "resource_schema"}
    BY <2>1, <2>2, <2>12 DEF Checks, ResourceChecks
  <2> QED BY <2>3, <2>4, <2>5, <2>6, <2>7, <2>8, <2>9, <2>10, <2>11, <2>12
          DEF Call, Tools, LocalTools
<1>2. SUFFICES ASSUME ~Admitted(c) PROVE \E e \in Rejections : FailsWith(c, e)
  OBVIOUS
<1> DEFINE Failing == {i \in DOMAIN Checks(c) : Checks(c)[i] # {}}
<1>3. PICK i \in Failing : \A j \in Failing : i <= j
  <2>1. Failing \subseteq 1 .. 6 /\ Failing # {}
    BY <1>1, <1>2 DEF Admitted
  <2> HIDE DEF Failing
  <2> PICK i \in Failing : i \in 1 .. 6
    BY <2>1
  <2>2. \/ 1 \in Failing \/ 2 \in Failing \/ 3 \in Failing
        \/ 4 \in Failing \/ 5 \in Failing \/ 6 \in Failing
    BY <2>1
  <2> QED BY <2>1, <2>2
<1>4. PICK e \in Checks(c)[i] : e \in Rejections
  BY <1>1
<1>5. \A j \in 1 .. (i - 1) : Checks(c)[j] = {}
  BY <1>1, <1>3
<1> QED BY <1>4, <1>5 DEF FailsWith

\* What is known of the arguments of a call that is past its checks.
PastChecks(r) == pc[r] \in {"waiting", "connecting", "sending", "awaiting"}

CallsChecked ==
    \A r \in Requests :
        /\ PastChecks(r) => call[r].tool \notin LocalTools
        /\ PastChecks(r) /\ call[r].tool # "connection_stats" => call[r].key \in Keys
        /\ InUse(r) => call[r].tool # "connection_stats"

TypeInv == TypeOK /\ CallsChecked

\* A ticket names its request; calls that use pools ask for the write lock.
LEMMA TicketType ==
    ASSUME NEW r \in Requests
    PROVE  /\ TicketOf(r) \in [who : Requests \cup OtherTasks, mode : {"read", "write"}]
           /\ TicketOf(r).who = r
           /\ call[r].tool # "connection_stats" => TicketOf(r).mode = "write"
BY DEF TicketOf, Ticket

\* The number of follow-up queries is a natural number.
LEMMA FollowUpsType ==
    ASSUME NEW c \in Call
    PROVE  FollowUps(c) \subseteq Nat
<1>1. CASE c.tool \in {"describe_table", "resource_table"}
  BY <1>1 DEF FollowUps, DetailQueries
<1>2. CASE c.tool \in {"list_databases", "resource_databases"}
  BY <1>2, BoundsAssumption DEF FollowUps
<1>3. CASE c.tool = "resource_schema"
  <2>1. FollowUps(c) = {DetailQueries * n : n \in 0 .. MaxRows}
    BY <1>3 DEF FollowUps
  <2> QED BY <2>1, BoundsAssumption DEF DetailQueries
<1>4. CASE c.tool \notin {"describe_table", "resource_table", "list_databases",
                         "resource_databases", "resource_schema"}
  BY <1>4 DEF FollowUps
<1> QED BY <1>1, <1>2, <1>3, <1>4

\* The server starts with the right types and no call past its checks.
LEMMA TypeInit == Init => TypeInv
BY DEF Init, LockInit, TypeInv, TypeOK, CallsChecked, PastChecks, InUse, Call,
       NoCall, Tools, Absent

FinishResult(r) ==
    /\ reply' \in [Requests -> Outcomes \cup {"none"}]
    /\ pc' = [pc EXCEPT ![r] = "replied"]
    /\ guards' = guards \ {TicketOf(r)}
    /\ UNCHANGED <<waiters, call>>

StepResult(r) ==
    /\ left' \in [Requests -> Nat]
    /\ \/ FinishResult(r)
       \/ /\ pc' = [pc EXCEPT ![r] = "sending"]
          /\ UNCHANGED <<waiters, guards, call, reply>>

\* Replying drops a guard and changes nothing else of the lock.
LEMMA FinishType ==
    ASSUME TypeOK, NEW r \in Requests, NEW o \in Outcomes, Finish(r, o)
    PROVE  FinishResult(r)
BY DEF TypeOK, Finish, Reply, Drop, FinishResult

\* Going on to the next query or replying keeps the types and the facts about
\* arguments.
LEMMA ProceedType ==
    ASSUME TypeInv, NEW r \in Requests, InUse(r), NEW n \in Nat, Proceed(r, n)
    PROVE  StepResult(r)
<1>1. CASE n > 0
  <2>1. /\ left' = [left EXCEPT ![r] = n]
        /\ pc' = [pc EXCEPT ![r] = "sending"]
        /\ UNCHANGED <<waiters, guards, call, reply>>
    BY <1>1 DEF Proceed, lockVars
  <2> QED BY <2>1 DEF TypeInv, TypeOK, StepResult
<1>2. CASE n = 0
  <2>1. Finish(r, "Ok") /\ left' = [left EXCEPT ![r] = 0]
    BY <1>2 DEF Proceed
  <2> QED BY <2>1, FinishType DEF TypeInv, TypeOK, Outcomes, StepResult
<1> QED BY <1>1, <1>2

\* A failed query ends the call, or is swallowed and the call goes on.
LEMMA QueryFailsType ==
    ASSUME TypeInv, NEW r \in Requests, InUse(r), QueryFails(r)
    PROVE  StepResult(r)
<1>1. CASE Swallowed(r)
  <2>1. left[r] - 1 \in Nat /\ Proceed(r, left[r] - 1)
    BY <1>1 DEF QueryFails, Swallowed, TypeInv, TypeOK
  <2> QED BY <2>1, ProceedType
<1>2. CASE ~Swallowed(r)
  <2>1. PICK e \in QueryErrors(r) : Finish(r, e)
    BY <1>2 DEF QueryFails
  <2>2. e \in Outcomes
    BY DEF QueryErrors, Outcomes
  <2>3. UNCHANGED left
    BY <1>2 DEF QueryFails
  <2> QED BY <2>1, <2>2, <2>3, FinishType DEF TypeInv, TypeOK, StepResult
<1> QED BY <1>1, <1>2

\* The steps that end a query, or the call: what they do to the call.
Ends(r) ==
    \/ OpenPoolFails(r) \/ AcquireFails(r) \/ AnswerOk(r)
    \/ AnswerNoTable(r) \/ AnswerError(r) \/ TimeOut(r)

\* Such a step ends the call or goes on to its next query.
LEMMA EndsResult ==
    ASSUME TypeInv, NEW r \in Requests, Ends(r)
    PROVE  InUse(r) /\ StepResult(r) /\ UNCHANGED <<status, poolVars, applied>>
<1>1. \A o \in Outcomes : Finish(r, o) /\ UNCHANGED left => StepResult(r)
  BY FinishType DEF StepResult, TypeInv, TypeOK
<1>2. CASE OpenPoolFails(r)
  BY <1>1, <1>2 DEF OpenPoolFails, InUse, Outcomes, mysqlVars
<1>3. CASE AcquireFails(r)
  <2>1. InUse(r) /\ QueryFails(r)
    BY <1>3 DEF AcquireFails, InUse
  <2> QED BY <1>3, <2>1, QueryFailsType DEF AcquireFails, mysqlVars
<1>4. CASE AnswerOk(r)
  <2>1. InUse(r) /\ call[r] \in Call /\ left[r] \in Nat
    BY <1>4 DEF AnswerOk, InUse, TypeInv, TypeOK
  <2>2. PICK n \in IF left[r] = 0 THEN FollowUps(call[r]) ELSE {left[r] - 1} :
            Proceed(r, n)
    BY <1>4 DEF AnswerOk
  <2>3. n \in Nat
    BY <2>1, <2>2, FollowUpsType
  <2> QED BY <1>4, <2>1, <2>2, <2>3, ProceedType DEF AnswerOk
<1>5. CASE AnswerNoTable(r)
  BY <1>1, <1>5 DEF AnswerNoTable, InUse, Outcomes
<1>6. CASE AnswerError(r)
  <2>1. InUse(r) /\ QueryFails(r)
    BY <1>6 DEF AnswerError, InUse
  <2> QED BY <1>6, <2>1, QueryFailsType DEF AnswerError
<1>7. CASE TimeOut(r)
  BY <1>1, <1>7 DEF TimeOut, Outcomes, mysqlVars
<1> QED BY <1>2, <1>3, <1>4, <1>5, <1>6, <1>7 DEF Ends

\* Such a step keeps the type of what MySQL does.
LEMMA EndsStatement ==
    ASSUME TypeInv, NEW r \in Requests, Ends(r)
    PROVE  stmt' \in [Requests -> {"idle", "running", "done", "failed"}]
BY DEF Ends, OpenPoolFails, AcquireFails, AnswerOk, AnswerNoTable, AnswerError,
       TimeOut, TypeInv, TypeOK, mysqlVars

\* A step of a call at work, or a reply, keeps what is known of the arguments.
LEMMA CallsCheckedStable ==
    ASSUME TypeInv, NEW r \in Requests,
           NEW l \in {"sending", "awaiting", "replied"},
           InUse(r) \/ l = "replied",
           pc' = [pc EXCEPT ![r] = l], call' = call
    PROVE  CallsChecked'
BY DEF TypeInv, TypeOK, CallsChecked, PastChecks, InUse

\* Every step of the request path keeps the types.
LEMMA TypeStep == TypeInv /\ [Next]_vars => TypeInv'
<1> SUFFICES ASSUME TypeInv, [Next]_vars PROVE TypeInv'
  OBVIOUS
<1>1. CASE UNCHANGED vars
  BY <1>1 DEF vars, TypeInv, TypeOK, CallsChecked, PastChecks, InUse
<1>2. CASE Rest
  BY <1>2 DEF Rest, vars, TypeInv, TypeOK, CallsChecked, PastChecks, InUse
<1>3. ASSUME NEW k \in Keys, SetStatus(k) PROVE TypeInv'
  BY <1>3 DEF SetStatus, TypeInv, TypeOK, CallsChecked, PastChecks, InUse,
              lockVars, poolVars, requestVars, mysqlVars
<1>4. ASSUME NEW r \in Requests, Arrive(r) PROVE TypeInv'
  <2>1. TypeOK'
    BY <1>4, CallsAssumption
       DEF Arrive, TypeInv, TypeOK, lockVars, poolVars, mysqlVars
  <2>2. CallsChecked'
    BY <1>4 DEF Arrive, TypeInv, TypeOK, CallsChecked, PastChecks, InUse
  <2> QED BY <2>1, <2>2 DEF TypeInv
<1>5. ASSUME NEW r \in Requests, Reject(r) PROVE TypeInv'
  <2>1. pc' = [pc EXCEPT ![r] = "replied"] /\ call' = call
    BY <1>5 DEF Reject, Reply
  <2>2. TypeOK'
    BY <1>5 DEF Reject, Reply, TypeInv, TypeOK, Outcomes, lockVars, poolVars,
                mysqlVars
  <2> QED BY <2>1, <2>2, CallsCheckedStable DEF TypeInv
<1>6. ASSUME NEW r \in Requests, ListSources(r) PROVE TypeInv'
  <2>1. pc' = [pc EXCEPT ![r] = "replied"] /\ call' = call
    BY <1>6 DEF ListSources, Reply
  <2>2. TypeOK'
    BY <1>6 DEF ListSources, Reply, TypeInv, TypeOK, Outcomes, lockVars,
                poolVars, mysqlVars
  <2> QED BY <2>1, <2>2, CallsCheckedStable DEF TypeInv
<1>7. ASSUME NEW r \in Requests, RequestLock(r) PROVE TypeInv'
  <2>1. call[r] \in Call
    BY DEF TypeInv, TypeOK
  <2>2. waiters' \in Seq([who : Requests \cup OtherTasks, mode : {"read", "write"}])
    BY <1>7, TicketType DEF RequestLock, Enqueue, TypeInv, TypeOK
  <2>3. call[r].tool # "connection_stats" => call[r].key \in Keys
    BY <1>7, <2>1, AdmittedNamesSource DEF RequestLock
  <2>4. TypeOK'
    BY <1>7, <2>2 DEF RequestLock, Enqueue, TypeInv, TypeOK, poolVars, mysqlVars
  <2>5. CallsChecked'
    BY <1>7, <2>3
       DEF RequestLock, TypeInv, TypeOK, CallsChecked, PastChecks, InUse
  <2> QED BY <2>4, <2>5 DEF TypeInv
<1>8. ASSUME NEW r \in Requests, ReadStats(r) PROVE TypeInv'
  <2>1. pc' = [pc EXCEPT ![r] = "replied"] /\ call' = call
    BY <1>8 DEF ReadStats, Reply
  <2>2. waiters' \in Seq([who : Requests \cup OtherTasks, mode : {"read", "write"}])
    BY <1>8 DEF ReadStats, GrantAndDrop, Grantable, TypeInv, TypeOK
  <2>3. TypeOK'
    BY <1>8, <2>2 DEF ReadStats, GrantAndDrop, Reply, TypeInv, TypeOK, Outcomes,
                      poolVars, mysqlVars
  <2> QED BY <2>1, <2>3, CallsCheckedStable DEF TypeInv
<1>9. ASSUME NEW r \in Requests, LookupPool(r) PROVE TypeInv'
  <2>1. waiters' \in Seq([who : Requests \cup OtherTasks, mode : {"read", "write"}])
    BY <1>9 DEF LookupPool, Grant, Grantable, TypeInv, TypeOK
  <2>2. managers' \subseteq Keys
    BY <1>9 DEF LookupPool, TypeInv, TypeOK, CallsChecked, PastChecks
  <2>3. TypeOK'
    BY <1>9, <2>1, <2>2, TicketType
       DEF LookupPool, Grant, TypeInv, TypeOK, mysqlVars
  <2>4. CallsChecked'
    BY <1>9 DEF LookupPool, TypeInv, TypeOK, CallsChecked, PastChecks, InUse
  <2> QED BY <2>3, <2>4 DEF TypeInv
<1>10. ASSUME NEW r \in Requests, OpenPool(r) PROVE TypeInv'
  <2>1. InUse(r) /\ pc' = [pc EXCEPT ![r] = "sending"] /\ call' = call
    BY <1>10 DEF OpenPool, InUse
  <2>2. opened' \in [Pools -> Nat] /\ pools' \in [Pools -> {"absent", "open", "closed"}]
    <3> DEFINE p == PoolOf(call[r])
    <3>1. CASE p \in Pools
      BY <1>10, <3>1 DEF OpenPool, TypeInv, TypeOK
    <3>2. CASE p \notin Pools
      <4>1. opened' = opened /\ pools' = pools
        BY <1>10, <3>2 DEF OpenPool, TypeInv, TypeOK
      <4> QED BY <4>1 DEF TypeInv, TypeOK
    <3> QED BY <3>1, <3>2
  <2>3. TypeOK'
    BY <1>10, <2>1, <2>2 DEF OpenPool, TypeInv, TypeOK, lockVars, mysqlVars
  <2> QED BY <2>1, <2>3, CallsCheckedStable DEF TypeInv
<1>11. ASSUME NEW r \in Requests, Ends(r) PROVE TypeInv'
  <2>1. InUse(r) /\ StepResult(r) /\ UNCHANGED <<status, poolVars, applied>>
    BY <1>11, EndsResult
  <2>2. TypeOK'
    BY <1>11, <2>1, EndsStatement
       DEF StepResult, FinishResult, TypeInv, TypeOK, poolVars
  <2>3. CallsChecked'
    BY <2>1, CallsCheckedStable DEF StepResult, FinishResult
  <2> QED BY <2>2, <2>3 DEF TypeInv
<1>12. ASSUME NEW r \in Requests, Send(r) PROVE TypeInv'
  <2>1. InUse(r) /\ pc' = [pc EXCEPT ![r] = "awaiting"] /\ call' = call
    BY <1>12 DEF Send, InUse
  <2>2. TypeOK'
    BY <1>12 DEF Send, TypeInv, TypeOK, lockVars, poolVars
  <2> QED BY <2>1, <2>2, CallsCheckedStable DEF TypeInv
<1>13. ASSUME NEW r \in Requests, MySqlStep(r) PROVE TypeInv'
  <2>1. /\ stmt' \in [Requests -> {"idle", "running", "done", "failed"}]
        /\ applied' \in [Requests -> Nat]
    <3>1. CASE Execute(r)
      <4>1. applied[r] + 1 \in Nat
        BY DEF TypeInv, TypeOK
      <4> QED BY <3>1, <4>1 DEF Execute, TypeInv, TypeOK
    <3>2. CASE Refuse(r)
      BY <3>2 DEF Refuse, TypeInv, TypeOK
    <3>3. CASE LoseAnswer(r)
      BY <3>3 DEF LoseAnswer, TypeInv, TypeOK
    <3> QED BY <1>13, <3>1, <3>2, <3>3 DEF MySqlStep
  <2>2. UNCHANGED <<lockVars, status, poolVars, requestVars>>
    BY <1>13 DEF MySqlStep, Execute, Refuse, LoseAnswer
  <2> QED BY <2>1, <2>2 DEF TypeInv, TypeOK, CallsChecked, PastChecks, InUse,
                            lockVars, poolVars, requestVars
<1> QED BY <1>1, <1>2, <1>3, <1>4, <1>5, <1>6, <1>7, <1>8, <1>9, <1>10, <1>11,
           <1>12, <1>13 DEF Next, TaskStep, Ends

\* Type correctness of the request path: whatever calls come, every variable
\* keeps its type.  In particular managers are made for configured keys only.
THEOREM TypeCorrect == Spec => []TypeOK
<1>1. TypeInv => TypeOK
  BY DEF TypeInv
<1> QED BY <1>1, TypeInit, TypeStep, PTL DEF Spec

-----------------------------------------------------------------------------
(* The lock.  A write guard is alone, and a call at work has one.          *)

GuardsExclude ==
    \A g, h \in guards : g.mode = "write" => g = h

LockInv ==
    /\ GuardsExclude
    /\ NoGuardLeaked

\* At the start nobody holds the lock.
LEMMA LockInit_ == Init => LockInv
BY DEF Init, LockInit, LockInv, GuardsExclude, NoGuardLeaked, InUse

\* A step that touches neither the guards nor who is at work.
LEMMA LockStable ==
    ASSUME TypeInv, LockInv, guards' = guards,
           \A r \in Requests : InUse(r)' <=> InUse(r),
           \A r \in Requests : InUse(r) => call'[r] = call[r]
    PROVE  LockInv'
BY DEF LockInv, GuardsExclude, NoGuardLeaked, TicketOf, Ticket

\* A call that ends drops its own guard and no other.
LEMMA LockReleased ==
    ASSUME TypeInv, LockInv, NEW r \in Requests, InUse(r), FinishResult(r)
    PROVE  LockInv'
<1>1. GuardsExclude'
  BY DEF LockInv, GuardsExclude, FinishResult
<1>2. \A q \in Requests : InUse(q)' <=> InUse(q) /\ q # r
  BY DEF FinishResult, InUse, TypeInv, TypeOK
<1>3. \A q \in Requests : TicketOf(q)' = TicketOf(q)
  BY DEF FinishResult, TicketOf
<1>4. \A q \in Requests : TicketOf(q) = TicketOf(r) => q = r
  BY TicketType
<1> QED BY <1>1, <1>2, <1>3, <1>4 DEF LockInv, NoGuardLeaked, FinishResult

\* Every step keeps the lock with the calls at work.
LEMMA LockStep == TypeInv /\ LockInv /\ [Next]_vars => LockInv'
<1> SUFFICES ASSUME TypeInv, LockInv, [Next]_vars PROVE LockInv'
  OBVIOUS
<1>1. CASE UNCHANGED vars
  BY <1>1, LockStable DEF vars, InUse
<1>2. CASE Rest
  BY <1>2, LockStable DEF Rest, vars, InUse
<1>3. ASSUME NEW k \in Keys, SetStatus(k) PROVE LockInv'
  BY <1>3, LockStable DEF SetStatus, lockVars, requestVars, InUse
<1>4. ASSUME NEW r \in Requests, Arrive(r) PROVE LockInv'
  BY <1>4, LockStable DEF Arrive, lockVars, InUse, TypeInv, TypeOK
<1>5. ASSUME NEW r \in Requests, Reject(r) \/ ListSources(r) PROVE LockInv'
  BY <1>5, LockStable
     DEF Reject, ListSources, Reply, lockVars, InUse, TypeInv, TypeOK
<1>6. ASSUME NEW r \in Requests, RequestLock(r) PROVE LockInv'
  BY <1>6, LockStable DEF RequestLock, Enqueue, InUse, TypeInv, TypeOK
<1>7. ASSUME NEW r \in Requests, ReadStats(r) PROVE LockInv'
  BY <1>7, LockStable DEF ReadStats, GrantAndDrop, Reply, InUse, TypeInv, TypeOK
<1>8. ASSUME NEW r \in Requests, LookupPool(r) PROVE LockInv'
  <2>1. TicketOf(r).mode = "write"
    BY <1>8, TicketType DEF LookupPool
  <2>2. guards = {} /\ guards' = {TicketOf(r)}
    BY <1>8, <2>1 DEF LookupPool, Grant, Grantable, Compatible
  <2>3. \A q \in Requests : ~InUse(q)
    BY <2>2, TicketType DEF LockInv, NoGuardLeaked
  <2>4. \A q \in Requests : InUse(q)' <=> q = r
    BY <1>8, <2>3 DEF LookupPool, InUse, TypeInv, TypeOK
  <2>5. TicketOf(r)' = TicketOf(r)
    BY <1>8 DEF LookupPool, TicketOf
  <2> QED BY <2>2, <2>4, <2>5, TicketType DEF LockInv, GuardsExclude, NoGuardLeaked
<1>9. ASSUME NEW r \in Requests, OpenPool(r) \/ Send(r) PROVE LockInv'
  BY <1>9, LockStable DEF OpenPool, Send, lockVars, InUse, TypeInv, TypeOK
<1>10. ASSUME NEW r \in Requests, Ends(r) PROVE LockInv'
  <2>1. InUse(r) /\ StepResult(r)
    BY <1>10, EndsResult
  <2>2. CASE FinishResult(r)
    BY <2>1, <2>2, LockReleased
  <2>3. CASE ~FinishResult(r)
    BY <2>1, <2>3, LockStable DEF StepResult, InUse, TypeInv, TypeOK
  <2> QED BY <2>2, <2>3
<1>11. ASSUME NEW r \in Requests, MySqlStep(r) PROVE LockInv'
  BY <1>11, LockStable
     DEF MySqlStep, Execute, Refuse, LoseAnswer, lockVars, requestVars, InUse
<1> QED BY <1>1, <1>2, <1>3, <1>4, <1>5, <1>6, <1>7, <1>8, <1>9, <1>10, <1>11
        DEF Next, TaskStep, Ends

\* A call at work has a write guard, and a write guard is alone.
LEMMA LockGivesOneCall == TypeInv /\ LockInv => OneCallAtATime
<1> SUFFICES ASSUME TypeInv, LockInv, NEW r \in Requests, NEW s \in Requests,
                    InUse(r), InUse(s)
             PROVE  r = s
  BY DEF OneCallAtATime
<1>1. TicketOf(r) \in guards /\ TicketOf(s) \in guards
  BY DEF LockInv, NoGuardLeaked
<1>2. TicketOf(r).mode = "write"
  BY TicketType DEF TypeInv, CallsChecked
<1> QED BY <1>1, <1>2, TicketType DEF LockInv, GuardsExclude

\* No way through a handler leaves a guard behind or works without one.
THEOREM GuardsFollowCalls == Spec => []NoGuardLeaked
BY TypeInit, TypeStep, LockInit_, LockStep, PTL DEF Spec, LockInv

\* However many calls and data sources there are, one call at a time opens a
\* pool or waits for MySQL.
THEOREM MutualExclusion == Spec => []OneCallAtATime
<1>1. Init => TypeInv /\ LockInv
  BY TypeInit, LockInit_
<1>2. TypeInv /\ LockInv /\ [Next]_vars => TypeInv' /\ LockInv'
  BY TypeStep, LockStep
<1> QED BY <1>1, <1>2, LockGivesOneCall, PTL DEF Spec

-----------------------------------------------------------------------------
(* The line.  Every ticket in it has a call that waits behind it: a ticket *)
(* whose task is gone would keep the lock from everybody for ever.         *)

Tickets == [who : Requests \cup OtherTasks, mode : {"read", "write"}]

\* The tickets of calls, and of the other tasks, in a line.
OfCalls(line) == {t \in Range(line) : t.who \in Requests}
OfOthers(line) == {t \in Range(line) : t.who \notin Requests}

\* The calls that wait stand in the line, each once, and no others do.
LineInv ==
    /\ waiters \in Lines(Tickets)
    /\ OfCalls(waiters) = {TicketOf(r) : r \in {q \in Requests : pc[q] = "waiting"}}

\* What a step of the calls does to the line.
LineKept ==
    /\ LineInv'
    /\ OfOthers(waiters') = OfOthers(waiters)
    /\ KeepsOrder(waiters, waiters')

\* At the start nobody waits.
LEMMA LineInit == Init => LineInv
BY EmptyLine DEF Init, LockInit, LineInv, OfCalls

\* A step that touches neither the line nor who stands in it.
LEMMA LineStable ==
    ASSUME LineInv, waiters' = waiters,
           \A r \in Requests : pc'[r] = "waiting" <=> pc[r] = "waiting",
           \A r \in Requests : pc[r] = "waiting" => call'[r] = call[r]
    PROVE  LineKept
<1>1. \A r \in Requests : pc[r] = "waiting" => TicketOf(r)' = TicketOf(r)
  BY DEF TicketOf
<1>2. LineInv'
  BY <1>1 DEF LineInv, OfCalls
<1> QED BY <1>2 DEF LineKept, OfOthers, KeepsOrder

\* A call whose turn has come leaves the line at its head.
LEMMA LineServed ==
    ASSUME TypeInv, LineInv, NEW r \in Requests,
           NEW l \in {"replied", "connecting", "sending"},
           pc[r] = "waiting", Grantable(TicketOf(r)), waiters' = Tail(waiters),
           pc' = [pc EXCEPT ![r] = l], call' = call
    PROVE  LineKept
<1>1. waiters \in Lines(Tickets) /\ waiters # <<>> /\ Head(waiters) = TicketOf(r)
  BY DEF LineInv, Grantable
<1>2. /\ waiters' \in Lines(Tickets) /\ KeepsOrder(waiters, waiters')
      /\ Range(waiters') = Range(waiters) \ {TicketOf(r)}
  BY <1>1, ServeLine
<1>3. /\ \A q \in Requests : pc'[q] = "waiting" <=> pc[q] = "waiting" /\ q # r
      /\ \A q \in Requests : TicketOf(q)' = TicketOf(q)
      /\ \A q \in Requests : TicketOf(q) = TicketOf(r) => q = r
  BY TicketType DEF TypeInv, TypeOK, TicketOf
<1>4. OfCalls(waiters') = OfCalls(waiters) \ {TicketOf(r)}
  BY <1>2 DEF OfCalls
<1>5. LineInv'
  BY <1>2, <1>3, <1>4 DEF LineInv
<1> QED BY <1>2, <1>5, TicketType DEF LineKept, OfOthers

\* Every step keeps the line with the calls that wait.
LEMMA LineStep == TypeInv /\ LineInv /\ [Next]_vars => LineKept
<1> SUFFICES ASSUME TypeInv, LineInv, [Next]_vars PROVE LineKept
  OBVIOUS
<1>1. CASE UNCHANGED vars \/ Rest
  BY <1>1, LineStable DEF Rest, vars
<1>2. ASSUME NEW k \in Keys, SetStatus(k) PROVE LineKept
  BY <1>2, LineStable DEF SetStatus, lockVars, requestVars
<1>3. ASSUME NEW r \in Requests, Arrive(r) PROVE LineKept
  BY <1>3, LineStable DEF Arrive, lockVars, TypeInv, TypeOK
<1>4. ASSUME NEW r \in Requests, Reject(r) \/ ListSources(r) PROVE LineKept
  BY <1>4, LineStable DEF Reject, ListSources, Reply, lockVars, TypeInv, TypeOK
<1>5. ASSUME NEW r \in Requests, RequestLock(r) PROVE LineKept
  <2>1. /\ TicketOf(r) \in Tickets /\ TicketOf(r).who = r
        /\ waiters' = Append(waiters, TicketOf(r)) /\ pc[r] # "waiting"
        /\ pc' = [pc EXCEPT ![r] = "waiting"] /\ call' = call
    BY <1>5, TicketType DEF RequestLock, Enqueue, Tickets
  <2>2. /\ \A q \in Requests : pc'[q] = "waiting" <=> pc[q] = "waiting" \/ q = r
        /\ \A q \in Requests : TicketOf(q)' = TicketOf(q)
        /\ \A q \in Requests : TicketOf(q) = TicketOf(r) => q = r
    BY <2>1, TicketType DEF TypeInv, TypeOK, TicketOf
  <2>3. TicketOf(r) \notin Range(waiters)
    BY <2>1, <2>2 DEF LineInv, OfCalls
  <2>4. /\ waiters' \in Lines(Tickets) /\ KeepsOrder(waiters, waiters')
        /\ Range(waiters') = Range(waiters) \cup {TicketOf(r)}
    BY <2>1, <2>3, JoinLine DEF LineInv
  <2>5. OfCalls(waiters') = OfCalls(waiters) \cup {TicketOf(r)}
    BY <2>1, <2>4 DEF OfCalls
  <2>6. LineInv'
    BY <2>2, <2>4, <2>5 DEF LineInv
  <2> QED BY <2>1, <2>4, <2>6 DEF LineKept, OfOthers
<1>6. ASSUME NEW r \in Requests, ReadStats(r) PROVE LineKept
  BY <1>6, LineServed DEF ReadStats, GrantAndDrop, Reply
<1>7. ASSUME NEW r \in Requests, LookupPool(r) PROVE LineKept
  <2>1. /\ pc[r] = "waiting" /\ Grantable(TicketOf(r)) /\ waiters' = Tail(waiters)
        /\ call' = call
    BY <1>7 DEF LookupPool, Grant
  <2>2. PICK l \in {"connecting", "sending"} : pc' = [pc EXCEPT ![r] = l]
    BY <1>7 DEF LookupPool
  <2> QED BY <2>1, <2>2, LineServed
<1>8. ASSUME NEW r \in Requests, OpenPool(r) \/ Send(r) PROVE LineKept
  BY <1>8, LineStable DEF OpenPool, Send, lockVars, TypeInv, TypeOK
<1>9. ASSUME NEW r \in Requests, Ends(r) PROVE LineKept
  <2>1. InUse(r) /\ StepResult(r)
    BY <1>9, EndsResult
  <2> QED BY <2>1, LineStable DEF StepResult, FinishResult, InUse, TypeInv, TypeOK
<1>10. ASSUME NEW r \in Requests, MySqlStep(r) PROVE LineKept
  BY <1>10, LineStable
     DEF MySqlStep, Execute, Refuse, LoseAnswer, lockVars, requestVars
<1> QED BY <1>1, <1>2, <1>3, <1>4, <1>5, <1>6, <1>7, <1>8, <1>9, <1>10
        DEF Next, TaskStep, Ends

\* However many calls there are, each one that waits has one place in the line,
\* no place is left behind by a call that is gone, and nobody overtakes.
THEOREM CallsWaitInLine ==
    Spec => []LineInv /\ [][KeepsOrder(waiters, waiters')]_vars
<1>1. Init => TypeInv /\ LineInv
  BY TypeInit, LineInit
<1>2. TypeInv /\ LineInv /\ [Next]_vars => TypeInv' /\ LineInv'
  BY TypeStep, LineStep DEF LineKept
<1>3. TypeInv /\ LineInv /\ [Next]_vars => KeepsOrder(waiters, waiters')
  BY LineStep DEF LineKept
<1> QED BY <1>1, <1>2, <1>3, PTL DEF Spec

-----------------------------------------------------------------------------
(* The pools.  A call that opens a pool is alone, so the pool is absent    *)
(* until it has opened it.                                                 *)

PoolInv ==
    /\ PoolsOpenedOnce
    /\ \A r \in Requests : InUse(r) => call[r].key \in managers
    /\ \A r \in Requests : pc[r] = "connecting" =>
          \A p \in Pools : p = PoolOf(call[r]) => pools[p] = "absent"

\* At the start there is no pool.
LEMMA PoolInit == Init => PoolInv
BY DEF Init, PoolInv, PoolsOpenedOnce, InUse

\* A step that leaves the pools alone and starts no call.
LEMMA PoolStable ==
    ASSUME TypeInv, PoolInv, UNCHANGED poolVars,
           \A r \in Requests : InUse(r)' => InUse(r) /\ call'[r] = call[r],
           \A r \in Requests : pc'[r] = "connecting" => pc[r] = "connecting"
    PROVE  PoolInv'
<1>1. PoolsOpenedOnce'
  BY DEF PoolInv, PoolsOpenedOnce, poolVars
<1>2. \A r \in Requests : pc'[r] = "connecting" => InUse(r)'
  BY DEF InUse
<1>3. \A r \in Requests : InUse(r)' => PoolOf(call[r])' = PoolOf(call[r])
  BY DEF PoolOf
<1> QED BY <1>1, <1>2, <1>3 DEF PoolInv, poolVars

\* Every step keeps each pool opened at most once.
LEMMA PoolStep ==
    TypeInv /\ OneCallAtATime /\ PoolInv /\ [Next]_vars => PoolInv'
<1> SUFFICES ASSUME TypeInv, OneCallAtATime, PoolInv, [Next]_vars PROVE PoolInv'
  OBVIOUS
<1>1. CASE UNCHANGED vars
  BY <1>1, PoolStable DEF vars, poolVars, InUse
<1>2. CASE Rest
  BY <1>2, PoolStable DEF Rest, vars, poolVars, InUse
<1>3. ASSUME NEW k \in Keys, SetStatus(k) PROVE PoolInv'
  BY <1>3, PoolStable DEF SetStatus, requestVars, InUse
<1>4. ASSUME NEW r \in Requests, Arrive(r) PROVE PoolInv'
  BY <1>4, PoolStable DEF Arrive, InUse, TypeInv, TypeOK
<1>5. ASSUME NEW r \in Requests,
             Reject(r) \/ ListSources(r) \/ RequestLock(r) \/ ReadStats(r)
      PROVE  PoolInv'
  BY <1>5, PoolStable
     DEF Reject, ListSources, RequestLock, ReadStats, Reply, InUse, TypeInv, TypeOK
<1>6. ASSUME NEW r \in Requests, LookupPool(r) PROVE PoolInv'
  <2>1. PoolsOpenedOnce'
    BY <1>6 DEF LookupPool, PoolInv, PoolsOpenedOnce
  <2>2. \A q \in Requests : InUse(q)' => call'[q].key \in managers'
    BY <1>6 DEF LookupPool, PoolInv, InUse, TypeInv, TypeOK
  <2>3. ASSUME NEW q \in Requests, pc'[q] = "connecting",
               NEW p \in Pools, p = PoolOf(call'[q])
        PROVE  pools'[p] = "absent"
    <3>1. call' = call /\ pools' = pools
      BY <1>6 DEF LookupPool
    <3>2. CASE q = r
      <4>1. p = PoolOf(call[r])
        BY <2>3, <3>1, <3>2
      <4>2. pc'[r] = IF pools[PoolOf(call[r])] = "absent" THEN "connecting" ELSE "sending"
        BY <1>6 DEF LookupPool, TypeInv, TypeOK
      <4> QED BY <2>3, <3>1, <3>2, <4>1, <4>2
    <3>3. CASE q # r
      <4>1. pc[q] = "connecting"
        BY <1>6, <2>3, <3>3 DEF LookupPool, TypeInv, TypeOK
      <4> QED BY <2>3, <3>1, <4>1 DEF PoolInv
    <3> QED BY <3>2, <3>3
  <2>4. \A q \in Requests : PoolOf(call[q])' = PoolOf(call'[q])
    BY DEF PoolOf
  <2> QED BY <2>1, <2>2, <2>3, <2>4 DEF PoolInv
<1>7. ASSUME NEW r \in Requests, OpenPool(r) PROVE PoolInv'
  <2>1. \A q \in Requests : InUse(q) => q = r
    BY <1>7 DEF OpenPool, OneCallAtATime, InUse
  <2>2. \A q \in Requests : InUse(q)' => q = r
    BY <1>7, <2>1 DEF OpenPool, InUse, TypeInv, TypeOK
  <2>3. pc'[r] = "sending"
    BY <1>7 DEF OpenPool, TypeInv, TypeOK
  <2>4. call[r].key \in managers /\ UNCHANGED <<call, managers>>
    BY <1>7 DEF OpenPool, PoolInv, InUse
  <2>5. ASSUME NEW p \in Pools
        PROVE  /\ opened'[p] = (IF pools'[p] = "absent" THEN 0 ELSE 1)
               /\ pools'[p] # "absent" => p[1] \in managers'
    <3>1. CASE p = PoolOf(call[r])
      <4>1. pools[p] = "absent" /\ opened[p] = 0
        BY <1>7, <3>1 DEF OpenPool, PoolInv, PoolsOpenedOnce
      <4>2. pools'[p] = "open" /\ opened'[p] = 1
        BY <1>7, <3>1, <4>1 DEF OpenPool, TypeInv, TypeOK
      <4>3. p[1] = call[r].key
        BY <3>1 DEF PoolOf
      <4> QED BY <2>4, <4>2, <4>3
    <3>2. CASE p # PoolOf(call[r])
      <4>1. pools'[p] = pools[p] /\ opened'[p] = opened[p]
        BY <1>7, <3>2 DEF OpenPool, TypeInv, TypeOK
      <4> QED BY <2>4, <4>1 DEF PoolInv, PoolsOpenedOnce
    <3> QED BY <3>1, <3>2
  <2>6. PoolsOpenedOnce'
    BY <2>5 DEF PoolsOpenedOnce, Pools
  <2>7. \A q \in Requests : pc'[q] # "connecting"
    BY <2>2, <2>3 DEF InUse
  <2> QED BY <2>2, <2>4, <2>6, <2>7 DEF PoolInv
<1>8. ASSUME NEW r \in Requests, Send(r) PROVE PoolInv'
  BY <1>8, PoolStable DEF Send, InUse, TypeInv, TypeOK
<1>9. ASSUME NEW r \in Requests, Ends(r) PROVE PoolInv'
  <2>1. InUse(r) /\ StepResult(r) /\ UNCHANGED poolVars
    BY <1>9, EndsResult
  <2>2. call' = call
    BY <2>1 DEF StepResult, FinishResult
  <2>3. \E l \in {"sending", "replied"} : pc' = [pc EXCEPT ![r] = l]
    BY <2>1 DEF StepResult, FinishResult
  <2>4. /\ \A q \in Requests : InUse(q)' => InUse(q)
        /\ \A q \in Requests : pc'[q] = "connecting" => pc[q] = "connecting"
    BY <2>1, <2>3 DEF InUse, TypeInv, TypeOK
  <2> QED BY <2>1, <2>2, <2>4, PoolStable
<1>10. ASSUME NEW r \in Requests, MySqlStep(r) PROVE PoolInv'
  BY <1>10, PoolStable
     DEF MySqlStep, Execute, Refuse, LoseAnswer, requestVars, InUse
<1> QED BY <1>1, <1>2, <1>3, <1>4, <1>5, <1>6, <1>7, <1>8, <1>9, <1>10
        DEF Next, TaskStep, Ends

\* get_pool never opens a second pool for the same database, although it looks
\* the pool up, connects and inserts it with awaits in between.
THEOREM PoolsAreUnique == Spec => []PoolsOpenedOnce
<1>1. Init => TypeInv /\ LockInv /\ PoolInv
  BY TypeInit, LockInit_, PoolInit
<1>2. TypeInv /\ LockInv /\ PoolInv /\ [Next]_vars => TypeInv' /\ LockInv' /\ PoolInv'
  BY TypeStep, LockStep, LockGivesOneCall, PoolStep
<1>3. PoolInv => PoolsOpenedOnce
  BY DEF PoolInv
<1> QED BY <1>1, <1>2, <1>3, PTL DEF Spec
=============================================================================
