----------------------- MODULE ToolServerEffectProofs -----------------------
(***************************************************************************)
(* What the answers of the request path say about the statements, what it  *)
(* leaves running in MySQL, and that it implements StatementService.  The  *)
(* invariant speaks of one request at a time: a step of one request keeps  *)
(* it for the others because it leaves their entries alone.                *)
(***************************************************************************)
EXTENDS ToolServerProofs, FiniteSetTheorems

IsStatement(r) == call[r].tool \in StatementTools

NotRun == Rejections \cup {"ConnectionFailed"}

\* Where a request is, against what MySQL did with its statement.
Unsent(r) ==
    /\ pc[r] = "idle" => ~IsStatement(r)
    /\ pc[r] \in {"idle", "received", "waiting", "connecting"} =>
          stmt[r] = "idle" /\ applied[r] = 0 /\ left[r] = 0
    /\ pc[r] = "sending" => stmt[r] = "idle"
    /\ pc[r] = "awaiting" => stmt[r] # "idle"

AppliedOnce(r) ==
    /\ ~IsStatement(r) => applied[r] = 0
    /\ IsStatement(r) =>
          /\ left[r] = 0
          /\ applied[r] <= 1
          /\ pc[r] = "sending" \/ stmt[r] = "running" => applied[r] = 0
          /\ pc[r] = "awaiting" /\ stmt[r] = "done" => applied[r] = 1
          /\ reply[r] = "Ok" => applied[r] = 1

Answered(r) ==
    /\ reply[r] # "none" <=> pc[r] = "replied"
    /\ reply[r] \in NotRun => applied[r] = 0 /\ stmt[r] = "idle"
    /\ stmt[r] = "running" => pc[r] = "awaiting" \/ reply[r] = "QueryTimeout"

Effect(r) == Unsent(r) /\ AppliedOnce(r) /\ Answered(r)

EffectInv == \A r \in Requests : Effect(r)

\* A step that leaves the entries of request q alone.
Untouched(q) ==
    /\ pc'[q] = pc[q] /\ call'[q] = call[q] /\ left'[q] = left[q]
    /\ reply'[q] = reply[q] /\ stmt'[q] = stmt[q] /\ applied'[q] = applied[q]

\* The entries of a request are all its invariant speaks of.
LEMMA EffectUntouched ==
    ASSUME NEW q \in Requests, Effect(q), Untouched(q)
    PROVE  Effect(q)'
BY DEF Effect, Unsent, AppliedOnce, Answered, IsStatement, Untouched

\* So a step of request r has to be looked at for r only.
LEMMA EffectLocal ==
    ASSUME EffectInv, NEW r \in Requests, Effect(r)',
           \A q \in Requests \ {r} : Untouched(q)
    PROVE  EffectInv'
<1>1. ASSUME NEW q \in Requests, q # r PROVE Effect(q)'
  BY <1>1, EffectUntouched DEF EffectInv
<1> QED BY <1>1 DEF EffectInv

\* Every request but the one that steps is left alone.
LEMMA StepIsLocal ==
    ASSUME TypeInv, NEW r \in Requests, Arrive(r) \/ TaskStep(r) \/ MySqlStep(r)
    PROVE  \A q \in Requests \ {r} : Untouched(q)
<1>1. CASE Arrive(r)
  BY <1>1 DEF Arrive, Untouched, TypeInv, TypeOK, mysqlVars
<1>2. CASE Reject(r) \/ ListSources(r) \/ RequestLock(r) \/ ReadStats(r)
  BY <1>2 DEF Reject, ListSources, RequestLock, ReadStats, Reply, Untouched,
              TypeInv, TypeOK, mysqlVars
<1>3. CASE LookupPool(r) \/ OpenPool(r) \/ Send(r)
  BY <1>3 DEF LookupPool, OpenPool, Send, Untouched, TypeInv, TypeOK, mysqlVars
<1>4. CASE MySqlStep(r)
  BY <1>4 DEF MySqlStep, Execute, Refuse, LoseAnswer, Untouched, TypeInv, TypeOK,
              requestVars
<1>5. ASSUME NEW o, Finish(r, o) \/ Reply(r, o)
      PROVE  \A q \in Requests \ {r} :
                pc'[q] = pc[q] /\ call'[q] = call[q] /\ reply'[q] = reply[q]
  BY <1>5 DEF Finish, Reply, TypeInv, TypeOK
<1>6. ASSUME NEW n, Proceed(r, n)
      PROVE  \A q \in Requests \ {r} :
                /\ pc'[q] = pc[q] /\ call'[q] = call[q]
                /\ reply'[q] = reply[q] /\ left'[q] = left[q]
  BY <1>6, <1>5 DEF Proceed, TypeInv, TypeOK
<1>7. QueryFails(r) => \A q \in Requests \ {r} :
                /\ pc'[q] = pc[q] /\ call'[q] = call[q]
                /\ reply'[q] = reply[q] /\ left'[q] = left[q]
  BY <1>5, <1>6 DEF QueryFails
<1>8. CASE Ends(r)
  <2>1. \A q \in Requests \ {r} : stmt'[q] = stmt[q] /\ applied'[q] = applied[q]
    BY <1>8 DEF Ends, OpenPoolFails, AcquireFails, AnswerOk, AnswerNoTable,
                AnswerError, TimeOut, TypeInv, TypeOK, mysqlVars
  <2>2. CASE OpenPoolFails(r) \/ AnswerNoTable(r) \/ TimeOut(r)
    BY <2>1, <2>2, <1>5 DEF OpenPoolFails, AnswerNoTable, TimeOut, Untouched
  <2>3. CASE AcquireFails(r) \/ AnswerError(r)
    BY <2>1, <2>3, <1>7 DEF AcquireFails, AnswerError, Untouched
  <2>4. CASE AnswerOk(r)
    BY <2>1, <2>4, <1>6 DEF AnswerOk, Untouched
  <2> QED BY <1>8, <2>2, <2>3, <2>4 DEF Ends
<1> QED BY <1>1, <1>2, <1>3, <1>4, <1>8 DEF TaskStep, Ends

\* Nothing has happened to any statement at the start.
LEMMA EffectInit == Init => EffectInv
BY DEF Init, EffectInv, Effect, Unsent, AppliedOnce, Answered, IsStatement,
       NoCall, StatementTools, NotRun, Rejections

\* The answers that are given to a call at work.
LEMMA FinishAt ==
    ASSUME TypeInv, NEW r \in Requests, NEW o, Finish(r, o) \/ Reply(r, o)
    PROVE  pc'[r] = "replied" /\ reply'[r] = o /\ call'[r] = call[r]
BY DEF Finish, Reply, TypeInv, TypeOK

\* A query that fails is a query that ends in an error, or one of a listing.
LEMMA FailureAt ==
    ASSUME TypeInv, NEW r \in Requests, InUse(r), QueryFails(r)
    PROVE  /\ call'[r] = call[r]
           /\ \/ /\ pc'[r] = "replied" /\ left'[r] = left[r]
                 /\ reply'[r] \in {"QueryExecutionError", "DatabaseNotFound"}
              \/ /\ ~IsStatement(r)
                 /\ \/ pc'[r] = "sending" /\ reply'[r] = reply[r]
                    \/ pc'[r] = "replied" /\ reply'[r] = "Ok"
<1>1. CASE Swallowed(r)
  <2>1. ~IsStatement(r)
    BY <1>1 DEF Swallowed, IsStatement, StatementTools
  <2>2. Proceed(r, left[r] - 1)
    BY <1>1 DEF QueryFails
  <2>3. Finish(r, "Ok") \/
        (pc' = [pc EXCEPT ![r] = "sending"] /\ call' = call /\ reply' = reply)
    BY <2>2 DEF Proceed
  <2> QED BY <2>1, <2>3, FinishAt DEF TypeInv, TypeOK
<1>2. CASE ~Swallowed(r)
  <2>1. PICK e \in QueryErrors(r) : Finish(r, e)
    BY <1>2 DEF QueryFails
  <2>2. left'[r] = left[r]
    BY <1>2 DEF QueryFails
  <2> QED BY <2>1, <2>2, FinishAt DEF QueryErrors
<1> QED BY <1>1, <1>2

\* The end of a query or of a call leaves the answer and the effect in step.
LEMMA EffectEnds ==
    ASSUME TypeInv, EffectInv, NEW r \in Requests, Ends(r)
    PROVE  Effect(r)'
<1>0. /\ InUse(r) /\ Effect(r) /\ applied' = applied
      /\ stmt[r] \in {"idle", "running", "done", "failed"}
      /\ applied[r] \in Nat /\ left[r] \in Nat /\ call[r] \in Call
  BY EndsResult DEF TypeInv, TypeOK, EffectInv
<1>1. reply[r] = "none" /\ pc[r] # "replied" /\ pc[r] # "idle"
  BY <1>0 DEF InUse, Effect, Answered
<1>2. CASE OpenPoolFails(r)
  <2>1. /\ pc'[r] = "replied" /\ reply'[r] = "ConnectionFailed"
        /\ call'[r] = call[r]
    BY <1>2, FinishAt DEF OpenPoolFails
  <2>2. pc[r] = "connecting" /\ stmt' = stmt /\ left' = left
    BY <1>2 DEF OpenPoolFails, mysqlVars
  <2> QED BY <1>0, <2>1, <2>2
          DEF Effect, Unsent, AppliedOnce, Answered, IsStatement
<1>3. CASE TimeOut(r)
  <2>1. pc'[r] = "replied" /\ reply'[r] = "QueryTimeout" /\ call'[r] = call[r]
    BY <1>3, FinishAt DEF TimeOut
  <2>2. stmt' = stmt /\ left' = left
    BY <1>3 DEF TimeOut, mysqlVars
  <2> QED BY <1>0, <2>1, <2>2
          DEF Effect, Unsent, AppliedOnce, Answered, IsStatement, NotRun, Rejections
<1>4. CASE AnswerNoTable(r)
  <2>1. pc'[r] = "replied" /\ reply'[r] = "TableNotFound" /\ call'[r] = call[r]
    BY <1>4, FinishAt DEF AnswerNoTable
  <2>2. stmt'[r] = "idle" /\ left' = left
    BY <1>4 DEF AnswerNoTable, TypeInv, TypeOK
  <2> QED BY <1>0, <2>1, <2>2
          DEF Effect, Unsent, AppliedOnce, Answered, IsStatement, NotRun, Rejections
<1>5. CASE AcquireFails(r) \/ AnswerError(r)
  <2>1. QueryFails(r)
    BY <1>5 DEF AcquireFails, AnswerError
  <2>2. stmt'[r] = "idle"
    BY <1>0, <1>5
       DEF AcquireFails, AnswerError, mysqlVars, Effect, Unsent, TypeInv, TypeOK
  <2> QED BY <1>0, <1>1, <2>1, <2>2, FailureAt
          DEF Effect, Unsent, AppliedOnce, Answered, IsStatement, NotRun, Rejections
<1>6. CASE AnswerOk(r)
  <2>1. pc[r] = "awaiting" /\ stmt[r] = "done" /\ stmt'[r] = "idle"
    BY <1>6 DEF AnswerOk, TypeInv, TypeOK
  <2>2. PICK n \in IF left[r] = 0 THEN FollowUps(call[r]) ELSE {left[r] - 1} :
            Proceed(r, n)
    BY <1>6 DEF AnswerOk
  <2>3. IsStatement(r) => n = 0 /\ applied[r] = 1
    BY <1>0, <2>1, <2>2
       DEF Effect, AppliedOnce, FollowUps, IsStatement, StatementTools
  <2>4. CASE n > 0
    <3>1. pc'[r] = "sending" /\ call'[r] = call[r] /\ reply'[r] = reply[r]
      BY <2>2, <2>4 DEF Proceed, TypeInv, TypeOK
    <3>2. ~IsStatement(r)
      BY <2>3, <2>4
    <3> QED BY <1>0, <1>1, <2>1, <3>1, <3>2
            DEF Effect, Unsent, AppliedOnce, Answered, IsStatement, NotRun, Rejections
  <2>5. CASE ~(n > 0)
    <3>1. Finish(r, "Ok") /\ left'[r] = 0
      BY <2>2, <2>5 DEF Proceed, TypeInv, TypeOK
    <3> QED BY <1>0, <2>1, <2>3, <3>1, FinishAt
            DEF Effect, Unsent, AppliedOnce, Answered, IsStatement, NotRun, Rejections
  <2> QED BY <2>4, <2>5
<1> QED BY <1>2, <1>3, <1>4, <1>5, <1>6 DEF Ends

\* MySQL carries out a statement once, while it is awaited or after a timeout.
LEMMA EffectMySql ==
    ASSUME TypeInv, EffectInv, NEW r \in Requests, MySqlStep(r)
    PROVE  Effect(r)'
<1>0. /\ Effect(r) /\ stmt[r] # "idle"
      /\ applied[r] \in Nat
      /\ UNCHANGED <<pc, call, left, reply>>
  BY DEF MySqlStep, Execute, Refuse, LoseAnswer, requestVars, TypeInv, TypeOK,
         EffectInv
<1>1. pc[r] \in {"awaiting", "replied"} /\ reply[r] \notin NotRun
  BY <1>0 DEF Effect, Unsent, Answered, TypeInv, TypeOK
<1>2. CASE Execute(r)
  <2>1. /\ stmt[r] = "running" /\ stmt'[r] = "done"
        /\ applied'[r] = IF IsStatement(r) THEN applied[r] + 1 ELSE applied[r]
    BY <1>2 DEF Execute, TypeInv, TypeOK, IsStatement
  <2> QED BY <1>0, <1>1, <2>1
          DEF Effect, Unsent, AppliedOnce, Answered, IsStatement, NotRun, Rejections
<1>3. CASE Refuse(r) \/ LoseAnswer(r)
  <2>1. stmt'[r] = "failed" /\ applied' = applied
    BY <1>3 DEF Refuse, LoseAnswer, TypeInv, TypeOK
  <2> QED BY <1>0, <1>1, <2>1
          DEF Effect, Unsent, AppliedOnce, Answered, IsStatement
<1> QED BY <1>2, <1>3 DEF MySqlStep

\* Every step keeps answers and effects in step.
LEMMA EffectStep == TypeInv /\ EffectInv /\ [Next]_vars => EffectInv'
<1> SUFFICES ASSUME TypeInv, EffectInv, [Next]_vars PROVE EffectInv'
  OBVIOUS
<1>1. CASE UNCHANGED <<requestVars, mysqlVars>>
  BY <1>1 DEF requestVars, mysqlVars, EffectInv, Effect, Unsent, AppliedOnce,
              Answered, IsStatement
<1>2. CASE UNCHANGED vars \/ Rest \/ \E k \in Keys : SetStatus(k)
  BY <1>1, <1>2 DEF Rest, vars, SetStatus, requestVars, mysqlVars
<1>3. ASSUME NEW r \in Requests, Arrive(r) \/ TaskStep(r) \/ MySqlStep(r)
      PROVE  EffectInv'
  <2> SUFFICES Effect(r)'
    BY <1>3, StepIsLocal, EffectLocal
  <2>0. /\ Effect(r) /\ call[r] \in Call /\ applied[r] \in Nat
        /\ reply[r] \in Outcomes \cup {"none"}
    BY DEF EffectInv, TypeInv, TypeOK
  <2>1. CASE Arrive(r)
    <3>1. /\ pc[r] = "idle" /\ pc'[r] = "received"
          /\ UNCHANGED <<left, reply, stmt, applied>>
      BY <2>1 DEF Arrive, mysqlVars, TypeInv, TypeOK
    <3> QED BY <2>0, <3>1
            DEF Effect, Unsent, AppliedOnce, Answered, IsStatement, NotRun, Rejections
  <2>2. CASE Reject(r) \/ ListSources(r) \/ ReadStats(r)
    <3>1. /\ pc[r] \in {"received", "waiting"} /\ pc'[r] = "replied"
          /\ UNCHANGED <<call, left, stmt, applied>>
      BY <2>2 DEF Reject, ListSources, ReadStats, Reply, mysqlVars, TypeInv, TypeOK
    <3>2. reply'[r] # "none" /\ (IsStatement(r) => reply'[r] # "Ok")
      BY <2>2 DEF Reject, ListSources, ReadStats, Reply, TypeInv, TypeOK,
                  Rejections, IsStatement, StatementTools, LocalTools
    <3> QED BY <2>0, <3>1, <3>2
            DEF Effect, Unsent, AppliedOnce, Answered, IsStatement
  <2>3. CASE RequestLock(r) \/ LookupPool(r) \/ OpenPool(r)
    <3>1. /\ pc[r] \in {"received", "waiting", "connecting"}
          /\ pc'[r] \in {"waiting", "connecting", "sending"}
          /\ UNCHANGED <<call, left, reply, stmt, applied>>
      BY <2>3 DEF RequestLock, LookupPool, OpenPool, mysqlVars, TypeInv, TypeOK
    <3> QED BY <2>0, <3>1
            DEF Effect, Unsent, AppliedOnce, Answered, IsStatement
  <2>4. CASE Send(r)
    <3>1. /\ pc[r] = "sending" /\ pc'[r] = "awaiting" /\ stmt'[r] = "running"
          /\ UNCHANGED <<call, left, reply, applied>>
      BY <2>4 DEF Send, TypeInv, TypeOK
    <3> QED BY <2>0, <3>1
            DEF Effect, Unsent, AppliedOnce, Answered, IsStatement, NotRun, Rejections
  <2> QED BY <1>3, <2>1, <2>2, <2>3, <2>4, EffectEnds, EffectMySql
          DEF TaskStep, Ends
<1> QED BY <1>2, <1>3 DEF Next

\* What the server answers is true of the database: Ok means that the statement
\* was carried out exactly once, a rejection that it never will be, whatever
\* timeouts, broken connections and waits lie in between.
THEOREM AnswersAreHonest == Spec => []AnswerTellsEffect
<1>1. Init => TypeInv /\ EffectInv
  BY TypeInit, EffectInit
<1>2. TypeInv /\ EffectInv /\ [Next]_vars => TypeInv' /\ EffectInv'
  BY TypeStep, EffectStep
<1>3. TypeInv /\ EffectInv => AnswerTellsEffect
  <2> SUFFICES ASSUME TypeInv, EffectInv, NEW r \in Requests
               PROVE  /\ applied[r] <= 1
                      /\ reply[r] = "Ok" /\ IsStatement(r) => applied[r] = 1
                      /\ reply[r] \in NotRun => applied[r] = 0 /\ stmt[r] = "idle"
    BY DEF AnswerTellsEffect, IsStatement, NotRun
  <2>1. Effect(r) /\ applied[r] \in Nat
    BY DEF EffectInv, TypeInv, TypeOK
  <2> QED BY <2>1 DEF Effect, AppliedOnce, Answered
<1> QED BY <1>1, <1>2, <1>3, PTL DEF Spec

-----------------------------------------------------------------------------
(* Connections.  Only Send makes one busy, and it looks for a free one.    *)

BusyBounded == \A p \in Pools : Cardinality(Busy(p)) <= MaxConnections

\* A step that makes no connection busy keeps the bound.
LEMMA BusyShrinks ==
    ASSUME BusyBounded, NEW p \in Pools, Busy(p)' \subseteq Busy(p)
    PROVE  Cardinality(Busy(p)') <= MaxConnections
<1>1. IsFiniteSet(Busy(p))
  BY RequestsAssumption, FS_Subset DEF Busy
<1>2. /\ IsFiniteSet(Busy(p)')
      /\ Cardinality(Busy(p)') <= Cardinality(Busy(p))
  BY <1>1, FS_Subset
<1>3. Cardinality(Busy(p)') \in Nat /\ Cardinality(Busy(p)) \in Nat
  BY <1>1, <1>2, FS_CardinalityType
<1> QED BY <1>2, <1>3, BoundsAssumption DEF BusyBounded

\* Only Send makes a statement run, and only Arrive changes the arguments.
LEMMA RunningStays ==
    ASSUME TypeInv, EffectInv, NEW r \in Requests,
           Arrive(r) \/ TaskStep(r) \/ MySqlStep(r), ~Send(r)
    PROVE  \A q \in Requests :
              stmt'[q] = "running" => stmt[q] = "running" /\ call'[q] = call[q]
<1>1. \A q \in Requests \ {r} : Untouched(q)
  BY StepIsLocal
<1>2. stmt'[r] = "running" => stmt[r] = "running" /\ call'[r] = call[r]
  <2>1. CASE Arrive(r)
    BY <2>1 DEF Arrive, mysqlVars, EffectInv, Effect, Unsent
  <2>2. CASE Reject(r) \/ ListSources(r) \/ RequestLock(r) \/ ReadStats(r)
             \/ LookupPool(r) \/ OpenPool(r)
    BY <2>2 DEF Reject, ListSources, RequestLock, ReadStats, LookupPool,
                OpenPool, Reply, mysqlVars
  <2>3. CASE Ends(r)
    <3>1. call' = call
      BY <2>3, EndsResult DEF StepResult, FinishResult
    <3> QED BY <2>3, <3>1
            DEF Ends, OpenPoolFails, AcquireFails, AnswerOk, AnswerNoTable,
                AnswerError, TimeOut, mysqlVars, TypeInv, TypeOK
  <2>4. CASE MySqlStep(r)
    BY <2>4 DEF MySqlStep, Execute, Refuse, LoseAnswer, requestVars, TypeInv,
                TypeOK
  <2> QED BY <2>1, <2>2, <2>3, <2>4 DEF TaskStep, Ends
<1> QED BY <1>1, <1>2 DEF Untouched

\* Every step keeps the number of busy connections within the pool.
LEMMA BusyStep ==
    TypeInv /\ EffectInv /\ BusyBounded /\ [Next]_vars => BusyBounded'
<1> SUFFICES ASSUME TypeInv, EffectInv, BusyBounded, [Next]_vars, NEW p \in Pools
             PROVE  Cardinality(Busy(p)') <= MaxConnections
  BY DEF BusyBounded, Pools
<1>1. CASE \A q \in Requests : stmt'[q] = "running" =>
              stmt[q] = "running" /\ call'[q] = call[q]
  <2>1. Busy(p)' \subseteq Busy(p)
    BY <1>1 DEF Busy, PoolOf
  <2> QED BY <2>1, BusyShrinks
<1>2. CASE UNCHANGED vars \/ Rest \/ \E k \in Keys : SetStatus(k)
  BY <1>1, <1>2 DEF Rest, vars, SetStatus, requestVars, mysqlVars
<1>3. ASSUME NEW r \in Requests, Arrive(r) \/ TaskStep(r) \/ MySqlStep(r),
             ~Send(r)
      PROVE  Cardinality(Busy(p)') <= MaxConnections
  BY <1>1, <1>3, RunningStays
<1>4. ASSUME NEW r \in Requests, Send(r)
      PROVE  Cardinality(Busy(p)') <= MaxConnections
  <2>1. /\ stmt' = [stmt EXCEPT ![r] = "running"] /\ call' = call
        /\ Cardinality(Busy(PoolOf(call[r]))) < MaxConnections
    BY <1>4 DEF Send
  <2>2. CASE p # PoolOf(call[r])
    <3>1. Busy(p)' \subseteq Busy(p)
      BY <2>1, <2>2 DEF Busy, PoolOf, TypeInv, TypeOK
    <3> QED BY <3>1, BusyShrinks
  <2>3. CASE p = PoolOf(call[r])
    <3>1. IsFiniteSet(Busy(p))
      BY RequestsAssumption, FS_Subset DEF Busy
    <3>2. Busy(p)' \subseteq Busy(p) \cup {r}
      BY <2>1 DEF Busy, PoolOf, TypeInv, TypeOK
    <3>3. /\ IsFiniteSet(Busy(p) \cup {r})
          /\ Cardinality(Busy(p) \cup {r}) <= Cardinality(Busy(p)) + 1
      <4>1. Cardinality(Busy(p)) \in Nat
        BY <3>1, FS_CardinalityType
      <4> QED BY <3>1, <4>1, FS_AddElement
    <3>4. /\ IsFiniteSet(Busy(p)')
          /\ Cardinality(Busy(p)') <= Cardinality(Busy(p) \cup {r})
      BY <3>2, <3>3, FS_Subset
    <3>5. /\ Cardinality(Busy(p)') \in Nat
          /\ Cardinality(Busy(p)) \in Nat
          /\ Cardinality(Busy(p) \cup {r}) \in Nat
      BY <3>1, <3>3, <3>4, FS_CardinalityType
    <3> QED BY <2>1, <2>3, <3>3, <3>4, <3>5, BoundsAssumption
  <2> QED BY <2>2, <2>3
<1> QED BY <1>2, <1>3, <1>4 DEF Next

\* Each statement that runs is awaited, or was given up.
LEMMA BusyAccounted == EffectInv /\ BusyBounded => BusyConnectionsAccountedFor
BY DEF EffectInv, Effect, Answered, BusyBounded, BusyConnectionsAccountedFor

\* A pool never has more than max_connections statements in MySQL, and each of
\* them is awaited or was given up with a timeout.
THEOREM ConnectionsAreBounded == Spec => []BusyConnectionsAccountedFor
<1>1. Init => TypeInv /\ EffectInv /\ BusyBounded
  <2>1. ASSUME Init, NEW p \in Pools PROVE Cardinality(Busy(p)) <= MaxConnections
    <3>1. Busy(p) = {}
      BY <2>1 DEF Init, Busy
    <3> QED BY <3>1, FS_EmptySet, BoundsAssumption
  <2> QED BY <2>1, TypeInit, EffectInit DEF BusyBounded
<1>2. TypeInv /\ EffectInv /\ BusyBounded /\ [Next]_vars =>
          TypeInv' /\ EffectInv' /\ BusyBounded'
  BY TypeStep, EffectStep, BusyStep
<1> QED BY <1>1, <1>2, BusyAccounted, PTL DEF Spec

-----------------------------------------------------------------------------
(* Checks.  What a call passed before the lock holds to its end.           *)

PermissionKept ==
    \A r \in Requests :
        /\ pc[r] \notin {"idle", "received"}
        /\ reply[r] \notin Rejections
        /\ call[r].tool = "execute"
        => Allows(call[r].key, IF call[r].arg = "ddl" THEN "ddl" ELSE "update")

\* A statement that is admitted is permitted.
LEMMA AdmittedIsPermitted ==
    ASSUME NEW c \in Call, Admitted(c), c.tool = "execute"
    PROVE  Allows(c.key, IF c.arg = "ddl" THEN "ddl" ELSE "update")
<1>1. Checks(c) = ExecuteChecks(c)
  BY DEF Checks
<1>2. 6 \in DOMAIN ExecuteChecks(c)
  BY DEF ExecuteChecks
<1>3. ExecuteChecks(c)[6] = {}
  BY <1>1, <1>2 DEF Admitted
<1> QED BY <1>3 DEF ExecuteChecks, CheckDdlPermission, CheckUpdatePermission, Check

\* A step that leaves a call past its checks and its arguments alone.
LEMMA PermissionStable ==
    ASSUME PermissionKept, EffectInv,
           \A q \in Requests : pc'[q] \notin {"idle", "received"} =>
              /\ pc[q] \notin {"idle", "received"} \/ reply'[q] \in Rejections
                                                 \/ call[q].tool # "execute"
              /\ reply[q] \in Rejections => reply'[q] \in Rejections
              /\ call'[q] = call[q]
    PROVE  PermissionKept'
BY DEF PermissionKept, Allows

\* The permission that was checked stays the one that counts.
LEMMA PermissionStep ==
    TypeInv /\ EffectInv /\ PermissionKept /\ [Next]_vars => PermissionKept'
<1> SUFFICES ASSUME TypeInv, EffectInv, PermissionKept, [Next]_vars
             PROVE  PermissionKept'
  OBVIOUS
<1>1. CASE UNCHANGED vars \/ Rest \/ \E k \in Keys : SetStatus(k)
  BY <1>1, PermissionStable DEF Rest, vars, SetStatus, requestVars
<1>2. ASSUME NEW r \in Requests, Arrive(r) PROVE PermissionKept'
  BY <1>2, PermissionStable DEF Arrive, TypeInv, TypeOK
<1>3. ASSUME NEW r \in Requests, Reject(r) \/ ListSources(r) \/ ReadStats(r)
      PROVE  PermissionKept'
  <2>1. /\ pc[r] \in {"received", "waiting"} /\ call' = call
        /\ reply'[r] \in Rejections \/ call[r].tool # "execute"
    BY <1>3 DEF Reject, ListSources, ReadStats, Reply, LocalTools, TypeInv, TypeOK
  <2>2. reply[r] \notin Rejections
    BY <2>1 DEF EffectInv, Effect, Answered, Rejections
  <2>3. \A q \in Requests \ {r} : Untouched(q)
    BY <1>3, StepIsLocal DEF TaskStep
  <2> QED BY <2>1, <2>2, <2>3, PermissionStable DEF Untouched
<1>4. ASSUME NEW r \in Requests, RequestLock(r) PROVE PermissionKept'
  <2>1. call' = call /\ reply' = reply /\ Admitted(call[r]) /\ call[r] \in Call
    BY <1>4 DEF RequestLock, TypeInv, TypeOK
  <2>2. \A q \in Requests \ {r} : pc'[q] = pc[q]
    BY <1>4 DEF RequestLock, TypeInv, TypeOK
  <2> QED BY <2>1, <2>2, AdmittedIsPermitted DEF PermissionKept, Allows
<1>5. ASSUME NEW r \in Requests, LookupPool(r) \/ OpenPool(r) \/ Send(r)
      PROVE  PermissionKept'
  BY <1>5, PermissionStable DEF LookupPool, OpenPool, Send, TypeInv, TypeOK
<1>6. ASSUME NEW r \in Requests, Ends(r) PROVE PermissionKept'
  <2>1. InUse(r) /\ call' = call
    BY <1>6, EndsResult DEF StepResult, FinishResult
  <2>2. reply[r] \notin Rejections
    BY <2>1 DEF InUse, EffectInv, Effect, Answered, Rejections
  <2>3. \A q \in Requests \ {r} : Untouched(q)
    BY <1>6, StepIsLocal DEF TaskStep, Ends
  <2> QED BY <2>1, <2>2, <2>3, PermissionStable DEF Untouched, InUse
<1>7. ASSUME NEW r \in Requests, MySqlStep(r) PROVE PermissionKept'
  BY <1>7, PermissionStable
     DEF MySqlStep, Execute, Refuse, LoseAnswer, requestVars
<1> QED BY <1>1, <1>2, <1>3, <1>4, <1>5, <1>6, <1>7 DEF Next, TaskStep, Ends

\* What was carried out had passed its check.
LEMMA PermissionHolds == EffectInv /\ PermissionKept => LevelLimitsExecute
<1> SUFFICES ASSUME EffectInv, PermissionKept, NEW r \in Requests,
                    applied[r] > 0, call[r].tool = "execute"
             PROVE  /\ call[r].key \in Keys
                    /\ Permission[call[r].key] # "query"
                    /\ call[r].arg \notin DeniedTo(Permission[call[r].key])
  BY DEF LevelLimitsExecute
<1>1. pc[r] \notin {"idle", "received"} /\ reply[r] \notin Rejections
  BY DEF EffectInv, Effect, Unsent, Answered, NotRun
<1>2. Allows(call[r].key, IF call[r].arg = "ddl" THEN "ddl" ELSE "update")
  BY <1>1 DEF PermissionKept
<1> QED BY <1>2, PermissionAssumption DEF Allows, AllowedBy, DeniedTo

\* MySQL carries out what execute sends only if the level of the data source
\* has that operation: every statement passed the check meant for its class.
THEOREM PermissionsAreRespected == Spec => []LevelLimitsExecute
<1>1. Init => TypeInv /\ EffectInv /\ PermissionKept
  <2>1. Init => PermissionKept
    BY DEF Init, PermissionKept
  <2> QED BY <2>1, TypeInit, EffectInit
<1>2. TypeInv /\ EffectInv /\ PermissionKept /\ [Next]_vars =>
          TypeInv' /\ EffectInv' /\ PermissionKept'
  BY TypeStep, EffectStep, PermissionStep
<1> QED BY <1>1, <1>2, PermissionHolds, PTL DEF Spec

\* A request that is past its checks, and was not turned away.
Served(r) ==
    /\ pc[r] \in {"connecting", "sending", "awaiting", "replied"}
    /\ reply[r] \notin Rejections

\* A served call stays one, with its arguments.
LEMMA ServedStays ==
    ASSUME TypeInv, EffectInv, [Next]_vars, NEW q \in Requests, Served(q)
    PROVE  Served(q)' /\ call'[q] = call[q]
<1>1. CASE UNCHANGED vars \/ Rest \/ \E k \in Keys : SetStatus(k)
  BY <1>1 DEF Rest, vars, SetStatus, requestVars, Served
<1>2. ASSUME NEW r \in Requests, Arrive(r) \/ TaskStep(r) \/ MySqlStep(r), r # q
      PROVE  Served(q)' /\ call'[q] = call[q]
  BY <1>2, StepIsLocal DEF Untouched, Served
<1>3. CASE Arrive(q) \/ Reject(q) \/ ListSources(q) \/ RequestLock(q)
           \/ ReadStats(q) \/ LookupPool(q)
  BY <1>3 DEF Arrive, Reject, ListSources, RequestLock, ReadStats, LookupPool,
              Served
<1>4. CASE OpenPool(q) \/ Send(q)
  BY <1>4 DEF OpenPool, Send, Served, TypeInv, TypeOK
<1>5. CASE Ends(q)
  <2>1. InUse(q)
    BY <1>5, EndsResult
  <2>2. applied'[q] = applied[q] /\ call' = call
    BY <1>5, EndsResult DEF StepResult, FinishResult
  <2>3. pc'[q] \in {"sending", "replied"}
    BY <1>5, EndsResult DEF StepResult, FinishResult, TypeInv, TypeOK
  <2>4. \A o : Finish(q, o) /\ o \notin Rejections => reply'[q] \notin Rejections
    BY FinishAt
  <2>5. reply'[q] \notin Rejections
    <3>1. CASE OpenPoolFails(q) \/ AnswerNoTable(q) \/ TimeOut(q)
      BY <2>4, <3>1 DEF OpenPoolFails, AnswerNoTable, TimeOut, Rejections
    <3>2. CASE AcquireFails(q) \/ AnswerError(q)
      BY <2>1, <3>2, FailureAt DEF AcquireFails, AnswerError, Rejections, Served
    <3>3. CASE AnswerOk(q)
      BY <2>4, <3>3 DEF AnswerOk, Proceed, Rejections, Served
    <3> QED BY <1>5, <3>1, <3>2, <3>3 DEF Ends
  <2> QED BY <2>2, <2>3, <2>5 DEF Served
<1>6. CASE MySqlStep(q)
  BY <1>6 DEF MySqlStep, Execute, Refuse, LoseAnswer, requestVars, Served
<1> QED BY <1>1, <1>2, <1>3, <1>4, <1>5, <1>6 DEF Next, TaskStep, Ends

\* A new pool manager is that of a call that is served.
LEMMA ManagersStep ==
    ASSUME TypeInv, EffectInv, [Next]_vars, NEW k \in managers'
    PROVE  \/ k \in managers
           \/ \E r \in Requests : Served(r)' /\ call'[r].key = k
<1>1. CASE UNCHANGED vars \/ Rest \/ \E l \in Keys : SetStatus(l)
  BY <1>1 DEF Rest, vars, SetStatus, poolVars
<1>2. ASSUME NEW r \in Requests, LookupPool(r), k \notin managers
      PROVE  Served(r)' /\ call'[r].key = k
  <2>1. reply[r] = "none" /\ reply' = reply /\ call' = call /\ k = call[r].key
    BY <1>2 DEF LookupPool, EffectInv, Effect, Answered
  <2>2. pc'[r] \in {"connecting", "sending"}
    BY <1>2 DEF LookupPool, TypeInv, TypeOK
  <2> QED BY <2>1, <2>2 DEF Served, Rejections
<1>3. ASSUME NEW r \in Requests, Arrive(r) \/ TaskStep(r) \/ MySqlStep(r),
             ~LookupPool(r)
      PROVE  managers' = managers
  <2>1. CASE Ends(r)
    BY <2>1, EndsResult DEF poolVars
  <2> QED BY <1>3, <2>1
          DEF Arrive, TaskStep, MySqlStep, Reject, ListSources, RequestLock,
              ReadStats, OpenPool, Send, Execute, Refuse, LoseAnswer, Ends, poolVars
<1> QED BY <1>1, <1>2, <1>3 DEF Next, TaskStep

\* Every manager stays that of a served call.
LEMMA NoTraceStep ==
    TypeInv /\ EffectInv /\ NoTraceOfRejectedCalls /\ [Next]_vars =>
        NoTraceOfRejectedCalls'
<1> SUFFICES ASSUME TypeInv, EffectInv, NoTraceOfRejectedCalls, [Next]_vars,
                    NEW k \in managers'
             PROVE  \E r \in Requests : Served(r)' /\ call'[r].key = k
  BY DEF NoTraceOfRejectedCalls, Served
<1>1. CASE k \in managers
  <2>1. PICK r \in Requests : Served(r) /\ call[r].key = k
    BY <1>1 DEF NoTraceOfRejectedCalls, Served
  <2> QED BY <2>1, ServedStays
<1> QED BY <1>1, ManagersStep

\* Calls that fail a check leave no pool manager behind, whatever other calls
\* do between the check and the answer.
THEOREM RejectedCallsLeaveNoTrace == Spec => []NoTraceOfRejectedCalls
<1>1. Init => TypeInv /\ EffectInv /\ NoTraceOfRejectedCalls
  <2>1. Init => NoTraceOfRejectedCalls
    BY DEF Init, NoTraceOfRejectedCalls
  <2> QED BY <2>1, TypeInit, EffectInit
<1>2. TypeInv /\ EffectInv /\ NoTraceOfRejectedCalls /\ [Next]_vars =>
          TypeInv' /\ EffectInv' /\ NoTraceOfRejectedCalls'
  BY TypeStep, EffectStep, NoTraceStep
<1> QED BY <1>1, <1>2, PTL DEF Spec

-----------------------------------------------------------------------------
(* The server implements StatementService.                                 *)

Serving == IF \E r \in Requests : InUse(r)
           THEN CHOOSE r \in Requests : InUse(r) ELSE Nobody

\* The request that is served is the one call at work.
LEMMA ServingIs ==
    ASSUME OneCallAtATime
    PROVE  /\ \A r \in Requests : InUse(r) <=> Serving = r
           /\ (\A r \in Requests : ~InUse(r)) => Serving = Nobody
BY NobodyAssumption DEF OneCallAtATime, Serving

\* The same of the state after a step.
LEMMA ServingNext ==
    ASSUME OneCallAtATime'
    PROVE  /\ \A r \in Requests : InUse(r)' <=> Serving' = r
           /\ (\A r \in Requests : ~InUse(r)') => Serving' = Nobody
BY NobodyAssumption DEF OneCallAtATime, Serving

Carrying == {r \in Requests : call[r].tool \in StatementTools}

\* The server starts as the service does.
LEMMA ServiceInit == Init => Service!Init
<1> SUFFICES ASSUME Init PROVE Service!Init
  OBVIOUS
<1>1. Serving = Nobody
  BY DEF Init, Serving, InUse
<1>2. Carrying = {}
  BY DEF Init, Carrying, NoCall, StatementTools
<1>3. /\ reply = [r \in Requests |-> "none"]
      /\ applied = [r \in Requests |-> 0]
  BY DEF Init
<1> QED BY <1>1, <1>2, <1>3 DEF Service!Init, Serving, Carrying

\* What the service sees of a step: who is served, which calls carry a
\* statement, the answers and the effects.
Unseen == Serving' = Serving /\ Carrying' = Carrying /\ reply' = reply /\ applied' = applied

\* A step that the service does not see is a stutter.
LEMMA UnseenStutters == Unseen => UNCHANGED Service!svars
BY DEF Unseen, Service!svars, Serving, Carrying

\* A step that lets the same call be at work, carries the same statements and
\* leaves answers and effects alone is not seen.
LEMMA SameCallUnseen ==
    ASSUME OneCallAtATime, OneCallAtATime',
           \A r \in Requests : InUse(r)' <=> InUse(r),
           call' = call, reply' = reply, applied' = applied
    PROVE  Unseen
<1>1. Serving' = Serving
  <2>1. CASE \E r \in Requests : InUse(r)
    BY <2>1, ServingIs, ServingNext
  <2>2. CASE \A r \in Requests : ~InUse(r)
    BY <2>2, ServingIs, ServingNext
  <2> QED BY <2>1, <2>2
<1> QED BY <1>1 DEF Unseen, Carrying

\* A step at the end of a query answers the call or goes on with it.
LEMMA EndsAnswer ==
    ASSUME TypeInv, NEW r \in Requests, Ends(r)
    PROVE  \/ \E o : Finish(r, o)
           \/ pc' = [pc EXCEPT ![r] = "sending"] /\ call' = call /\ reply' = reply
<1>1. ASSUME NEW n, Proceed(r, n)
      PROVE  \/ \E o : Finish(r, o)
             \/ pc' = [pc EXCEPT ![r] = "sending"] /\ call' = call /\ reply' = reply
  BY <1>1 DEF Proceed
<1>2. QueryFails(r) => (\E o : Finish(r, o)) \/ (\E n : Proceed(r, n))
  BY DEF QueryFails
<1>3. CASE OpenPoolFails(r) \/ AnswerNoTable(r) \/ TimeOut(r)
  BY <1>3 DEF OpenPoolFails, AnswerNoTable, TimeOut
<1>4. CASE AcquireFails(r) \/ AnswerError(r)
  BY <1>1, <1>2, <1>4 DEF AcquireFails, AnswerError
<1>5. CASE AnswerOk(r)
  BY <1>1, <1>5 DEF AnswerOk
<1> QED BY <1>3, <1>4, <1>5 DEF Ends

\* The end of a call is the end of a service.
LEMMA EndsImplement ==
    ASSUME TypeInv, EffectInv, EffectInv', OneCallAtATime, OneCallAtATime',
           [Next]_vars, NEW r \in Requests, Ends(r)
    PROVE  Service!End(r) \/ Unseen
<1>0. InUse(r) /\ applied' = applied /\ Serving = r
  BY EndsResult, ServingIs
<1>1. CASE \E o : Finish(r, o)
  <2>1. PICK o : Finish(r, o)
    BY <1>1
  <2>2. /\ reply' = [reply EXCEPT ![r] = o] /\ call' = call
        /\ pc' = [pc EXCEPT ![r] = "replied"]
    BY <2>1 DEF Finish, Reply
  <2>3. \A q \in Requests : ~InUse(q)'
    BY <1>0, <2>2 DEF OneCallAtATime, InUse, TypeInv, TypeOK
  <2>4. Serving' = Nobody
    BY <2>3, ServingNext
  <2>5. reply'[r] = o /\ Carrying' = Carrying
    BY <2>2 DEF TypeInv, TypeOK, Carrying
  <2>6. o \in Outcomes \ Rejections
    <3>1. o \in Outcomes \cup {"none"}
      BY <2>5, TypeStep DEF TypeInv, TypeOK
    <3>2. Served(r)' \/ pc[r] \notin {"connecting", "sending", "awaiting"}
                     \/ reply[r] \in Rejections
      BY ServedStays DEF Served
    <3>3. reply[r] = "none"
      BY <1>0 DEF InUse, EffectInv, Effect, Answered
    <3>4. o # "none"
      BY <2>2, <2>5 DEF EffectInv, Effect, Answered, TypeInv, TypeOK
    <3> QED BY <1>0, <2>5, <3>1, <3>2, <3>3, <3>4 DEF InUse, Served, Rejections
  <2>7. Effect(r)' /\ applied'[r] = applied[r]
    BY <1>0 DEF EffectInv
  <2>8. o = "Ok" /\ r \in Carrying => applied[r] = 1
    BY <2>2, <2>5, <2>7 DEF Effect, AppliedOnce, IsStatement, Carrying
  <2>9. o = "ConnectionFailed" => applied[r] = 0
    BY <2>5, <2>7 DEF Effect, Answered, NotRun
  <2>10. Service!End(r)
    BY <1>0, <2>2, <2>4, <2>5, <2>6, <2>8, <2>9
       DEF Service!End, Serving, Carrying
  <2> QED BY <2>10
<1>2. CASE pc' = [pc EXCEPT ![r] = "sending"] /\ call' = call /\ reply' = reply
  <2>1. \A q \in Requests : InUse(q)' <=> InUse(q)
    BY <1>0, <1>2 DEF InUse, TypeInv, TypeOK
  <2> QED BY <1>0, <1>2, <2>1, SameCallUnseen
<1> QED BY <1>1, <1>2, EndsAnswer

\* Every step of the server is a step of the service, or one it does not see.
LEMMA ServiceStep ==
    ASSUME TypeInv, EffectInv, EffectInv', OneCallAtATime, OneCallAtATime',
           [Next]_vars
    PROVE  Service!Next \/ Unseen
<1>1. CASE UNCHANGED vars \/ Rest \/ \E k \in Keys : SetStatus(k)
  <2>1. pc' = pc /\ call' = call /\ reply' = reply /\ applied' = applied
    BY <1>1 DEF Rest, vars, SetStatus, requestVars, mysqlVars
  <2> QED BY <2>1, SameCallUnseen DEF InUse
<1>2. ASSUME NEW r \in Requests, Arrive(r) PROVE Service!Next \/ Unseen
  <2>1. /\ pc[r] = "idle" /\ pc' = [pc EXCEPT ![r] = "received"]
        /\ reply' = reply /\ applied' = applied
        /\ \E c \in Calls : call' = [call EXCEPT ![r] = c]
    BY <1>2 DEF Arrive, mysqlVars
  <2>2. \A q \in Requests : InUse(q)' <=> InUse(q)
    BY <2>1 DEF InUse, TypeInv, TypeOK
  <2>3. Serving' = Serving /\ Serving # r
    <3>1. CASE \E q \in Requests : InUse(q)
      BY <2>1, <2>2, <3>1, ServingIs, ServingNext DEF InUse
    <3>2. CASE \A q \in Requests : ~InUse(q)
      BY <2>2, <3>2, ServingIs, ServingNext, NobodyAssumption
    <3> QED BY <3>1, <3>2
  <2>4. reply[r] = "none" /\ r \notin Carrying
    BY <2>1 DEF EffectInv, Effect, Answered, Unsent, IsStatement, Carrying
  <2>5. Carrying' = Carrying \/ Carrying' = Carrying \cup {r}
    BY <2>1, <2>4 DEF Carrying, TypeInv, TypeOK
  <2>6. CASE Carrying' = Carrying
    BY <2>1, <2>3, <2>6 DEF Unseen
  <2>7. CASE Carrying' = Carrying \cup {r}
    BY <2>1, <2>3, <2>4, <2>7
       DEF Service!Next, Service!Submit, Serving, Carrying
  <2> QED BY <2>5, <2>6, <2>7
<1>3. ASSUME NEW r \in Requests, Reject(r) \/ ListSources(r) \/ ReadStats(r)
      PROVE  Service!Next
  <2>1. /\ pc[r] \in {"received", "waiting"} /\ pc' = [pc EXCEPT ![r] = "replied"]
        /\ call' = call /\ applied' = applied
        /\ \/ \E o \in Rejections : reply' = [reply EXCEPT ![r] = o]
           \/ reply' = [reply EXCEPT ![r] = "Ok"] /\ ~IsStatement(r)
    BY <1>3 DEF Reject, ListSources, ReadStats, Reply, mysqlVars, IsStatement,
                LocalTools, StatementTools
  <2>2. \A q \in Requests : InUse(q)' <=> InUse(q)
    BY <2>1 DEF InUse, TypeInv, TypeOK
  <2>3. Serving' = Serving /\ Serving # r
    <3>1. CASE \E q \in Requests : InUse(q)
      BY <2>1, <2>2, <3>1, ServingIs, ServingNext DEF InUse
    <3>2. CASE \A q \in Requests : ~InUse(q)
      BY <2>2, <3>2, ServingIs, ServingNext, NobodyAssumption
    <3> QED BY <3>1, <3>2
  <2>4. reply[r] = "none" /\ Carrying' = Carrying
    BY <2>1 DEF EffectInv, Effect, Answered, Carrying
  <2>5. CASE \E o \in Rejections : reply' = [reply EXCEPT ![r] = o]
    BY <2>1, <2>3, <2>4, <2>5
       DEF Service!Next, Service!TurnAway, Serving, Carrying
  <2>6. CASE reply' = [reply EXCEPT ![r] = "Ok"] /\ ~IsStatement(r)
    BY <2>1, <2>3, <2>4, <2>6
       DEF Service!Next, Service!AnswerLocally, Serving, Carrying, IsStatement
  <2> QED BY <2>1, <2>5, <2>6
<1>4. ASSUME NEW r \in Requests, RequestLock(r) \/ OpenPool(r) \/ Send(r)
      PROVE  Unseen
  <2>1. /\ call' = call /\ reply' = reply /\ applied' = applied
        /\ \A q \in Requests : InUse(q)' <=> InUse(q)
    BY <1>4 DEF RequestLock, OpenPool, Send, mysqlVars, InUse, TypeInv, TypeOK
  <2> QED BY <2>1, SameCallUnseen
<1>5. ASSUME NEW r \in Requests, LookupPool(r) PROVE Service!Next
  <2>1. /\ pc[r] = "waiting" /\ call' = call /\ reply' = reply /\ applied' = applied
        /\ InUse(r)' /\ \A q \in Requests \ {r} : InUse(q)' <=> InUse(q)
    BY <1>5 DEF LookupPool, mysqlVars, InUse, TypeInv, TypeOK
  <2>2. \A q \in Requests : ~InUse(q)
    BY <2>1 DEF OneCallAtATime, InUse
  <2>3. Serving = Nobody /\ Serving' = r
    BY <2>1, <2>2, ServingIs, ServingNext
  <2>4. reply[r] = "none" /\ Carrying' = Carrying
    BY <2>1 DEF EffectInv, Effect, Answered, Carrying
  <2> QED BY <2>1, <2>3, <2>4 DEF Service!Next, Service!Begin, Serving, Carrying
<1>6. ASSUME NEW r \in Requests, Ends(r) PROVE Service!Next \/ Unseen
  BY <1>6, EndsImplement DEF Service!Next
<1>7. ASSUME NEW r \in Requests, MySqlStep(r) PROVE Service!Next \/ Unseen
  <2>0. UNCHANGED <<pc, call, reply>>
    BY <1>7 DEF MySqlStep, Execute, Refuse, LoseAnswer, requestVars
  <2>1. CASE applied' = applied
    BY <2>0, <2>1, SameCallUnseen DEF InUse
  <2>2. CASE applied' # applied
    <3>1. /\ stmt[r] = "running" /\ IsStatement(r)
          /\ applied' = [applied EXCEPT ![r] = applied[r] + 1]
      BY <1>7, <2>2 DEF MySqlStep, Execute, Refuse, LoseAnswer, IsStatement
    <3>2. applied[r] = 0 /\ (InUse(r) \/ reply[r] = "QueryTimeout")
      BY <3>1 DEF EffectInv, Effect, AppliedOnce, Answered, InUse
    <3>3. applied' = [applied EXCEPT ![r] = 1]
      BY <3>1, <3>2
    <3>4. Serving' = Serving /\ Carrying' = Carrying
      BY <2>0 DEF Serving, Carrying, InUse
    <3>5. Serving = r \/ reply[r] = "QueryTimeout"
      BY <3>2, ServingIs
    <3>6. r \in Carrying
      BY <3>1 DEF Carrying, IsStatement
    <3> QED BY <2>0, <3>2, <3>3, <3>4, <3>5, <3>6
            DEF Service!Next, Service!TakeEffect, Serving, Carrying
  <2> QED BY <2>1, <2>2
<1> QED BY <1>1, <1>2, <1>3, <1>4, <1>5, <1>6, <1>7 DEF Next, TaskStep, Ends

\* The server, with its lock, pools, timeouts and follow-up queries, is a
\* serial service of statements that answers honestly.
THEOREM ImplementsService == Spec => KeepsServicePromise
<1>1. Init => TypeInv /\ LockInv /\ EffectInv
  BY TypeInit, LockInit_, EffectInit
<1>2. TypeInv /\ LockInv /\ EffectInv /\ [Next]_vars =>
          TypeInv' /\ LockInv' /\ EffectInv'
  BY TypeStep, LockStep, EffectStep
<1>3. /\ TypeInv /\ LockInv /\ EffectInv
      /\ TypeInv' /\ LockInv' /\ EffectInv' /\ [Next]_vars
      => [Service!Next]_Service!svars
  <2>1. TypeInv' /\ LockInv' => OneCallAtATime'
    BY LockGivesOneCall, PTL
  <2> QED BY <2>1, LockGivesOneCall, ServiceStep, UnseenStutters
<1> QED BY <1>1, <1>2, <1>3, ServiceInit, PTL
        DEF Spec, KeepsServicePromise, Service!Spec
=============================================================================
