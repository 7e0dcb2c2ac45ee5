------------------------- MODULE ResultStreamProofs -------------------------
(***************************************************************************)
(* Theorems about ResultStream for every number of tasks and rows and      *)
(* every chunk size, 0 included.                                           *)
(***************************************************************************)
EXTENDS ResultStream, TLAPS

\* A cleared stream is cancelled, and a cancel that returned has cleared it.
FlagsAgree ==
    /\ cleared => cancelled
    /\ \A t \in Tasks : pc[t] = "clear" => cancelled
    /\ \A t \in Tasks : result[t] = "cancelled" => cleared

StreamInv == TypeOK /\ OwnersAreInside /\ FlagsAgree

\* A new stream has all its rows and no caller.
LEMMA StreamInit == Init => StreamInv
<1> SUFFICES ASSUME Init PROVE StreamInv
  OBVIOUS
<1>1. TypeOK
  <2>1. position \in 0 .. totalRows
    BY SizesAssumption DEF Init
  <2>2. chunks \in Seq(Chunk)
    BY DEF Init
  <2> QED BY <2>1, <2>2 DEF Init, TypeOK, Results
<1>2. OwnersAreInside
  BY TasksAssumption DEF Init, OwnersAreInside
<1>3. FlagsAgree
  BY DEF Init, FlagsAgree
<1> QED BY <1>1, <1>2, <1>3 DEF StreamInv

\* The end of a chunk lies in the rows, behind the position.
LEMMA ChunkEndType ==
    ASSUME TypeOK, position < RowCount, chunkSize > 0
    PROVE  /\ totalRows \in Nat /\ chunkSize \in Nat
           /\ RowCount = totalRows
           /\ ChunkEnd \in 0 .. totalRows
           /\ position < ChunkEnd
           /\ ChunkEnd = position + chunkSize \/ ChunkEnd = totalRows
           /\ ChunkEnd <= position + chunkSize
           /\ position \div chunkSize \in Nat
BY SizesAssumption DEF TypeOK, RowCount, ChunkEnd

\* What a returning chunk appends.
NewChunk == [start |-> position, end |-> ChunkEnd,
             number |-> position \div chunkSize,
             is_last |-> ChunkEnd >= RowCount]

\* Every step keeps the types.
LEMMA StreamTypeStep == TypeOK /\ [Next]_vars => TypeOK'
<1> SUFFICES ASSUME TypeOK, [Next]_vars PROVE TypeOK'
  OBVIOUS
<1>1. CASE UNCHANGED vars
  BY <1>1 DEF vars, sizes, TypeOK
<1>2. ASSUME NEW t \in Tasks,
             CallNext(t) \/ CallCancel(t) \/ CheckCancelled(t) \/ LockPosition(t)
             \/ ReturnEnd(t) \/ PanicOnZeroChunk(t)
      PROVE  TypeOK'
  BY <1>2 DEF CallNext, CallCancel, CheckCancelled, LockPosition, ReturnEnd,
              PanicOnZeroChunk, sizes, Goto, Return, TypeOK, Results
<1>3. ASSUME NEW t \in Tasks, SetCancelled(t) \/ ClearRows(t) \/ DropCall(t)
      PROVE  TypeOK'
  BY <1>3 DEF SetCancelled, ClearRows, DropCall, sizes, Goto, Return, TypeOK,
              Results
<1>4. ASSUME NEW t \in Tasks, ReturnChunk(t) PROVE TypeOK'
  <2>1. position < RowCount /\ chunkSize > 0
    BY <1>4 DEF ReturnChunk
  <2>2. NewChunk \in Chunk
    BY <2>1, ChunkEndType DEF NewChunk, Chunk, TypeOK
  <2>3. chunks' \in Seq(Chunk)
    BY <1>4, <2>2 DEF ReturnChunk, NewChunk, TypeOK
  <2> QED BY <1>4, <2>1, <2>3, ChunkEndType
          DEF ReturnChunk, sizes, Goto, Return, TypeOK, Results
<1> QED BY <1>1, <1>2, <1>3, <1>4 DEF Next, CallStep

\* Every step keeps the mutexes with the calls that are inside.
LEMMA OwnersStep == TypeOK /\ OwnersAreInside /\ [Next]_vars => OwnersAreInside'
<1> SUFFICES ASSUME TypeOK, OwnersAreInside, [Next]_vars PROVE OwnersAreInside'
  OBVIOUS
<1>1. CASE UNCHANGED vars
  BY <1>1 DEF vars, sizes, OwnersAreInside
<1>2. ASSUME NEW t \in Tasks,
             CallNext(t) \/ CallCancel(t) \/ CheckCancelled(t) \/ LockPosition(t)
      PROVE  OwnersAreInside'
  BY <1>2, TasksAssumption
     DEF CallNext, CallCancel, CheckCancelled, LockPosition, sizes, Goto,
         Return, TypeOK,
         OwnersAreInside
<1>3. ASSUME NEW t \in Tasks,
             ReturnEnd(t) \/ ReturnChunk(t) \/ PanicOnZeroChunk(t)
      PROVE  OwnersAreInside'
  BY <1>3, TasksAssumption
     DEF ReturnEnd, ReturnChunk, PanicOnZeroChunk, sizes, Goto, Return, TypeOK,
         OwnersAreInside
<1>4. ASSUME NEW t \in Tasks, SetCancelled(t) \/ ClearRows(t) \/ DropCall(t)
      PROVE  OwnersAreInside'
  BY <1>4, TasksAssumption
     DEF SetCancelled, ClearRows, DropCall, sizes, Goto, Return, TypeOK,
         OwnersAreInside
<1> QED BY <1>1, <1>2, <1>3, <1>4 DEF Next, CallStep

\* Every step keeps the flag, the rows and the results of cancel in step.
LEMMA FlagsStep == TypeOK /\ FlagsAgree /\ [Next]_vars => FlagsAgree'
<1> SUFFICES ASSUME TypeOK, FlagsAgree, [Next]_vars PROVE FlagsAgree'
  OBVIOUS
<1>1. CASE UNCHANGED vars
  BY <1>1 DEF vars, sizes, FlagsAgree
<1>2. ASSUME NEW t \in Tasks,
             CallNext(t) \/ CallCancel(t) \/ CheckCancelled(t) \/ LockPosition(t)
      PROVE  FlagsAgree'
  BY <1>2 DEF CallNext, CallCancel, CheckCancelled, LockPosition, Goto, Return,
              TypeOK, FlagsAgree
<1>3. ASSUME NEW t \in Tasks,
             ReturnEnd(t) \/ ReturnChunk(t) \/ PanicOnZeroChunk(t)
      PROVE  FlagsAgree'
  BY <1>3 DEF ReturnEnd, ReturnChunk, PanicOnZeroChunk, sizes, Goto, Return,
              TypeOK,
              FlagsAgree
<1>4. ASSUME NEW t \in Tasks, SetCancelled(t) \/ ClearRows(t) \/ DropCall(t)
      PROVE  FlagsAgree'
  BY <1>4 DEF SetCancelled, ClearRows, DropCall, sizes, Goto, Return, TypeOK,
              FlagsAgree
<1> QED BY <1>1, <1>2, <1>3, <1>4 DEF Next, CallStep

\* The three parts together.
LEMMA StreamStep == StreamInv /\ [Next]_vars => StreamInv'
BY StreamTypeStep, OwnersStep, FlagsStep DEF StreamInv

\* The position stays inside the rows and every chunk is a proper record, with a
\* chunk number that the division is defined for.
THEOREM StreamTypes == Spec => []TypeOK
<1>1. StreamInv => TypeOK
  BY DEF StreamInv
<1> QED BY <1>1, StreamInit, StreamStep, PTL DEF Spec

\* A task that panics, returns early or is dropped leaves no mutex locked, and
\* no two tasks are between the same two acquisitions.
THEOREM MutexesFollowCalls == Spec => []OwnersAreInside
<1>1. StreamInv => OwnersAreInside
  BY DEF StreamInv
<1> QED BY <1>1, StreamInit, StreamStep, PTL DEF Spec

\* After a cancel has returned no chunk is returned, not even by a call that
\* read the flag before it was set.
THEOREM CancelStopsChunks == Spec => NoChunkAfterCancel
<1>1. StreamInv /\ [Next]_vars =>
          ((\E t \in Tasks : result[t] = "cancelled") => chunks' = chunks)
  <2> SUFFICES ASSUME StreamInv, [Next]_vars, cleared PROVE chunks' = chunks
    BY DEF StreamInv, FlagsAgree
  <2>1. ~(position < RowCount)
    BY DEF RowCount, StreamInv, TypeOK
  <2> QED BY <2>1 DEF Next, vars, sizes, CallStep, CallNext, CallCancel,
                      CheckCancelled,
                 LockPosition, ReturnEnd, ReturnChunk, PanicOnZeroChunk,
                 SetCancelled, ClearRows, DropCall
<1> QED BY <1>1, StreamInit, StreamStep, PTL DEF Spec, NoChunkAfterCancel

\* A reader is told of the end only when it has had every row, or when a task
\* is cancelling the stream.
THEOREM EndMeansEnd == Spec => EndIsHonest
<1>1. StreamInv /\ [Next]_vars =>
          \A t \in Tasks : pc[t] = "rows" /\ result'[t] = "end" /\ pc'[t] = "idle"
              => position = totalRows \/ cancelled
  <2> SUFFICES ASSUME StreamInv, [Next]_vars, NEW t \in Tasks, pc[t] = "rows",
                      result'[t] = "end", pc'[t] = "idle", ~cleared
               PROVE  position = totalRows
    BY DEF StreamInv, FlagsAgree
  <2>1. ReturnEnd(t)
    BY DEF Next, vars, sizes, CallStep, CallNext, CallCancel, CheckCancelled,
           LockPosition, ReturnEnd, ReturnChunk, PanicOnZeroChunk, SetCancelled,
           ClearRows, DropCall, Goto, Return, StreamInv, TypeOK
  <2> QED BY <2>1, SizesAssumption DEF ReturnEnd, RowCount, StreamInv, TypeOK
<1> QED BY <1>1, StreamInit, StreamStep, PTL DEF Spec, EndIsHonest

-----------------------------------------------------------------------------
(* The chunks.                                                             *)

\* What a step can do to the chunks: append one, or nothing.
LEMMA ChunksStep ==
    ASSUME [Next]_vars
    PROVE  \/ /\ UNCHANGED <<sizes, position, chunks>>
              /\ cleared' = cleared \/ cleared' = TRUE
           \/ /\ position < RowCount /\ chunkSize > 0
              /\ chunks' = Append(chunks, NewChunk)
              /\ position' = ChunkEnd
              /\ UNCHANGED <<sizes, cleared>>
BY DEF Next, vars, sizes, CallStep, CallNext, CallCancel, CheckCancelled,
       LockPosition,
       ReturnEnd, ReturnChunk, PanicOnZeroChunk, SetCancelled, ClearRows, DropCall,
       NewChunk

\* The stream hands its rows out like a dispenser: each once, in order, in full
\* chunks up to the last, and none after it is closed.
THEOREM ImplementsDispenser == Spec => DispensesRows
<1>1. Init => Dispenser!Init
  BY SizesAssumption DEF Init, Dispenser!Init
<1>2. TypeOK /\ [Next]_vars =>
          [Dispenser!Next]_<<totalRows, chunkSize, position, cleared>>
  <2> SUFFICES ASSUME TypeOK, [Next]_vars,
                      ~UNCHANGED <<totalRows, chunkSize, position, cleared>>
               PROVE  Dispenser!Next
    OBVIOUS
  <2>1. CASE UNCHANGED <<sizes, position>>
    <3>1. cleared' = TRUE
      <4>1. cleared' = cleared \/ cleared' = TRUE
        BY ChunksStep
      <4> QED BY <2>1, <4>1 DEF sizes
    <3> QED BY <2>1, <3>1 DEF Dispenser!Next, Dispenser!Close, sizes
  <2>2. CASE position < RowCount /\ chunkSize > 0 /\ position' = ChunkEnd
             /\ UNCHANGED <<sizes, cleared>>
    <3>1. /\ ChunkEnd - position \in 1 .. chunkSize
          /\ ChunkEnd = position + (ChunkEnd - position)
          /\ ChunkEnd <= totalRows
          /\ ChunkEnd - position = chunkSize \/ ChunkEnd = totalRows
      BY <2>2, ChunkEndType, SizesAssumption DEF TypeOK
    <3>2. ~cleared
      BY <2>2 DEF RowCount, TypeOK
    <3>3. Dispenser!Take(ChunkEnd - position)
      BY <2>2, <3>1, <3>2 DEF Dispenser!Take, sizes
    <3> QED BY <3>1, <3>3 DEF Dispenser!Next
  <2> QED BY <2>1, <2>2, ChunksStep DEF sizes
<1>3. StreamInv => TypeOK
  BY DEF StreamInv
<1> QED BY <1>1, <1>2, <1>3, StreamInit, StreamStep, PTL
        DEF Spec, DispensesRows, Dispenser!Spec

\* The position is a whole number of chunks until the last one is cut.
WholeChunks ==
    position = Len(chunks) * chunkSize \/ position = totalRows

\* Counting in chunks: n full ones end where n is the quotient.
LEMMA WholeQuotient ==
    ASSUME NEW n \in Nat, NEW c \in Nat, c > 0
    PROVE  (n * c) \div c = n /\ n * c + c = (n + 1) * c
BY Z3

\* Every step keeps the chunks the rows before the position.
LEMMA CoverStep ==
    TypeOK /\ ChunksCoverRows /\ WholeChunks /\ [Next]_vars =>
        ChunksCoverRows' /\ WholeChunks'
<1> SUFFICES ASSUME TypeOK, ChunksCoverRows, WholeChunks, [Next]_vars
             PROVE  ChunksCoverRows' /\ WholeChunks'
  OBVIOUS
<1>1. CASE UNCHANGED <<sizes, position, chunks>>
  BY <1>1 DEF ChunksCoverRows, WholeChunks, sizes
<1>2. CASE /\ position < RowCount /\ chunkSize > 0
           /\ chunks' = Append(chunks, NewChunk)
           /\ position' = ChunkEnd
           /\ UNCHANGED sizes
  <2> DEFINE n == Len(chunks)
  <2>0. totalRows' = totalRows /\ chunkSize' = chunkSize
    BY <1>2 DEF sizes
  <2>1. /\ n \in Nat /\ chunks \in Seq(Chunk) /\ DOMAIN chunks = 1 .. n
        /\ Len(chunks') = n + 1 /\ DOMAIN chunks' = 1 .. (n + 1)
        /\ chunks'[n + 1] = NewChunk
        /\ \A i \in 1 .. n : chunks'[i] = chunks[i]
    <3>1. NewChunk \in Chunk
      BY <1>2, ChunkEndType DEF NewChunk, Chunk, TypeOK
    <3> QED BY <1>2, <3>1 DEF TypeOK
  <2>2. position = n * chunkSize
    BY <1>2, ChunkEndType DEF WholeChunks, TypeOK
  <2>3. position \div chunkSize = n /\ position + chunkSize = (n + 1) * chunkSize
    <3>1. chunkSize \in Nat /\ chunkSize > 0
      BY <1>2, ChunkEndType
    <3> QED BY <2>1, <2>2, <3>1, WholeQuotient
  <2>4. WholeChunks'
    BY <1>2, <2>0, <2>1, <2>3, ChunkEndType DEF WholeChunks
  <2>5. position' = (IF chunks' = <<>> THEN 0 ELSE chunks'[Len(chunks')].end)
    BY <1>2, <2>1 DEF NewChunk
  <2>6. ASSUME NEW i \in 1 .. (n + 1)
        PROVE  /\ chunks'[i].start = (IF i = 1 THEN 0 ELSE chunks'[i - 1].end)
               /\ chunks'[i].number = i - 1
               /\ chunks'[i].is_last <=> chunks'[i].end = totalRows
               /\ chunks'[i].end = chunks'[i].start + chunkSize \/ chunks'[i].is_last
               /\ chunks'[i].start < chunks'[i].end
               /\ chunks'[i].end <= chunks'[i].start + chunkSize
    <3>1. CASE i \in 1 .. n
      <4>1. chunks'[i] = chunks[i] /\ (i # 1 => chunks'[i - 1] = chunks[i - 1])
        BY <2>1, <3>1
      <4> QED BY <2>1, <3>1, <4>1 DEF ChunksCoverRows
    <3>2. CASE i = n + 1
      <4>1. position = (IF i = 1 THEN 0 ELSE chunks'[i - 1].end)
        <5>1. CASE n = 0
          <6>1. chunks = <<>>
            BY <2>1, <5>1
          <6> QED BY <3>2, <5>1, <6>1 DEF ChunksCoverRows
        <5>2. CASE n # 0
          <6>1. chunks # <<>> /\ chunks'[i - 1] = chunks[n] /\ i # 1
            BY <2>1, <3>2, <5>2
          <6> QED BY <6>1 DEF ChunksCoverRows
        <5> QED BY <5>1, <5>2
      <4>2. chunks'[i] = NewChunk
        BY <2>1, <3>2
      <4>3. NewChunk.is_last <=> ChunkEnd = totalRows
        <5>1. NewChunk.is_last <=> ChunkEnd >= RowCount
          BY Zenon DEF NewChunk
        <5>2. ChunkEnd >= RowCount <=> ChunkEnd = totalRows
          BY <1>2, ChunkEndType, SizesAssumption
        <5> QED BY <5>1, <5>2
      <4>4. NewChunk.number = i - 1
        BY <2>1, <2>3, <3>2 DEF NewChunk
      <4>5. NewChunk.start = position /\ NewChunk.end = ChunkEnd
        BY DEF NewChunk
      <4>6. /\ position < ChunkEnd
            /\ ChunkEnd <= position + chunkSize
            /\ ChunkEnd = position + chunkSize \/ ChunkEnd = totalRows
        BY <1>2, ChunkEndType
      <4> QED BY <4>1, <4>2, <4>3, <4>4, <4>5, <4>6
    <3> QED BY <2>1, <3>1, <3>2
  <2> QED BY <2>0, <2>1, <2>4, <2>5, <2>6 DEF ChunksCoverRows
<1> QED BY <1>1, <1>2, ChunksStep

\* Whatever tasks read, cancel or give up, the chunks returned are the rows up
\* to the position: in order, none twice, none skipped, numbered from 0.
THEOREM ChunksAreTheRows == Spec => []ChunksCoverRows
<1>1. Init => StreamInv /\ ChunksCoverRows /\ WholeChunks
  <2>1. Init => ChunksCoverRows
    BY DEF Init, ChunksCoverRows
  <2>2. Init => WholeChunks
    BY SizesAssumption DEF Init, WholeChunks
  <2> QED BY <2>1, <2>2, StreamInit
<1>2. StreamInv /\ ChunksCoverRows /\ WholeChunks /\ [Next]_vars =>
          StreamInv' /\ ChunksCoverRows' /\ WholeChunks'
  BY StreamStep, CoverStep DEF StreamInv
<1> QED BY <1>1, <1>2, PTL DEF Spec

-----------------------------------------------------------------------------
(* Who waits for whom.                                                     *)

\* The guards of CallStep: the call of t goes on as soon as it is polled.  At
\* the rows there are three ways on: the end, a chunk, or the panic.
CanGoOn(t) ==
    \/ pc[t] \in {"check", "flag"} /\ cancelledOwner = "free"
    \/ pc[t] = "position" /\ positionOwner = "free"
    \/ /\ pc[t] = "rows"
       /\ \/ position >= RowCount
          \/ position < RowCount /\ chunkSize > 0
          \/ position < RowCount /\ chunkSize = 0
    \/ pc[t] = "clear"

\* u holds the mutex that t waits for.
Blocks(u, t) ==
    \/ pc[t] \in {"check", "flag"} /\ cancelledOwner = u
    \/ pc[t] = "position" /\ positionOwner = u

\* Who waits for a mutex waits for a call that waits for nobody.
WaitsEndAtOnce ==
    \A t \in Tasks : pc[t] # "idle" =>
        CanGoOn(t) \/ \E u \in Tasks : Blocks(u, t) /\ CanGoOn(u)

\* next_chunk gives up the mutex of the flag before it takes those of the position
\* and the rows, cancel keeps it while it takes that of the rows: whatever their
\* order, and whoever panicked or was dropped, a task that waits for a mutex
\* waits for a call that can go on, so no circle of readers and cancellers forms.
THEOREM StreamWaitsEnd == Spec => []WaitsEndAtOnce
<1>1. StreamInv => WaitsEndAtOnce
  <2> SUFFICES ASSUME StreamInv, NEW t \in Tasks, pc[t] # "idle"
               PROVE  CanGoOn(t) \/ \E u \in Tasks : Blocks(u, t) /\ CanGoOn(u)
    BY DEF WaitsEndAtOnce
  <2>1. ASSUME NEW u \in Tasks, pc[u] = "rows" PROVE CanGoOn(u)
    <3>1. position \in Nat /\ RowCount \in Nat /\ chunkSize \in Nat
      BY SizesAssumption DEF StreamInv, TypeOK, RowCount
    <3> QED BY <2>1, <3>1 DEF CanGoOn
  <2>2. CASE pc[t] \in {"check", "flag"} /\ cancelledOwner # "free"
    <3>1. PICK u \in Tasks : cancelledOwner = u /\ pc[u] = "clear"
      BY <2>2 DEF StreamInv, TypeOK, OwnersAreInside
    <3> QED BY <2>2, <3>1 DEF Blocks, CanGoOn
  <2>3. CASE pc[t] = "position" /\ positionOwner # "free"
    <3>1. PICK u \in Tasks : positionOwner = u /\ pc[u] = "rows"
      BY <2>3 DEF StreamInv, TypeOK, OwnersAreInside
    <3> QED BY <2>1, <2>3, <3>1 DEF Blocks
  <2> QED BY <2>1, <2>2, <2>3 DEF CanGoOn, StreamInv, TypeOK
<1> QED BY <1>1, StreamInit, StreamStep, PTL DEF Spec
=============================================================================
