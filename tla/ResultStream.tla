---------------------------- MODULE ResultStream ----------------------------
(***************************************************************************)
(* QueryResultStream: one list of rows that tasks read chunk by chunk and  *)
(* that any task may cancel.  Three mutexes guard the `cancelled` flag,    *)
(* the position and the rows; next_chunk takes them one after the other    *)
(* and releases the first before it takes the others, cancel keeps the     *)
(* first while it takes the last.  The mutex of the rows is never held     *)
(* across an await and needs no owner here.  A caller may drop the future  *)
(* of its call (a timeout, an aborted task) while it waits for a mutex.    *)
(***************************************************************************)
EXTENDS Naturals, Sequences

CONSTANTS
    Tasks,          \* the tasks that share the stream
    RowCounts,      \* the numbers of rows a query may return
    ChunkSizes      \* the chunk sizes a caller may ask for, 0 among them

ASSUME SizesAssumption == RowCounts \subseteq Nat /\ ChunkSizes \subseteq Nat
ASSUME TasksAssumption == "free" \notin Tasks

VARIABLES
    totalRows,      \* the rows the stream was made with
    chunkSize,      \* chunk_size, which nothing keeps from being 0
    cancelled,      \* the flag
    cleared,        \* whether cancel has emptied the rows
    position,       \* current_position
    cancelledOwner, \* the task that holds the mutex of the flag, or "free"
    positionOwner,  \* the task that holds the mutex of the position, or "free"
    pc,             \* the mutex that each task waits for, "idle" between calls
    result,         \* how its last call ended
    chunks          \* history: the chunks returned, in order

sizes == <<totalRows, chunkSize>>
vars == <<sizes, cancelled, cleared, position, cancelledOwner, positionOwner,
          pc, result, chunks>>

Chunk == [start : Nat, end : Nat, number : Nat, is_last : BOOLEAN]
Results == {"none", "chunk", "end", "StreamCancelled", "cancelled", "panic",
            "dropped"}

\* Mutant: the rows are counted when the stream is made.
RowCountFixed == totalRows

\* rows.len(): clear() leaves an empty vector.
RowCount == IF cleared THEN 0 ELSE totalRows

Init ==
    /\ totalRows \in RowCounts
    /\ chunkSize \in ChunkSizes
    /\ cancelled = FALSE
    /\ cleared = FALSE
    /\ position = 0
    /\ cancelledOwner = "free"
    /\ positionOwner = "free"
    /\ pc = [t \in Tasks |-> "idle"]
    /\ result = [t \in Tasks |-> "none"]
    /\ chunks = <<>>

Goto(t, label) == pc' = [pc EXCEPT ![t] = label]

Return(t, outcome) ==
    /\ Goto(t, "idle")
    /\ result' = [result EXCEPT ![t] = outcome]

-----------------------------------------------------------------------------
(* next_chunk                                                              *)

CallNext(t) ==
    /\ pc[t] = "idle"
    /\ Goto(t, "check")
    /\ UNCHANGED <<sizes, cancelled, cleared, position, cancelledOwner,
                   positionOwner, result, chunks>>

\* The flag is read and its mutex released at once.
CheckCancelled(t) ==
    /\ pc[t] = "check"
    /\ cancelledOwner = "free"
    /\ \/ cancelled /\ Return(t, "StreamCancelled")
       \/ ~cancelled /\ Goto(t, "position") /\ UNCHANGED result
    /\ UNCHANGED <<sizes, cancelled, cleared, position, cancelledOwner,
                   positionOwner, chunks>>

LockPosition(t) ==
    /\ pc[t] = "position"
    /\ positionOwner = "free"
    /\ positionOwner' = t
    /\ Goto(t, "rows")
    /\ UNCHANGED <<sizes, cancelled, cleared, position, cancelledOwner,
                   result, chunks>>

\* Mutant: the early return leaves the mutex of the position locked.
ReturnEndKeepingMutex(t) ==
    /\ pc[t] = "rows"
    /\ position >= RowCount
    /\ Return(t, "end")
    /\ UNCHANGED <<sizes, cancelled, cleared, position, cancelledOwner,
                   positionOwner, chunks>>

\* Mutant: the end is reported when no full chunk is left.
ReturnEndEarly(t) ==
    /\ pc[t] = "rows"
    /\ position + chunkSize > RowCount
    /\ positionOwner' = "free"
    /\ Return(t, "end")
    /\ UNCHANGED <<sizes, cancelled, cleared, position, cancelledOwner,
                   chunks>>

\* With the mutex of the rows: nothing is left, or they have been cleared.
ReturnEnd(t) ==
    /\ pc[t] = "rows"
    /\ position >= RowCount
    /\ positionOwner' = "free"
    /\ Return(t, "end")
    /\ UNCHANGED <<sizes, cancelled, cleared, position, cancelledOwner,
                   chunks>>

\* Mutant: the end of a chunk is not cut to the rows there are.
ChunkEndUncut == position + chunkSize

\* std::cmp::min(start + chunk_size, rows.len())
ChunkEnd == IF position + chunkSize < RowCount THEN position + chunkSize
            ELSE RowCount

\* Mutant: > for >= in is_last.
ReturnChunkNeverLast(t) ==
    /\ pc[t] = "rows"
    /\ position < RowCount
    /\ chunkSize > 0
    /\ chunks' = Append(chunks, [start   |-> position,
                                 end     |-> ChunkEnd,
                                 number  |-> position \div chunkSize,
                                 is_last |-> ChunkEnd > RowCount])
    /\ position' = ChunkEnd
    /\ positionOwner' = "free"
    /\ Return(t, "chunk")
    /\ UNCHANGED <<sizes, cancelled, cleared, cancelledOwner>>

ReturnChunk(t) ==
    /\ pc[t] = "rows"
    /\ position < RowCount
    /\ chunkSize > 0
    /\ chunks' = Append(chunks, [start   |-> position,
                                 end     |-> ChunkEnd,
                                 number  |-> position \div chunkSize,
                                 is_last |-> ChunkEnd >= RowCount])
    /\ position' = ChunkEnd
    /\ positionOwner' = "free"
    /\ Return(t, "chunk")
    /\ UNCHANGED <<sizes, cancelled, cleared, cancelledOwner>>

\* Mutant: the mutex stays locked after a panic.
PanicKeepingMutex(t) ==
    /\ pc[t] = "rows"
    /\ position < RowCount
    /\ chunkSize = 0
    /\ Return(t, "panic")
    /\ UNCHANGED <<sizes, cancelled, cleared, position, cancelledOwner,
                   positionOwner, chunks>>

\* start / chunk_size divides by zero; unwinding releases both mutexes.
PanicOnZeroChunk(t) ==
    /\ pc[t] = "rows"
    /\ position < RowCount
    /\ chunkSize = 0
    /\ positionOwner' = "free"
    /\ Return(t, "panic")
    /\ UNCHANGED <<sizes, cancelled, cleared, position, cancelledOwner,
                   chunks>>

-----------------------------------------------------------------------------
(* cancel                                                                  *)

CallCancel(t) ==
    /\ pc[t] = "idle"
    /\ Goto(t, "flag")
    /\ UNCHANGED <<sizes, cancelled, cleared, position, cancelledOwner,
                   positionOwner, result, chunks>>

SetCancelled(t) ==
    /\ pc[t] = "flag"
    /\ cancelledOwner = "free"
    /\ cancelledOwner' = t
    /\ cancelled' = TRUE
    /\ Goto(t, "clear")
    /\ UNCHANGED <<sizes, cleared, position, positionOwner, result, chunks>>

\* Mutant: cancel only sets the flag.
KeepRows(t) ==
    /\ pc[t] = "clear"
    /\ cancelledOwner' = "free"
    /\ Return(t, "cancelled")
    /\ UNCHANGED <<sizes, cancelled, cleared, position, positionOwner,
                   chunks>>

ClearRows(t) ==
    /\ pc[t] = "clear"
    /\ cleared' = TRUE
    /\ cancelledOwner' = "free"
    /\ Return(t, "cancelled")
    /\ UNCHANGED <<sizes, cancelled, position, positionOwner, chunks>>

-----------------------------------------------------------------------------
\* The future of a call is dropped at an await, and its guards with it.
DropCall(t) ==
    /\ pc[t] # "idle"
    /\ cancelledOwner' = IF cancelledOwner = t THEN "free" ELSE cancelledOwner
    /\ positionOwner' = IF positionOwner = t THEN "free" ELSE positionOwner
    /\ Return(t, "dropped")
    /\ UNCHANGED <<sizes, cancelled, cleared, position, chunks>>

CallStep(t) ==
    \/ CheckCancelled(t) \/ LockPosition(t)
    \/ ReturnEnd(t) \/ ReturnChunk(t) \/ PanicOnZeroChunk(t)
    \/ SetCancelled(t) \/ ClearRows(t)

Next ==
    \E t \in Tasks : CallNext(t) \/ CallCancel(t) \/ CallStep(t) \/ DropCall(t)

Spec == Init /\ [][Next]_vars

\* The mutexes of tokio are fair: a task that waits for one gets it.
FairSpec == Spec /\ \A t \in Tasks : SF_vars(CallStep(t))

-----------------------------------------------------------------------------
TypeOK ==
    /\ totalRows \in RowCounts
    /\ chunkSize \in ChunkSizes
    /\ cancelled \in BOOLEAN
    /\ cleared \in BOOLEAN
    /\ position \in 0 .. totalRows
    /\ cancelledOwner \in Tasks \cup {"free"}
    /\ positionOwner \in Tasks \cup {"free"}
    /\ pc \in [Tasks -> {"idle", "check", "position", "rows", "flag", "clear"}]
    /\ result \in [Tasks -> Results]
    /\ chunks \in Seq(Chunk)

\* Whatever tasks read, cancel or give up, the chunks returned so far are the
\* rows before the position: in order, none twice, none skipped, numbered from
\* 0, full except for the last one, which alone says that it is the last.
ChunksCoverRows ==
    /\ position = (IF chunks = <<>> THEN 0 ELSE chunks[Len(chunks)].end)
    /\ \A i \in DOMAIN chunks :
          /\ chunks[i].start = (IF i = 1 THEN 0 ELSE chunks[i - 1].end)
          /\ chunks[i].number = i - 1
          /\ chunks[i].is_last <=> chunks[i].end = totalRows
          /\ chunks[i].end = chunks[i].start + chunkSize \/ chunks[i].is_last
          /\ chunks[i].start < chunks[i].end
          /\ chunks[i].end <= chunks[i].start + chunkSize

\* A mutex is held by the task that is between its two acquisitions, and only
\* by it; a dropped or panicking call leaves none behind.
OwnersAreInside ==
    \A t \in Tasks :
        /\ pc[t] = "rows" <=> positionOwner = t
        /\ pc[t] = "clear" <=> cancelledOwner = t

\* "Stop sending data immediately": after some cancel has returned, no call
\* returns a chunk, not even one that had passed the check of the flag.
NoChunkAfterCancel ==
    [][(\E t \in Tasks : result[t] = "cancelled") => chunks' = chunks]_vars

\* The end is reported only for a stream that was read to its end, or while
\* somebody cancels it.
EndIsHonest ==
    [][\A t \in Tasks : pc[t] = "rows" /\ result'[t] = "end" /\ pc'[t] = "idle"
          => position = totalRows \/ cancelled]_vars

\* No order of the mutexes blocks a call for ever.
EveryCallReturns == \A t \in Tasks : pc[t] # "idle" ~> pc[t] = "idle"

\* The stream is a dispenser of rows that closes when the rows are cleared.
Dispenser == INSTANCE RowDispenser
                 WITH rows <- totalRows, size <- chunkSize, given <- position,
                      closed <- cleared

DispensesRows == Dispenser!Spec
=============================================================================
