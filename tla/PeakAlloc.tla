------------------------------- MODULE PeakAlloc -------------------------------
(***************************************************************************)
(* The counting global allocator, crates/bench/src/alloc.rs, and the peak  *)
(* heap each benchmark run reports from it.                                *)
(*                                                                         *)
(* Every thread allocates through it; the counters are two relaxed atomics *)
(* updated after the system allocator has answered.  The main thread of    *)
(* datadir_bench resets the peak before every build, with a load and a     *)
(* store, then starts the pool's work and the writer, and reads the peak   *)
(* when they are done.  A pool also scans the tables after a build that    *)
(* wrote them; the scan is over before the next reset.                     *)
(***************************************************************************)
EXTENDS Naturals, Sequences, FiniteSets, FiniteSetsExt

CONSTANTS
    AllocThreads, \* threads that allocate
    Main,         \* the main thread, one of them
    Blocks,       \* names of heap blocks, reused after they are freed
    Sizes,        \* sizes of a layout
    Width,        \* the counters wrap at this value, 2^64 in the code
    MaxCalls      \* bound on the allocator calls of a behaviour

ASSUME PeakAllocAssumption ==
    /\ IsFiniteSet(AllocThreads) /\ Main \in AllocThreads
    /\ IsFiniteSet(Blocks)
    /\ IsFiniteSet(Sizes) /\ Sizes # {}
    /\ Sizes \subseteq Nat \ {0}
    /\ MaxCalls \in Nat
    \* No heap is as large as the address space.
    /\ Width \in Nat
    /\ \A s \in Sizes : (Cardinality(Blocks) + Cardinality(AllocThreads)) * s < Width

VARIABLES
    current,  \* the counter of live bytes
    peak,     \* the counter of their maximum
    size,     \* the size of each block handed out by the system, else 0
    call,     \* the allocator call each thread is in
    calls,    \* calls so far
    stage,    \* "idle", "resetting", "building" or "scanning": what the main
              \* thread is at
    loaded,   \* the value reset_peak has loaded
    highCount, \* the highest value of current since the last reset
    highLive   \* the highest number of bytes handed out since then

highs    == <<highCount, highLive>>
counters == <<current, peak, highCount>>
main     == <<stage, loaded>>

allocVars == <<counters, highLive, size, call, calls, main>>

NoCall == [todo |-> <<>>, block |-> {}]

\* The blocks no call is working on, which the program may use.
Busy == UNION {call[t].block : t \in AllocThreads}
Live == {b \in Blocks : size[b] # 0} \ Busy

Bytes(blocks) == SumFunctionOnSet(size, blocks)

Higher(m, n) == IF m > n THEN m ELSE n

Quiescent == stage # "resetting" /\ \A t \in AllocThreads : call[t] = NoCall

AllocInit ==
    /\ current = 0
    /\ peak = 0
    /\ size = [b \in Blocks |-> 0]
    /\ call = [t \in AllocThreads |-> NoCall]
    /\ calls = 0
    /\ stage = "idle"
    /\ loaded = 0
    /\ highCount = 0
    /\ highLive = 0

-----------------------------------------------------------------------------
(* The calls: what the system allocator does first, and the updates of the   *)
(* counters that follow, one atomic operation at a time.                     *)

\* Mutant: the workers are started before the peak is reset.
AtAnyTime(t) == t = Main => stage # "resetting"

\* Outside a build and a scan only the main thread allocates.
Runs(t) == IF t = Main THEN stage # "resetting" ELSE stage \in {"building", "scanning"}

\* A thread enters a call: the system makes block b one of s bytes, and the
\* updates in todo follow.
Enter(t, b, s, todo, block) ==
    /\ call[t] = NoCall
    /\ Runs(t)
    /\ calls < MaxCalls
    /\ calls' = calls + 1
    /\ size' = [size EXCEPT ![b] = s]
    /\ highLive' = Higher(Bytes(Blocks)', highLive)
    /\ call' = [call EXCEPT ![t] = [todo |-> todo, block |-> block]]
    /\ UNCHANGED <<counters, main>>

\* alloc and alloc_zeroed, when the system returns memory
Alloc(t, b, s) ==
    /\ size[b] = 0
    /\ b \notin Busy
    /\ Enter(t, b, s, <<[op |-> "add", bytes |-> s]>>, {b})

\* dealloc: the memory is the system's again, and another thread's, before the
\* counter knows.
Dealloc(t, b) ==
    /\ b \in Live
    /\ Enter(t, b, 0, <<[op |-> "sub", bytes |-> size[b]]>>, {})

\* Mutant: the old size of a block that moved is not subtracted.
OldSizeKept(t, b, s) ==
    /\ b \in Live
    /\ Enter(t, b, s, <<[op |-> "add", bytes |-> s]>>, {b})

\* realloc, when the system returns memory
Realloc(t, b, s) ==
    /\ b \in Live
    /\ Enter(t, b, s, <<[op |-> "sub", bytes |-> size[b]],
                        [op |-> "add", bytes |-> s]>>, {b})

\* Mutant: a realloc that failed is counted as if it had not.
NoMemoryCounted(t) ==
    /\ \E b \in Live, s \in Sizes :
         Enter(t, b, size[b], <<[op |-> "sub", bytes |-> size[b]],
                                [op |-> "add", bytes |-> s]>>, {b})

\* The system returns null: nothing is counted and the old block lives on.
NoMemory(t) ==
    /\ call[t] = NoCall
    /\ Runs(t)
    /\ calls < MaxCalls
    /\ calls' = calls + 1
    /\ UNCHANGED <<counters, highLive, size, call, main>>

Update(t, op) == call[t].todo # <<>> /\ call[t].todo[1].op = op

\* The rest of a call after its next update.
Rest(t) == IF Len(call[t].todo) = 1
           THEN NoCall ELSE [call[t] EXCEPT !.todo = Tail(@)]

\* sub: fetch_sub
Sub(t) ==
    /\ Update(t, "sub")
    /\ current' = (current + Width - call[t].todo[1].bytes) % Width
    /\ call' = [call EXCEPT ![t] = Rest(t)]
    /\ UNCHANGED <<peak, size, calls, highs, main>>

\* add: fetch_add, which leaves the sum it saw for the fetch_max
Add(t) ==
    /\ Update(t, "add")
    /\ LET now == (current + call[t].todo[1].bytes) % Width
       IN  /\ current' = now
           /\ highCount' = Higher(now, highCount)
           /\ call' = [call EXCEPT ![t].todo =
                         <<[op |-> "max", bytes |-> now]>>]
    /\ UNCHANGED <<peak, size, calls, highLive, main>>

\* add: fetch_max
FetchMax(t) ==
    /\ Update(t, "max")
    /\ peak' = Higher(call[t].todo[1].bytes, peak)
    /\ call' = [call EXCEPT ![t] = NoCall]
    /\ UNCHANGED <<current, size, calls, highs, main>>

\* reset_peak: a load and a store
ResetLoad ==
    /\ stage = "idle"
    /\ call[Main] = NoCall
    /\ stage' = "resetting"
    /\ loaded' = current
    /\ UNCHANGED <<counters, highLive, size, call, calls>>

\* The store; the build starts after it.
ResetStore ==
    /\ stage = "resetting"
    /\ stage' = "building"
    /\ peak' = loaded
    /\ highCount' = current
    /\ highLive' = Bytes(Blocks)
    /\ UNCHANGED <<current, size, call, calls, loaded>>

\* check_written_tables, between a build that wrote and the next reset
ScanBegins ==
    /\ stage = "idle"
    /\ call[Main] = NoCall
    /\ stage' = "scanning"
    /\ UNCHANGED <<counters, highLive, size, call, calls, loaded>>

\* The build has returned and the writer is joined, or the scan has returned:
\* no other thread allocates.
PoolEnds ==
    /\ stage \in {"building", "scanning"}
    /\ \A t \in AllocThreads : call[t] = NoCall
    /\ stage' = "idle"
    /\ UNCHANGED <<counters, highLive, size, call, calls, loaded>>

AllocNext ==
    \/ \E t \in AllocThreads :
         \/ \E b \in Blocks, s \in Sizes : Alloc(t, b, s) \/ Realloc(t, b, s)
         \/ \E b \in Blocks : Dealloc(t, b)
         \/ NoMemory(t)
         \/ Sub(t) \/ Add(t) \/ FetchMax(t)
    \/ ResetLoad \/ ResetStore \/ ScanBegins \/ PoolEnds

AllocSpec == AllocInit /\ [][AllocNext]_allocVars

-----------------------------------------------------------------------------
(* Properties *)

(* The counter never wraps below zero, however the additions and subtractions *)
(* of different threads interleave, and when no call is in flight it is the   *)
(* number of bytes the program holds: a failed call, a block freed by another *)
(* thread and a realloc leave it exact.                                       *)
CurrentExact ==
    /\ current <= (Cardinality(Blocks) + Cardinality(AllocThreads)) * Max(Sizes)
    /\ Quiescent => current = Bytes(Blocks)

(* No interleaving of fetch_add and fetch_max loses a maximum of the counter  *)
(* or invents one, and no allocation falls between the load and the store of  *)
(* reset_peak: the peak never exceeds the highest value the counter had since *)
(* the reset, and is that value whenever no call is in flight, as when a run  *)
(* reports it.                                                                *)
PeakExact ==
    /\ peak <= highCount
    /\ Quiescent => peak = highCount

(* How far the peak is from the highest number of live bytes since the reset, *)
(* which is what peak() is documented to return.  Memory is handed out before *)
(* it is added and given back before it is subtracted, so the peak can be     *)
(* above that number, when a block is used again before its fetch_sub, and    *)
(* below it, when two allocations never meet in the counter; but by no more   *)
(* than one block for every thread beside the one that is counting.           *)
PeakNearLive ==
    LET slack == (Cardinality(AllocThreads) - 1) * Max(Sizes)
    IN  /\ peak <= highLive + slack
        /\ Quiescent => highLive <= peak + slack

=============================================================================
