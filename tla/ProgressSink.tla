----------------------------- MODULE ProgressSink -----------------------------
(***************************************************************************)
(* The sink that counts walked entries and logs progress lines,            *)
(* crates/bench/src/progress.rs.  Partition workers report batches; the    *)
(* count is an atomic, the time of the last line is behind a mutex.        *)
(* on_branch_node only forwards to the inner sink, so the modules of the   *)
(* inner sinks take their nodes from the workers directly.                 *)
(***************************************************************************)
EXTENDS Naturals, Sequences, FiniteSets, Functions

CONSTANTS
    Workers,   \* partition workers
    Batches,   \* the batches each worker reports, in order
    Total,     \* expected entries, from the table stats
    Interval,  \* time between lines
    MaxTime,   \* bound on the clock
    Nobody     \* nobody holds the mutex

ASSUME ProgressSinkAssumption ==
    /\ IsFiniteSet(Workers)
    /\ Batches \in [Workers -> Seq(Nat)]
    /\ {Total, Interval, MaxTime} \subseteq Nat
    /\ Nobody \notin Workers

VARIABLES
    clock,     \* time since the sink was made
    walked,    \* the atomic count
    lastLog,   \* the time behind the mutex
    lock,      \* the worker that holds the mutex, or Nobody
    todo,      \* batches a worker still has to report
    at,        \* where in on_progress a worker is
    mine,      \* the count a worker got from its fetch_add
    began,     \* when the line under way, or the last one, was begun
    lines      \* the lines logged

progressVars == <<clock, walked, lastLog, lock, todo, at, mine, began, lines>>

ProgressInit ==
    /\ clock = 0
    /\ walked = 0
    /\ lastLog = 0
    /\ lock = Nobody
    /\ todo = Batches
    /\ at = [w \in Workers |-> "idle"]
    /\ mine = [w \in Workers |-> 0]
    /\ began = 0
    /\ lines = <<>>

-----------------------------------------------------------------------------
(* on_progress *)

Goto(w, from, to) == at[w] = from /\ at' = [at EXCEPT ![w] = to]

\* Mutant: an empty batch is treated as any other.
NeverEmpty(entries) == FALSE

\* The early return for a batch without entries.
Ignored(entries) == entries = 0

Ignore(w) ==
    /\ at[w] = "idle" /\ todo[w] # <<>> /\ Ignored(Head(todo[w]))
    /\ todo' = [todo EXCEPT ![w] = Tail(@)]
    /\ UNCHANGED <<clock, walked, lastLog, lock, at, mine, began, lines>>

\* fetch_add, before the mutex
Count(w) ==
    /\ Goto(w, "idle", "counted")
    /\ todo[w] # <<>> /\ ~Ignored(Head(todo[w]))
    /\ todo' = [todo EXCEPT ![w] = Tail(@)]
    /\ walked' = walked + Head(todo[w])
    /\ mine' = [mine EXCEPT ![w] = walked']
    /\ UNCHANGED <<clock, lastLog, lock, began, lines>>

Lock(w) ==
    /\ Goto(w, "counted", "locked")
    /\ lock = Nobody
    /\ lock' = w
    /\ UNCHANGED <<clock, walked, lastLog, todo, mine, began, lines>>

\* Mutant: the early return leaves the mutex locked.
StillHeld == lock

\* The guard is dropped.
Released == Nobody

\* The last line is not yet an interval ago.
Return(w) ==
    /\ Goto(w, "locked", "idle")
    /\ clock - lastLog < Interval
    /\ lock' = Released
    /\ UNCHANGED <<clock, walked, lastLog, todo, mine, began, lines>>

Due(w) ==
    /\ Goto(w, "locked", "due")
    /\ clock - lastLog >= Interval
    /\ UNCHANGED <<clock, walked, lastLog, lock, todo, mine, began, lines>>

\* Mutant: the stamp moves on by an interval (last_log += interval).
IntervalAdded(now) == lastLog + Interval

\* Instant::now(), read again after the check
NewStamp(now) == now

Stamp(w) ==
    /\ Goto(w, "due", "stamped")
    /\ lastLog' = NewStamp(clock)
    /\ began' = clock
    /\ UNCHANGED <<clock, walked, lock, todo, mine, lines>>

\* saturating_sub: the walk may exceed what the stats promised.
Remaining(count) == IF count > Total THEN 0 ELSE Total - count

\* The line, logged before the mutex is released.
Log(w) ==
    /\ Goto(w, "stamped", "idle")
    /\ lines' = Append(lines, [walked |-> mine[w], remaining |-> Remaining(mine[w]),
                               began |-> began, time |-> clock])
    /\ lock' = Released
    /\ UNCHANGED <<clock, walked, lastLog, todo, mine, began>>

Tick ==
    /\ clock < MaxTime
    /\ clock' = clock + 1
    /\ UNCHANGED <<walked, lastLog, lock, todo, at, mine, began, lines>>

OnProgress(w) == Ignore(w) \/ Count(w) \/ Lock(w) \/ Return(w) \/ Due(w)
                   \/ Stamp(w) \/ Log(w)

AllReported == \A w \in Workers : at[w] = "idle" /\ todo[w] = <<>>

Over == AllReported /\ UNCHANGED progressVars

ProgressNext == (\E w \in Workers : OnProgress(w)) \/ Tick \/ Over

ProgressSpec ==
    /\ ProgressInit
    /\ [][ProgressNext]_progressVars
    /\ \A w \in Workers : WF_progressVars(OnProgress(w))

-----------------------------------------------------------------------------
(* Properties *)

(* Lines are begun at least an interval apart, however many workers find one  *)
(* due at the same time, and none is begun before the one before it is out.   *)
(* "At most once per interval" is true of the moments at which lines are      *)
(* begun.  A line can come out late, and the next one soon after it; but a    *)
(* third never falls within an interval of the first.                         *)
LinesAnIntervalApart ==
    \A i \in 1..Len(lines) :
        /\ Interval <= lines[i].began /\ lines[i].began <= lines[i].time
        /\ i > 1 => /\ lines[i - 1].began + Interval <= lines[i].began
                    /\ lines[i - 1].time <= lines[i].began
        /\ i > 2 => lines[i - 2].time + Interval <= lines[i].time

(* A line shows a count the walk had really reached by then, and never zero,  *)
(* which the remaining time is divided by (mul_f64 panics on the result); and *)
(* what it shows as walked and remaining makes up the total.                  *)
LinesTruthful ==
    \A i \in 1..Len(lines) :
        /\ 0 < lines[i].walked /\ lines[i].walked <= walked
        /\ lines[i].walked + lines[i].remaining >= Total

EntriesOf(w) == SumFunction(Batches[w])

(* All workers get through the mutex, and then walked() is the number of      *)
(* entries reported, as the parity tests assert.                              *)
EveryEntryCounted ==
    <>[](AllReported /\ walked = SumFunction([w \in Workers |-> EntriesOf(w)]))

=============================================================================
