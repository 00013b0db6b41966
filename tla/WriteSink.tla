------------------------------- MODULE WriteSink -------------------------------
(***************************************************************************)
(* The generator's writing run: crates/bench/src/writer.rs driven by the   *)
(* --write loop of src/bin/datadir_bench.rs.                               *)
(*                                                                         *)
(* Partition workers on the CPU pool send branch nodes over a bounded      *)
(* channel to one writer thread, which collects them into a chunk and      *)
(* commits the chunk in a write transaction.  The main thread clears the   *)
(* tables, builds, closes the channel and joins the writer.  A commit can  *)
(* fail, a partition can fail, and the process can die at any moment; the  *)
(* next invocation then starts over on whatever the tables hold.           *)
(*                                                                         *)
(* A commit is one step: nothing of a transaction is visible before it, so *)
(* a failure or a death inside it is the same as one just before it.       *)
(***************************************************************************)
EXTENDS TrieTables, Sequences

CONSTANTS
    Workers,      \* partitions of the build
    Threads,      \* values of --threads, the threads of the CPU pool
    Emitted,      \* the branch nodes a complete build emits
    Owner,        \* the partition that emits each node
    Capacity,     \* CHANNEL_CAPACITY
    ChunkSizes,   \* values of --chunk-nodes
    Settings,     \* values of the metadata entry
    Stale,        \* nodes an earlier state may have left in the tables
    MaxRuns       \* bound on the runs of a behaviour

ASSUME WriteSinkAssumption ==
    /\ IsFiniteSet(Emitted)
    /\ Emitted \subseteq Node
    /\ NodeMap(Emitted)
    /\ \A n \in Emitted : n.path # EmptyPath
    /\ Owner \in [Emitted -> Workers]
    /\ IsFiniteSet(Workers)
    /\ Threads \subseteq Nat \ {0}
    /\ Capacity \in Nat \ {0}
    /\ ChunkSizes \subseteq Nat
    /\ Settings \subseteq StorageSettings
    /\ Stale \subseteq Node
    /\ NodeMap(Stale)
    /\ IsFiniteSet(Stale)
    /\ MaxRuns \in Nat

VARIABLES
    tables,      \* the committed rows of the trie tables
    settings,    \* the metadata entry, which no run changes
    chunkNodes,  \* the --chunk-nodes flag
    threads,     \* the --threads flag
    main,        \* where the main thread is
    run,         \* runs started so far
    worker,      \* status of each partition
    unsent,      \* nodes not yet handed to the sink
    channel,     \* nodes in flight
    senderOpen,  \* whether the sink still holds the sender
    writer,      \* where the writer thread is, or its result
    packed,      \* the encoding the writer was started with
    chunk,       \* nodes of the chunk being filled
    pending,     \* the writer's count of them
    written      \* the writer's running totals

db    == <<tables, settings>>
flags == <<chunkNodes, threads>>
sink  == <<channel, senderOpen>>
thread == <<writer, packed, chunk, pending, written>>
build == <<worker, unsent>>
vars  == <<db, flags, main, run, build, sink, thread>>

MainStates   == {"start", "cleared", "building", "joining", "reported",
                 "unwinding", "exited"}
WorkerStates == {"idle", "running", "done", "failed", "panicked"}
WriterStates == {"none", "recv", "commit", "flush", "ok", "err"}

Ended(w)     == worker[w] \in {"done", "failed", "panicked"}
ReceiverGone == writer \in {"ok", "err"}

\* chunk_nodes.max(1)
ChunkLimit == IF chunkNodes = 0 THEN 1 ELSE chunkNodes

Queued == {channel[i] : i \in 1..Len(channel)}

-----------------------------------------------------------------------------
\* What a process holds before it starts a build.
NoBuild ==
    /\ worker = [w \in Workers |-> "idle"]
    /\ unsent = Emitted
    /\ channel = <<>>
    /\ senderOpen = FALSE
    /\ writer = "none"
    /\ packed = FALSE
    /\ chunk = {}
    /\ pending = 0
    /\ written = [nodes |-> 0, chunks |-> 0]

\* A new process starts, or the old one is gone with all it held.
DropBuild ==
    /\ worker' = [w \in Workers |-> "idle"]
    /\ unsent' = Emitted
    /\ channel' = <<>>
    /\ senderOpen' = FALSE
    /\ writer' = "none"
    /\ packed' = FALSE
    /\ chunk' = {}
    /\ pending' = 0
    /\ written' = [nodes |-> 0, chunks |-> 0]

\* The tables a run finds: any part of what an earlier state left there.
Init ==
    /\ settings \in Settings
    /\ tables \in SUBSET {RowOf(n, Adapter(UsesPackedTrieKeys(settings))) :
                              n \in Stale}
    /\ chunkNodes \in ChunkSizes
    /\ threads \in Threads
    /\ main = "start"
    /\ run = 1
    /\ NoBuild

-----------------------------------------------------------------------------
(* The main thread *)

\* clear_trie_tables, its own transaction before the sink exists.
Clear ==
    /\ main = "start"
    /\ tables' = ClearTrieTables(tables)
    /\ main' = "cleared"
    /\ UNCHANGED <<settings, flags, run, build, sink, thread>>

\* MdbxWriteSink::new: read the encoding, open the channel, spawn the writer.
NewSink ==
    /\ main = "cleared"
    /\ packed' = UsesPackedTrieKeys(settings)
    /\ senderOpen' = TRUE
    /\ writer' = "recv"
    /\ main' = "building"
    /\ UNCHANGED <<db, flags, run, build, channel, chunk, pending, written>>

\* Mutant: finish joins the writer while it still holds the sender.
SenderKept == senderOpen

\* drop(self.sender)
SenderDropped == FALSE

\* root_with_sink returned a root; finish drops the sender.
BuildOk ==
    /\ main = "building"
    /\ \A w \in Workers : worker[w] = "done"
    /\ senderOpen' = SenderDropped
    /\ main' = "joining"
    /\ UNCHANGED <<db, flags, run, build, channel, thread>>

\* A partition failed or panicked: once all have ended the main thread
\* panics, and unwinding drops the sink without joining its writer.
BuildFail ==
    /\ main = "building"
    /\ \A w \in Workers : Ended(w)
    /\ \E w \in Workers : worker[w] # "done"
    /\ senderOpen' = FALSE
    /\ main' = "unwinding"
    /\ UNCHANGED <<db, flags, run, build, channel, thread>>

\* finish joins the writer and the run reports what it returned.
JoinOk ==
    /\ main = "joining"
    /\ writer = "ok"
    /\ main' = "reported"
    /\ UNCHANGED <<db, flags, run, build, sink, thread>>

\* Mutant: the writer's error is dropped and the run reports.
ErrorIgnored == "reported"

\* expect turns the error that finish returns into a panic.
OnError == "unwinding"

JoinErr ==
    /\ main = "joining"
    /\ writer = "err"
    /\ main' = OnError
    /\ UNCHANGED <<db, flags, run, build, sink, thread>>

\* The process ends and takes a detached writer with it.
ProcessGone ==
    /\ main' = "exited"
    /\ DropBuild
    /\ UNCHANGED <<db, flags, run>>

Exit  == main = "unwinding" /\ ProcessGone

\* The process dies, or an operation outside the build fails.
Crash == main \in {"start", "cleared", "building", "joining"} /\ ProcessGone

\* The next iteration of --repeat, or the next invocation on this datadir.
NextRun ==
    /\ main \in {"reported", "exited"}
    /\ run < MaxRuns
    /\ run' = run + 1
    /\ main' = "start"
    /\ DropBuild
    /\ UNCHANGED <<db, flags>>

-----------------------------------------------------------------------------
(* Partition workers, at most --threads at a time *)

Start(w) ==
    /\ main = "building"
    /\ worker[w] = "idle"
    /\ Cardinality({v \in Workers : worker[v] = "running"}) < threads
    /\ worker' = [worker EXCEPT ![w] = "running"]
    /\ UNCHANGED <<db, flags, main, run, unsent, sink, thread>>

\* Mutant: an unbounded channel.
NeverFull == FALSE

Full == Len(channel) >= Capacity

\* on_branch_node: send blocks while the channel is full.
Send(w, n) ==
    /\ worker[w] = "running"
    /\ n \in unsent
    /\ Owner[n] = w
    /\ ~ReceiverGone
    /\ ~Full
    /\ channel' = Append(channel, n)
    /\ unsent' = unsent \ {n}
    /\ UNCHANGED <<db, flags, main, run, worker, senderOpen, thread>>

\* Mutant: a send to a writer that is gone keeps waiting.
SendHangs(w) ==
    /\ FALSE
    /\ worker[w] = "running"
    /\ UNCHANGED vars

\* on_branch_node after the writer has returned: send fails, expect panics.
SendPanics(w) ==
    /\ worker[w] = "running"
    /\ \E n \in unsent : Owner[n] = w
    /\ ReceiverGone
    /\ worker' = [worker EXCEPT ![w] = "panicked"]
    /\ UNCHANGED <<db, flags, main, run, unsent, sink, thread>>

Finish(w) ==
    /\ worker[w] = "running"
    /\ \A n \in unsent : Owner[n] # w
    /\ worker' = [worker EXCEPT ![w] = "done"]
    /\ UNCHANGED <<db, flags, main, run, unsent, sink, thread>>

\* A read of the hashed state fails, or the build cancels the partition.
Fail(w) ==
    /\ main = "building"
    /\ worker[w] \in {"idle", "running"}
    /\ worker' = [worker EXCEPT ![w] = "failed"]
    /\ UNCHANGED <<db, flags, main, run, unsent, sink, thread>>

-----------------------------------------------------------------------------
(* The writer thread: write_chunks *)

\* Mutant: the count of the chunk runs the wrong way.
CountedDown(count) == count - 1

Counted(count) == count + 1

\* One turn of the loop, up to the commit it may lead to.
Receive ==
    /\ writer = "recv"
    /\ channel # <<>>
    /\ channel' = Tail(channel)
    /\ chunk' = InsertNode(chunk, Head(channel))
    /\ pending' = Counted(pending)
    /\ writer' = IF pending' >= ChunkLimit THEN "commit" ELSE "recv"
    /\ UNCHANGED <<db, flags, main, run, build, senderOpen, packed, written>>

\* Mutant: the last, partly filled chunk is forgotten.
NoRemainder == FALSE

Remainder == pending > 0

\* The channel is closed and drained: the loop ends.
Drained ==
    /\ writer = "recv"
    /\ channel = <<>>
    /\ ~senderOpen
    /\ writer' = IF Remainder THEN "flush" ELSE "ok"
    /\ UNCHANGED <<db, flags, main, run, build, sink, packed, chunk,
                   pending, written>>

\* The commit closure; the remaining chunk is the last one.
Commit ==
    /\ writer \in {"commit", "flush"}
    /\ LET result == WriteTrieUpdatesWith(tables, UpdatesOf(chunk),
                                          Adapter(packed))
       IN  /\ tables' = result.rows
           /\ written' = [nodes  |-> written.nodes + result.written,
                          chunks |-> written.chunks + 1]
    /\ chunk' = {}
    /\ pending' = 0
    /\ writer' = IF writer = "flush" THEN "ok" ELSE "recv"
    /\ UNCHANGED <<settings, flags, main, run, build, sink, packed>>

\* Mutant: a failed write leaves part of the chunk in the tables.
Torn == tables \cup {RowOf(CHOOSE n \in chunk : TRUE, Adapter(packed))}

\* Nothing of a dropped transaction stays.
RolledBack == tables

\* tx_mut, the writes or the commit fail: the transaction is dropped and the
\* thread returns, dropping the receiver and what is still in the channel.
CommitFails ==
    /\ writer \in {"commit", "flush"}
    /\ writer' = "err"
    /\ tables' = RolledBack
    /\ chunk' = {}
    /\ channel' = <<>>
    /\ UNCHANGED <<settings, flags, main, run, build, senderOpen, packed,
                   pending, written>>

-----------------------------------------------------------------------------
\* Nothing is left to run: the last invocation reported or died.
Stopped ==
    /\ main \in {"reported", "exited"}
    /\ run = MaxRuns
    /\ UNCHANGED vars

MainStep == Clear \/ NewSink \/ BuildOk \/ BuildFail \/ JoinOk \/ JoinErr \/ Exit

WorkerStep(w) == Start(w) \/ (\E n \in Emitted : Send(w, n))
                          \/ SendPanics(w) \/ Finish(w)

WriterStep == Receive \/ Drained \/ Commit \/ CommitFails

Next ==
    \/ MainStep
    \/ \E w \in Workers : WorkerStep(w) \/ Fail(w)
    \/ WriterStep
    \/ Crash
    \/ NextRun
    \/ Stopped

Spec == Init /\ [][Next]_vars

(* The scheduler runs every thread that can run, and the disk answers every *)
(* commit, with success or failure.  Nobody has to crash, fail or rerun.    *)
Fairness ==
    /\ WF_vars(MainStep)
    /\ \A w \in Workers : WF_vars(WorkerStep(w))
    /\ WF_vars(WriterStep)

FairSpec == Spec /\ Fairness

-----------------------------------------------------------------------------
(* Properties *)

\* The types of the variables.
TypeOK ==
    /\ tables \subseteq Row
    /\ IsFiniteSet(tables)
    /\ settings \in StorageSettings
    /\ chunkNodes \in Nat
    /\ threads \in Nat
    /\ main \in MainStates
    /\ run \in Nat
    /\ worker \in [Workers -> WorkerStates]
    /\ unsent \subseteq Emitted
    /\ channel \in Seq(Emitted)
    /\ senderOpen \in BOOLEAN
    /\ writer \in WriterStates
    /\ packed \in BOOLEAN
    /\ chunk \subseteq Emitted
    /\ pending \in Nat
    /\ written \in [nodes : Nat, chunks : Nat]

\* The row a node ends up as in this database.
Stored(n) == RowOf(n, Adapter(UsesPackedTrieKeys(settings))) \in tables

\* The stages of a run between the clearing and the end of the process.
Underway == main \in {"cleared", "building", "joining", "reported", "unwinding"}

(* No node is lost or doubled on its way: from the moment the tables are     *)
(* cleared, and as long as no commit has failed, each node of the build is   *)
(* either not yet sent, or exactly once in the channel, or in the chunk, or  *)
(* in the tables.                                                            *)
EveryNodeOnce ==
    Underway /\ writer # "err" =>
        /\ \A i, j \in 1..Len(channel) : channel[i] = channel[j] => i = j
        /\ \A n \in Emitted : \/ n \in unsent  /\ n \notin Queued \cup chunk /\ ~Stored(n)
                              \/ n \in Queued  /\ n \notin unsent \cup chunk /\ ~Stored(n)
                              \/ n \in chunk   /\ n \notin unsent \cup Queued /\ ~Stored(n)
                              \/ Stored(n)     /\ n \notin unsent \cup Queued \cup chunk

(* Whatever fails or dies, and whatever an earlier state left behind: once    *)
(* the run has cleared the tables they never hold a row that is not, in the   *)
(* database's own encoding, a node this build has sent.                       *)
OnlySentNodes ==
    Underway => \A r \in tables :
        \E n \in Emitted \ unsent :
            r = RowOf(n, Adapter(UsesPackedTrieKeys(settings)))

(* A run that reports left exactly the nodes of the build in the tables, as   *)
(* the readers of this database decode them, and reports their true number    *)
(* and the number of chunks of at most chunk_nodes they take.                 *)
ReportExact ==
    main = "reported" =>
        /\ ReadTables(tables, settings) = Emitted
        /\ written.nodes = Cardinality(Emitted)
        /\ written.nodes <= written.chunks * ChunkLimit
        /\ written.chunks * ChunkLimit < written.nodes + ChunkLimit

(* A slow disk holds the workers back: what the sink keeps in memory never    *)
(* exceeds the channel's capacity plus one chunk, and the writer's count of   *)
(* the chunk is the number of nodes it holds.                                 *)
BoundedMemory ==
    /\ Len(channel) <= Capacity
    /\ Cardinality(chunk) <= ChunkLimit
    /\ writer \in {"recv", "commit", "flush"} => pending = Cardinality(chunk)

(* The tables change only when a run clears them or when a whole chunk is     *)
(* added: chunk_nodes rows at once, fewer only after the channel is closed    *)
(* and drained, and never replacing a row.  This is what a reader, or the     *)
(* process after a crash, can find.                                           *)
WholeChunks ==
    [][tables' # tables =>
         \/ main = "start" /\ tables' = {}
         \/ /\ tables \subseteq tables'
            /\ LET added == Cardinality(tables' \ tables)
               IN  \/ added = ChunkLimit
                   \/ added < ChunkLimit /\ ~senderOpen /\ channel = <<>>]_vars

(* Every run comes to an end: workers blocked on a full channel, the writer   *)
(* waiting for nodes and the main thread joining the writer never wait for    *)
(* each other for good.  That holds too when the pool has fewer threads than  *)
(* the build has partitions, so that the only thread blocks on a full channel *)
(* while a partition has not started.                                         *)
RunEnds == main = "start" ~> main \in {"reported", "exited"}

(* A commit that failed ends the process without a report, even for workers   *)
(* that were blocked on a full channel at the time.                           *)
FailedCommitEndsRun == writer = "err" ~> main = "exited"

-----------------------------------------------------------------------------
\* What the tables promise, seen through this specification's variables.
ChunkedPhase ==
    CASE Underway /\ main # "reported" -> "building"
      [] main = "reported"             -> "done"
      [] OTHER                         -> "stale"

Promise == INSTANCE ChunkedBuild WITH
    Target  <- Emitted,
    Garbage <- Stale,
    nodes   <- ReadTables(tables, settings),
    phase   <- ChunkedPhase

(* The writing run implements the contract of a rebuild: at every commit, at  *)
(* the report and across failures, crashes and reruns.                        *)
ImplementsChunkedBuild == Promise!Spec

=============================================================================
