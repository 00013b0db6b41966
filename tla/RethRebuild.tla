------------------------------ MODULE RethRebuild ------------------------------
(***************************************************************************)
(* reth's own rebuild run outside the pipeline: reth_rebuild and rebuild   *)
(* in crates/bench/src/rebuild.rs, as --reth-rebuild calls them.           *)
(*                                                                         *)
(* One thread loops: open a write transaction, let reth's serial walk run  *)
(* from the intermediate state until it has enough updated nodes, write    *)
(* those nodes in the same transaction and commit.  The intermediate state *)
(* lives in memory only, so a rebuild that dies starts over.               *)
(*                                                                         *)
(* The walk itself is reth's.  It visits the hashed entries in key order;  *)
(* Completes[i] are the branch nodes that are complete once entry i has    *)
(* been walked, and entry N + 1 stands for the end of the walk, which      *)
(* completes the nodes still open.                                         *)
(***************************************************************************)
EXTENDS TrieTables

CONSTANTS
    N,           \* number of hashed entries
    Completes,   \* the nodes each entry of the walk completes
    Thresholds,  \* updated nodes after which the walk yields
    Settings,    \* values of the metadata entry
    Stale,       \* nodes an earlier state may have left in the tables
    MaxRuns,     \* bound on the runs of a behaviour
    None         \* Option::None

Between(i, j) == UNION {Completes[k] : k \in i..j}
TrieNodes     == Between(1, N + 1)

ASSUME RethRebuildAssumption ==
    /\ N \in Nat
    /\ Completes \in [1..(N + 1) -> SUBSET Node]
    /\ \A i \in 1..(N + 1) : IsFiniteSet(Completes[i])
    /\ \A i, j \in 1..(N + 1) : i # j => Completes[i] \cap Completes[j] = {}
    /\ NodeMap(TrieNodes)
    /\ \A n \in TrieNodes : n.path # EmptyPath
    /\ Thresholds \subseteq Nat \ {0}
    /\ Settings \subseteq StorageSettings
    /\ Stale \subseteq Node
    /\ NodeMap(Stale)
    /\ IsFiniteSet(Stale)
    /\ MaxRuns \in Nat
    /\ None \notin Nat

VARIABLES
    tables,     \* the committed rows of the trie tables
    settings,   \* the metadata entry, which no run changes
    threshold,  \* the walk's threshold
    main,       \* where the main thread is
    run,        \* runs started so far
    packed,     \* the encoding read when the rebuild began
    state,      \* entries behind the intermediate state, or None
    progress,   \* what the walk has handed out and nobody has committed
    totals      \* the running totals

vars == <<tables, settings, threshold, main, run, packed, state, progress, totals>>

MainStates == {"start", "opened", "walk", "write", "returning",
               "reported", "exited"}

NoTotals == [entries |-> 0, written |-> 0, chunks |-> 0]

\* Where a walk resumes, and whether it stops after entry j.
Resume == IF state = None THEN 0 ELSE state

Yields(i, j) == Cardinality(Between(i + 1, j)) >= threshold

Init ==
    /\ settings \in Settings
    /\ threshold \in Thresholds
    /\ tables \in SUBSET {RowOf(n, Adapter(UsesPackedTrieKeys(settings))) :
                              n \in Stale}
    /\ main = "start"
    /\ run = 1
    /\ packed = FALSE
    /\ state = None
    /\ progress = None
    /\ totals = NoTotals

-----------------------------------------------------------------------------
\* reth_rebuild reads the encoding before anything else.
ReadEncoding ==
    /\ main = "start"
    /\ packed' = UsesPackedTrieKeys(settings)
    /\ main' = "opened"
    /\ UNCHANGED <<tables, settings, threshold, run, state, progress, totals>>

\* clear_trie_tables, and the loop begins.
Clear ==
    /\ main = "opened"
    /\ tables' = ClearTrieTables(tables)
    /\ main' = "walk"
    /\ UNCHANGED <<settings, threshold, run, packed, state, progress, totals>>

\* Mutant: the intermediate state is not put back.
StateDropped(j) == None

\* Mutant: the next walk resumes behind an entry that was not walked.
StateSkips(j) == j + 1

\* The intermediate state of a walk that yields after entry j.
StateAfter(j) == j

\* root_with_progress yields: state.take() goes in, the next state comes out.
Progress ==
    /\ main = "walk"
    /\ \E j \in (Resume + 1)..N :
        /\ Yields(Resume, j)
        /\ \A k \in (Resume + 1)..(j - 1) : ~Yields(Resume, k)
        /\ state' = StateAfter(j)
        /\ progress' = [done    |-> FALSE,
                        entries |-> j - Resume,
                        nodes   |-> Between(Resume + 1, j)]
    /\ main' = "write"
    /\ UNCHANGED <<tables, settings, threshold, run, packed, totals>>

\* root_with_progress completes: the state was taken and none replaces it.
Complete ==
    /\ main = "walk"
    /\ \A j \in (Resume + 1)..N : ~Yields(Resume, j)
    /\ state' = None
    /\ progress' = [done    |-> TRUE,
                    entries |-> N - Resume,
                    nodes   |-> Between(Resume + 1, N + 1)]
    /\ main' = "write"
    /\ UNCHANGED <<tables, settings, threshold, run, packed, totals>>

\* Mutant: what the last walk hands out is dropped.
HandedIfMore(p) == IF p.done THEN {} ELSE p.nodes

\* The updates of either kind of progress.
Handed(p) == p.nodes

\* Mutant: the loop waits for progress after the walk is complete.
StageWaits(p) == IF p.done THEN "waiting" ELSE "walk"

\* Whether the loop returns.
Stage(p) == IF p.done THEN "returning" ELSE "walk"

\* Write and commit the walk's nodes, add up the totals, loop or return.
Write ==
    /\ main = "write"
    /\ LET result == WriteTrieUpdatesWith(tables, UpdatesOf(Handed(progress)),
                                          Adapter(packed))
       IN  /\ tables' = result.rows
           /\ totals' = [entries |-> totals.entries + progress.entries,
                         written |-> totals.written + result.written,
                         chunks  |-> totals.chunks + 1]
    /\ main' = Stage(progress)
    /\ progress' = None
    /\ UNCHANGED <<settings, threshold, run, packed, state>>

\* The loop returns its totals and the run reports them.
Return ==
    /\ main = "returning"
    /\ main' = "reported"
    /\ UNCHANGED <<tables, settings, threshold, run, packed, state, progress, totals>>

\* The walk, a write or the commit fails and expect ends the process, or the
\* process dies: an open transaction is never seen again.
Crash ==
    /\ main \in {"start", "opened", "walk", "write", "returning"}
    /\ main' = "exited"
    /\ packed' = FALSE
    /\ state' = None
    /\ progress' = None
    /\ totals' = NoTotals
    /\ UNCHANGED <<tables, settings, threshold, run>>

\* The next invocation on this datadir.
NextRun ==
    /\ main \in {"reported", "exited"}
    /\ run < MaxRuns
    /\ run' = run + 1
    /\ main' = "start"
    /\ packed' = FALSE
    /\ state' = None
    /\ progress' = None
    /\ totals' = NoTotals
    /\ UNCHANGED <<tables, settings, threshold>>

Stopped ==
    /\ main \in {"reported", "exited"}
    /\ run = MaxRuns
    /\ UNCHANGED vars

RebuildStep == ReadEncoding \/ Clear \/ Progress \/ Complete \/ Write \/ Return

Next == RebuildStep \/ Crash \/ NextRun \/ Stopped

Spec == Init /\ [][Next]_vars

\* The one thread keeps running and the disk answers; nobody has to crash.
FairSpec == Spec /\ WF_vars(RebuildStep)

-----------------------------------------------------------------------------
(* Properties *)

\* The types of the variables.
TypeOK ==
    /\ tables \subseteq Row
    /\ settings \in StorageSettings
    /\ threshold \in Nat \ {0}
    /\ main \in MainStates
    /\ run \in Nat
    /\ packed \in BOOLEAN
    /\ state = None \/ state \in 1..N
    /\ \/ progress = None
       \/ progress \in [done : BOOLEAN, entries : 0..N, nodes : SUBSET TrieNodes]
    /\ totals \in [entries : Nat, written : Nat, chunks : Nat]

\* Entries the committed walks have covered.
Walked == IF main = "write" THEN totals.entries + progress.entries
                            ELSE totals.entries

(* Chunk by chunk the walk covers every entry once: the entries counted so    *)
(* far are exactly those behind the intermediate state that the next walk     *)
(* resumes from, and all of them once a walk has completed.                   *)
WalkContinues ==
    main \in {"walk", "write"} =>
        Walked = IF main = "write" /\ progress.done THEN N ELSE Resume

(* reth's walker takes a stored node's hash instead of descending, so a       *)
(* rebuild is a full walk only if the tables never hold a node at or ahead of *)
(* its position: they hold exactly the nodes completed behind it.             *)
NothingAhead ==
    main \in {"walk", "write"} =>
        ReadTables(tables, settings) = Between(1, totals.entries)

(* A rebuild that reports left exactly the nodes of the trie in the tables,   *)
(* counted each of them once and every entry once.                            *)
RebuildExact ==
    main = "reported" =>
        /\ ReadTables(tables, settings) = TrieNodes
        /\ totals.entries = N
        /\ totals.written = Cardinality(TrieNodes)

(* Every rebuild ends, however small the threshold: the walk moves on with    *)
(* every chunk.                                                               *)
RebuildEnds == main = "start" ~> main \in {"reported", "exited"}

-----------------------------------------------------------------------------
\* What the tables promise, seen through this specification's variables.
ChunkedPhase ==
    CASE main \in {"walk", "write", "returning"} -> "building"
      [] main = "reported"                       -> "done"
      [] OTHER                                   -> "stale"

Promise == INSTANCE ChunkedBuild WITH
    Target  <- TrieNodes,
    Garbage <- Stale,
    nodes   <- ReadTables(tables, settings),
    phase   <- ChunkedPhase

(* reth's chunked rebuild implements the same contract as the writing run.    *)
RebuildImplementsChunkedBuild == Promise!Spec

=============================================================================
