# Verification of reth-trie-rebuild-bench

TLA+ specifications of the benchmark's own logic, checked with TLC on small
instances, and TLAPS proofs about the writing path for every instance. The
repository rebuilds the state trie of a reth datadir with a parallel generator
(`PartitionedStateRoot`) or with reth's serial walk, writes the trie tables, and
compares the results by root and by digest. Its promise is in the README: *equal
digest and count means the generator wrote reth's rows*. The specifications
follow that promise from the channel between two threads up to the `PARITY OK`
line of a session, and cover the two test suites and the scripts that the promise
rests on.

## The system

| Part | State | Operations | Interacts with |
|---|---|---|---|
| Trie tables (`rebuild.rs`, `mdbx.rs`) | rows of AccountsTrie and StoragesTrie, the storage settings entry | `clear_trie_tables`, `write_trie_updates_with`, `uses_packed_trie_keys` | written by both rebuilds, read by the digest and by reth's walker |
| `MdbxWriteSink` (`writer.rs`) | bounded channel, chunk, `pending`, `Written` | `new`, `on_branch_node`, `write_chunks`, `finish` | fed by partition workers on the CPU pool, one writer thread, joined by `main` |
| `reth_rebuild` (`rebuild.rs`) | intermediate state, totals | walk, write, commit, repeat | reth's `StateRoot`, the tables |
| `NodeDigest` (`digest.rs`) | two XOR folds and a count, all atomics | `push`, `snapshot`, `of_trie_updates` | pushed into by many threads |
| `digest_trie_tables` (`mdbx.rs`) | counts per range | serial account scan, sixteen parallel range scans | `NodeDigest` |
| `PeakAlloc` (`alloc.rs`) | `current`, `peak` | `alloc`, `dealloc`, `realloc`, `reset_peak` | every thread of the process |
| `datadir_bench` | flags, current job, exit status | clear, rebuild, write loop, read-only jobs, checks | all of the above |
| `bench.sh` | output files, verdict | three invocations and a summary | `datadir_bench` |
| `TrieUpdatesSink` (`updates.rs`, `lib.rs`) | sixteen locked shards | `on_branch_node`, `into_trie_updates`, `without_empty_storage_tries` | partition workers, the parity tests |
| `ProgressSink` (`progress.rs`) | atomic count, time of the last line behind a mutex | `on_progress`, pass-through | wraps every sink, called by partition workers |
| `MemoryState` (`memory.rs`), `write_hashed_state` (`mdbx.rs`) | accounts, slots, cached sorted form; hashed tables | insert, remove, open cursors, write | the parity and database tests, the example |
| `synth.rs`, `make_datadir` | a configuration and a random stream | `synthesize`, write a datadir | `MemoryState` |
| AWS scripts | driver, instance, timer, detached session, bucket | launch, prepare, hand-off, upload, shut down, poll, fetch | `bench.sh` |

What is hard here: several threads share a channel, a digest and an allocator; a
commit can fail while workers are blocked on the channel; the process can die
between two commits and the next run finds what it left; reth's walker believes
stored rows; a check that is skipped looks like a check that passed; a cached
state may be older than the maps it was made from; a remote call may take effect
without an answer. The full list, each at its line, is `hazards` in `PROJECT.json`.

What makes each part correct:

- *writing run*: no node is lost, doubled or left over; memory is bounded; a
  report is exact; every run ends; what is committed is whole chunks.
- *reth rebuild*: every entry is walked once across chunks, on tables that hold
  nothing ahead of the walk; a report is exact.
- *digest*: it separates node sets however pushes interleave; the scan covers
  every row once.
- *allocator*: counters exact when no call is in flight, never wrapped, and a peak
  close to the highest number of live bytes.
- *binary and script*: a successful exit and a parity line mean what they say.
- *parity test*: it accepts exactly the runs that emit each of reth's nodes once,
  under the right root and count.
- *progress*: lines are begun an interval apart and truthful, no entry is missed.
- *hashed state*: memory, tables and counts describe one and the same walk.
- *AWS run*: the benchmark starts on a ready box, results are final when fetched,
  and nothing handed off runs for good.

## Modules

| Module | Models |
|---|---|
| `TrieTables` | rows, encodings, `TrieUpdates`, `write_trie_updates_with`, reading |
| `NodeStore` | abstract: the trie tables as a map from keys to contents |
| `TableStore` | `write_trie_updates`, `write_storage_settings`, clearing; implements `NodeStore` |
| `ChunkedBuild` | abstract contract of a rebuild: emptied, grows by commits, complete at the report, may be abandoned |
| `WriteSink` | the `--write` run: main thread, workers, channel, writer; implements `ChunkedBuild` |
| `RethRebuild` | the `--reth-rebuild` loop; implements `ChunkedBuild` |
| `NodeDigest` | the byte string of a node, concurrent pushes, the generator run that reports a digest |
| `TablesDigest` | `digest_trie_tables`, extends `NodeDigest` |
| `PeakAlloc` | the allocator and the order in which `main` resets it; is its own model (`PeakAlloc.cfg`) |
| `DatadirBench` | `main`, with a build taken by the contract the two rebuilds implement |
| `BenchScript` | a session of `bench.sh`, or one invocation by hand; extends `DatadirBench` |
| `UpdatesSink` | `TrieUpdatesSink`, the merge of its shards, the comparison of the parity tests |
| `ProgressSink` | `on_progress` against a clock |
| `HashedState` | `MemoryState`, its cache, `write_hashed_state`, what a run reads |
| `SynthState` | `synthesize` and the example; extends `HashedState` |
| `AwsRun` | `run.sh` and what it starts on the instance; is its own model (`AwsRun.cfg`) |
| `TrieTablesProofs` | lemmas about the tables, shared by the three proofs below that use them |
| `WriteSinkProofs`, `RethRebuildProofs`, `TableStoreProofs`, `UpdatesSinkProofs`, `SharedCounterProofs` (`ProgressSink`, `PeakAlloc`, `NodeDigest`, `TablesDigest`), `BenchScriptProofs` (also `AwsRun`), `SynthStateProofs` | theorems |
| `MC*` | instances |

`TrieTables` is shared by `WriteSink`, `RethRebuild` and `TableStore`; the first two
refine `ChunkedBuild`; `DatadirBench` uses that contract (`BeginBuild`,
`CommitChunk`, `BuildReports`, `Panic`) in place of either, and `BenchScript`
composes its invocations. A digest is what `NodeDigest` and `TablesDigest` show it
to be, the set of rows; `DatadirBench` and `BenchScript` represent it so. `AwsRun`
takes `bench.sh` as a step that ends at some time or never. `ProgressSink` forwards
every node unchanged, so the modules of the sinks it wraps leave it out.

### How state and actions correspond to the code

*TrieTables.* A row is a node and the key encoding it was written in. The two
halves of `write_trie_updates_with` are separate: the account half upserts,
deletes what it finds, and counts changes; the storage half is reth's cursor,
marked external. A chunk's `TrieUpdates` has no removals and no deleted tries,
but the operators treat them, because a chunk that did mark a trie deleted is the
mistake to rule out. A row in the other encoding is read as a path nobody wrote.

*TableStore.* The tables as the database tests use them, with updates that also
remove and delete. Its refinement of `NodeStore` says that a read after any
sequence of writes finds what a map would hold, although the storage table keeps
duplicates and keys are encoded. Settings are recorded only while the tables are
empty, which is when the callers do it.

*WriteSink.* `main`, `worker` and `writer` are the program counters of the three
kinds of threads. A worker is a partition; it starts only while fewer than `threads`
others are running, `threads` being the size of the CPU pool. Each send, each receive with the insertion after it, and each
commit is a step. A commit is atomic because nothing of an MDBX transaction is
visible before it, so a failure or a death inside one equals one before it.
`CommitFails` drops the receiver and the queue with it, after which `SendPanics`
is the failed `expect` in a worker (`writer.rs:86`). `BuildFail` is `expect("state root")`: main
unwinds and drops the sink, and the writer, detached, goes on until `Exit`. `Crash`
is the death of the process and every failure outside the build, whose effect on
the database is the same. `NextRun` is both the next iteration of `--repeat` and
the next invocation.

*RethRebuild.* The walk is reth's and taken by its contract: it visits `N`
entries in order, entry `i` completes the nodes `Completes[i]`, it yields after
the first entry that brings it to `threshold` updated nodes, and it starts from
the state it is given, or from the beginning. That contract needs empty tables
ahead of the walk, which is what `NothingAhead` shows.

*NodeDigest.* An XOR fold of ideal hashes is the set of byte strings folded in an
odd number of times. The byte string itself is modelled field by field (the
padding of `Nibbles::pack`, the length byte, the flags beside zero defaults),
since that is where two nodes could meet; only widths are abstracted, a 32-byte
value being one element. `pushed` is a history variable.

*TablesDigest.* Addresses have two digits in base `Base` (64 in base 16 in the
code); `RangeLow` and `RangeHigh` follow the code's padding. A behaviour is a
scan or, with `phase = "emits"`, a generator run of `NodeDigest`.

*PeakAlloc.* A call is what the system allocator does, then its counter updates,
one atomic operation per step. `dealloc` gives the block back before it
subtracts, so another thread may own it first. Subtraction is modulo `Width`.
`reset_peak` is a load and a store; what keeps an allocation from falling between
them is the order of `main` (`Runs`): it resets, starts the pool's work and the
writer, and waits for both (`PoolEnds`); a pool also scans the tables after a build
that wrote them (`ScanBegins`), and is joined before the next reset. Two history
variables keep the highest value since the reset, `highCount` of the counter and
`highLive` of the bytes the system has handed out; they differ, because memory is
handed out before it is added and given back before it is subtracted.

*DatadirBench.* `pc` and `task` follow `main`; `built` is what the build under way
comes up with. The generator is the code under test, so that is any rows and any
root, drawn anew in every run of a `--repeat` loop (`Outcomes`); a read run draws a
root of its own. `printed` keeps the roots and digests the output shows. reth's walker meets only some
rows (`Met`), so wrong rows elsewhere pass its check, and only the digest
comparison of the script can tell.

*UpdatesSink.* A worker locks a shard, inserts, and unlocks; with debug assertions
a second insertion under a key panics and poisons the shard, after which every
later lock panics too. The merge is `extend` in shard order: an account node is
replaced alone, a storage trie as a whole. `Emit` is the sink of
`check` in `tests/parity.rs`, which pushes the node to the digest first; `Join` is the
end of `check` with its four assertions: root, count, digest and maps. The generator
emits any multiset, wrong nodes included, and may return a wrong root or count.
The digest is what `NodeDigest` shows it to be, the nodes pushed an odd number of
times and the number of pushes. `emitted` is a history variable.

*ProgressSink.* `on_progress` step by step: the count before the mutex, the test,
the time stamp (a second reading of the clock) and the line under it. Time passes
between any two steps. A line is its count, its remainder, the time it was begun, at
which the stamp is set (`began`, a history variable), and the time it came out.

*HashedState* and *SynthState.* A state put together by a test in any order, or by
`synthesize`, whose draws are any values of their range. The cached form is taken
when cursors are opened. HashedStorages keeps duplicates, so a put adds a row.
`make_datadir` runs on a new datadir or on one an earlier run left.

*AwsRun.* The driver (`run.sh`), the box (`restore.sh`, `setup.sh`, the timer,
`finalize.sh`) and EC2. Every call may fail, and may have taken effect all the
same; the driver may be killed, the laptop may sleep, the instance may be
interrupted, the benchmark may hang. The timer may fire at any moment after it is
set. EC2 may forget a terminated instance before any poll has found it terminated,
whether the laptop slept or the polls failed.

*BenchScript.* `file` is the digest in each output file, which may be there from
an earlier session; `left` is a history variable, the rows each run of this
session left. `set -e` and `pipefail` are the `"aborted"` state.

## Runs

| Run | Checks | Shows | States |
|---|---|---|---|
| `write_sink` | `TypeOK` `EveryNodeOnce` `OnlySentNodes` `ReportExact` `BoundedMemory` `WholeChunks` `ImplementsChunkedBuild` `RunEnds` `FailedCommitEndsRun` | the writing run is right under all failures, crashes and reruns, and nobody waits for good | 106,268 |
| `reth_rebuild` | `TypeOK` `WalkContinues` `NothingAhead` `RebuildExact` `RebuildEnds` `RebuildImplementsChunkedBuild` | reth's loop, same contract | 1,120 |
| `table_store` | `ImplementsNodeStore` | the tables are a map | 144 |
| `tables_digest` | `TypeOK` `DigestDecides` `ScanExact` | the digest decides set equality, the parallel scan is exact | 40,843 |
| `peak_alloc` | `CurrentExact` `PeakExact` `PeakNearLive` | the counters are exact, reset included, and how far the peak is from the live bytes | 1,501,236 |
| `bench_script` | `CleanExitVouches` `ParityMeansIdentical` `IdenticalMeansParity` | what exit status 0 and the parity line vouch for | 125,360 |
| `expected_root` | `ExpectedRootChecked` violated | finding 1 | |
| `bench_script_baseline` | `SummaryDecides` violated | finding 2 | |
| `updates_sink` | `CollectsEmitted` `ParityDecides` `MapsValidateDigest` `TestEnds` | what the parity test accepts, what its two comparisons say of each other, and that it ends | 32,349 |
| `progress_sink` | `LinesAnIntervalApart` `LinesTruthful` `EveryEntryCounted` | the lines, and the final count | 64,221 |
| `hashed_state` | `CacheFresh` `RunWalksAll` `SynthShape` `SourcesAgree` `DatadirHoldsState` | memory, tables and counts agree | 745,689 |
| `aws_run` | `BenchOnReadyBox` `FetchIsFinal` `HandedOffEnds` | the run on AWS under every failure | 730 |

Each property of a passing run has a mutant in `PROJECT.json`: a definition next
to the one it replaces, marked `Mutant` in the module, that changes it as a
plausible bug would; TLC then finds the property violated.

### Bounds

- `write_sink`: five nodes of two tries in two partitions, one storage trie
  spread over both; a pool of one thread, on which a partition waits while the other
  is blocked on the full channel, or of two; chunks of 1 (from 0), 2 and 3, so that the last
  chunk is full in one case and partly filled in the others; a channel smaller than
  a partition's output, so workers block; two runs, so that a run meets what a dead
  one left.
  `MaxRuns` is the only counter that is capped.
- `reth_rebuild`: thresholds 1, 2, 4 and 9 against six completions of at most two
  nodes: yields after one entry, after several, exactly at the end, and never.
- `table_store`: updates of up to two of eight nodes, two of them roots, with up to
  one removal and with or without a deletion; both encodings. The state space is
  finite without a bound.
- `tables_digest`: two ranges with addresses at their ends; seven nodes pairwise
  close in the encoding; all sets of rows for a scan, two pushes for each of two
  threads in a generator run: enough for a node twice and every interleaving of two.
- `peak_alloc`: three threads, three blocks, five calls, so that both kinds of
  difference between peak and live bytes occur; `Width` is 64 with sizes 1
  and 2, far from the sum of live blocks as in the code and close enough to zero
  that a subtraction too early would wrap.
- `bench_script`: by hand every set of flags and `--repeat` 0 to 2, from any tables;
  under the script the four invocations of a session. The generator may come up
  with the right result, a row missing, a wrong row, a wrong root, or a wrong row
  together with the root the walker derives from it, and with another of these in the
  second run; files of an earlier session may
  hold any of these rows or no digest.
- `updates_sink`: two workers and up to four emissions of six nodes: a storage trie
  of two nodes whose paths lie in different shards, a wrong node under a right key,
  a root node; four emissions allow every node of the reference and one too many;
  right and wrong root and count.
- `progress_sink`: two workers, an empty batch, more entries than expected, and time
  for three intervals of two ticks, so that both workers can find a line due at once
  and a line can come out late.
- `hashed_state`: two addresses, two slots, the values 0 to 2; six configurations,
  with `small_slots_max` 0, an empty large contract and no contracts among them.
- `aws_run`: no bounds.

### Fairness

`WriteSink` assumes weak fairness of the main thread, of each worker and of the
writer: the operating system schedules runnable threads, and a commit returns,
with success or failure. `RethRebuild` assumes it of its one thread, `UpdatesSink`
of each worker and of the test that joins them, `ProgressSink` of each worker.
A mutex is taken weakly fairly: no worker of these finite runs can be overtaken
for good. In `AwsRun` the driver, the scripts on the box and the shutdown go on, and
a timer that is set fires. Nothing makes the benchmark end, or a poll succeed. Failures,
crashes and reruns are never assumed to happen.

Deadlock is checked in every run: a finished system stutters explicitly
(`Stopped`, `Reported`, `Over`, `ScanStopped`, `ScriptEnded`, `SynthOver`), so a
state in which every thread waits is an error. `PeakAlloc`, `TableStore` and a state
put together by hand never stop.

## Proofs

Seven modules prove theorems for every value of the constants, that is for every
set of nodes, rows, workers, accounts and so on, and for any number of runs; the
bounds of the runs above play no part. An eighth, `TrieTablesProofs`, holds the
lemmas about the tables.

| Module | Theorem | Establishes |
|---|---|---|
| `WriteSinkProofs` | `TypeCorrect` | `TypeOK` |
| | `NoNodeLost` | `EveryNodeOnce` |
| | `TablesOnlySentNodes` | `OnlySentNodes` |
| | `MemoryBounded` | `BoundedMemory` |
| | `ReportedRunIsExact` | `ReportExact` |
| | `OnlyWholeChunks` | `WholeChunks` |
| | `Refinement` | `ImplementsChunkedBuild` |
| `RethRebuildProofs` | `TypeCorrect` | `TypeOK` |
| | `EveryEntryWalkedOnce` | `WalkContinues` |
| | `WalkMeetsNoNode` | `NothingAhead` |
| | `ReportedRebuildIsExact` | `RebuildExact` |
| | `Refinement` | `RebuildImplementsChunkedBuild` |
| `TableStoreProofs` | `Refinement` | `ImplementsNodeStore` |
| `BenchScriptProofs` | `CleanExit` | `CleanExitVouches` |
| | `ParityVouches` | `ParityMeansIdentical` |
| | `FailureIsReal` | `IdenticalMeansParity` |
| | `BenchStartsOnReadyBox` | `BenchOnReadyBox` |
| | `FetchedIsFinal` | `FetchIsFinal` |
| `UpdatesSinkProofs` | `CollectsWhatIsEmitted` | `CollectsEmitted` |
| | `ParityTestDecides` | `ParityDecides` |
| | `MapsValidateTheDigest` | `MapsValidateDigest` |
| `SharedCounterProofs` | `LinesAreApart` | `LinesAnIntervalApart` |
| | `LinesAreTruthful` | `LinesTruthful` |
| | `WalkIsCounted` | the safety half of `EveryEntryCounted` |
| | `CounterIsExact` | `CurrentExact` |
| | `PeakIsExact` | `PeakExact` |
| | `PeakIsNearLive` | `PeakNearLive` |
| | `BufInjective` | different nodes, different byte strings |
| | `DigestTypeCorrect` | `TypeOK` |
| | `DigestVouches` | `DigestDecides` |
| | `ScanIsExact` | `ScanExact` |
| `SynthStateProofs` | `CacheIsFresh` | `CacheFresh` |
| | `RunWalksAllEntries` | `RunWalksAll` |
| | `SynthHasShape` | `SynthShape` |
| | `SourcesAlwaysAgree` | `SourcesAgree` |
| | `DatadirHoldsWhatIsPrinted` | `DatadirHoldsState` |

For each specification one theorem says that an inductive invariant holds in every
reachable state (`Invariant`, and `ProgressInvariant`, `AllocInvariant`,
`ScanInvariant`, `MachineInvariant` where a module proves several); it is proved
action by action, and the others follow from it. Every safety property the runs
check is among the theorems.
The assumptions are the named `ASSUME` of the modules, which TLC evaluates on every
run.

### WriteSink

The assumptions that matter are that the generator emits finitely many nodes, no two
under one key, and never a root node; all three are what `TrieSink` promises and what
the `debug_assert` in `write_chunks` checks.

None of the properties is inductive: that a report is exact depends on
where each node was all along. The inductive invariant `IInv` says, with `Enc`
the encoding of this database:

- `Stages`: which stage of `main` goes with which state of workers, channel and
  writer (nothing is held outside a build, the sender lives exactly as long as the
  build, a worker that is done has sent all its nodes);
- `WriterPlace`: `pending` is below the limit while the writer receives and at it
  when it commits, a flush happens only after the channel is closed and drained,
  and a writer that has returned holds no chunk;
- `Apart`: unsent nodes, queue, chunk and tables are pairwise disjoint, the queue
  without repetition;
- `Kept`: unless a commit failed, they cover the build;
- `Counts`: `written.nodes` is the number of rows, and all chunks but the last are
  full;
- `TypeOK`, `BoundedMemory` and `OnlySentNodes`, which the others need and which
  are inductive only together with them.

`TrieTablesProofs` supplies what a commit does: on tables without a row under a
chunk's keys it adds exactly one row per node, removes none, and counts them
(`CommitAddsChunk`), and rows written in the database's encoding are read back as
the nodes they were (`ReadsBack`). `Refinement` maps `Clear` to
`Begin`, `Commit` to `Commit`, `JoinOk` to `Report`, `Exit`, `Crash` and `NextRun`
to `Abandon` or a stutter, and everything else to a stutter.

### RethRebuild

Assumed of reth's walk: each of its entries completes finitely many nodes, no node is
completed twice or shares its key with another, none is a root node, and the
threshold is positive. The invariant ties everything to one number, the entries
committed so far. `Position`: the intermediate state is that number, and a chunk
handed out goes from there to the next state or to the end. `Behind`: the tables are
the rows of exactly the nodes completed up to there, and the totals count them.
`NothingAhead` and `RebuildExact` are then what `Behind` says during and after the
loop, and the refinement maps the steps as for the writing run; that a commit takes no
row away needs that the nodes of a chunk are new.

### TableStore

Every row can be read in the encoding in use and none is a root node (`Readable`).
With that, a write of any updates (upserts, removals, deleted tries, in any
combination) is shown to change what is read exactly as `NodeStore` changes its map;
the argument is by key, one lemma for the account half and one for the storage half.

### BenchScript

`BinaryInv` says what is established at each point of `main`: which job it can be at
(`Stages`, `Sequenced`), that no root but the expected one was printed in any run,
except the one that is about to be checked (`Matching`), that `matches` is the number
of builds begun, less the one whose root is not checked yet, and the tables are
complete after each (`Checked`), and that exit status 0 comes only after
all jobs the flags ask for (`Exited`). `Session` says of every run the script is past
that it left rows whose digest is in its file and from which the walker derives the
expected root; a run the script skips or has not come to has left nothing. It is this
second half that makes files of an earlier session harmless: those the session
rewrites agree with `left`, and any other that disagrees adds a digest.

Without the baseline run, `PARITY OK` does not say that the expected root is the root
of the state: a generator that is wrong in a consistent way (wrong rows and the root
that belongs to them), a wrong `EXPECTED_ROOT`, and an old `reth-rebuild.txt` with the
same rows or without a digest give it too. What holds in every session is that the
runs agree with each other, with the expected root and with every digest in the
directory; that the rows are reth's holds if the baseline was run. The attempt to prove
more showed this, and the instance contains such generators and files.

### UpdatesSink

Assumed: addresses and paths are sequences of nibbles, an address has at least two,
reth's nodes have different keys, none is a root node of the account trie, and the
addresses of its storage nodes are among those it walked; those nodes are finitely
many. `ShardsApart` says that a
shard holds only nodes of its own, one for a key, and exactly their tries, from which
`MergeKeepsAll`: `extend` never replaces anything, because a node's shard is a function
of its address, or of its path for an account node (`ShardOfKey`). `Kept` and `Counted`
follow every emission while workers insert: it is on its way, or a node is in the shard
under its key, and with debug assertions the number of emissions of a node is the
number of workers on their way with it plus one if it is stored. `Blamed` keeps the
reason of a panic, since the worker that finds a shard poisoned is not the one that
emitted too much. `Digested` says that the fold holds the nodes emitted an odd number
of times and that the count is the number of emissions. A fold equal to reth's nodes
then has each of them emitted at least once, and an equal count leaves room for no
other emission (`DigestIsExact`): this half needs no debug assertion, and the maps
follow from it (`ExactMaps`).

### ProgressSink

A line is logged three steps after a worker found it due. `Mutex` says that only the
holder of the lock is in between, `Stamps` that the stamp is not older than the
last line's beginning, so that a line found due is begun an interval after the one
before it began and not before that one is out, including the one that is stamped and
not logged yet, and `Reached`
that the count a worker carries is one the walk had reached. `WalkIsCounted` needs one
more equation (`Walks`): the count and the batches still to report make up the entries
there are. Assumed are finitely many workers and an interval of any length, zero
included.

### Sums

Several of the properties compare a counter with a sum over a set. The library's sum is a
`CHOOSE` of a function that satisfies a recursion over subsets, and nothing the provers
have unfolds it. The proofs define the sum once more without recursion, as the number
of pairs `<<x, i>>` with `i \in 1..f[x]` (`Units`, `Weight`), and `SumIsWeight` shows
that the two agree on every finite set: the weight satisfies the recursion, so the
`CHOOSE` has something to choose, and a minimal subset on which its choice differs from
the weight is contradictory, since finite subsets are well-founded. Everything else
(`SumStep`, `SumUpdate`, `SumEqual`, `SumOfSizes`, `SumSeq`, ...) is then about
cardinalities of finite sets. The models use the library's sums and are not changed by
this.

### PeakAlloc

Assumed: finitely many threads, blocks and sizes, sizes positive, and a width larger
than (blocks + threads) times any size, as 2^64 is. `Counter` says by how much the
counter is off in the middle of calls: it is the sum of the blocks whose addition has
happened, plus what the `fetch_sub`s that have not happened yet will take away. That sum
is below the width, so nothing wraps (`TotalBound`), and no subtraction goes below zero,
because what it takes away is one of the summands. `OwnBlocks` keeps the calls of
different threads on different blocks; a block given back and handed to another thread
before the counter knows is owed by one call and added by another. `Highest` says that
the highest value since the reset is the peak or is in the hands of a thread that has
not done its `fetch_max` yet, and `Alone` that nobody is in a call between the load and
the store of `reset_peak`.

For `PeakNearLive`, `LiveCount` compares the counter with the live bytes: they differ by
what the calls under way have still to add and to subtract. `Maxima` follows the two
highest values. The counter reaches a new maximum in an addition, whose thread owes
nothing, so that it exceeds the live bytes by at most a block of each other thread. The
live bytes reach theirs when a block is handed out; the counter can then be behind by a
block of every thread, but only while all of them are adding, and the first that has
added makes up for its own.

### NodeDigest and TablesDigest

Assumed: finitely many nodes and threads, and that the masks of a branch node say how
many hashes it has, as in reth's `BranchNodeCompact`. `BufInjective` is proved from where
each field starts in the byte string (`BufParts`) and from `PackInjective`: the packed
path with its length gives the nibbles back.

`Parity` says of each fold, at any moment, that it holds the nodes for which the pushes
begun plus the pushes that have not reached this fold are odd in number: beginning a push
changes both summands, the `fetch_xor` changes the fold and one of them. `Counted` says
that the count lacks exactly the pushes under way. Between pushes the folds then give the
parity of each node's pushes and the count their sum; a set has each of its nodes at
least once by parity, so an equal count leaves no room for a node pushed three times or
a wrong one pushed twice (`Decides`). This is where one side has to be a set.

For the scan, `RangesPartition` shows that each address lies in the range of exactly one
first nibble, for every base. `RowsOnce` says that what is pushed is what the cursors
have returned and that each of them counts its own, `RangesDone` that a range that is
done has returned all its rows and has no push under way, `ScanOrder` in which order
the phases come. At the snapshot all ranges are done, so nothing is under way, the rows
are pushed once each, and the counts of disjoint ranges add up to the size of the table.

### AwsRun

`HandedOff`: before the hand-off no session runs, from the timer on both scripts have
succeeded, and a driver that fetches has seen the instance off, after which nothing on
the box can change the bucket. The module has no constants, so the proof covers what
TLC's run covers; it names the reason.

### HashedState and SynthState

Assumed: addresses and slots are finitely many, a configuration consists of natural
numbers, and a used datadir has finite tables without a storage row that lacks its
account, which is what an earlier run leaves. `TablesWhole` says the same of the
database at all times; `WriteKeepsWhole` shows that `write_hashed_state` keeps it,
whatever accounts it replaces, and `WholeIsWalked` that a run then walks every row.
`EoasMade` and `ContractsMade` follow `synthesize`: the accounts made and the sizes
still to come make up the configuration, and each contract has the slots drawn for it,
less those the last one still lacks.

### Only model-checked

- The liveness properties (`RunEnds`, `FailedCommitEndsRun`, `RebuildEnds`, `TestEnds`,
  `EveryEntryCounted`, `HandedOffEnds`), which TLAPS does not reach.
- The two findings, which are counterexamples.

## Findings

1. `datadir_bench --clear-trie-tables --reth-serial --expected-root R` clears the
   tables and exits 0 without computing or checking a root.
2. `bench.sh` with `BASELINE=0` in a fresh `$OUT` ends inside the summary without
   a verdict, because `awk` fails on the missing `reth-rebuild.txt`.

Other places where a comment promises more than the code does; the models contain
these behaviours, and the properties are stated so that they hold with them:

- `writer.rs:86` asserts that the writer is alive on every send. A commit that
  fails drops the receiver while workers still emit, so the panic replaces the
  error `finish` would have returned. The run still ends without a report
  (`FailedCommitEndsRun`).
- `digest.rs:6` claims that equal count and fold mean equal multisets. XOR cancels
  pairs: two multisets that double different nodes agree. It holds when one side is
  a set, as in every comparison with tables (`DigestDecides`).
- `progress.rs:15`, "walked so far": a worker that counted early and logs late prints
  less than the line before. A line shows a count the walk had reached, not the
  current one (`LinesTruthful`).
- `run.sh:8`, "caps the instance lifetime": the timer is set after the preparation.
  A driver that is killed before, or whose launch answer or whose one call to
  terminate is lost, leaves an instance without a limit. The cap holds from the
  hand-off on (`HandedOffEnds`).
- `alloc.rs:35`, "the highest number of live heap bytes": a block that is used again
  before its `fetch_sub` is counted twice, and two allocations may never meet in the
  counter, so the peak can be above or below that number. It is the maximum of the
  counter (`PeakExact`), and off by at most a block for every thread but one
  (`PeakNearLive`).
- `progress.rs:15`, "at most once per interval": a worker that has stamped the time may
  log late, and the next line can follow it at once. Lines are begun an interval
  apart, and three never come out within one (`LinesAnIntervalApart`).
- `run.sh:131`, "Poll until the instance is gone": only the answer `terminated` ends
  the loop, and EC2 describes a terminated instance for about an hour. If the laptop
  sleeps through that hour, or the few polls that fall into it fail, the loop never
  ends. No property says that the driver gets to its fetch.

## Not modelled

- `runtime` (one call into reth), `human_bytes`, printing that nothing reads, timing,
  samplers, cache dropping and the RPC call: no state of interest.
- `DatabaseSource` and its per-partition read transactions: nothing writes the hashed
  tables during a run, so all of them see one state.
- SplitMix64: that equal seeds give equal states is arithmetic of a fixed function.
- The AWS key pair, security group and role, and what `restore.sh` and `setup.sh` do
  inside: each is folded into a step that succeeds or fails. Running `restore.sh`
  again by hand on a box where it died half-way (it takes the partial `mdbx.dat` for
  a complete one) is outside `run.sh`.
- `PartitionedStateRoot`, `StateRoot` and MDBX: not in this repository, taken by
  contract. The generator may come up with anything; reth's walk is a sequence of
  entries that complete nodes.

## Plan

Done: every component of the repository with state of its own, and a proof of every
safety property the runs check.

What is left is what the prover does not reach: the liveness properties, under the
fairness stated above. A change of the code is followed in the module that models it,
in the lemma of the action it changes and in the mutant next to it.
