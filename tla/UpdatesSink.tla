----------------------------- MODULE UpdatesSink -----------------------------
(***************************************************************************)
(* The collecting sink of the parity tests, crates/bench/src/updates.rs,   *)
(* and what the tests then compare with reth's own walk: the root, the     *)
(* number of entries, the digest of the nodes and the TrieUpdates.         *)
(*                                                                         *)
(* Partition workers insert nodes into sixteen locked shards; the shards   *)
(* are merged with extend, which replaces a storage trie as a whole.  An   *)
(* address and a path are sequences of nibbles.  What the generator emits  *)
(* is any multiset of nodes, and its root and count may be wrong, because  *)
(* it is the code under test.  A digest is the set of nodes that were      *)
(* pushed an odd number of times and the number of pushes, which is what   *)
(* NodeDigest shows of it once no push is under way.                       *)
(***************************************************************************)
EXTENDS Naturals, Sequences, FiniteSets, Functions

CONSTANTS
    Workers,    \* partition workers
    Nodes,      \* branch nodes the generator may emit
    Reference,  \* the nodes of reth's own walk
    Walked,     \* accounts with storage: reth records each, nodes or not
    MaxEmits,   \* bound on the nodes of a run
    None        \* Option::None

Shards == 0..15

\* A TrieUpdates: its nodes, and the addresses it has a storage trie for.
RethUpdates == [nodes |-> Reference, tries |-> Walked]
NoUpdates   == [nodes |-> {}, tries |-> {}]

Key(n) == <<n.addr, n.path>>

ASSUME UpdatesSinkAssumption ==
    /\ IsFiniteSet(Workers)
    /\ Reference \subseteq Nodes
    /\ IsFiniteSet(Reference)
    /\ \A n \in Nodes : /\ n.path \in Seq(Shards)
                        /\ \/ n.addr = None
                           \/ n.addr \in Seq(Shards) /\ Len(n.addr) >= 2
    /\ None \notin Walked
    /\ MaxEmits \in Nat
    /\ \A n, m \in Reference : Key(n) = Key(m) => n = m
    /\ \A n \in Reference : n.path # <<>> /\ (n.addr = None \/ n.addr \in Walked)

VARIABLES
    debug,     \* built with debug assertions, as cargo test does
    shard,     \* the TrieUpdates of each shard
    lock,      \* the worker that holds the shard's mutex, or None
    poisoned,  \* shards whose holder panicked
    worker,    \* "idle", "done", "dead", or "emits": inside on_branch_node
    node,      \* the node a worker emits
    digest,    \* the digest of the emitted nodes
    emitted,   \* how often each node was emitted (not part of the program)
    result     \* of the test: whether root and count were right and whether
               \* it passed, or None

vars == <<debug, shard, lock, poisoned, worker, node, digest, emitted, result>>

Init ==
    /\ debug \in BOOLEAN
    /\ shard = [s \in Shards |-> NoUpdates]
    /\ lock = [s \in Shards |-> None]
    /\ poisoned = {}
    /\ worker = [w \in Workers |-> "idle"]
    /\ node = [w \in Workers |-> None]
    /\ digest = [fold |-> {}, count |-> 0]
    /\ emitted = [n \in Nodes |-> 0]
    /\ result = None

-----------------------------------------------------------------------------
(* on_branch_node *)

\* Mutant: a storage node goes to the shard of its own path.
ShardOfPath(n) == n.path[1]

\* hashed_address[0] >> 4, or the first nibble of the path
ShardOf(n) ==
    IF n.addr # None THEN (16 * n.addr[1] + n.addr[2]) \div 16 ELSE n.path[1]

Emits(w) == worker[w] = "emits"
Holds(w) == Emits(w) /\ lock[ShardOf(node[w])] = w

\* digest.push: the node's hash is folded in with XOR.
Push(d, n) == [fold  |-> IF n \in d.fold THEN d.fold \ {n} ELSE d.fold \cup {n},
               count |-> d.count + 1]

\* A worker hands a node to the sink of the test, which pushes it to the
\* digest and calls on_branch_node.
Emit(w, n) ==
    /\ worker[w] = "idle"
    /\ SumFunction(emitted) < MaxEmits
    /\ emitted' = [emitted EXCEPT ![n] = @ + 1]
    /\ digest' = Push(digest, n)
    /\ worker' = [worker EXCEPT ![w] =
                    IF n.addr = None /\ n.path = <<>> THEN "dead" ELSE "emits"]
    /\ node' = [node EXCEPT ![w] = n]
    /\ UNCHANGED <<debug, shard, lock, poisoned, result>>

Lock(w) ==
    /\ Emits(w)
    /\ LET s == ShardOf(node[w])
       IN  /\ s \notin poisoned
           /\ lock[s] = None
           /\ lock' = [lock EXCEPT ![s] = w]
    /\ UNCHANGED <<debug, shard, poisoned, worker, node, digest, emitted, result>>

\* expect("lock is not poisoned") fails.
LockPanics(w) ==
    /\ Emits(w)
    /\ ShardOf(node[w]) \in poisoned
    /\ worker' = [worker EXCEPT ![w] = "dead"]
    /\ UNCHANGED <<debug, shard, lock, poisoned, node, digest, emitted, result>>

InsertInto(u, n) ==
    [nodes |-> {m \in u.nodes : Key(m) # Key(n)} \cup {n},
     tries |-> IF n.addr = None THEN u.tries ELSE u.tries \cup {n.addr}]

\* prev.is_none() in the debug assertion
NotYetIn(u, n) == \A m \in u.nodes : Key(m) # Key(n)

\* Mutant: the guard outlives the call.
StaysLocked(s) == lock

\* The guard is dropped.
Unlock(s) == [lock EXCEPT ![s] = None]

Insert(w) ==
    /\ Holds(w)
    /\ LET n == node[w]
           s == ShardOf(n)
           ok == debug => NotYetIn(shard[s], n)
       IN  /\ shard' = [shard EXCEPT ![s] = InsertInto(@, n)]
           /\ lock' = Unlock(s)
           /\ poisoned' = IF ok THEN poisoned ELSE poisoned \cup {s}
           /\ worker' = [worker EXCEPT ![w] = IF ok THEN "idle" ELSE "dead"]
    /\ UNCHANGED <<debug, node, digest, emitted, result>>

\* A partition is complete.
Stop(w) ==
    /\ worker[w] = "idle"
    /\ worker' = [worker EXCEPT ![w] = "done"]
    /\ UNCHANGED <<debug, shard, lock, poisoned, node, digest, emitted, result>>

-----------------------------------------------------------------------------
(* into_trie_updates and the comparison *)

\* Extending a map with those of shard s drops n: an account node goes with
\* its path, a storage node with its whole trie.
Replaces(s, n) ==
    IF n.addr = None THEN ~NotYetIn(shard[s], n) ELSE n.addr \in shard[s].tries

\* The shards are merged in order, each replacing what earlier ones held.
IntoTrieUpdates ==
    [nodes |-> UNION {{n \in shard[s].nodes :
                         \A later \in (s + 1)..15 : ~Replaces(later, n)} :
                       s \in Shards},
     tries |-> UNION {shard[s].tries : s \in Shards}]

\* Mutant: nothing is dropped.
KeepAll(u) == u

WithoutEmptyStorageTries(u) ==
    [u EXCEPT !.tries = {a \in @ : \E n \in u.nodes : n.addr = a}]

Collected  == WithoutEmptyStorageTries(IntoTrieUpdates)
RethsNodes == WithoutEmptyStorageTries(RethUpdates)

\* NodeDigest::of_trie_updates
OfTrieUpdates(u) == [fold |-> u.nodes, count |-> Cardinality(u.nodes)]

\* Mutant: the digest is not compared.
NotCompared == TRUE

DigestEqual == digest = OfTrieUpdates(RethsNodes)
MapsEqual   == Collected = RethsNodes

\* The generator returns a root, right or wrong, and the test asserts, or the
\* panic of a worker reaches the test.
Join ==
    /\ result = None
    /\ \A w \in Workers : worker[w] \in {"done", "dead"}
    /\ \E root, walked \in BOOLEAN :
         result' = [root |-> root, walked |-> walked,
                    passed |-> /\ \A w \in Workers : worker[w] = "done"
                               /\ root /\ walked /\ DigestEqual /\ MapsEqual]
    /\ UNCHANGED <<debug, shard, lock, poisoned, worker, node, digest, emitted>>

Over == result # None /\ UNCHANGED vars

Work(w) == (\E n \in Nodes : Emit(w, n)) \/ Lock(w) \/ LockPanics(w)
             \/ Insert(w) \/ Stop(w)

Next == (\E w \in Workers : Work(w)) \/ Join \/ Over

Spec == Init /\ [][Next]_vars /\ WF_vars(Join) /\ \A w \in Workers : WF_vars(Work(w))

-----------------------------------------------------------------------------
(* Properties *)

Emitted == {n \in Nodes : emitted[n] > 0}
AllDone == \A w \in Workers : worker[w] = "done"

(* Whatever the order in which workers reach the shards, the merged updates   *)
(* hold one node for every key emitted, and no other: extend drops no half of *)
(* a storage trie, because a trie is never spread over two shards.            *)
CollectsEmitted ==
    AllDone =>
        /\ Collected.nodes \subseteq Emitted
        /\ \A n \in Emitted :
             Cardinality({m \in Collected.nodes : Key(m) = Key(n)}) = 1

Expected(n) == IF n \in Reference THEN 1 ELSE 0

(* A parity test passes exactly if the root and the number of entries are     *)
(* right and every node of reth's walk was emitted once and no other node at  *)
(* all: not if one is doubled or replaced, with or without debug assertions,  *)
(* although the collected maps hide that; and always otherwise, although reth *)
(* records accounts whose storage trie has no nodes and no worker is spared   *)
(* the panic of another.                                                      *)
ParityDecides ==
    result # None =>
        (result.passed <=> /\ result.root /\ result.walked
                           /\ \A n \in Nodes : emitted[n] = Expected(n))

(* The comparison of the maps validates that of the digests, as parity.rs     *)
(* says: where the digest accepts the nodes the maps are equal, and with      *)
(* debug assertions, whose panic a doubled key does not survive, the digest   *)
(* accepts them exactly if the maps are equal.                                *)
MapsValidateDigest ==
    AllDone => /\ DigestEqual => MapsEqual
               /\ debug /\ MapsEqual => DigestEqual

(* Every test ends, with an answer or a panic: a worker that panics inside a  *)
(* shard leaves nobody waiting for it.                                        *)
TestEnds == <>(result # None)

=============================================================================
