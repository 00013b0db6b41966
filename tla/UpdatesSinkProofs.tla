--------------------------- MODULE UpdatesSinkProofs ---------------------------
(***************************************************************************)
(* What the parity tests collect and accept, for any number of workers,    *)
(* any nodes and any order in which the workers reach the shards.          *)
(*                                                                         *)
(* The invariant says what is in a shard while the workers still insert,   *)
(* counts every emission of a node (in its shard, on its way there, or     *)
(* lost to one that took the same key), and relates the digest to the      *)
(* emissions.                                                              *)
(***************************************************************************)
EXTENDS UpdatesSink, FiniteSetTheorems, SequenceTheorems, TLAPS

\* The nodes on_branch_node finds a shard for.
Sharded == {n \in Nodes : n.addr # None \/ n.path # <<>>}

NoneDead == \A w \in Workers : worker[w] # "dead"

In(n)       == IF n \in shard[ShardOf(n)].nodes THEN 1 ELSE 0
InFlight(n) == {w \in Workers : Emits(w) /\ node[w] = n}

WorkerStates == {"idle", "emits", "done", "dead"}

\* The types of the variables.
Typed ==
    /\ debug \in BOOLEAN
    /\ shard \in [Shards -> [nodes : SUBSET Sharded, tries : SUBSET {n.addr : n \in Nodes}]]
    /\ worker \in [Workers -> WorkerStates]
    /\ node \in [Workers -> Nodes \cup {None}]
    /\ \A w \in Workers : Emits(w) => node[w] \in Sharded
    /\ emitted \in [Nodes -> Nat]
    /\ digest \in [fold : SUBSET Nodes, count : Nat]

(* A shard holds emitted nodes of its own, one for a key, and exactly the     *)
(* storage tries that have nodes in it.                                       *)
ShardsApart ==
    \A s \in Shards :
        /\ \A n \in shard[s].nodes : ShardOf(n) = s /\ emitted[n] > 0
        /\ \A n, m \in shard[s].nodes : Key(n) = Key(m) => n = m
        /\ shard[s].tries = {n.addr : n \in shard[s].nodes} \ {None}

(* While no worker has panicked, an emitted node is on its way to its shard,  *)
(* or a node is there under its key.                                          *)
Kept ==
    NoneDead =>
        \A n \in Emitted :
            /\ n \in Sharded
            /\ \/ InFlight(n) # {}
               \/ \E m \in shard[ShardOf(n)].nodes : Key(m) = Key(n)

(* No node is stored or on its way more often than it was emitted, and with   *)
(* debug assertions no emission is lost.                                      *)
Counted ==
    \A n \in Sharded :
        /\ In(n) + Cardinality(InFlight(n)) <= emitted[n]
        /\ debug /\ NoneDead => In(n) + Cardinality(InFlight(n)) = emitted[n]

(* A panic has a reason.                                                      *)
Blamed ==
    poisoned # {} \/ ~NoneDead => \E n \in Nodes : emitted[n] > Expected(n)

(* The digest: a node is folded in if it was emitted an odd number of times,  *)
(* and the count is that of the different nodes only if none came twice.      *)
Digested ==
    /\ \A n \in Nodes : n \in digest.fold <=> emitted[n] % 2 = 1
    /\ IsFiniteSet(Emitted)
    /\ Cardinality(Emitted) <= digest.count
    /\ digest.count = Cardinality(Emitted) <=> \A n \in Nodes : emitted[n] <= 1

(* An answer is that of the shards and the digest as they are, and no worker  *)
(* goes on.                                                                   *)
Answered ==
    result # None =>
        /\ \A w \in Workers : worker[w] \in {"done", "dead"}
        /\ result.passed <=> /\ AllDone /\ result.root /\ result.walked
                             /\ DigestEqual /\ MapsEqual

IInv == Typed /\ ShardsApart /\ Kept /\ Counted /\ Blamed /\ Digested /\ Answered

-----------------------------------------------------------------------------
(* A node's shard is one of the sixteen; its key alone decides which, and for *)
(* a node of a storage trie the address alone.                                *)
LEMMA ShardOfKey ==
    /\ \A n \in Sharded : ShardOf(n) \in Shards
    /\ \A n, m \in Sharded : Key(n) = Key(m) => ShardOf(n) = ShardOf(m)
    /\ \A n, m \in Sharded : n.addr # None /\ n.addr = m.addr => ShardOf(n) = ShardOf(m)
<1>1. ASSUME NEW n \in Sharded PROVE ShardOf(n) \in Shards
  <2>1. CASE n.addr # None
    <3>1. n.addr[1] \in 0..15 /\ n.addr[2] \in 0..15
      BY <2>1, UpdatesSinkAssumption, ElementOfSeq DEF Sharded, Shards
    <3>2. \A a, b \in 0..15 : (16 * a + b) \div 16 \in 0..15
      OBVIOUS
    <3> QED BY <2>1, <3>1, <3>2 DEF ShardOf, Shards
  <2>2. CASE n.addr = None
    <3>1. n.path \in Seq(Shards) /\ n.path # <<>>
      BY <2>2, UpdatesSinkAssumption DEF Sharded
    <3>2. n.path[1] \in Shards
      BY <3>1, EmptySeq, ElementOfSeq
    <3> QED BY <2>2, <3>2 DEF ShardOf
  <2> QED BY <2>1, <2>2
<1>2. ASSUME NEW n \in Sharded, NEW m \in Sharded, Key(n) = Key(m)
      PROVE  ShardOf(n) = ShardOf(m)
  BY <1>2 DEF Key, ShardOf
<1>3. ASSUME NEW n \in Sharded, NEW m \in Sharded, n.addr # None, n.addr = m.addr
      PROVE  ShardOf(n) = ShardOf(m)
  BY <1>3 DEF ShardOf
<1> QED BY <1>1, <1>2, <1>3

(* No node of the reference is without a shard.                               *)
LEMMA ReferenceSharded == Reference \subseteq Sharded
    BY UpdatesSinkAssumption DEF Sharded

(* The workers that are on their way with a node are finitely many.           *)
LEMMA InFlightFinite ==
    ASSUME NEW n
    PROVE  IsFiniteSet(InFlight(n)) /\ Cardinality(InFlight(n)) \in Nat
    BY UpdatesSinkAssumption, FS_Subset, FS_CardinalityType DEF InFlight

(* The invariant holds before the first node is emitted.                      *)
LEMMA InitIInv == Init => IInv
<1> SUFFICES ASSUME Init PROVE IInv
  OBVIOUS
<1>1. \A s \in Shards : shard[s].nodes = {} /\ shard[s].tries = {}
  BY DEF Init, NoUpdates
<1>2. \A n : InFlight(n) = {}
  BY DEF Init, InFlight, Emits
<1>3. Typed
  BY DEF Init, Typed, NoUpdates, WorkerStates, Emits
<1>4. ShardsApart
  BY <1>1 DEF ShardsApart
<1>5. Kept
  BY DEF Init, Kept, Emitted
<1>6. Counted
  <2> SUFFICES ASSUME NEW n \in Sharded
               PROVE  In(n) = 0 /\ Cardinality(InFlight(n)) = 0 /\ emitted[n] = 0
    BY DEF Counted
  <2>1. In(n) = 0
    BY <1>1, ShardOfKey DEF In
  <2>2. emitted[n] = 0
    BY DEF Init, Sharded
  <2> QED BY <1>2, <2>1, <2>2, FS_EmptySet
<1>7. Blamed /\ Answered
  BY DEF Init, Blamed, NoneDead, Answered
<1>8. Digested
  <2>1. Emitted = {} /\ \A n \in Nodes : emitted[n] = 0
    BY DEF Init, Emitted
  <2>2. digest.fold = {} /\ digest.count = 0
    BY DEF Init
  <2> QED BY <2>1, <2>2, FS_EmptySet DEF Digested
<1> QED BY <1>3, <1>4, <1>5, <1>6, <1>7, <1>8 DEF IInv

(* A push keeps the digest that of the emitted nodes.                         *)
LEMMA EmitDigested ==
    ASSUME Typed, Digested, NEW n \in Nodes,
           emitted' = [emitted EXCEPT ![n] = emitted[n] + 1],
           digest' = Push(digest, n)
    PROVE  Digested' /\ digest' \in [fold : SUBSET Nodes, count : Nat]
<1>1. \A m \in Nodes : /\ emitted[m] \in Nat
                       /\ emitted'[m] = IF m = n THEN emitted[m] + 1 ELSE emitted[m]
  BY DEF Typed
<1>2. /\ digest'.fold = IF n \in digest.fold THEN digest.fold \ {n} ELSE digest.fold \cup {n}
      /\ digest'.count = digest.count + 1 /\ digest.count \in Nat
      /\ digest' \in [fold : SUBSET Nodes, count : Nat]
  BY DEF Push, Typed
<1>3. \A m \in Nodes : m \in digest'.fold <=> emitted'[m] % 2 = 1
  <2> SUFFICES ASSUME NEW m \in Nodes PROVE m \in digest'.fold <=> emitted'[m] % 2 = 1
    OBVIOUS
  <2>1. m \in digest.fold <=> emitted[m] % 2 = 1
    BY DEF Digested
  <2>2. \A k \in Nat : (k + 1) % 2 = 1 <=> k % 2 # 1
    OBVIOUS
  <2> QED BY <1>1, <1>2, <2>1, <2>2
<1>4. Emitted' = Emitted \cup {n}
  BY <1>1 DEF Emitted
<1>5. /\ IsFiniteSet(Emitted) /\ Cardinality(Emitted) \in Nat
      /\ Cardinality(Emitted) <= digest.count
      /\ digest.count = Cardinality(Emitted) <=> \A m \in Nodes : emitted[m] <= 1
  BY FS_CardinalityType DEF Digested
<1>6. /\ IsFiniteSet(Emitted')
      /\ Cardinality(Emitted') = IF n \in Emitted THEN Cardinality(Emitted)
                                                  ELSE Cardinality(Emitted) + 1
  BY <1>4, <1>5, FS_AddElement
<1>7. CASE n \in Emitted
  <2>1. emitted'[n] > 1
    BY <1>1, <1>7 DEF Emitted
  <2>2. ~\A m \in Nodes : emitted'[m] <= 1
    BY <1>1, <2>1
  <2>3. Cardinality(Emitted') < digest'.count
    BY <1>2, <1>5, <1>6, <1>7
  <2> QED BY <1>2, <1>3, <1>5, <1>6, <1>7, <2>2, <2>3 DEF Digested
<1>8. CASE n \notin Emitted
  <2>1. emitted[n] = 0 /\ emitted'[n] = 1
    BY <1>1, <1>8 DEF Emitted
  <2>2. (\A m \in Nodes : emitted'[m] <= 1) <=> \A m \in Nodes : emitted[m] <= 1
    BY <1>1, <2>1
  <2>3. /\ Cardinality(Emitted') <= digest'.count
        /\ digest'.count = Cardinality(Emitted') <=> digest.count = Cardinality(Emitted)
    BY <1>2, <1>5, <1>6, <1>8
  <2> QED BY <1>2, <1>3, <1>5, <1>6, <2>2, <2>3 DEF Digested
<1> QED BY <1>7, <1>8

(* A worker calls on_branch_node: the node is on its way, or the root of the  *)
(* account trie makes the worker panic.                                       *)
LEMMA EmitIInv ==
    ASSUME IInv, NEW w \in Workers, NEW n \in Nodes, Emit(w, n) PROVE IInv'
<1> DEFINE ok == n \in Sharded
<1>1. /\ worker[w] = "idle"
      /\ emitted' = [emitted EXCEPT ![n] = emitted[n] + 1]
      /\ worker' = [worker EXCEPT ![w] = IF ok THEN "emits" ELSE "dead"]
      /\ node' = [node EXCEPT ![w] = n]
      /\ digest' = Push(digest, n)
      /\ UNCHANGED <<debug, shard, poisoned, result>>
  BY DEF Emit, Sharded
<1> USE DEF IInv
<1>2. \A m \in Nodes : /\ emitted[m] \in Nat /\ emitted'[m] \in Nat
                        /\ emitted'[m] = IF m = n THEN emitted[m] + 1 ELSE emitted[m]
  BY <1>1 DEF Typed
<1>3. NoneDead' => NoneDead /\ ok
  BY <1>1 DEF NoneDead, Typed
<1>4. ASSUME NEW m
      PROVE  InFlight(m)' = IF ok /\ m = n THEN InFlight(m) \cup {w} ELSE InFlight(m)
  BY <1>1 DEF InFlight, Emits, Typed
<1>5. w \notin InFlight(n)
  BY <1>1 DEF InFlight, Emits
<1>6. \A m \in Sharded : m \in Nodes /\ In(m)' = In(m) /\ In(m) \in 0..1
  BY <1>1 DEF In, Sharded
<1>13. Digested' /\ digest' \in [fold : SUBSET Nodes, count : Nat]
  BY <1>1, EmitDigested
<1>7. Typed'
  BY <1>1, <1>13 DEF Typed, WorkerStates, Emits
<1>8. ShardsApart'
  BY <1>1, <1>2 DEF ShardsApart, Typed, Sharded
<1>9. Kept'
  <2> SUFFICES ASSUME NoneDead', NEW m \in Nodes, emitted'[m] > 0
               PROVE  /\ m \in Sharded
                      /\ \/ InFlight(m)' # {}
                         \/ \E k \in shard[ShardOf(m)].nodes : Key(k) = Key(m)
    BY <1>1 DEF Kept, Emitted
  <2>1. CASE m = n
    BY <1>3, <1>4, <2>1
  <2>2. CASE m # n
    <3>1. m \in Emitted
      BY <1>2, <2>2 DEF Emitted
    <3> QED BY <1>3, <1>4, <2>2, <3>1 DEF Kept
  <2> QED BY <2>1, <2>2
<1>10. Counted'
  <2> SUFFICES ASSUME NEW m \in Sharded
               PROVE  /\ In(m) + Cardinality(InFlight(m)') <= emitted'[m]
                      /\ debug /\ NoneDead' =>
                           In(m) + Cardinality(InFlight(m)') = emitted'[m]
    BY <1>1, <1>6 DEF Counted
  <2>1. /\ In(m) + Cardinality(InFlight(m)) <= emitted[m]
        /\ debug /\ NoneDead' => In(m) + Cardinality(InFlight(m)) = emitted[m]
        /\ Cardinality(InFlight(m)) \in Nat /\ IsFiniteSet(InFlight(m))
    BY <1>3, InFlightFinite DEF Counted
  <2>2. CASE m = n
    <3>1. Cardinality(InFlight(m)') = Cardinality(InFlight(m)) + 1
      BY <1>4, <1>5, <2>1, <2>2, FS_AddElement
    <3> QED BY <1>2, <1>6, <2>1, <2>2, <3>1
  <2>3. CASE m # n
    BY <1>2, <1>4, <1>6, <2>1, <2>3
  <2> QED BY <2>2, <2>3
<1>11. Blamed'
  <2>1. \A m \in Nodes : Expected(m) \in Nat
    BY DEF Expected
  <2>2. CASE ok /\ NoneDead /\ poisoned = {}
    BY <1>1, <2>2 DEF Blamed, NoneDead, Typed
  <2>3. CASE ~NoneDead \/ poisoned # {}
    <3>1. PICK m \in Nodes : emitted[m] > Expected(m)
      BY <2>3 DEF Blamed
    <3>2. emitted'[m] > Expected(m)
      BY <1>2, <2>1, <3>1
    <3> QED BY <3>2 DEF Blamed, Expected
  <2>4. CASE ~ok
    <3>1. Expected(n) = 0
      BY <2>4, ReferenceSharded DEF Expected
    <3>2. emitted'[n] > 0
      BY <1>2
    <3> QED BY <3>1, <3>2 DEF Blamed, Expected
  <2> QED BY <2>2, <2>3, <2>4
<1>12. Answered'
  BY <1>1 DEF Answered
<1> QED BY <1>7, <1>8, <1>9, <1>10, <1>11, <1>12, <1>13

(* The holder of a shard inserts its node, and panics if the debug assertion  *)
(* finds one under the same key.                                              *)
LEMMA InsertIInv ==
    ASSUME IInv, NEW w \in Workers, Insert(w) PROVE IInv'
<1>0. PICK n : n = node[w]
  OBVIOUS
<1> DEFINE s  == ShardOf(n)
           ok == debug => NotYetIn(shard[s], n)
<1>1. /\ worker[w] = "emits"
      /\ shard' = [shard EXCEPT ![s] = InsertInto(shard[s], n)]
      /\ poisoned' = IF ok THEN poisoned ELSE poisoned \cup {s}
      /\ worker' = [worker EXCEPT ![w] = IF ok THEN "idle" ELSE "dead"]
      /\ UNCHANGED <<debug, node, digest, emitted, result>>
  BY <1>0 DEF Insert, Holds, Emits
<1> USE DEF IInv
<1>2. n \in Sharded /\ n \in Nodes /\ s \in Shards
  BY <1>0, <1>1, ShardOfKey DEF Typed, Emits, Sharded
<1> HIDE DEF s, ok
<1>3. /\ shard'[s].nodes = {m \in shard[s].nodes : Key(m) # Key(n)} \cup {n}
      /\ shard'[s].tries = IF n.addr = None THEN shard[s].tries
                                             ELSE shard[s].tries \cup {n.addr}
      /\ \A t \in Shards : t # s => shard'[t] = shard[t]
  BY <1>1, <1>2 DEF Typed, InsertInto
<1>4. \A m \in Sharded : /\ m \in Nodes /\ ShardOf(m) \in Shards
                         /\ emitted[m] \in Nat
                         /\ Key(m) = Key(n) => ShardOf(m) = s
  BY <1>2, ShardOfKey DEF s, Sharded, Typed
<1>5. NoneDead' => NoneDead /\ ok
  BY <1>1 DEF NoneDead, Typed
<1>6. \A m : InFlight(m)' = InFlight(m) \ {w}
  BY <1>1 DEF InFlight, Emits, Typed
<1>7. w \in InFlight(n) /\ \A m : m # n => w \notin InFlight(m)
  BY <1>0, <1>1 DEF InFlight, Emits
<1>8. /\ Cardinality(InFlight(n)) \in Nat \ {0}
      /\ Cardinality(InFlight(n)') = Cardinality(InFlight(n)) - 1
  <2>1. IsFiniteSet(InFlight(n)) /\ Cardinality(InFlight(n)) \in Nat
    BY InFlightFinite
  <2>2. Cardinality(InFlight(n)) # 0
    BY <1>7, <2>1, FS_EmptySet
  <2>3. Cardinality(InFlight(n) \ {w}) = Cardinality(InFlight(n)) - 1
    BY <1>7, <2>1, FS_RemoveElement
  <2> QED BY <1>6, <2>1, <2>2, <2>3
<1>9. emitted[n] > 0 /\ In(n) + Cardinality(InFlight(n)) <= emitted[n]
  <2>1. In(n) + Cardinality(InFlight(n)) <= emitted[n] /\ In(n) \in 0..1
    BY <1>2 DEF Counted, In
  <2> QED BY <1>2, <1>4, <1>8, <2>1
<1>10. Typed'
  <2>1. shard'[s] \in [nodes : SUBSET Sharded, tries : SUBSET {m.addr : m \in Nodes}]
    BY <1>1, <1>2 DEF Typed, InsertInto
  <2> QED BY <1>1, <1>2, <2>1 DEF Typed, WorkerStates, Emits
<1>11. ShardsApart'
  <2> SUFFICES ASSUME NEW t \in Shards
               PROVE  /\ \A m \in shard'[t].nodes : ShardOf(m) = t /\ emitted[m] > 0
                      /\ \A m, k \in shard'[t].nodes : Key(m) = Key(k) => m = k
                      /\ shard'[t].tries = {m.addr : m \in shard'[t].nodes} \ {None}
    BY <1>1 DEF ShardsApart
  <2>1. CASE t # s
    BY <1>3, <2>1 DEF ShardsApart
  <2>2. CASE t = s
    <3>1. \A m \in shard'[s].nodes : ShardOf(m) = s /\ emitted[m] > 0
      BY <1>2, <1>3, <1>9 DEF ShardsApart, s
    <3>2. \A m, k \in shard'[s].nodes : Key(m) = Key(k) => m = k
      BY <1>2, <1>3 DEF ShardsApart
    <3>3. {m.addr : m \in shard'[s].nodes}
            = {m.addr : m \in shard[s].nodes} \cup {n.addr}
      BY <1>3 DEF Key
    <3>4. shard[s].tries = {m.addr : m \in shard[s].nodes} \ {None}
      BY <1>2 DEF ShardsApart
    <3>5. shard'[s].tries = {m.addr : m \in shard'[s].nodes} \ {None}
      <4>1. CASE n.addr = None
        BY <4>1, <1>3, <3>3, <3>4
      <4>2. CASE n.addr # None
        BY <4>2, <1>3, <3>3, <3>4
      <4> QED BY <4>1, <4>2
    <3> QED BY <2>2, <3>1, <3>2, <3>5
  <2> QED BY <2>1, <2>2
<1>12. Kept'
  <2> SUFFICES ASSUME NoneDead', NEW m \in Emitted
               PROVE  /\ m \in Sharded
                      /\ \/ InFlight(m)' # {}
                         \/ \E k \in shard'[ShardOf(m)].nodes : Key(k) = Key(m)
    BY <1>1 DEF Kept, Emitted
  <2>1. /\ m \in Sharded
        /\ \/ InFlight(m) # {}
           \/ \E k \in shard[ShardOf(m)].nodes : Key(k) = Key(m)
    BY <1>5 DEF Kept
  <2>2. CASE Key(m) = Key(n)
    BY <1>3, <1>4, <2>1, <2>2
  <2>3. CASE Key(m) # Key(n) /\ InFlight(m) # {}
    BY <1>6, <1>7, <2>1, <2>3
  <2>4. CASE Key(m) # Key(n) /\ \E k \in shard[ShardOf(m)].nodes : Key(k) = Key(m)
    <3>1. PICK k \in shard[ShardOf(m)].nodes : Key(k) = Key(m)
      BY <2>4
    <3>2. k \in shard'[ShardOf(m)].nodes
      BY <1>3, <1>4, <2>1, <2>4, <3>1
    <3> QED BY <2>1, <3>1, <3>2
  <2> QED BY <2>1, <2>2, <2>3, <2>4
<1>13. Counted'
  <2> SUFFICES ASSUME NEW m \in Sharded
               PROVE  /\ In(m)' + Cardinality(InFlight(m)') <= emitted[m]
                      /\ debug /\ NoneDead' =>
                           In(m)' + Cardinality(InFlight(m)') = emitted[m]
    BY <1>1 DEF Counted
  <2>1. /\ In(m) + Cardinality(InFlight(m)) <= emitted[m]
        /\ debug /\ NoneDead' => In(m) + Cardinality(InFlight(m)) = emitted[m]
        /\ Cardinality(InFlight(m)) \in Nat /\ emitted[m] \in Nat
        /\ In(m) \in 0..1 /\ In(m)' \in 0..1
    BY <1>4, <1>5, InFlightFinite DEF Counted, In
  <2>2. debug /\ NoneDead' => \A k \in shard[s].nodes : Key(k) # Key(n)
    BY <1>5 DEF ok, NotYetIn
  <2>3. CASE m = n
    <3>1. In(n)' = 1
      BY <1>2, <1>3 DEF In, s
    <3>2. debug /\ NoneDead' => In(n) = 0
      BY <2>2 DEF In, s
    <3> QED BY <1>8, <2>1, <2>3, <3>1, <3>2
  <2>4. CASE m # n
    <3>1. InFlight(m)' = InFlight(m)
      BY <1>6, <1>7, <2>4
    <3>2. m \in shard'[ShardOf(m)].nodes => m \in shard[ShardOf(m)].nodes
      BY <1>3, <1>4, <2>4
    <3>3. debug /\ NoneDead' =>
            (m \in shard[ShardOf(m)].nodes => m \in shard'[ShardOf(m)].nodes)
      BY <1>3, <1>4, <2>2, <2>4
    <3>4. In(m)' <= In(m) /\ (debug /\ NoneDead' => In(m)' = In(m))
      BY <3>2, <3>3 DEF In
    <3> QED BY <2>1, <3>1, <3>4
  <2> QED BY <2>3, <2>4
<1>14. Blamed'
  <2>1. CASE ok
    BY <1>1, <2>1 DEF Blamed, NoneDead, Typed, Expected
  <2>2. CASE ~ok
    <3>1. PICK m \in shard[s].nodes : Key(m) = Key(n)
      BY <2>2 DEF ok, NotYetIn
    <3>2. m \in Nodes /\ emitted[m] \in Nat /\ emitted[m] > 0
      BY <1>2, <3>1 DEF Typed, ShardsApart, Sharded
    <3>3. CASE m = n
      <4>1. In(n) = 1
        BY <3>3 DEF In, s
      <4>2. emitted[n] > 1
        BY <1>2, <1>4, <1>8, <1>9, <4>1
      <4>3. emitted[n] > Expected(n)
        BY <1>2, <1>4, <4>2 DEF Expected
      <4> QED BY <1>1, <1>2, <4>3 DEF Blamed, Expected
    <3>4. CASE m # n
      <4>1. m \notin Reference \/ n \notin Reference
        BY <3>1, <3>4, UpdatesSinkAssumption
      <4>2. emitted[m] > Expected(m) \/ emitted[n] > Expected(n)
        BY <1>9, <3>2, <4>1 DEF Expected
      <4> QED BY <1>1, <1>2, <3>2, <4>2 DEF Blamed, Expected
    <3> QED BY <3>3, <3>4
  <2> QED BY <2>1, <2>2
<1>15. Answered'
  BY <1>1 DEF Answered
<1>16. Digested'
  BY <1>1 DEF Digested, Emitted
<1> QED BY <1>10, <1>11, <1>12, <1>13, <1>14, <1>15, <1>16

(* expect("lock is not poisoned") fails: the worker panics without a node     *)
(* having been stored, because another one did.                               *)
LEMMA LockPanicsIInv ==
    ASSUME IInv, NEW w \in Workers, LockPanics(w) PROVE IInv'
<1>1. /\ worker[w] = "emits" /\ poisoned # {}
      /\ worker' = [worker EXCEPT ![w] = "dead"]
      /\ UNCHANGED <<debug, shard, poisoned, node, digest, emitted, result>>
  BY DEF LockPanics, Emits
<1> USE DEF IInv
<1>2. ~NoneDead'
  BY <1>1 DEF NoneDead, Typed
<1>3. \A m : InFlight(m)' \subseteq InFlight(m)
  BY <1>1 DEF InFlight, Emits, Typed
<1>4. Typed'
  BY <1>1 DEF Typed, WorkerStates, Emits
<1>5. ShardsApart' /\ Kept' /\ Blamed'
  BY <1>1, <1>2 DEF ShardsApart, Kept, Blamed, Expected
<1>6. Counted'
  <2> SUFFICES ASSUME NEW m \in Sharded
               PROVE  In(m) + Cardinality(InFlight(m)') <= emitted[m]
    BY <1>1, <1>2 DEF Counted, In
  <2>1. /\ In(m) + Cardinality(InFlight(m)) <= emitted[m]
        /\ Cardinality(InFlight(m)) \in Nat /\ IsFiniteSet(InFlight(m))
        /\ In(m) \in 0..1 /\ emitted[m] \in Nat
    BY InFlightFinite DEF Counted, In, Typed, Sharded
  <2>2. /\ Cardinality(InFlight(m)') <= Cardinality(InFlight(m))
        /\ Cardinality(InFlight(m)') \in Nat
    BY <1>3, <2>1, FS_Subset, FS_CardinalityType
  <2> QED BY <2>1, <2>2
<1>7. Answered'
  BY <1>1 DEF Answered
<1>8. Digested'
  BY <1>1 DEF Digested, Emitted
<1> QED BY <1>4, <1>5, <1>6, <1>7, <1>8

(* A partition is complete.                                                   *)
LEMMA StopIInv ==
    ASSUME IInv, NEW w \in Workers, Stop(w) PROVE IInv'
<1>1. /\ worker[w] = "idle"
      /\ worker' = [worker EXCEPT ![w] = "done"]
      /\ UNCHANGED <<debug, shard, poisoned, node, digest, emitted, result>>
  BY DEF Stop
<1> USE DEF IInv
<1>2. NoneDead' = NoneDead
  BY <1>1 DEF NoneDead, Typed
<1>3. \A m : InFlight(m)' = InFlight(m)
  BY <1>1 DEF InFlight, Emits, Typed
<1>4. Typed'
  BY <1>1 DEF Typed, WorkerStates, Emits
<1>5. ShardsApart' /\ Kept'
  BY <1>1, <1>2, <1>3 DEF ShardsApart, Kept, Emitted
<1>6. Counted' /\ Blamed'
  BY <1>1, <1>2, <1>3 DEF Counted, In, Blamed, Expected
<1>7. Answered'
  BY <1>1 DEF Answered
<1>8. Digested'
  BY <1>1 DEF Digested, Emitted
<1> QED BY <1>4, <1>5, <1>6, <1>7, <1>8

(* A step that leaves the shards, the workers and the emissions alone: one    *)
(* that takes a lock, the answer of the test, or a stuttering step.           *)
LEMMA FrameIInv ==
    ASSUME IInv, UNCHANGED <<debug, shard, poisoned, worker, node, digest, emitted>>,
           UNCHANGED result \/ Join
    PROVE  IInv'
<1> USE DEF IInv
<1>1. Typed' /\ ShardsApart' /\ Digested'
  BY DEF Typed, ShardsApart, Emits, Digested, Emitted
<1>2. \A m : InFlight(m)' = InFlight(m)
  BY DEF InFlight, Emits
<1>3. Kept' /\ Counted' /\ Blamed'
  BY <1>2 DEF Kept, Emitted, Counted, In, Blamed, NoneDead, Expected
<1>4. IntoTrieUpdates' = IntoTrieUpdates
  BY DEF IntoTrieUpdates, Replaces, NotYetIn
<1>5. /\ MapsEqual' <=> MapsEqual
      /\ DigestEqual' <=> DigestEqual
      /\ AllDone' <=> AllDone
  BY <1>4 DEF MapsEqual, DigestEqual, AllDone, Collected, RethsNodes, OfTrieUpdates,
              WithoutEmptyStorageTries, RethUpdates
<1>6. Answered'
  <2>1. CASE UNCHANGED result
    BY <1>5, <2>1 DEF Answered
  <2>2. CASE Join
    <3>1. PICK root, walked \in BOOLEAN :
            result' = [root |-> root, walked |-> walked,
                       passed |-> /\ \A w \in Workers : worker[w] = "done"
                                  /\ root /\ walked /\ DigestEqual /\ MapsEqual]
      BY <2>2 DEF Join
    <3>2. /\ result'.root = root /\ result'.walked = walked
          /\ result'.passed <=> /\ AllDone /\ root /\ walked
                                /\ DigestEqual /\ MapsEqual
      BY <3>1 DEF AllDone
    <3>3. \A w \in Workers : worker[w] \in {"done", "dead"}
      BY <2>2 DEF Join
    <3> QED BY <1>5, <3>2, <3>3 DEF Answered
  <2> QED BY <2>1, <2>2
<1> QED BY <1>1, <1>3, <1>6

(* The invariant holds in every reachable state.                              *)
THEOREM Invariant == Spec => []IInv
<1>1. IInv /\ [Next]_vars => IInv'
  <2> SUFFICES ASSUME IInv, [Next]_vars PROVE IInv'
    OBVIOUS
  <2>1. ASSUME NEW w \in Workers, Work(w) PROVE IInv'
    <3>1. ASSUME NEW n \in Nodes, Emit(w, n) PROVE IInv'
      BY <3>1, EmitIInv
    <3>2. CASE Lock(w)
      BY <3>2, FrameIInv DEF Lock
    <3>3. CASE LockPanics(w)
      BY <3>3, LockPanicsIInv
    <3>4. CASE Insert(w)
      BY <3>4, InsertIInv
    <3>5. CASE Stop(w)
      BY <3>5, StopIInv
    <3> QED BY <2>1, <3>1, <3>2, <3>3, <3>4, <3>5 DEF Work
  <2>2. CASE Join
    BY <2>2, FrameIInv DEF Join
  <2>3. CASE UNCHANGED vars
    BY <2>3, FrameIInv DEF vars
  <2> QED BY <2>1, <2>2, <2>3 DEF Next, Over
<1> QED BY <1>1, InitIInv, PTL DEF Spec

-----------------------------------------------------------------------------
\* The nodes in the shards.
Stored == UNION {shard[s].nodes : s \in Shards}

(* No two nodes of the shards have the same key, and a node is in its own     *)
(* shard only.                                                                *)
LEMMA StoredApart ==
    ASSUME IInv
    PROVE  /\ Stored \subseteq Emitted
           /\ \A n \in Stored : n \in Sharded /\ n \in shard[ShardOf(n)].nodes
           /\ \A n, m \in Stored : Key(n) = Key(m) => n = m
<1>1. ASSUME NEW n \in Stored
      PROVE  /\ n \in Sharded /\ n \in Nodes /\ emitted[n] > 0
             /\ n \in shard[ShardOf(n)].nodes /\ ShardOf(n) \in Shards
  <2>1. PICK s \in Shards : n \in shard[s].nodes
    BY DEF Stored
  <2>2. n \in Sharded
    BY <2>1 DEF IInv, Typed
  <2> QED BY <2>1, <2>2 DEF IInv, ShardsApart, Sharded
<1>2. ASSUME NEW n \in Stored, NEW m \in Stored, Key(n) = Key(m) PROVE n = m
  <2>1. ShardOf(n) = ShardOf(m)
    BY <1>1, <1>2, ShardOfKey
  <2> QED BY <1>1, <1>2, <2>1 DEF IInv, ShardsApart
<1> QED BY <1>1, <1>2 DEF Emitted

(* without_empty_storage_tries drops the tries that have no node.             *)
LEMMA EmptyTriesDropped ==
    ASSUME NEW N, NEW T
    PROVE  WithoutEmptyStorageTries([nodes |-> N, tries |-> T])
             = [nodes |-> N, tries |-> {a \in T : \E n \in N : n.addr = a}]
<1> DEFINE u == [nodes |-> N, tries |-> T]
           S == {a \in T : \E n \in N : n.addr = a}
<1>1. WithoutEmptyStorageTries(u) = [u EXCEPT !.tries = S]
  BY DEF WithoutEmptyStorageTries
<1>2. [u EXCEPT !.tries = S] = [nodes |-> N, tries |-> S]
  <2> HIDE DEF S
  <2> QED OBVIOUS
<1> QED BY <1>1, <1>2

(* Merging the shards with extend drops nothing: no later shard has a storage *)
(* trie, or a path, of an earlier one.                                        *)
LEMMA MergeKeepsAll ==
    ASSUME IInv
    PROVE  WithoutEmptyStorageTries(IntoTrieUpdates)
             = [nodes |-> Stored, tries |-> {n.addr : n \in Stored} \ {None}]
<1> USE DEF IInv
<1>1. ASSUME NEW s \in Shards, NEW n \in shard[s].nodes, NEW t \in Shards, Replaces(t, n)
      PROVE  t = s
  <2>1. n \in Sharded /\ ShardOf(n) = s
    BY DEF Typed, ShardsApart
  <2>2. PICK m \in shard[t].nodes :
          (n.addr = None /\ Key(m) = Key(n)) \/ (n.addr # None /\ m.addr = n.addr)
    BY <1>1 DEF Replaces, NotYetIn, ShardsApart
  <2>3. m \in Sharded /\ ShardOf(m) = t
    BY DEF Typed, ShardsApart
  <2> QED BY <2>1, <2>2, <2>3, ShardOfKey
<1>2. \A s \in Shards : {n \in shard[s].nodes :
                           \A later \in (s + 1)..15 : ~Replaces(later, n)} = shard[s].nodes
  <2> SUFFICES ASSUME NEW s \in Shards, NEW n \in shard[s].nodes, NEW later \in (s + 1)..15
               PROVE  ~Replaces(later, n)
    OBVIOUS
  <2>1. later \in Shards /\ later # s
    BY DEF Shards
  <2> QED BY <1>1, <2>1
<1>3. UNION {{n \in shard[s].nodes :
                \A later \in (s + 1)..15 : ~Replaces(later, n)} : s \in Shards} = Stored
  BY <1>2 DEF Stored
<1>4. UNION {shard[s].tries : s \in Shards} = {n.addr : n \in Stored} \ {None}
  <2> DEFINE tries == UNION {shard[s].tries : s \in Shards}
             addrs == {n.addr : n \in Stored} \ {None}
  <2>1. ASSUME NEW a \in tries PROVE a \in addrs
    <3>1. PICK s \in Shards : a \in shard[s].tries
      OBVIOUS
    <3>2. PICK n \in shard[s].nodes : a = n.addr /\ a # None
      BY <3>1 DEF ShardsApart
    <3> QED BY <3>1, <3>2 DEF Stored
  <2>2. ASSUME NEW a \in addrs PROVE a \in tries
    <3>1. PICK n \in Stored : a = n.addr /\ a # None
      OBVIOUS
    <3>2. PICK s \in Shards : n \in shard[s].nodes
      BY DEF Stored
    <3> QED BY <3>1, <3>2 DEF ShardsApart
  <2> QED BY <2>1, <2>2
<1>5. IntoTrieUpdates = [nodes |-> Stored, tries |-> {n.addr : n \in Stored} \ {None}]
  BY <1>3, <1>4 DEF IntoTrieUpdates
<1>6. {a \in {n.addr : n \in Stored} \ {None} : \E n \in Stored : n.addr = a}
        = {n.addr : n \in Stored} \ {None}
  OBVIOUS
<1> QED BY <1>5, <1>6, EmptyTriesDropped

(* What is left of reth's updates: the accounts it walked without storing a   *)
(* node are gone.                                                             *)
LEMMA ReferenceTries ==
    WithoutEmptyStorageTries(RethUpdates)
      = [nodes |-> Reference, tries |-> {n.addr : n \in Reference} \ {None}]
<1>1. {a \in Walked : \E n \in Reference : n.addr = a} = {n.addr : n \in Reference} \ {None}
  BY UpdatesSinkAssumption
<1> QED BY <1>1, EmptyTriesDropped DEF RethUpdates

(* What the shards hold once all workers are done.                            *)
LEMMA DoneShards ==
    ASSUME IInv, AllDone
    PROVE  /\ Collected.nodes = Stored
           /\ MapsEqual <=> Stored = Reference
           /\ NoneDead
           /\ \A n : InFlight(n) = {}
           /\ \A n \in Emitted : /\ n \in Sharded
                                 /\ \E m \in Stored : Key(m) = Key(n)
<1>1. NoneDead
  BY DEF AllDone, NoneDead
<1>2. \A n : InFlight(n) = {}
  BY DEF AllDone, InFlight, Emits
<1>3. ASSUME NEW n \in Emitted
      PROVE  n \in Sharded /\ \E m \in Stored : Key(m) = Key(n)
  <2>1. n \in Sharded /\ \E m \in shard[ShardOf(n)].nodes : Key(m) = Key(n)
    BY <1>1, <1>2 DEF IInv, Kept
  <2> QED BY <2>1, ShardOfKey DEF Stored
<1>4. Collected.nodes = Stored
  BY MergeKeepsAll DEF Collected
<1>5. MapsEqual <=> Stored = Reference
  BY MergeKeepsAll, ReferenceTries DEF MapsEqual, Collected, RethsNodes
<1> QED BY <1>1, <1>2, <1>3, <1>4, <1>5

(* The digest accepts exactly the emissions that are reth's nodes, each once: *)
(* equal parity leaves only surplus pairs, and the count excludes those.      *)
LEMMA DigestIsExact ==
    ASSUME IInv
    PROVE  DigestEqual <=> \A n \in Nodes : emitted[n] = Expected(n)
<1>1. DigestEqual <=> digest.fold = Reference /\ digest.count = Cardinality(Reference)
  <2>1. RethsNodes.nodes = Reference
    BY ReferenceTries DEF RethsNodes
  <2>2. digest = [fold |-> digest.fold, count |-> digest.count]
    BY DEF IInv, Typed
  <2> QED BY <2>1, <2>2 DEF DigestEqual, OfTrieUpdates
<1>2. /\ \A n \in Nodes : emitted[n] \in Nat /\ (n \in digest.fold <=> emitted[n] % 2 = 1)
      /\ IsFiniteSet(Emitted) /\ Cardinality(Emitted) \in Nat /\ digest.count \in Nat
      /\ Cardinality(Emitted) <= digest.count
      /\ digest.count = Cardinality(Emitted) <=> \A n \in Nodes : emitted[n] <= 1
      /\ digest.fold \subseteq Nodes
  BY FS_CardinalityType DEF IInv, Typed, Digested
<1>3. Reference \subseteq Nodes /\ IsFiniteSet(Reference) /\ Cardinality(Reference) \in Nat
  BY UpdatesSinkAssumption, FS_CardinalityType
<1>4. ASSUME digest.fold = Reference, digest.count = Cardinality(Reference)
      PROVE  \A n \in Nodes : emitted[n] = Expected(n)
  <2>1. Reference \subseteq Emitted
    BY <1>2, <1>3, <1>4 DEF Emitted
  <2>2. Cardinality(Reference) <= Cardinality(Emitted)
    BY <1>2, <2>1, FS_Subset
  <2>3. \A n \in Nodes : emitted[n] <= 1
    BY <1>2, <1>3, <1>4, <2>2
  <2>4. \A k \in Nat : k <= 1 => k = IF k % 2 = 1 THEN 1 ELSE 0
    OBVIOUS
  <2> QED BY <1>2, <1>4, <2>3, <2>4 DEF Expected
<1>5. ASSUME \A n \in Nodes : emitted[n] = Expected(n)
      PROVE  digest.fold = Reference /\ digest.count = Cardinality(Reference)
  <2>1. Emitted = Reference
    BY <1>3, <1>5 DEF Emitted, Expected
  <2>2. \A n \in Nodes : emitted[n] <= 1
    BY <1>5 DEF Expected
  <2>3. \A n \in Nodes : emitted[n] % 2 = 1 <=> n \in Reference
    BY <1>5 DEF Expected
  <2> QED BY <1>2, <1>3, <2>1, <2>2, <2>3
<1> QED BY <1>1, <1>4, <1>5

(* Emissions that are reth's nodes, each once, are collected as its maps.     *)
LEMMA ExactMaps ==
    ASSUME IInv, AllDone, \A n \in Nodes : emitted[n] = Expected(n)
    PROVE  MapsEqual
<1>1. Emitted = Reference
  BY UpdatesSinkAssumption DEF Emitted, Expected
<1>2. Stored \subseteq Reference
  BY <1>1, StoredApart
<1>3. ASSUME NEW n \in Reference PROVE n \in Stored
  <2>1. PICK m \in Stored : Key(m) = Key(n)
    BY <1>1, DoneShards
  <2>2. m = n
    BY <1>2, <2>1, UpdatesSinkAssumption
  <2> QED BY <2>1, <2>2
<1> QED BY <1>2, <1>3, DoneShards

(* For any nodes, workers and order of their steps, the merged updates hold   *)
(* one node for every key emitted and no other: into_trie_updates may extend  *)
(* shard by shard, because a trie is never spread over two shards.            *)
THEOREM CollectsWhatIsEmitted == Spec => []CollectsEmitted
<1>1. IInv => CollectsEmitted
  <2> SUFFICES ASSUME IInv, AllDone
               PROVE  /\ Collected.nodes \subseteq Emitted
                      /\ \A n \in Emitted :
                           Cardinality({m \in Collected.nodes : Key(m) = Key(n)}) = 1
    BY DEF CollectsEmitted
  <2>1. Collected.nodes = Stored
    BY DoneShards
  <2>2. ASSUME NEW n \in Emitted
        PROVE  Cardinality({m \in Stored : Key(m) = Key(n)}) = 1
    <3>1. PICK m \in Stored : Key(m) = Key(n)
      BY DoneShards
    <3>2. {k \in Stored : Key(k) = Key(n)} = {m}
      BY <3>1, StoredApart
    <3> QED BY <3>2, FS_Singleton
  <2> QED BY <2>1, <2>2, StoredApart
<1> QED BY <1>1, Invariant, PTL

(* The parity test passes exactly if root and count are right and the nodes   *)
(* of reth's walk were emitted once each and no others, with and without      *)
(* debug assertions.                                                          *)
THEOREM ParityTestDecides == Spec => []ParityDecides
<1>1. IInv => ParityDecides
  <2> SUFFICES ASSUME IInv, result # None
               PROVE  result.passed <=> /\ result.root /\ result.walked
                                        /\ \A n \in Nodes : emitted[n] = Expected(n)
    BY DEF ParityDecides
  <2>1. /\ \A w \in Workers : worker[w] \in {"done", "dead"}
        /\ result.passed <=> /\ AllDone /\ result.root /\ result.walked
                             /\ DigestEqual /\ MapsEqual
    BY DEF IInv, Answered
  <2>2. ASSUME \A n \in Nodes : emitted[n] = Expected(n)
        PROVE  AllDone /\ MapsEqual
    <3>1. NoneDead
      <4>1. \A n \in Nodes : ~(emitted[n] > Expected(n))
        BY <2>2 DEF Expected
      <4> QED BY <4>1 DEF IInv, Blamed
    <3>2. AllDone
      BY <2>1, <3>1 DEF AllDone, NoneDead
    <3> QED BY <2>2, <3>2, ExactMaps
  <2> QED BY <2>1, <2>2, DigestIsExact
<1> QED BY <1>1, Invariant, PTL

(* The maps the sink collects validate the digest: they are equal to reth's   *)
(* whenever the digest is, and with debug assertions only then.               *)
THEOREM MapsValidateTheDigest == Spec => []MapsValidateDigest
<1>1. ASSUME IInv, AllDone, debug, MapsEqual
      PROVE  \A n \in Nodes : emitted[n] = Expected(n)
  <2>1. Stored = Reference
    BY <1>1, DoneShards
  <2> SUFFICES ASSUME NEW n \in Nodes PROVE emitted[n] = Expected(n)
    OBVIOUS
  <2>2. CASE n \in Sharded
    <3>1. emitted[n] = In(n) + Cardinality(InFlight(n))
      BY <1>1, <2>2, DoneShards DEF IInv, Counted
    <3>2. Cardinality(InFlight(n)) = 0 /\ In(n) \in 0..1
      BY <1>1, DoneShards, FS_EmptySet DEF In
    <3>3. n \in shard[ShardOf(n)].nodes <=> n \in Reference
      BY <1>1, <2>1, <2>2, StoredApart, ShardOfKey DEF Stored
    <3> QED BY <3>1, <3>2, <3>3 DEF In, Expected
  <2>3. CASE n \notin Sharded
    <3>1. n \notin Emitted /\ n \notin Reference
      BY <1>1, <2>3, DoneShards, ReferenceSharded
    <3>2. emitted[n] \in Nat
      BY <1>1 DEF IInv, Typed
    <3> QED BY <3>1, <3>2 DEF Emitted, Expected
  <2> QED BY <2>2, <2>3
<1>2. IInv => MapsValidateDigest
  BY <1>1, ExactMaps, DigestIsExact DEF MapsValidateDigest
<1> QED BY <1>2, Invariant, PTL

=============================================================================
