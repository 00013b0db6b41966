--------------------------- MODULE RethRebuildProofs ---------------------------
(***************************************************************************)
(* The safety of reth's chunked rebuild, for every walk, every threshold   *)
(* and any number of runs.                                                 *)
(*                                                                         *)
(* NothingAhead and WalkContinues speak of the moments in which a walk is  *)
(* under way.  The invariant IInv ties the intermediate state, the chunk   *)
(* handed out and the totals to one position in the walk, the number of    *)
(* entries committed, and the tables to the nodes completed behind it.     *)
(***************************************************************************)
EXTENDS RethRebuild, TrieTablesProofs

\* The encoding of this database.
Enc == Adapter(UsesPackedTrieKeys(settings))

\* The rows of a set of nodes.
RowsOf(nodes) == {RowOf(n, Enc) : n \in nodes}

(* Outside the loop nothing is held, and inside it the encoding is that of    *)
(* the settings.                                                              *)
Stages ==
    /\ main \in {"start", "opened", "exited"} => state = None /\ totals = NoTotals
    /\ main \in {"opened", "walk", "write"} => packed = UsesPackedTrieKeys(settings)
    /\ IF main = "write"
       THEN progress \in [done : BOOLEAN, entries : 0..N, nodes : SUBSET TrieNodes]
       ELSE progress = None

(* The totals are the position of the walk.  A chunk handed out goes from     *)
(* there to the new intermediate state, or to the end of the walk.            *)
Position ==
    /\ main = "walk" => totals.entries = Resume
    /\ main = "write" =>
         /\ totals.entries \in 0..N
         /\ progress.done =>
              /\ totals.entries + progress.entries = N
              /\ progress.nodes = Between(totals.entries + 1, N + 1)
         /\ ~progress.done =>
              /\ state \in 1..N
              /\ totals.entries + progress.entries = state
              /\ totals.entries < state
              /\ progress.nodes = Between(totals.entries + 1, state)
              /\ Cardinality(progress.nodes) >= threshold

(* The tables hold the nodes behind the position, and the totals count them.  *)
Behind ==
    /\ main \in {"walk", "write"} =>
         /\ tables = RowsOf(Between(1, totals.entries))
         /\ totals.written = Cardinality(Between(1, totals.entries))
    /\ main \in {"returning", "reported"} =>
         /\ tables = RowsOf(TrieNodes)
         /\ totals.entries = N
         /\ totals.written = Cardinality(TrieNodes)

IInv == TypeOK /\ Stages /\ Position /\ Behind

-----------------------------------------------------------------------------
(* The encoding the rebuild picks is one of the two.                          *)
LEMMA EncTyped ==
    ASSUME NEW b PROVE Adapter(b) \in Encodings
    BY DEF Adapter, Encodings

(* The nodes of the trie are finitely many nodes.                             *)
LEMMA TrieNodesTyped == TrieNodes \subseteq Node /\ IsFiniteSet(TrieNodes)
<1> DEFINE I == 1..(N + 1)
           C == {Completes[k] : k \in I}
           f == [k \in I |-> Completes[k]]
<1>1. IsFiniteSet(I)
  BY RethRebuildAssumption, FS_Interval
<1>2. f \in Surjection(I, C)
  BY DEF Surjection
<1>3. IsFiniteSet(C)
  BY <1>1, <1>2, FS_Surjection
<1>4. \A T \in C : IsFiniteSet(T) /\ T \subseteq Node
  BY RethRebuildAssumption
<1>5. IsFiniteSet(UNION C) /\ UNION C \subseteq Node
  BY <1>3, <1>4, FS_UNION
<1> QED BY <1>5 DEF TrieNodes, Between

(* What is complete between two positions are finitely many nodes of the trie.*)
LEMMA BetweenTyped ==
    ASSUME NEW i \in 0..N, NEW j \in 0..(N + 1)
    PROVE  /\ Between(i + 1, j) \subseteq TrieNodes
           /\ Between(i + 1, j) \subseteq Node
           /\ IsFiniteSet(Between(i + 1, j))
<1>1. (i + 1)..j \subseteq 1..(N + 1)
  BY RethRebuildAssumption
<1>2. Between(i + 1, j) \subseteq TrieNodes
  BY <1>1 DEF Between, TrieNodes
<1> QED BY <1>2, TrieNodesTyped, FS_Subset

(* A walk that goes on from position i to position j adds what lies between,  *)
(* and none of it lies behind i.                                              *)
LEMMA BetweenSplits ==
    ASSUME NEW i \in 0..N, NEW j \in 0..(N + 1), i <= j
    PROVE  /\ Between(1, i) \cup Between(i + 1, j) = Between(1, j)
           /\ Between(1, i) \cap Between(i + 1, j) = {}
           /\ Between(1, 0) = {}
<1>1. 1..j = (1..i) \cup ((i + 1)..j) /\ 1..0 = {}
  BY RethRebuildAssumption
<1>2. \A k \in 1..i, l \in (i + 1)..j :
        k \in 1..(N + 1) /\ l \in 1..(N + 1) /\ k # l
  BY RethRebuildAssumption
<1>3. \A k \in 1..i, l \in (i + 1)..j : Completes[k] \cap Completes[l] = {}
  BY <1>2, RethRebuildAssumption
<1>4. Between(1, i) \cap Between(i + 1, j) = {}
  BY <1>3 DEF Between
<1>5. Between(1, i) \cup Between(i + 1, j) = Between(1, j)
  BY <1>1 DEF Between
<1>6. Between(1, 0) = {}
  BY <1>1 DEF Between
<1> QED BY <1>4, <1>5, <1>6

-----------------------------------------------------------------------------
(* The invariant holds before the first run.                                  *)
LEMMA InitIInv == Init => IInv
<1> SUFFICES ASSUME Init PROVE IInv
  OBVIOUS
<1>1. tables \subseteq Row
  <2>1. \A n \in Stale : RowOf(n, Enc) \in Row
    BY EncTyped, RethRebuildAssumption, ReadsBack DEF Enc
  <2> QED BY <2>1 DEF Init, Enc
<1>2. TypeOK
  BY <1>1, RethRebuildAssumption DEF Init, TypeOK, MainStates, NoTotals
<1> QED BY <1>2 DEF Init, IInv, Stages, Position, Behind

(* The commit of a chunk: from the nodes behind position i to those behind j. *)
LEMMA CommitMovesOn ==
    ASSUME NEW i \in 0..N, NEW j \in 0..(N + 1), i <= j
    PROVE  /\ WriteTrieUpdatesWith(RowsOf(Between(1, i)),
                                   UpdatesOf(Between(i + 1, j)), Enc)
                = [rows    |-> RowsOf(Between(1, j)),
                   written |-> Cardinality(Between(i + 1, j))]
           /\ Cardinality(Between(1, i)) + Cardinality(Between(i + 1, j))
                = Cardinality(Between(1, j))
           /\ RowsOf(Between(1, j)) \ RowsOf(Between(1, i)) = RowsOf(Between(i + 1, j))
<1> DEFINE old == Between(1, i)
           new == Between(i + 1, j)
<1>1. Enc \in Encodings
  BY EncTyped DEF Enc
<1>2. new \subseteq TrieNodes /\ new \subseteq Node /\ IsFiniteSet(new)
  BY BetweenTyped
<1>3. old \subseteq TrieNodes /\ old \subseteq Node /\ IsFiniteSet(old)
  <2>1. 0 \in 0..N /\ i \in 0..(N + 1) /\ 0 + 1 = 1
    BY RethRebuildAssumption
  <2> QED BY <2>1, BetweenTyped
<1>4. old \cup new = Between(1, j) /\ old \cap new = {}
  BY BetweenSplits
<1> HIDE DEF old, new
<1>5. \A n \in new : n.path # EmptyPath
  BY <1>2, RethRebuildAssumption
<1>6. ASSUME NEW n \in new, NEW r \in RowsOf(old) PROVE KeyOf(r) # KeyOf(n)
  <2>1. PICK m \in old : r = RowOf(m, Enc)
    BY DEF RowsOf
  <2>2. KeyOf(r) = KeyOf(m)
    BY <1>1, <1>3, <2>1, ReadsBack
  <2>3. m # n
    BY <1>4
  <2> QED BY <1>2, <1>3, <2>2, <2>3, RethRebuildAssumption DEF NodeMap
<1>7. RowsOf(Between(1, j)) = RowsOf(old) \cup RowsOf(new)
  BY <1>4 DEF RowsOf
<1>8. WriteTrieUpdatesWith(RowsOf(old), UpdatesOf(new), Enc)
        = [rows |-> RowsOf(old) \cup RowsOf(new), written |-> Cardinality(new)]
  BY <1>1, <1>2, <1>5, <1>6, CommitAddsChunk DEF RowsOf
<1>9. Cardinality(old) + Cardinality(new) = Cardinality(Between(1, j))
  BY <1>2, <1>3, <1>4, DisjointCount
<1>10. RowsOf(Between(1, j)) \ RowsOf(old) = RowsOf(new)
  <2>1. \A n \in new, m \in old : RowOf(n, Enc) # RowOf(m, Enc)
    BY <1>1, <1>2, <1>3, <1>4, RowsDiffer
  <2> QED BY <1>7, <2>1 DEF RowsOf
<1> QED BY <1>7, <1>8, <1>9, <1>10 DEF old, new

(* root_with_progress: what it hands out goes from the position of the walk   *)
(* to the first entry that fills a chunk, or to the end.                      *)
LEMMA WalkIInv ==
    ASSUME IInv, Progress \/ Complete PROVE IInv'
<1>1. /\ main = "walk" /\ main' = "write"
      /\ UNCHANGED <<tables, settings, threshold, run, packed, totals>>
  BY DEF Progress, Complete
<1>2. totals.entries = Resume /\ Resume \in 0..N
  BY <1>1, RethRebuildAssumption DEF IInv, TypeOK, Position, Resume
<1>3. totals' = totals /\ totals.entries \in Nat
  BY <1>1 DEF IInv, TypeOK
<1>4. CASE Progress
  <2>1. PICK j \in (Resume + 1)..N :
          /\ Yields(Resume, j)
          /\ state' = j
          /\ progress' = [done |-> FALSE, entries |-> j - Resume,
                          nodes |-> Between(Resume + 1, j)]
    BY <1>4 DEF Progress, StateAfter
  <2>2. j \in 1..N /\ Resume < j /\ j - Resume \in 0..N /\ Resume + (j - Resume) = j
    BY <1>2, <2>1, RethRebuildAssumption
  <2>3. Between(Resume + 1, j) \subseteq TrieNodes
    BY <1>2, <2>2, BetweenTyped, RethRebuildAssumption
  <2>4. progress' \in [done : BOOLEAN, entries : 0..N, nodes : SUBSET TrieNodes]
    BY <2>1, <2>2, <2>3
  <2>5. TypeOK'
    BY <1>1, <2>1, <2>2, <2>4 DEF IInv, TypeOK, MainStates
  <2>6. Stages'
    BY <1>1, <2>4 DEF IInv, Stages
  <2>7. Position'
    BY <1>1, <1>2, <1>3, <2>1, <2>2 DEF Position, Yields
  <2>8. Behind'
    BY <1>1 DEF IInv, Behind, RowsOf, Enc
  <2> QED BY <2>5, <2>6, <2>7, <2>8 DEF IInv
<1>5. CASE Complete
  <2>1. /\ state' = None
        /\ progress' = [done |-> TRUE, entries |-> N - Resume,
                        nodes |-> Between(Resume + 1, N + 1)]
    BY <1>5 DEF Complete
  <2>2. N - Resume \in 0..N /\ Resume + (N - Resume) = N
    BY <1>2, RethRebuildAssumption
  <2>3. Between(Resume + 1, N + 1) \subseteq TrieNodes
    BY <1>2, BetweenTyped, RethRebuildAssumption
  <2>4. progress' \in [done : BOOLEAN, entries : 0..N, nodes : SUBSET TrieNodes]
    BY <2>1, <2>2, <2>3
  <2>5. TypeOK'
    BY <1>1, <2>1, <2>4 DEF IInv, TypeOK, MainStates
  <2>6. Stages'
    BY <1>1, <2>4 DEF IInv, Stages
  <2>7. Position'
    BY <1>1, <1>2, <1>3, <2>1, <2>2 DEF Position
  <2>8. Behind'
    BY <1>1 DEF IInv, Behind, RowsOf, Enc
  <2> QED BY <2>5, <2>6, <2>7, <2>8 DEF IInv
<1> QED BY <1>4, <1>5

(* Where a write starts from and where it takes the tables and the totals.    *)
LEMMA WriteEffect ==
    ASSUME IInv, Write
    PROVE  \E j \in 1..(N + 1) :
             /\ totals.entries \in 0..N /\ totals.entries < j
             /\ progress.nodes = Between(totals.entries + 1, j)
             /\ tables' = RowsOf(Between(1, j))
             /\ tables' \ tables = RowsOf(progress.nodes)
             /\ totals' = [entries |-> totals.entries + progress.entries,
                           written |-> Cardinality(Between(1, j)),
                           chunks  |-> totals.chunks + 1]
             /\ IF progress.done
                THEN j = N + 1 /\ totals.entries + progress.entries = N
                ELSE j = state /\ totals.entries + progress.entries = state
<1> DEFINE i == totals.entries
<1>1. main = "write"
  BY DEF Write
<1>2. PICK j \in 1..(N + 1) :
        /\ i < j
        /\ progress.nodes = Between(i + 1, j)
        /\ IF progress.done THEN j = N + 1 /\ i + progress.entries = N
                            ELSE j = state /\ i + progress.entries = state
  <2>1. CASE progress.done
    BY <1>1, <2>1, RethRebuildAssumption DEF IInv, Position
  <2>2. CASE ~progress.done
    BY <1>1, <2>2, RethRebuildAssumption DEF IInv, Position
  <2> QED BY <2>1, <2>2
<1>3. /\ tables = RowsOf(Between(1, i))
      /\ totals.written = Cardinality(Between(1, i))
      /\ Adapter(packed) = Enc
  BY <1>1 DEF IInv, Behind, Stages, Enc
<1>4. i \in 0..N /\ j \in 0..(N + 1) /\ i <= j
  BY <1>1, <1>2, RethRebuildAssumption DEF IInv, Position
<1>5. /\ WriteTrieUpdatesWith(tables, UpdatesOf(progress.nodes), Adapter(packed))
           = [rows |-> RowsOf(Between(1, j)), written |-> Cardinality(Between(i + 1, j))]
      /\ Cardinality(Between(1, i)) + Cardinality(Between(i + 1, j))
           = Cardinality(Between(1, j))
      /\ RowsOf(Between(1, j)) \ tables = RowsOf(progress.nodes)
  BY <1>2, <1>3, <1>4, CommitMovesOn
<1>6. /\ tables' = RowsOf(Between(1, j))
      /\ totals' = [entries |-> i + progress.entries,
                    written |-> totals.written + Cardinality(Between(i + 1, j)),
                    chunks  |-> totals.chunks + 1]
  BY <1>5 DEF Write, Handed
<1>7. totals' = [entries |-> i + progress.entries,
                 written |-> Cardinality(Between(1, j)),
                 chunks  |-> totals.chunks + 1]
  BY <1>3, <1>5, <1>6
<1>8. tables' \ tables = RowsOf(progress.nodes)
  BY <1>5, <1>6
<1> QED BY <1>2, <1>4, <1>6, <1>7, <1>8

(* A commit moves the position to the end of its chunk.                       *)
LEMMA WriteIInv ==
    ASSUME IInv, Write PROVE IInv'
<1>1. PICK j \in 1..(N + 1) :
        /\ tables' = RowsOf(Between(1, j))
        /\ totals' = [entries |-> totals.entries + progress.entries,
                      written |-> Cardinality(Between(1, j)),
                      chunks  |-> totals.chunks + 1]
        /\ IF progress.done
           THEN j = N + 1 /\ totals.entries + progress.entries = N
           ELSE j = state /\ totals.entries + progress.entries = state
  BY WriteEffect
<1>2. /\ main = "write" /\ progress' = None
      /\ main' = IF progress.done THEN "returning" ELSE "walk"
      /\ UNCHANGED <<settings, threshold, run, packed, state>>
  BY DEF Write, Stage
<1>3. Between(1, j) \subseteq Node /\ IsFiniteSet(Between(1, j))
  <2>1. 0 \in 0..N /\ j \in 0..(N + 1) /\ 0 + 1 = 1
    BY RethRebuildAssumption
  <2> QED BY <2>1, BetweenTyped
<1>4. Enc' = Enc
  BY <1>2 DEF Enc
<1>5. TypeOK'
  <2>1. RowsOf(Between(1, j)) \subseteq Row
    BY <1>3, EncTyped, ReadsBack DEF RowsOf, Enc
  <2>2. totals.entries + progress.entries \in Nat
    <3>1. ~progress.done => state \in 1..N
      BY <1>2 DEF IInv, Position
    <3> QED BY <1>1, <3>1, RethRebuildAssumption
  <2>3. totals' \in [entries : Nat, written : Nat, chunks : Nat]
    BY <1>1, <1>3, <2>2, FS_CardinalityType DEF IInv, TypeOK
  <2> QED BY <1>1, <1>2, <2>1, <2>3 DEF IInv, TypeOK, MainStates
<1>6. Stages'
  BY <1>2 DEF IInv, Stages
<1>7. Position'
  <2>1. ~progress.done => state' = state /\ state \in 1..N /\ state # None
    BY <1>2, RethRebuildAssumption DEF IInv, Position
  <2>2. ~progress.done => totals'.entries = state
    BY <1>1
  <2> QED BY <1>2, <2>1, <2>2 DEF Position, Resume
<1>8. Behind'
  <2>1. CASE progress.done
    BY <2>1, <1>1, <1>2, <1>4 DEF Behind, RowsOf, TrieNodes
  <2>2. CASE ~progress.done
    <3>1. totals'.entries = j /\ totals'.written = Cardinality(Between(1, j))
      BY <1>1, <2>2
    <3>2. main' = "walk" /\ tables' = RowsOf(Between(1, j))
      BY <1>1, <1>2, <2>2
    <3> QED BY <1>4, <3>1, <3>2 DEF Behind, RowsOf
  <2> QED BY <2>1, <2>2
<1> QED BY <1>5, <1>6, <1>7, <1>8 DEF IInv

(* The invariant holds in every state of every behaviour of the rebuild.      *)
THEOREM Invariant == Spec => []IInv
<1>1. Init => IInv
  BY InitIInv
<1>2. IInv /\ [Next]_vars => IInv'
  <2> SUFFICES ASSUME IInv, [Next]_vars PROVE IInv'
    OBVIOUS
  <2>1. CASE ReadEncoding
    BY <2>1 DEF ReadEncoding, IInv, TypeOK, UsesPackedTrieKeys, MainStates,
                Stages, Position, Behind
  <2>2. CASE Clear
    <3>1. Between(1, 0) = {}
      BY RethRebuildAssumption, BetweenSplits
    <3>2. RowsOf(Between(1, 0)) = {} /\ Cardinality(Between(1, 0)) = 0
      BY <3>1, FS_EmptySet DEF RowsOf
    <3>3. /\ main = "opened" /\ main' = "walk" /\ tables' = {}
          /\ UNCHANGED <<settings, threshold, run, packed, state, progress, totals>>
      BY <2>2 DEF Clear, ClearTrieTables
    <3>4. state = None /\ totals = NoTotals
      BY <3>3 DEF IInv, Stages
    <3>5. TypeOK' /\ Stages'
      BY <3>3 DEF IInv, TypeOK, Stages, MainStates
    <3>6. Position'
      BY <3>3, <3>4 DEF Position, Resume, NoTotals
    <3>7. Behind'
      BY <3>2, <3>3, <3>4 DEF Behind, NoTotals, RowsOf, Enc
    <3> QED BY <3>5, <3>6, <3>7 DEF IInv
  <2>3. CASE Progress \/ Complete
    BY <2>3, WalkIInv
  <2>4. CASE Write
    BY <2>4, WriteIInv
  <2>5. CASE Return
    BY <2>5 DEF Return, IInv, TypeOK, MainStates, Stages, Position, Behind,
                RowsOf, Enc
  <2>6. CASE Crash \/ NextRun
    <3>1. run' \in Nat
      BY <2>6 DEF Crash, NextRun, IInv, TypeOK
    <3>2. /\ main' \in {"exited", "start"}
          /\ state' = None /\ progress' = None /\ totals' = NoTotals
          /\ packed' = FALSE
          /\ UNCHANGED <<tables, settings, threshold>>
      BY <2>6 DEF Crash, NextRun
    <3>3. TypeOK'
      BY <3>1, <3>2 DEF IInv, TypeOK, MainStates, NoTotals
    <3> QED BY <3>2, <3>3 DEF IInv, Stages, Position, Behind
  <2>7. CASE UNCHANGED vars
    BY <2>7 DEF vars, IInv, TypeOK, Stages, Position, Behind, Resume, RowsOf, Enc
  <2> QED BY <2>1, <2>2, <2>3, <2>4, <2>5, <2>6, <2>7 DEF Next, RebuildStep, Stopped
<1> QED BY <1>1, <1>2, PTL DEF Spec

(* The variables of the rebuild always have the types TypeOK gives them.      *)
THEOREM TypeCorrect == Spec => []TypeOK
<1>1. IInv => TypeOK
  BY DEF IInv
<1> QED BY <1>1, Invariant, PTL

(* Chunk by chunk the walk covers every entry once, whatever the threshold.   *)
THEOREM EveryEntryWalkedOnce == Spec => []WalkContinues
<1>1. IInv => WalkContinues
  <2> SUFFICES ASSUME IInv, main \in {"walk", "write"} PROVE WalkContinues
    BY DEF WalkContinues
  <2>1. CASE main = "walk"
    BY <2>1 DEF IInv, Position, WalkContinues, Walked
  <2>2. CASE main = "write" /\ progress.done
    BY <2>2 DEF IInv, Position, WalkContinues, Walked
  <2>3. CASE main = "write" /\ ~progress.done
    <3>1. state \in 1..N /\ totals.entries + progress.entries = state
      BY <2>3 DEF IInv, Position
    <3>2. state # None
      BY <3>1, RethRebuildAssumption
    <3> QED BY <2>3, <3>1, <3>2 DEF WalkContinues, Walked, Resume
  <2> QED BY <2>1, <2>2, <2>3
<1> QED BY <1>1, Invariant, PTL

(* Rows written in the database's encoding are read as the nodes they were.   *)
LEMMA ReadsRows ==
    ASSUME NEW S, S \subseteq Node
    PROVE  ReadTables(RowsOf(S), settings) = S
<1>1. \A n \in S : ReadRow(RowOf(n, Enc), Enc) = n
  BY EncTyped, ReadsBack DEF Enc
<1> QED BY <1>1 DEF ReadTables, RowsOf, Enc

(* While a walk is under way the tables hold the nodes behind its position.   *)
LEMMA ReadsBehind ==
    ASSUME IInv, main \in {"walk", "write"}
    PROVE  /\ ReadTables(tables, settings) = Between(1, totals.entries)
           /\ Between(1, totals.entries) \subseteq TrieNodes
<1>1. totals.entries \in 0..N
  BY RethRebuildAssumption DEF IInv, TypeOK, Position, Resume
<1>2. /\ Between(1, totals.entries) \subseteq Node
      /\ Between(1, totals.entries) \subseteq TrieNodes
  <2>1. 0 \in 0..N /\ totals.entries \in 0..(N + 1) /\ 0 + 1 = 1
    BY <1>1, RethRebuildAssumption
  <2> QED BY <2>1, BetweenTyped
<1> QED BY <1>2, ReadsRows DEF IInv, Behind

(* reth's walker never meets a stored node at or ahead of its position, so    *)
(* every chunk of every rebuild is a walk of the hashed state.                *)
THEOREM WalkMeetsNoNode == Spec => []NothingAhead
<1>1. IInv => NothingAhead
  BY ReadsBehind DEF NothingAhead
<1> QED BY <1>1, Invariant, PTL

(* A rebuild that reports left exactly the nodes of the trie, and its totals  *)
(* count each node and each entry once.                                       *)
THEOREM ReportedRebuildIsExact == Spec => []RebuildExact
<1>1. IInv => RebuildExact
  BY ReadsRows, TrieNodesTyped DEF IInv, Behind, RebuildExact
<1> QED BY <1>1, Invariant, PTL

-----------------------------------------------------------------------------
(* reth's chunked rebuild implements what ChunkedBuild promises of a rebuild, *)
(* as the writing run does.                                                   *)
THEOREM Refinement == Spec => RebuildImplementsChunkedBuild
<1> DEFINE seen == ReadTables(tables, settings)
<1>1. Init => Promise!Init
  <2> SUFFICES ASSUME Init PROVE Promise!Init
    OBVIOUS
  <2>1. ChunkedPhase = "stale"
    BY DEF Init, ChunkedPhase
  <2>2. seen \subseteq Stale
    <3>1. PICK S \in SUBSET Stale : tables = RowsOf(S)
      <4>1. tables \subseteq RowsOf(Stale)
        BY DEF Init, RowsOf, Enc
      <4>2. tables = RowsOf({n \in Stale : RowOf(n, Enc) \in tables})
        BY <4>1 DEF RowsOf
      <4> QED BY <4>2
    <3> QED BY <3>1, ReadsRows, RethRebuildAssumption
  <2> QED BY <2>1, <2>2 DEF Promise!Init
<1>2. ASSUME IInv, [Next]_vars PROVE [Promise!Next]_(Promise!vars)
  <2>1. CASE Clear
    <3>1. ChunkedPhase = "stale" /\ ChunkedPhase' = "building" /\ seen' = {}
      BY <2>1 DEF Clear, ClearTrieTables, ChunkedPhase, ReadTables
    <3> QED BY <3>1 DEF Promise!Next, Promise!Begin
  <2>2. CASE Write
    <3>1. ChunkedPhase = "building" /\ ChunkedPhase' = "building"
      BY <2>2 DEF Write, Stage, ChunkedPhase
    <3>2. PICK j \in 1..(N + 1) :
            /\ totals.entries \in 0..N /\ totals.entries < j
            /\ tables' = RowsOf(Between(1, j))
      BY <1>2, <2>2, WriteEffect
    <3>3. seen' = Between(1, j) /\ Between(1, j) \subseteq TrieNodes
      <4>1. 0 \in 0..N /\ j \in 0..(N + 1) /\ 0 + 1 = 1
        BY RethRebuildAssumption
      <4>2. Between(1, j) \subseteq TrieNodes /\ Between(1, j) \subseteq Node
        BY <4>1, BetweenTyped
      <4>3. seen' = ReadTables(tables', settings)
        BY <2>2 DEF Write, ReadTables
      <4> QED BY <3>2, <4>2, <4>3, ReadsRows
    <3>4. seen = Between(1, totals.entries)
      BY <1>2, <2>2, ReadsBehind DEF Write
    <3>5. Between(1, totals.entries) \subseteq Between(1, j)
      BY <3>2, BetweenSplits, RethRebuildAssumption
    <3> QED BY <3>1, <3>3, <3>4, <3>5 DEF Promise!Next, Promise!Commit
  <2>3. CASE Return
    <3>1. seen = TrieNodes /\ seen' = seen
      BY <1>2, <2>3, ReadsRows, TrieNodesTyped DEF Return, IInv, Behind, ReadTables
    <3>2. ChunkedPhase = "building" /\ ChunkedPhase' = "done"
      BY <2>3 DEF Return, ChunkedPhase
    <3> QED BY <3>1, <3>2 DEF Promise!Next, Promise!Report
  <2>4. CASE Crash \/ NextRun
    <3>1. seen' = seen
      BY <2>4 DEF Crash, NextRun, ReadTables
    <3>2. /\ ChunkedPhase' = "stale"
          /\ ChunkedPhase \in {"stale", "building", "done"}
      BY <2>4 DEF Crash, NextRun, ChunkedPhase
    <3> QED BY <3>1, <3>2 DEF Promise!Next, Promise!Abandon, Promise!vars
  <2>5. CASE ReadEncoding \/ Progress \/ Complete \/ UNCHANGED vars
    <3>1. seen' = seen /\ ChunkedPhase' = ChunkedPhase
      BY <2>5 DEF ReadEncoding, Progress, Complete, vars, ReadTables, ChunkedPhase
    <3> QED BY <3>1 DEF Promise!vars
  <2> QED
    BY <1>2, <2>1, <2>2, <2>3, <2>4, <2>5 DEF Next, RebuildStep, Stopped
<1> QED
  BY <1>1, <1>2, Invariant, PTL DEF Spec, RebuildImplementsChunkedBuild, Promise!Spec

=============================================================================
