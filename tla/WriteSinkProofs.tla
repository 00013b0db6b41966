---------------------------- MODULE WriteSinkProofs ----------------------------
(***************************************************************************)
(* The safety of the writing run, for every build, every number of         *)
(* partitions and pool threads, every channel capacity and chunk size, and *)
(* any number of runs.                                                     *)
(*                                                                         *)
(* None of the properties is inductive on its own.  The invariant IInv     *)
(* adds how the stages of the main thread, the workers and the writer go   *)
(* together, who holds which node, and what the running totals count.      *)
(***************************************************************************)
EXTENDS WriteSink, TrieTablesProofs, SequenceTheorems

\* The encoding of this database.
Enc == Adapter(UsesPackedTrieKeys(settings))

\* The stages in which the process holds a sink.
Inside == main \in {"building", "joining", "reported", "unwinding"}

(* How the stages of main thread, workers and writer go together: outside a   *)
(* build nothing is held, and the sender lives exactly as long as the build.  *)
Stages ==
    /\ ~Inside => /\ worker = [w \in Workers |-> "idle"]
                  /\ unsent = Emitted
                  /\ channel = <<>>
                  /\ writer = "none"
                  /\ chunk = {}
                  /\ pending = 0
                  /\ written = [nodes |-> 0, chunks |-> 0]
    /\ main = "cleared" => tables = {}
    /\ senderOpen <=> main = "building"
    /\ Inside => writer # "none" /\ packed = UsesPackedTrieKeys(settings)
    /\ main # "building" => \A w \in Workers : worker[w] # "running"
    /\ main \in {"joining", "reported"} => \A w \in Workers : worker[w] = "done"
    /\ main = "reported" => writer = "ok"
    /\ \A w \in Workers : worker[w] = "done" => \A n \in unsent : Owner[n] # w

(* What the writer's position says of the channel, the chunk and its count.   *)
WriterPlace ==
    /\ writer \in {"flush", "ok", "err"} => channel = <<>>
    /\ writer \in {"flush", "ok"} => ~senderOpen
    /\ writer \in {"none", "ok", "err"} => chunk = {}
    /\ writer \in {"recv", "flush"} => pending < ChunkLimit
    /\ writer = "flush" => pending > 0
    /\ writer = "commit" => pending = ChunkLimit

(* No node is in two places.                                                  *)
Apart ==
    /\ \A i, j \in 1..Len(channel) : channel[i] = channel[j] => i = j
    /\ unsent \cap Queued = {}
    /\ unsent \cap chunk = {}
    /\ Queued \cap chunk = {}
    /\ Underway => \A n \in unsent \cup Queued \cup chunk : ~Stored(n)

(* No node is nowhere, unless a failed commit dropped it.                     *)
Kept ==
    Underway /\ writer # "err" =>
        \A n \in Emitted : n \in unsent \cup Queued \cup chunk \/ Stored(n)

(* The totals count the rows, and every commit but the last is a full chunk.  *)
Counts ==
    Underway =>
        /\ written.nodes = Cardinality(tables)
        /\ writer # "ok" => written.nodes = written.chunks * ChunkLimit
        /\ writer = "ok" => /\ written.nodes <= written.chunks * ChunkLimit
                            /\ written.chunks * ChunkLimit
                                 < written.nodes + ChunkLimit

IInv ==
    /\ TypeOK
    /\ Stages
    /\ WriterPlace
    /\ BoundedMemory
    /\ Apart
    /\ Kept
    /\ OnlySentNodes
    /\ Counts

-----------------------------------------------------------------------------
(* The encoding a sink picks is one of the two.                               *)
LEMMA EncTyped ==
    ASSUME NEW b PROVE Adapter(b) \in Encodings
    BY DEF Adapter, Encodings

\* No step changes a flag of the command line.
USE DEF flags

(* Nodes of the build and stale nodes are finitely many nodes.                *)
LEMMA EmittedTyped ==
    ASSUME NEW S \in SUBSET Emitted
    PROVE  S \subseteq Node /\ IsFiniteSet(S)
    BY WriteSinkAssumption, FS_Subset

(* What a process without a build holds has its type.                         *)
LEMMA EmptyBuildTyped ==
    /\ [w \in Workers |-> "idle"] \in [Workers -> WorkerStates]
    /\ <<>> \in Seq(Emitted)
    /\ [nodes |-> 0, chunks |-> 0] \in [nodes : Nat, chunks : Nat]
    /\ {} \subseteq Emitted
    BY EmptySeq DEF WorkerStates

(* The variables start with the types TypeOK gives them.                      *)
LEMMA InitTypeOK == Init => TypeOK
<1> SUFFICES ASSUME Init PROVE TypeOK
  OBVIOUS
<1> DEFINE left == {RowOf(n, Enc) : n \in Stale}
<1>1. Enc \in Encodings
  BY EncTyped DEF Enc
<1>2. left \subseteq Row /\ IsFiniteSet(left)
  BY <1>1, WriteSinkAssumption, ReadsBack, RowsCount
<1>3. tables \subseteq left
  BY DEF Init, Enc
<1>4. tables \subseteq Row /\ IsFiniteSet(tables)
  BY <1>2, <1>3, FS_Subset
<1> QED
  BY <1>4, WriteSinkAssumption, EmptyBuildTyped
     DEF Init, NoBuild, TypeOK, MainStates, WriterStates

(* Every step keeps the types.                                                *)
LEMMA NextTypeOK == TypeOK /\ [Next]_vars => TypeOK'
<1> SUFFICES ASSUME TypeOK, [Next]_vars PROVE TypeOK'
  OBVIOUS
<1> USE DEF TypeOK
<1>0. IsFiniteSet({})
  BY FS_EmptySet
<1>1. CASE Clear
  BY <1>1, <1>0 DEF Clear, ClearTrieTables, MainStates, build, sink, thread
<1>2. CASE NewSink
  BY <1>2 DEF NewSink, UsesPackedTrieKeys, MainStates, WriterStates, db, build
<1>3. CASE BuildOk
  BY <1>3 DEF BuildOk, SenderDropped, MainStates, db, build, thread
<1>4. CASE BuildFail
  BY <1>4 DEF BuildFail, MainStates, db, build, thread
<1>5. CASE JoinOk
  BY <1>5 DEF JoinOk, MainStates, db, build, sink, thread
<1>6. CASE JoinErr
  BY <1>6 DEF JoinErr, OnError, MainStates, db, build, sink, thread
<1>7. CASE Exit \/ Crash
  BY <1>7, EmptyBuildTyped
     DEF Exit, Crash, ProcessGone, DropBuild, MainStates, WriterStates, db
<1>8. CASE NextRun
  <2>1. run' \in Nat
    BY <1>8 DEF NextRun
  <2> QED
    BY <1>8, <2>1, EmptyBuildTyped
       DEF NextRun, DropBuild, MainStates, WriterStates, db
<1>9. ASSUME NEW w \in Workers,
             Start(w) \/ SendPanics(w) \/ Finish(w) \/ Fail(w)
      PROVE  TypeOK'
  BY <1>9 DEF Start, SendPanics, Finish, Fail, WorkerStates, db, sink, thread
<1>10. ASSUME NEW w \in Workers, NEW n \in Emitted, Send(w, n)
       PROVE  TypeOK'
  BY <1>10 DEF Send, Full, db, thread
<1>11. CASE Receive
  <2>1. Head(channel) \in Emitted /\ Tail(channel) \in Seq(Emitted)
    BY <1>11, HeadTailProperties DEF Receive, Counted
  <2> QED BY <1>11, <2>1 DEF Receive, Counted, InsertNode, WriterStates, db, build
<1>12. CASE Drained
  BY <1>12 DEF Drained, Remainder, WriterStates, db, build, sink
<1>13. CASE Commit
  <2> DEFINE result == WriteTrieUpdatesWith(tables, UpdatesOf(chunk),
                                            Adapter(packed))
  <2>1. chunk \subseteq Node /\ IsFiniteSet(chunk)
    BY EmittedTyped
  <2>2. Adapter(packed) \in Encodings
    BY EncTyped
  <2>3. /\ result.rows \subseteq Row
        /\ IsFiniteSet(result.rows)
        /\ result.written \in Nat
    BY <2>1, <2>2, WriteTyped
  <2>4. /\ tables' = result.rows
        /\ written' = [nodes  |-> written.nodes + result.written,
                       chunks |-> written.chunks + 1]
    BY <1>13 DEF Commit
  <2> HIDE DEF result
  <2>5. written' \in [nodes : Nat, chunks : Nat]
    BY <2>3, <2>4
  <2> QED BY <1>13, <2>3, <2>4, <2>5 DEF Commit, WriterStates, build, sink
<1>14. CASE CommitFails
  BY <1>14 DEF CommitFails, RolledBack, WriterStates, db, build
<1>15. CASE UNCHANGED vars
  BY <1>15 DEF vars, db, build, sink, thread
<1> QED
  BY <1>1, <1>2, <1>3, <1>4, <1>5, <1>6, <1>7, <1>8, <1>9, <1>10, <1>11,
     <1>12, <1>13, <1>14, <1>15
     DEF Next, MainStep, WorkerStep, WriterStep, Stopped

(* The variables of the writing run always have the types TypeOK gives them:  *)
(* the tables hold finitely many well-formed rows, and what is queued or      *)
(* waiting to be committed is what the build emitted.                         *)
THEOREM TypeCorrect == Spec => []TypeOK
<1>1. Init => TypeOK
  BY InitTypeOK
<1>2. TypeOK /\ [Next]_vars => TypeOK'
  BY NextTypeOK
<1> QED BY <1>1, <1>2, PTL DEF Spec

-----------------------------------------------------------------------------
(* A limit of zero nodes is raised to one.                                    *)
LEMMA ChunkLimitPositive == TypeOK => ChunkLimit \in Nat \ {0}
    BY DEF TypeOK, ChunkLimit

(* Multiplication, as the count of full chunks needs it.                      *)
LEMMA OneMoreChunk ==
    ASSUME NEW c \in Nat, NEW l \in Nat
    PROVE  c * l \in Nat /\ (c + 1) * l = c * l + l /\ 0 * l = 0
    OBVIOUS

(* A node appended to the channel is in it, once, with all that was there.    *)
LEMMA AppendQueued ==
    ASSUME NEW s \in Seq(Emitted), NEW n \in Emitted,
           n \notin {s[i] : i \in 1..Len(s)},
           \A i, j \in 1..Len(s) : s[i] = s[j] => i = j
    PROVE  LET t == Append(s, n)
           IN  /\ {t[i] : i \in 1..Len(t)} = {s[i] : i \in 1..Len(s)} \cup {n}
               /\ \A i, j \in 1..Len(t) : t[i] = t[j] => i = j
               /\ Len(t) = Len(s) + 1
<1> DEFINE t == Append(s, n)
<1>1. /\ Len(t) = Len(s) + 1
      /\ \A i \in 1..Len(s) : t[i] = s[i]
      /\ t[Len(s) + 1] = n
      /\ Len(s) \in Nat
  OBVIOUS
<1> HIDE DEF t
<1>2. {t[i] : i \in 1..Len(t)} = {s[i] : i \in 1..Len(s)} \cup {n}
  <2>1. ASSUME NEW i \in 1..Len(t)
        PROVE  t[i] \in {s[k] : k \in 1..Len(s)} \cup {n}
    BY <1>1
  <2>2. ASSUME NEW i \in 1..Len(s)
        PROVE  s[i] \in {t[k] : k \in 1..Len(t)}
    BY <1>1
  <2>3. n \in {t[k] : k \in 1..Len(t)}
    BY <1>1
  <2> QED BY <2>1, <2>2, <2>3
<1>3. \A i, j \in 1..Len(t) : t[i] = t[j] => i = j
  <2> SUFFICES ASSUME NEW i \in 1..Len(t), NEW j \in 1..Len(t), t[i] = t[j]
               PROVE  i = j
    OBVIOUS
  <2>1. CASE i \in 1..Len(s) /\ j \in 1..Len(s)
    BY <2>1, <1>1
  <2>2. CASE i = Len(s) + 1 /\ j \in 1..Len(s)
    BY <2>2, <1>1
  <2>3. CASE j = Len(s) + 1 /\ i \in 1..Len(s)
    BY <2>3, <1>1
  <2> QED BY <2>1, <2>2, <2>3, <1>1
<1> QED BY <1>1, <1>2, <1>3 DEF t

(* Taking the head out of a channel without doubles leaves all the others.    *)
LEMMA TailQueued ==
    ASSUME NEW s \in Seq(Emitted), s # <<>>,
           \A i, j \in 1..Len(s) : s[i] = s[j] => i = j
    PROVE  LET t == Tail(s)
           IN  /\ {t[i] : i \in 1..Len(t)}
                     = {s[i] : i \in 1..Len(s)} \ {Head(s)}
               /\ Head(s) \in {s[i] : i \in 1..Len(s)}
               /\ \A i, j \in 1..Len(t) : t[i] = t[j] => i = j
               /\ Len(t) = Len(s) - 1
<1> DEFINE t == Tail(s)
<1>1. /\ Len(t) = Len(s) - 1
      /\ \A i \in 1..Len(t) : t[i] = s[i + 1]
      /\ Head(s) = s[1]
      /\ Len(s) \in Nat \ {0}
  BY HeadTailProperties, EmptySeq
<1> HIDE DEF t
<1>2. \A i, j \in 1..Len(t) : t[i] = t[j] => i = j
  <2> SUFFICES ASSUME NEW i \in 1..Len(t), NEW j \in 1..Len(t), t[i] = t[j]
               PROVE  i = j
    OBVIOUS
  <2>1. i + 1 \in 1..Len(s) /\ j + 1 \in 1..Len(s) /\ s[i + 1] = s[j + 1]
    BY <1>1
  <2> QED BY <2>1
<1>3. {t[i] : i \in 1..Len(t)} = {s[i] : i \in 1..Len(s)} \ {Head(s)}
  <2>1. ASSUME NEW i \in 1..Len(t)
        PROVE  t[i] \in {s[k] : k \in 1..Len(s)} \ {Head(s)}
    <3>1. i + 1 \in 1..Len(s) /\ 1 \in 1..Len(s) /\ i + 1 # 1
      BY <1>1
    <3>2. s[i + 1] # s[1]
      BY <3>1
    <3> QED BY <1>1, <3>1, <3>2
  <2>2. ASSUME NEW i \in 1..Len(s), s[i] # Head(s)
        PROVE  s[i] \in {t[k] : k \in 1..Len(t)}
    <3>1. i - 1 \in 1..Len(t) /\ t[i - 1] = s[i]
      BY <1>1, <2>2
    <3> QED BY <3>1
  <2> QED BY <2>1, <2>2
<1>4. Head(s) \in {s[i] : i \in 1..Len(s)}
  BY <1>1
<1> QED BY <1>1, <1>2, <1>3, <1>4 DEF t

(* Inserting a node of the build that the chunk does not hold replaces none.  *)
LEMMA InsertAdds ==
    ASSUME NEW S \in SUBSET Emitted, NEW n \in Emitted, n \notin S
    PROVE  /\ InsertNode(S, n) = S \cup {n}
           /\ Cardinality(S \cup {n}) = Cardinality(S) + 1
<1>1. \A m \in S : KeyOf(m) # KeyOf(n)
  BY WriteSinkAssumption DEF NodeMap
<1>2. InsertNode(S, n) = S \cup {n}
  BY <1>1 DEF InsertNode
<1>3. Cardinality(S \cup {n}) = Cardinality(S) + 1
  BY EmittedTyped, FS_AddElement
<1> QED BY <1>2, <1>3

-----------------------------------------------------------------------------
(* The invariant holds before the first run.                                  *)
LEMMA InitIInv == Init => IInv
<1> SUFFICES ASSUME Init PROVE IInv
  OBVIOUS
<1>1. TypeOK
  BY InitTypeOK
<1>2. Stages
  BY DEF Init, NoBuild, Stages, Inside
<1>3. WriterPlace
  BY DEF Init, NoBuild, WriterPlace
<1>4. BoundedMemory
  <2>1. Cardinality(chunk) = 0 /\ Len(channel) = 0
    BY FS_EmptySet, EmptySeq DEF Init, NoBuild
  <2>2. ChunkLimit \in Nat /\ Capacity \in Nat
    BY <1>1, ChunkLimitPositive, WriteSinkAssumption
  <2> QED BY <2>1, <2>2 DEF Init, NoBuild, BoundedMemory
<1>5. Apart
  BY DEF Init, NoBuild, Apart, Queued, Underway
<1>6. Kept /\ OnlySentNodes /\ Counts
  BY DEF Init, Kept, OnlySentNodes, Counts, Underway
<1> QED BY <1>1, <1>2, <1>3, <1>4, <1>5, <1>6 DEF IInv

(* A step of the main thread or of a worker that moves no node and leaves the *)
(* tables alone keeps who holds what.                                         *)
LEMMA NothingMoves ==
    ASSUME IInv, Underway, Underway',
           UNCHANGED <<db, flags, unsent, channel, chunk, writer, written>>
    PROVE  Apart' /\ Kept' /\ OnlySentNodes' /\ Counts'
<1>1. Apart'
  BY DEF IInv, Apart, Queued, Stored, db
<1>2. Kept'
  BY DEF IInv, Kept, Queued, Stored, db
<1>3. OnlySentNodes'
  BY DEF IInv, OnlySentNodes, db
<1>4. Counts'
  BY DEF IInv, Counts, ChunkLimit, db
<1> QED BY <1>1, <1>2, <1>3, <1>4

(* A process that ends, or a run that has not cleared the tables, holds no    *)
(* node.                                                                      *)
LEMMA DroppedIInv ==
    ASSUME IInv, TypeOK', DropBuild, main' \in {"start", "exited"},
           UNCHANGED <<db, flags>>
    PROVE  IInv'
<1>1. Stages'
  BY DEF DropBuild, Stages, Inside
<1>2. WriterPlace'
  BY DEF DropBuild, WriterPlace
<1>3. BoundedMemory'
  <2>1. Cardinality(chunk') = 0 /\ Len(channel') = 0
    BY FS_EmptySet, EmptySeq DEF DropBuild
  <2>2. ChunkLimit \in Nat /\ Capacity \in Nat
    BY ChunkLimitPositive, WriteSinkAssumption DEF IInv
  <2> QED BY <2>1, <2>2 DEF DropBuild, BoundedMemory, ChunkLimit
<1>4. Apart'
  BY DEF DropBuild, Apart, Queued, Underway
<1>5. Kept' /\ OnlySentNodes' /\ Counts'
  BY DEF Kept, OnlySentNodes, Counts, Underway
<1> QED BY <1>1, <1>2, <1>3, <1>4, <1>5 DEF IInv

(* Every step of the main thread keeps the invariant.                         *)
LEMMA MainIInv == IInv /\ TypeOK' /\ (MainStep \/ Crash \/ NextRun) => IInv'
<1> SUFFICES ASSUME IInv, TypeOK', MainStep \/ Crash \/ NextRun PROVE IInv'
  OBVIOUS
<1>1. CASE Clear
  <2>1. Stages'
    BY <1>1 DEF IInv, Clear, ClearTrieTables, Stages, Inside, build, sink, thread
  <2>2. WriterPlace' /\ BoundedMemory'
    BY <1>1 DEF IInv, Clear, WriterPlace, BoundedMemory, ChunkLimit, sink, thread
  <2>3. Apart' /\ Kept' /\ OnlySentNodes'
    BY <1>1 DEF IInv, Clear, ClearTrieTables, Stages, Inside, Apart, Kept,
                OnlySentNodes, Queued, Stored, build, sink, thread
  <2>4. Counts'
    <3>1. Cardinality(tables') = 0
      BY <1>1, FS_EmptySet DEF Clear, ClearTrieTables
    <3>2. written' = [nodes |-> 0, chunks |-> 0] /\ writer' = "none"
      BY <1>1 DEF IInv, Clear, Stages, Inside, thread
    <3>3. ChunkLimit' \in Nat
      BY <1>1, ChunkLimitPositive DEF IInv, Clear, ChunkLimit
    <3>4. 0 * ChunkLimit' = 0
      BY <3>3, OneMoreChunk
    <3> QED BY <3>1, <3>2, <3>4 DEF Counts
  <2> QED BY <2>1, <2>2, <2>3, <2>4 DEF IInv
<1>2. CASE NewSink
  <2>1. Stages'
    BY <1>2 DEF IInv, NewSink, Stages, Inside, db, build
  <2>2. WriterPlace' /\ BoundedMemory'
    <3>1. ChunkLimit \in Nat \ {0}
      BY ChunkLimitPositive DEF IInv
    <3>2. pending = 0 /\ chunk = {} /\ channel = <<>>
      BY <1>2 DEF IInv, NewSink, Stages, Inside
    <3>3. Cardinality({}) = 0
      BY FS_EmptySet
    <3> QED BY <1>2, <3>1, <3>2, <3>3
            DEF IInv, NewSink, WriterPlace, BoundedMemory, ChunkLimit
  <2>3. Apart' /\ Kept' /\ OnlySentNodes'
    BY <1>2 DEF IInv, NewSink, Stages, Inside, Apart, Kept, OnlySentNodes,
                Queued, Stored, Underway, db, build
  <2>4. Counts'
    BY <1>2 DEF IInv, NewSink, Stages, Inside, Counts, ChunkLimit, Underway, db
  <2> QED BY <2>1, <2>2, <2>3, <2>4 DEF IInv
<1>3. CASE BuildOk \/ BuildFail \/ JoinOk \/ JoinErr
  <2>1. Stages'
    BY <1>3 DEF IInv, BuildOk, SenderDropped, BuildFail, JoinOk, JoinErr, OnError,
                Ended, Stages, Inside, db, build, sink, thread
  <2>2. WriterPlace' /\ BoundedMemory'
    BY <1>3 DEF IInv, BuildOk, SenderDropped, BuildFail, JoinOk, JoinErr, OnError,
                WriterPlace, BoundedMemory, ChunkLimit, sink, thread
  <2>3. Apart' /\ Kept' /\ OnlySentNodes' /\ Counts'
    BY <1>3, NothingMoves
       DEF BuildOk, SenderDropped, BuildFail, JoinOk, JoinErr, OnError, Underway,
           db, build, sink, thread
  <2> QED BY <2>1, <2>2, <2>3 DEF IInv
<1>4. CASE Exit \/ Crash \/ NextRun
  BY <1>4, DroppedIInv DEF Exit, Crash, ProcessGone, NextRun
<1> QED BY <1>1, <1>2, <1>3, <1>4 DEF MainStep

(* Every step of a partition worker keeps the invariant.                      *)
LEMMA WorkerIInv ==
    ASSUME IInv, TypeOK', NEW w \in Workers, WorkerStep(w) \/ Fail(w)
    PROVE  IInv'
<1>1. CASE Start(w) \/ SendPanics(w) \/ Finish(w) \/ Fail(w)
  <2>1. main = "building"
    BY <1>1 DEF IInv, Start, SendPanics, Finish, Fail, Stages
  <2>2. Stages'
    BY <1>1, <2>1 DEF IInv, Start, SendPanics, Finish, Fail, TypeOK, Stages,
                      Inside, db, sink, thread
  <2>3. WriterPlace' /\ BoundedMemory'
    BY <1>1 DEF IInv, Start, SendPanics, Finish, Fail, WriterPlace,
                BoundedMemory, ChunkLimit, sink, thread
  <2>4. Apart' /\ Kept' /\ OnlySentNodes' /\ Counts'
    BY <1>1, <2>1, NothingMoves
       DEF Start, SendPanics, Finish, Fail, Underway, sink, thread
  <2> QED BY <2>2, <2>3, <2>4 DEF IInv
<1>2. ASSUME NEW n \in Emitted, Send(w, n)
      PROVE  IInv'
  <2>1. main = "building" /\ main' = "building"
    BY <1>2 DEF IInv, Send, Full, Stages
  <2>2. writer \in {"recv", "commit"}
    BY <1>2, <2>1 DEF IInv, TypeOK, Send, Full, ReceiverGone, Stages, Inside,
                      WriterPlace, WriterStates
  <2>3. n \in unsent /\ n \notin Queued /\ n \notin chunk
    BY <1>2 DEF IInv, Send, Full, Apart
  <2>4. /\ Queued' = Queued \cup {n}
        /\ \A i, j \in 1..Len(channel') : channel'[i] = channel'[j] => i = j
        /\ Len(channel') = Len(channel) + 1
    <3>1. channel' = Append(channel, n) /\ channel \in Seq(Emitted)
      BY <1>2 DEF IInv, TypeOK, Send, Full
    <3>2. \A i, j \in 1..Len(channel) : channel[i] = channel[j] => i = j
      BY DEF IInv, Apart
    <3>3. n \notin {channel[i] : i \in 1..Len(channel)}
      BY <2>3 DEF Queued
    <3> QED BY <3>1, <3>2, <3>3, AppendQueued DEF Queued
  <2>5. Stages'
    BY <1>2, <2>1 DEF IInv, Send, Full, Stages, Inside, db, thread
  <2>6. WriterPlace'
    BY <1>2, <2>2 DEF IInv, Send, Full, WriterPlace, ChunkLimit, thread
  <2>7. BoundedMemory'
    BY <1>2, <2>4, WriteSinkAssumption
       DEF IInv, TypeOK, Send, Full, BoundedMemory, ChunkLimit, thread
  <2>8. Apart'
    BY <1>2, <2>1, <2>3, <2>4 DEF IInv, Send, Full, Apart, Stored, Underway, db,
                                  thread
  <2>9. Kept'
    BY <1>2, <2>1, <2>4 DEF IInv, Send, Full, Kept, Stored, Underway, db, thread
  <2>10. OnlySentNodes'
    BY <1>2, <2>1 DEF IInv, Send, Full, OnlySentNodes, Underway, db
  <2>11. Counts'
    BY <1>2, <2>1 DEF IInv, Send, Full, Counts, ChunkLimit, Underway, db, thread
  <2> QED BY <2>5, <2>6, <2>7, <2>8, <2>9, <2>10, <2>11 DEF IInv
<1> QED BY <1>1, <1>2 DEF WorkerStep

(* What a commit of the writer does: the rows of the chunk, none of which was *)
(* there, join the tables, and the totals grow by their number.               *)
LEMMA CommitEffect ==
    ASSUME IInv, Commit
    PROVE  /\ tables' = tables \cup {RowOf(n, Enc) : n \in chunk}
           /\ \A n \in Emitted : Stored(n)' <=> Stored(n) \/ n \in chunk
           /\ Cardinality(tables') = Cardinality(tables) + Cardinality(chunk)
           /\ written' = [nodes  |-> written.nodes + Cardinality(chunk),
                          chunks |-> written.chunks + 1]
<1> DEFINE new == {RowOf(n, Enc) : n \in chunk}
<1>1. Underway /\ Adapter(packed) = Enc
  BY DEF IInv, TypeOK, Commit, Stages, Inside, Underway, Enc
<1>2. Enc \in Encodings
  BY EncTyped DEF Enc
<1>3. chunk \subseteq Node /\ IsFiniteSet(chunk) /\ Emitted \subseteq Node
  BY EmittedTyped DEF IInv, TypeOK
<1>4. \A n \in chunk : n.path # EmptyPath
  BY WriteSinkAssumption DEF IInv, TypeOK
<1>5. ASSUME NEW n \in chunk, NEW r \in tables
      PROVE  KeyOf(r) # KeyOf(n) /\ r # RowOf(n, Enc)
  <2>1. PICK m \in Emitted : r = RowOf(m, Enc)
    BY <1>1 DEF IInv, OnlySentNodes, Enc
  <2>2. m # n /\ n \in Emitted
    BY <1>1, <2>1 DEF IInv, TypeOK, Apart, Stored, Enc
  <2>3. KeyOf(r) = KeyOf(m)
    BY <1>2, <1>3, <2>1, ReadsBack
  <2>4. KeyOf(m) # KeyOf(n)
    BY <2>2, WriteSinkAssumption DEF NodeMap
  <2>5. KeyOf(RowOf(n, Enc)) = KeyOf(n)
    BY <1>2, <1>3, ReadsBack
  <2> QED BY <2>3, <2>4, <2>5
<1>6. WriteTrieUpdatesWith(tables, UpdatesOf(chunk), Enc) =
        [rows |-> tables \cup new, written |-> Cardinality(chunk)]
  BY <1>2, <1>3, <1>4, <1>5, CommitAddsChunk
<1>7. /\ tables' = tables \cup new
      /\ written' = [nodes  |-> written.nodes + Cardinality(chunk),
                     chunks |-> written.chunks + 1]
  BY <1>1, <1>6 DEF Commit
<1>8. ASSUME NEW n \in Emitted
      PROVE  Stored(n)' <=> Stored(n) \/ n \in chunk
  <2>1. Enc' = Enc
    BY DEF Commit, Enc
  <2>2. RowOf(n, Enc) \in new <=> n \in chunk
    BY <1>2, <1>3, RowsDiffer
  <2> QED BY <1>7, <2>1, <2>2 DEF Stored, Enc
<1>9. Cardinality(tables') = Cardinality(tables) + Cardinality(chunk)
  <2>1. IsFiniteSet(new) /\ Cardinality(new) = Cardinality(chunk)
    BY <1>2, <1>3, RowsCount
  <2>2. tables \cap new = {}
    BY <1>5
  <2>3. IsFiniteSet(tables)
    BY DEF IInv, TypeOK
  <2> HIDE DEF new
  <2> QED BY <1>7, <2>1, <2>2, <2>3, DisjointCount
<1> QED BY <1>7, <1>8, <1>9

(* A commit keeps the invariant.                                              *)
LEMMA CommitIInv == IInv /\ TypeOK' /\ Commit => IInv'
<1> SUFFICES ASSUME IInv, TypeOK', Commit PROVE IInv'
  OBVIOUS
<1>1. /\ tables' = tables \cup {RowOf(n, Enc) : n \in chunk}
      /\ \A n \in Emitted : Stored(n)' <=> Stored(n) \/ n \in chunk
      /\ Cardinality(tables') = Cardinality(tables) + Cardinality(chunk)
      /\ written' = [nodes  |-> written.nodes + Cardinality(chunk),
                     chunks |-> written.chunks + 1]
  BY CommitEffect
<1>2. Underway /\ Underway' /\ Inside /\ main' = main
  BY DEF IInv, TypeOK, Commit, Stages, Inside, Underway
<1>3. ChunkLimit \in Nat \ {0} /\ ChunkLimit' = ChunkLimit
  BY ChunkLimitPositive DEF IInv, Commit, ChunkLimit
<1>4. chunk' = {} /\ Queued' = Queued /\ unsent' = unsent
  BY DEF Commit, Queued, build, sink
<1>5. Stages'
  BY <1>2 DEF IInv, Commit, Stages, Inside, build, sink
<1>6. WriterPlace' /\ BoundedMemory'
  <2>1. Cardinality(chunk') = 0
    BY <1>4, FS_EmptySet
  <2> QED
    BY <1>3, <1>4, <2>1 DEF IInv, Commit, WriterPlace, BoundedMemory, sink
<1>7. Apart'
  <2>1. Queued \subseteq Emitted
    BY DEF IInv, TypeOK, Queued
  <2>2. ASSUME NEW n \in unsent \cup Queued
        PROVE  ~Stored(n)'
    BY <1>1, <1>2, <2>1 DEF IInv, TypeOK, Apart
  <2> QED BY <1>4, <2>2 DEF IInv, Commit, Apart, sink
<1>8. Kept'
  BY <1>1, <1>2, <1>4 DEF IInv, Commit, Kept
<1>9. OnlySentNodes'
  <2>1. \A n \in chunk : n \in Emitted \ unsent
    BY DEF IInv, TypeOK, Apart
  <2>2. Enc' = Enc
    BY DEF Commit, Enc
  <2> QED BY <1>1, <1>2, <1>4, <2>1, <2>2 DEF IInv, OnlySentNodes, Enc
<1>10. Counts'
  <2> DEFINE L == ChunkLimit
             c == written.chunks
             k == Cardinality(chunk)
  <2>1. /\ written.nodes = Cardinality(tables)
        /\ written.nodes = c * L
        /\ c \in Nat /\ k \in Nat
        /\ written.nodes \in Nat
    BY <1>2, EmittedTyped, FS_CardinalityType DEF IInv, TypeOK, Commit, Counts
  <2>2. \/ writer = "commit" /\ k = L
        \/ writer = "flush" /\ k > 0 /\ k < L
    BY DEF IInv, Commit, WriterPlace, BoundedMemory
  <2>3. /\ written'.nodes = c * L + k
        /\ written'.chunks * L = c * L + L
        /\ c * L \in Nat
    <3>1. written'.chunks = c + 1 /\ written'.nodes = c * L + k
      BY <1>1, <2>1
    <3> QED BY <1>3, <2>1, <3>1, OneMoreChunk
  <2>4. written'.nodes = Cardinality(tables')
    BY <1>1, <2>1
  <2>5. /\ writer' # "ok" => k = L
        /\ writer' = "ok" => k > 0 /\ k < L
    BY <2>2 DEF Commit
  <2> HIDE DEF L, c, k
  <2>6. /\ writer' # "ok" => written'.nodes = written'.chunks * L
        /\ writer' = "ok" => /\ written'.nodes <= written'.chunks * L
                             /\ written'.chunks * L < written'.nodes + L
    BY <1>3, <2>1, <2>3, <2>5 DEF L
  <2> QED BY <1>3, <2>4, <2>6 DEF Counts, L
<1> QED BY <1>5, <1>6, <1>7, <1>8, <1>9, <1>10 DEF IInv

(* Every step of the writer keeps the invariant.                              *)
LEMMA WriterIInv == IInv /\ TypeOK' /\ WriterStep => IInv'
<1> SUFFICES ASSUME IInv, TypeOK', WriterStep PROVE IInv'
  OBVIOUS
<1>0. ChunkLimit \in Nat \ {0} /\ Cardinality({}) = 0 /\ Capacity \in Nat
  BY ChunkLimitPositive, FS_EmptySet, WriteSinkAssumption DEF IInv
<1>1. CASE Receive
  <2> DEFINE n == Head(channel)
  <2>1. n \in Emitted
    BY <1>1, HeadTailProperties DEF IInv, TypeOK, Receive, Counted
  <2>2. /\ Queued' = Queued \ {n}
        /\ n \in Queued
        /\ \A i, j \in 1..Len(channel') : channel'[i] = channel'[j] => i = j
        /\ Len(channel') = Len(channel) - 1
    <3>1. /\ channel' = Tail(channel)
          /\ channel # <<>>
          /\ channel \in Seq(Emitted)
      BY <1>1 DEF IInv, TypeOK, Receive, Counted
    <3>2. \A i, j \in 1..Len(channel) : channel[i] = channel[j] => i = j
      BY DEF IInv, Apart
    <3> DEFINE t == Tail(channel)
    <3>3. /\ {t[i] : i \in 1..Len(t)} = Queued \ {n}
          /\ n \in Queued
          /\ \A i, j \in 1..Len(t) : t[i] = t[j] => i = j
          /\ Len(t) = Len(channel) - 1
      BY <3>1, <3>2, TailQueued DEF Queued
    <3>4. channel' = t
      BY <3>1
    <3> HIDE DEF t, n
    <3> QED BY <3>3, <3>4 DEF Queued
  <2>3. n \notin chunk /\ n \notin unsent
    BY <2>2 DEF IInv, Apart
  <2>4. /\ chunk' = chunk \cup {n}
        /\ Cardinality(chunk') = Cardinality(chunk) + 1
    BY <1>1, <2>1, <2>3, InsertAdds DEF IInv, TypeOK, Receive, Counted
  <2> HIDE DEF n
  <2>5. Stages'
    BY <1>1 DEF IInv, Receive, Counted, Stages, Inside, db, build
  <2>6. WriterPlace' /\ BoundedMemory'
    <3>1. pending' = pending + 1 /\ pending < ChunkLimit /\ pending \in Nat
      BY <1>1 DEF IInv, TypeOK, Receive, Counted, WriterPlace
    <3>2. ChunkLimit' = ChunkLimit
      BY <1>1 DEF Receive, Counted, ChunkLimit
    <3>3. pending' = Cardinality(chunk')
      BY <1>1, <2>4, <3>1 DEF IInv, Receive, Counted, BoundedMemory
    <3>4. Len(channel') <= Capacity
      BY <1>0, <2>2 DEF IInv, TypeOK, BoundedMemory
    <3>5. \/ writer' = "commit" /\ pending' = ChunkLimit
          \/ writer' = "recv" /\ pending' < ChunkLimit
      BY <1>0, <1>1, <3>1 DEF Receive, Counted
    <3>6. pending' <= ChunkLimit /\ pending' \in Nat
      BY <1>0, <3>1
    <3>7. WriterPlace'
      BY <3>2, <3>5 DEF WriterPlace
    <3>8. BoundedMemory'
      BY <3>2, <3>3, <3>4, <3>6 DEF BoundedMemory
    <3> QED BY <3>7, <3>8
  <2>7. Apart'
    BY <1>1, <2>2, <2>3, <2>4
       DEF IInv, Receive, Counted, Apart, Stored, Underway, db, build
  <2>8. Kept'
    BY <1>1, <2>2, <2>4 DEF IInv, Receive, Counted, Kept, Stored, Underway, db,
                            build
  <2>9. OnlySentNodes'
    BY <1>1 DEF IInv, Receive, Counted, OnlySentNodes, Underway, db, build
  <2>10. Counts'
    BY <1>1 DEF IInv, Receive, Counted, Counts, ChunkLimit, Underway, db
  <2> QED BY <2>5, <2>6, <2>7, <2>8, <2>9, <2>10 DEF IInv
<1>2. CASE Drained
  <2>1. /\ pending \in Nat
        /\ pending < ChunkLimit
        /\ pending = Cardinality(chunk)
        /\ IsFiniteSet(chunk)
    BY <1>2, EmittedTyped DEF IInv, TypeOK, Drained, Remainder, WriterPlace,
                              BoundedMemory
  <2>2. pending = 0 => chunk = {}
    BY <2>1, FS_EmptySet
  <2>3. Stages'
    BY <1>2 DEF IInv, Drained, Remainder, Stages, Inside, db, build, sink
  <2>4. WriterPlace' /\ BoundedMemory'
    BY <1>2, <2>1, <2>2
       DEF IInv, Drained, Remainder, WriterPlace, BoundedMemory, ChunkLimit, sink
  <2>5. Apart' /\ OnlySentNodes'
    BY <1>2 DEF IInv, Drained, Remainder, Apart, OnlySentNodes, Queued, Stored,
                Underway, db, build, sink
  <2>6. Kept'
    BY <1>2 DEF IInv, Drained, Remainder, Kept, Queued, Stored, Underway, db,
                build, sink
  <2>7. Counts'
    <3>1. ChunkLimit' = ChunkLimit
      BY <1>2 DEF Drained, Remainder, ChunkLimit
    <3>2. written.nodes \in Nat
      BY DEF IInv, TypeOK
    <3> QED BY <1>0, <1>2, <3>1, <3>2
       DEF IInv, Drained, Remainder, Counts, Underway, db
  <2> QED BY <2>3, <2>4, <2>5, <2>6, <2>7 DEF IInv
<1>3. CASE CommitFails
  <2>1. Stages'
    BY <1>3 DEF IInv, CommitFails, RolledBack, Stages, Inside, db, build
  <2>2. WriterPlace' /\ BoundedMemory'
    BY <1>0, <1>3, EmptySeq
       DEF IInv, CommitFails, RolledBack, WriterPlace, BoundedMemory, ChunkLimit
  <2>3. Apart' /\ Kept' /\ OnlySentNodes'
    BY <1>3, EmptySeq
       DEF IInv, CommitFails, RolledBack, Apart, Kept, OnlySentNodes, Queued,
           Stored, Underway, db, build
  <2>4. Counts'
    BY <1>3 DEF IInv, CommitFails, RolledBack, Counts, ChunkLimit, Underway, db
  <2> QED BY <2>1, <2>2, <2>3, <2>4 DEF IInv
<1>4. CASE Commit
  BY <1>4, CommitIInv
<1> QED BY <1>1, <1>2, <1>3, <1>4 DEF WriterStep

-----------------------------------------------------------------------------
(* The invariant holds in every state of every behaviour of the writing run.  *)
THEOREM Invariant == Spec => []IInv
<1>1. Init => IInv
  BY InitIInv
<1>2. IInv /\ [Next]_vars => IInv'
  <2> SUFFICES ASSUME IInv, [Next]_vars PROVE IInv'
    OBVIOUS
  <2>1. TypeOK'
    BY NextTypeOK DEF IInv
  <2>2. CASE MainStep \/ Crash \/ NextRun
    BY <2>1, <2>2, MainIInv
  <2>3. ASSUME NEW w \in Workers, WorkerStep(w) \/ Fail(w) PROVE IInv'
    BY <2>1, <2>3, WorkerIInv
  <2>4. CASE WriterStep
    BY <2>1, <2>4, WriterIInv
  <2>5. CASE UNCHANGED vars
    BY <2>1, <2>5
       DEF IInv, Stages, Inside, WriterPlace, BoundedMemory, Apart, Kept,
           OnlySentNodes, Counts, Queued, Stored, Underway, ChunkLimit, vars, db,
           build, sink, thread
  <2> QED BY <2>2, <2>3, <2>4, <2>5 DEF Next, Stopped
<1> QED BY <1>1, <1>2, PTL DEF Spec

(* No node of the build is lost or doubled between the workers, the channel,  *)
(* the chunk and the tables, for any number of workers and any chunk size.    *)
THEOREM NoNodeLost == Spec => []EveryNodeOnce
<1>1. IInv => EveryNodeOnce
  BY DEF IInv, Apart, Kept, EveryNodeOnce
<1> QED BY <1>1, Invariant, PTL

(* After the clearing the tables hold only nodes this build has sent, whatever*)
(* fails or dies.                                                             *)
THEOREM TablesOnlySentNodes == Spec => []OnlySentNodes
<1>1. IInv => OnlySentNodes
  BY DEF IInv
<1> QED BY <1>1, Invariant, PTL

(* The sink never holds more than the channel's capacity and one chunk.       *)
THEOREM MemoryBounded == Spec => []BoundedMemory
<1>1. IInv => BoundedMemory
  BY DEF IInv
<1> QED BY <1>1, Invariant, PTL

(* What reth reads from the tables are the nodes of the build stored there.   *)
LEMMA ReadsStored ==
    ASSUME IInv, Underway
    PROVE  /\ ReadTables(tables, settings) = {n \in Emitted : Stored(n)}
           /\ tables = {RowOf(n, Enc) : n \in {m \in Emitted : Stored(m)}}
<1>1. Enc \in Encodings /\ Emitted \subseteq Node
  BY EncTyped, WriteSinkAssumption DEF Enc
<1>2. \A r \in tables : \E n \in Emitted : r = RowOf(n, Enc)
  BY DEF IInv, OnlySentNodes, Enc
<1>3. \A n \in Emitted : ReadRow(RowOf(n, Enc), Enc) = n
  BY <1>1, ReadsBack
<1>4. \A n \in Emitted : Stored(n) <=> RowOf(n, Enc) \in tables
  BY DEF Stored, Enc
<1>5. ReadTables(tables, settings) = {ReadRow(r, Enc) : r \in tables}
  BY DEF ReadTables, Enc
<1>6. {ReadRow(r, Enc) : r \in tables} = {n \in Emitted : Stored(n)}
  BY <1>2, <1>3, <1>4
<1>7. tables = {RowOf(n, Enc) : n \in {m \in Emitted : Stored(m)}}
  BY <1>2, <1>4
<1> QED BY <1>5, <1>6, <1>7

(* Once the writer has returned its result to a complete build, every node is *)
(* stored and counted.                                                        *)
LEMMA JoinedComplete ==
    ASSUME IInv, main \in {"joining", "reported"}, writer = "ok"
    PROVE  /\ ReadTables(tables, settings) = Emitted
           /\ written.nodes = Cardinality(Emitted)
<1>1. unsent = {}
  BY WriteSinkAssumption DEF IInv, TypeOK, Stages
<1>2. Queued = {} /\ chunk = {}
  BY EmptySeq DEF IInv, WriterPlace, Queued
<1>3. Underway
  BY DEF Underway
<1>4. \A n \in Emitted : Stored(n)
  BY <1>1, <1>2, <1>3 DEF IInv, Kept
<1>5. {n \in Emitted : Stored(n)} = Emitted
  BY <1>4
<1>6. ReadTables(tables, settings) = Emitted
  BY <1>3, <1>5, ReadsStored
<1>7. tables = {RowOf(n, Enc) : n \in Emitted}
  BY <1>3, <1>5, ReadsStored
<1>8. Cardinality(tables) = Cardinality(Emitted)
  BY <1>7, EncTyped, EmittedTyped, RowsCount DEF Enc
<1>9. written.nodes = Cardinality(Emitted)
  BY <1>3, <1>8 DEF IInv, Counts
<1> QED BY <1>6, <1>9

(* A run that reports has written exactly the nodes of the build, readable in *)
(* the database's own encoding, and reports their number and the number of    *)
(* chunks they take.                                                          *)
THEOREM ReportedRunIsExact == Spec => []ReportExact
<1>1. IInv => ReportExact
  <2> SUFFICES ASSUME IInv, main = "reported" PROVE ReportExact
    BY DEF ReportExact
  <2>1. writer = "ok" /\ Underway
    BY DEF IInv, Stages, Underway
  <2> QED BY <2>1, JoinedComplete DEF IInv, Counts, ReportExact
<1> QED BY <1>1, Invariant, PTL

(* Only the clearing and the commits of the writer touch the tables.          *)
LEMMA TablesChange ==
    ASSUME [Next]_vars, tables' # tables PROVE Clear \/ Commit
    BY DEF Next, MainStep, WorkerStep, WriterStep, NewSink, BuildOk,
           SenderDropped, BuildFail, JoinOk, JoinErr, OnError, Exit, Crash,
           ProcessGone, NextRun, Start, Send, Full, SendPanics, Finish, Fail,
           Receive, Counted, Drained, Remainder, CommitFails, RolledBack, Stopped,
           vars, db

(* The tables are emptied or grow by one whole chunk; a chunk smaller than    *)
(* chunk_nodes is the last one, after the channel is closed and drained.      *)
THEOREM OnlyWholeChunks == Spec => WholeChunks
<1> DEFINE added == Cardinality(tables' \ tables)
           Grows == /\ tables \subseteq tables'
                    /\ \/ added = ChunkLimit
                       \/ added < ChunkLimit /\ ~senderOpen /\ channel = <<>>
<1>1. ASSUME IInv, [Next]_vars, tables' # tables
      PROVE  (main = "start" /\ tables' = {}) \/ Grows
  <2>1. CASE Clear
    BY <2>1 DEF Clear, ClearTrieTables
  <2>2. CASE Commit
    <3> DEFINE new == {RowOf(n, Enc) : n \in chunk}
    <3>1. tables' = tables \cup new
      BY <1>1, <2>2, CommitEffect
    <3>2. tables' \ tables = new
      <4>1. ASSUME NEW n \in chunk PROVE RowOf(n, Enc) \notin tables
        BY <1>1, <2>2
           DEF IInv, TypeOK, Commit, Stages, Inside, Underway, Apart, Stored, Enc
      <4> QED BY <3>1, <4>1
    <3>3. Cardinality(new) = Cardinality(chunk)
      BY <1>1, EncTyped, EmittedTyped, RowsCount DEF IInv, TypeOK, Enc
    <3>4. added = Cardinality(chunk)
      BY <3>2, <3>3
    <3>5. \/ writer = "commit" /\ Cardinality(chunk) = ChunkLimit
          \/ /\ writer = "flush" /\ Cardinality(chunk) < ChunkLimit
             /\ ~senderOpen /\ channel = <<>>
      BY <1>1, <2>2 DEF IInv, Commit, WriterPlace, BoundedMemory
    <3> HIDE DEF added
    <3> QED BY <3>1, <3>4, <3>5
  <2> QED BY <1>1, <2>1, <2>2, TablesChange
<1>2. IInv /\ [Next]_vars =>
        [tables' # tables => (main = "start" /\ tables' = {}) \/ Grows]_vars
  BY <1>1
<1>3. [][tables' # tables => (main = "start" /\ tables' = {}) \/ Grows]_vars
        => WholeChunks
  BY PTL DEF WholeChunks
<1> QED BY <1>2, <1>3, Invariant, PTL DEF Spec

-----------------------------------------------------------------------------
(* The writing run implements what ChunkedBuild promises of a rebuild: every  *)
(* step is one of its steps, or changes nothing a reader of the tables sees.  *)
THEOREM Refinement == Spec => ImplementsChunkedBuild
<1> DEFINE seen == ReadTables(tables, settings)
<1>1. Init => Promise!Init
  <2> SUFFICES ASSUME Init PROVE Promise!Init
    OBVIOUS
  <2>1. ChunkedPhase = "stale"
    BY DEF Init, ChunkedPhase, Underway
  <2>2. seen \subseteq Stale
    <3>1. \A n \in Stale : ReadRow(RowOf(n, Enc), Enc) = n
      BY EncTyped, WriteSinkAssumption, ReadsBack DEF Enc
    <3>2. \A r \in tables : \E n \in Stale : r = RowOf(n, Enc)
      BY DEF Init, Enc
    <3>3. seen = {ReadRow(r, Enc) : r \in tables}
      BY DEF ReadTables, Enc
    <3> QED BY <3>1, <3>2, <3>3
  <2> QED BY <2>1, <2>2 DEF Promise!Init
<1>2. ASSUME IInv, [Next]_vars PROVE [Promise!Next]_(Promise!vars)
  <2>1. CASE Clear
    <3>1. ChunkedPhase = "stale" /\ ChunkedPhase' = "building" /\ seen' = {}
      BY <2>1 DEF Clear, ClearTrieTables, ChunkedPhase, Underway, ReadTables
    <3> QED BY <3>1 DEF Promise!Next, Promise!Begin
  <2>2. CASE Commit
    <3>1. Underway /\ Underway' /\ main' = main /\ main # "reported" /\ IInv'
      BY <1>2, <2>2, NextTypeOK, CommitIInv
         DEF IInv, TypeOK, Commit, Stages, Inside, Underway
    <3>2. ChunkedPhase = "building" /\ ChunkedPhase' = "building"
      BY <3>1 DEF ChunkedPhase, Underway
    <3>3. seen = {n \in Emitted : Stored(n)}
      BY <1>2, <3>1, ReadsStored
    <3>4. seen' \subseteq Emitted /\ seen \subseteq seen'
      <4>1. Enc' = Enc /\ seen' = {ReadRow(r, Enc) : r \in tables'}
        BY <2>2 DEF Commit, ReadTables, Enc
      <4>2. tables' = tables \cup {RowOf(n, Enc) : n \in chunk}
        BY <1>2, <2>2, CommitEffect
      <4>3. \A n \in chunk : n \in Emitted /\ ReadRow(RowOf(n, Enc), Enc) = n
        BY <1>2, EncTyped, EmittedTyped, ReadsBack DEF IInv, TypeOK, Enc
      <4>4. seen = {ReadRow(r, Enc) : r \in tables}
        BY DEF ReadTables, Enc
      <4>5. seen' = seen \cup chunk
        BY <4>1, <4>2, <4>3, <4>4
      <4> QED BY <3>3, <4>3, <4>5
    <3> QED BY <3>2, <3>4 DEF Promise!Next, Promise!Commit
  <2>3. CASE JoinOk
    <3>1. seen = Emitted /\ seen' = seen
      BY <1>2, <2>3, JoinedComplete DEF JoinOk, ReadTables, db
    <3>2. ChunkedPhase = "building" /\ ChunkedPhase' = "done"
      BY <2>3 DEF JoinOk, ChunkedPhase, Underway
    <3> QED BY <3>1, <3>2 DEF Promise!Next, Promise!Report
  <2>4. CASE Exit \/ Crash \/ NextRun
    <3>1. seen' = seen
      BY <2>4 DEF Exit, Crash, ProcessGone, NextRun, ReadTables, db
    <3>2. /\ ChunkedPhase' = "stale"
          /\ ChunkedPhase \in {"stale", "building", "done"}
      BY <2>4 DEF Exit, Crash, ProcessGone, NextRun, ChunkedPhase, Underway
    <3> QED BY <3>1, <3>2 DEF Promise!Next, Promise!Abandon, Promise!vars
  <2>5. ASSUME tables' = tables, settings' = settings,
               ChunkedPhase' = ChunkedPhase
        PROVE  UNCHANGED Promise!vars
    BY <2>5 DEF Promise!vars, ReadTables
  <2>6. CASE NewSink \/ BuildOk \/ BuildFail \/ JoinErr
    BY <2>5, <2>6
       DEF NewSink, BuildOk, SenderDropped, BuildFail, JoinErr, OnError,
           ChunkedPhase, Underway, db
  <2>7. ASSUME NEW w \in Workers, WorkerStep(w) \/ Fail(w)
        PROVE  UNCHANGED Promise!vars
    BY <2>5, <2>7
       DEF WorkerStep, Start, Send, Full, SendPanics, Finish, Fail, ChunkedPhase,
           Underway, db
  <2>8. CASE Receive \/ Drained \/ CommitFails
    BY <2>5, <2>8 DEF Receive, Counted, Drained, Remainder, CommitFails,
                      RolledBack, ChunkedPhase, Underway, db
  <2>9. CASE UNCHANGED vars
    BY <2>5, <2>9 DEF vars, db, ChunkedPhase, Underway
  <2> QED
    BY <1>2, <2>1, <2>2, <2>3, <2>4, <2>6, <2>7, <2>8, <2>9
       DEF Next, MainStep, WriterStep, Stopped
<1> QED BY <1>1, <1>2, Invariant, PTL DEF Spec, ImplementsChunkedBuild, Promise!Spec

=============================================================================
