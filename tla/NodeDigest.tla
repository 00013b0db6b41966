------------------------------ MODULE NodeDigest ------------------------------
(***************************************************************************)
(* The order-independent digest of a node set, crates/bench/src/digest.rs, *)
(* fed by the partition workers of a read-only generator run.              *)
(*                                                                         *)
(* A push is three atomic operations: an XOR into each of two folds and an *)
(* increment of the count.  Pushes of different threads interleave.  The   *)
(* hash is ideal: different byte strings have independent hashes, so a     *)
(* fold is determined by the byte strings folded in an odd number of       *)
(* times, and it is represented by the set of them.  What is not idealised *)
(* is the byte string, which is where two different nodes could meet.      *)
(*                                                                         *)
(* A B256 is a number, B256::ZERO is 0.  A 32-byte value, a mask and a     *)
(* byte are one element of a byte string each: all have a fixed width.     *)
(***************************************************************************)
EXTENDS Naturals, Sequences, FiniteSets, FiniteSetsExt

CONSTANTS
    Threads,   \* threads that push
    Nodes,     \* the branch nodes that can be pushed
    MaxPushes, \* bound on the pushes of a thread
    None       \* Option::None

Digits == 0..15

ASSUME NodeDigestAssumption ==
    /\ IsFiniteSet(Threads) /\ IsFiniteSet(Nodes)
    /\ None \notin Nat
    /\ None \notin Nodes
    /\ \A n \in Nodes, k \in 0..2 : [node |-> n, step |-> k] # None
    /\ MaxPushes \in Nat
    /\ \A n \in Nodes :
        /\ n \in [addr   : Nat \cup {None},
                  path   : Seq(Digits),
                  masks  : Nat,
                  hashes : Seq(Nat),
                  root   : Nat \cup {None}]
        /\ Len(n.path) <= 64
    \* BranchNodeCompact: the masks say how many hashes there are.
    /\ \A n, m \in Nodes : n.masks = m.masks => Len(n.hashes) = Len(m.hashes)

VARIABLES
    fold,      \* the two folds
    count,     \* the count
    push,      \* the push a thread is in: its node and its next step, or None
    pushes,    \* how many pushes each thread has begun
    pushed,    \* how often each node was pushed (not part of the program)
    snapshot   \* the digest the run reports, or None

digest == <<fold, count, push, pushes, pushed>>
vars   == <<digest, snapshot>>

-----------------------------------------------------------------------------
(* The byte string of a node *)

\* Nibbles::pack: two nibbles to a byte, the last one padded with zero.
Pack(path) ==
    [i \in 1..((Len(path) + 1) \div 2) |->
        16 * path[2 * i - 1] + (IF 2 * i <= Len(path) THEN path[2 * i] ELSE 0)]

UnwrapOrZero(x) == IF x = None THEN 0 ELSE x
IsSome(x)       == IF x = None THEN 0 ELSE 1

\* Mutant: the length of the path is left out.
BufNoLength(n) ==
    <<UnwrapOrZero(n.addr), IsSome(n.addr)>> \o Pack(n.path)
      \o <<n.masks>> \o n.hashes \o <<UnwrapOrZero(n.root), IsSome(n.root)>>

Buf(n) ==
    <<UnwrapOrZero(n.addr), IsSome(n.addr), Len(n.path)>> \o Pack(n.path)
      \o <<n.masks>> \o n.hashes \o <<UnwrapOrZero(n.root), IsSome(n.root)>>

\* XOR with the hash of b.
Xor(f, b) == IF b \in f THEN f \ {b} ELSE f \cup {b}

(* The digest of a multiset of nodes pushed one after the other, as          *)
(* of_trie_updates pushes those of a TrieUpdates.                            *)
Bufs == {Buf(n) : n \in Nodes}

DigestOfBag(bag) ==
    [count |-> SumFunctionOnSet(bag, Nodes),
     fold  |-> {b \in Bufs :
                  SumFunctionOnSet(bag, {m \in Nodes : Buf(m) = b}) % 2 = 1}]

Once(nodes) == [n \in Nodes |-> IF n \in nodes THEN 1 ELSE 0]

OfTrieUpdates(nodes) == DigestOfBag(Once(nodes))

-----------------------------------------------------------------------------
(* NodeDigest::push, step by step *)

NewDigest ==
    /\ fold = [k \in 0..1 |-> {}]
    /\ count = 0
    /\ push = [t \in Threads |-> None]
    /\ pushes = [t \in Threads |-> 0]
    /\ pushed = [n \in Nodes |-> 0]

PushBegin(t, n) ==
    /\ push[t] = None
    /\ push' = [push EXCEPT ![t] = [node |-> n, step |-> 0]]
    /\ pushes' = [pushes EXCEPT ![t] = @ + 1]
    /\ pushed' = [pushed EXCEPT ![n] = @ + 1]
    /\ UNCHANGED <<fold, count>>

\* fetch_xor into the next fold
PushFold(t) ==
    /\ push[t] # None
    /\ push[t].step < 2
    /\ fold' = [fold EXCEPT ![push[t].step] = Xor(@, Buf(push[t].node))]
    /\ push' = [push EXCEPT ![t].step = @ + 1]
    /\ UNCHANGED <<count, pushes, pushed>>

\* Mutant: a push that goes on after its last step.
GoesOn(p) == [p EXCEPT !.step = @ + 1]

PushOver(p) == None

\* fetch_add on the count, the end of the push
PushCount(t) ==
    /\ push[t] # None
    /\ push[t].step = 2
    /\ count' = count + 1
    /\ push' = [push EXCEPT ![t] = PushOver(@)]
    /\ UNCHANGED <<fold, pushes, pushed>>

Idle == \A t \in Threads : push[t] = None

\* NodeDigest::snapshot joins the two folds into one value.
Snapshot == [count |-> count, fold |-> fold]

\* What a digest of nodes looks like when both folds went through.
AsSnapshot(d) == [count |-> d.count, fold |-> [k \in 0..1 |-> d.fold]]

-----------------------------------------------------------------------------
(* A generator run: workers push what they emit, and when the build has      *)
(* returned the main thread takes the snapshot.                              *)

Init == NewDigest /\ snapshot = None

Emit(t, n) ==
    /\ snapshot = None
    /\ pushes[t] < MaxPushes
    /\ PushBegin(t, n)
    /\ UNCHANGED snapshot

PushStep(t) == (PushFold(t) \/ PushCount(t)) /\ UNCHANGED snapshot

Report ==
    /\ snapshot = None
    /\ Idle
    /\ snapshot' = Snapshot
    /\ UNCHANGED digest

Reported == snapshot # None /\ UNCHANGED vars

Next ==
    \/ \E t \in Threads : (\E n \in Nodes : Emit(t, n)) \/ PushStep(t)
    \/ Report
    \/ Reported

Spec == Init /\ [][Next]_vars

-----------------------------------------------------------------------------
(* Properties *)

\* The types of the variables.
TypeOK ==
    /\ fold \in [0..1 -> SUBSET Bufs]
    /\ count \in Nat
    /\ \A t \in Threads :
        push[t] = None \/ push[t] \in [node : Nodes, step : 0..2]
    /\ pushes \in [Threads -> Nat]
    /\ pushed \in [Nodes -> Nat]
    /\ snapshot = None \/ snapshot \in [count : Nat,
                                        fold : [0..1 -> SUBSET Bufs]]

(* README.md: "equal digest and count means the generator wrote reth's rows". *)
(* However the pushes interleave, the reported digest is that of a set of     *)
(* nodes, as tables and TrieUpdates hold them, exactly if the run emitted     *)
(* every node of that set once and no other.                                  *)
DigestDecides ==
    snapshot # None =>
        \A S \in SUBSET Nodes :
            snapshot = AsSnapshot(OfTrieUpdates(S)) <=> pushed = Once(S)

=============================================================================
