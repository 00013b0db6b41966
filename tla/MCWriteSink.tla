------------------------------ MODULE MCWriteSink ------------------------------
(***************************************************************************)
(* Small instances of WriteSink.  The first partition emits the account    *)
(* node a1 and two nodes of one storage trie, the second another node of   *)
(* that storage trie and an account node: a storage trie is spread over    *)
(* partitions and, with small chunks, over several commits.                *)
(***************************************************************************)
EXTENDS WriteSink

CONSTANTS c1, p0, p1, p2, p3, h, hOld, w1, w2

MCAddr    == {c1}
MCPath    == {p0, p1, p2, p3}
MCContent == {h, hOld}

nd(a, p, c) == [addr |-> a, path |-> p, content |-> c]

FirstPartition  == {nd(NoAddr, p1, h), nd(c1, p1, h), nd(c1, p2, h)}
SecondPartition == {nd(NoAddr, p2, h), nd(c1, p3, h)}

MCWorkers == {w1, w2}
MCEmitted == FirstPartition \cup SecondPartition
MCOwner   == [n \in MCEmitted |-> IF n \in FirstPartition THEN w1 ELSE w2]

\* An outdated node under a key of the build, one under a key of its own, and
\* a node of the build itself.
MCStale == {nd(c1, p1, hOld), nd(NoAddr, p3, hOld), nd(NoAddr, p1, h)}

=============================================================================
