------------------------------ MODULE NodeStore ------------------------------
(***************************************************************************)
(* What the trie tables promise their users: a map from keys, a trie and a *)
(* path in it, to branch nodes, changed by whole TrieUpdates.  Encodings,  *)
(* the two tables and duplicate-sorted rows are not seen.                  *)
(***************************************************************************)
CONSTANTS
    Updates,    \* TrieUpdates that may be written
    EmptyPath   \* the path of a trie's root node, which is never stored

VARIABLE nodes  \* the nodes stored

StoredKey(n) == <<n.addr, n.path>>

Init == nodes = {}

Clear == nodes' = {}

\* The nodes of an update replace those under their keys; a key removed, or in
\* a trie marked deleted, is gone unless the update has a node for it.
Apply(u) ==
    LET new == {n \in u.nodes : n.path # EmptyPath}
    IN  nodes' = new \cup {n \in nodes : /\ \A m \in new : StoredKey(m) # StoredKey(n)
                                         /\ StoredKey(n) \notin u.removed
                                         /\ n.addr \notin u.deleted}

Next == Clear \/ \E u \in Updates : Apply(u)

Spec == Init /\ [][Next]_nodes

=============================================================================
