----------------------------- MODULE ChunkedBuild -----------------------------
(***************************************************************************)
(* What a rebuild of the trie tables promises, whichever code does it: the *)
(* contract README.md states for both --write and --reth-rebuild.  The     *)
(* tables are emptied, grow by whole commits of nodes of the target trie,  *)
(* and are complete when the rebuild reports.  A rebuild may be abandoned  *)
(* at any time, and the next one starts over from whatever is there.       *)
(***************************************************************************)
CONSTANTS
    Target,   \* the nodes of the trie the hashed state describes
    Garbage   \* other nodes the tables may hold before a rebuild

VARIABLES
    nodes,    \* what the tables hold, as reth reads them
    phase     \* "stale", "building" or "done"

vars == <<nodes, phase>>

Init ==
    /\ nodes \in SUBSET (Target \cup Garbage)
    /\ phase = "stale"

Begin ==
    /\ phase = "stale"
    /\ phase' = "building"
    /\ nodes' = {}

Commit ==
    /\ phase = "building"
    /\ nodes' \subseteq Target
    /\ nodes \subseteq nodes'
    /\ UNCHANGED phase

Report ==
    /\ phase = "building"
    /\ nodes = Target
    /\ phase' = "done"
    /\ UNCHANGED nodes

\* The process dies, or the next run of a finished one is about to start.
Abandon ==
    /\ phase \in {"building", "done"}
    /\ phase' = "stale"
    /\ UNCHANGED nodes

Next == Begin \/ Commit \/ Report \/ Abandon

Spec == Init /\ [][Next]_vars

=============================================================================
