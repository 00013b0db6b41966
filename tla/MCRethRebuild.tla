----------------------------- MODULE MCRethRebuild -----------------------------
(***************************************************************************)
(* A walk of five entries: an account, three slots of one contract and     *)
(* another account.  Two entries complete nothing, one completes a node of *)
(* each trie, and the end of the walk completes the last node.             *)
(***************************************************************************)
EXTENDS RethRebuild

CONSTANTS c1, p0, p1, p2, p3, h, hOld

MCAddr    == {c1}
MCPath    == {p0, p1, p2, p3}
MCContent == {h, hOld}

nd(a, p, c) == [addr |-> a, path |-> p, content |-> c]

MCCompletes ==
    <<{}, {nd(c1, p1, h)}, {}, {nd(c1, p2, h), nd(NoAddr, p1, h)},
      {nd(NoAddr, p2, h)}, {nd(NoAddr, p3, h)}>>

MCStale == {nd(c1, p1, hOld), nd(c1, p3, hOld), nd(NoAddr, p1, h)}

=============================================================================
