---------------------------- MODULE MCTableStore ----------------------------
(***************************************************************************)
(* Updates of up to two nodes of an account trie and a storage trie, root  *)
(* nodes among them, with up to one removal and with or without deletion.  *)
(***************************************************************************)
EXTENDS TableStore, FiniteSetsExt

CONSTANTS c1, p0, p1, p2, h, g

MCAddr    == {c1}
MCPath    == {p0, p1, p2}
MCContent == {h, g}

nd(a, p, c) == [addr |-> a, path |-> p, content |-> c]

Stored == {nd(NoAddr, p1, h), nd(NoAddr, p1, g), nd(NoAddr, p2, h),
           nd(c1, p1, h), nd(c1, p1, g), nd(c1, p2, h)}
Roots  == {nd(NoAddr, p0, h), nd(c1, p0, h)}

UpTo(k, S) == UNION {kSubset(i, S) : i \in 0..k}

MCUpdates ==
    [nodes   : {s \in UpTo(2, Stored \cup Roots) : NodeMap(s)},
     removed : UpTo(1, {<<NoAddr, p1>>, <<c1, p1>>, <<c1, p0>>}),
     deleted : SUBSET {c1}]

=============================================================================
