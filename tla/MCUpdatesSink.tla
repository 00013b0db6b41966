---------------------------- MODULE MCUpdatesSink ----------------------------
(***************************************************************************)
(* reth's walk has two nodes of one storage trie, under different first    *)
(* nibbles, and an account node.  The generator may also emit a node with  *)
(* other content, one of another trie, and the root of the account trie.   *)
(***************************************************************************)
EXTENDS UpdatesSink

CONSTANTS h, g

A == <<1, 2>>
B == <<2, 1>>

nd(a, p, c) == [addr |-> a, path |-> p, content |-> c]

MCReference == {nd(A, <<1>>, h), nd(A, <<2, 3>>, h), nd(None, <<1>>, h)}
MCNodes     == MCReference
                 \cup {nd(A, <<1>>, g), nd(B, <<1>>, h), nd(None, <<>>, h)}
MCWalked    == {A, B}

=============================================================================
