---------------------------- MODULE MCTablesDigest ----------------------------
(***************************************************************************)
(* Base 2: addresses at both ends of the first range and at the end of the *)
(* last, and nodes that differ as little as nodes can: in the tree they    *)
(* belong to when the address is zero, in a trailing zero nibble, in a     *)
(* zero root hash, in the number of hashes.                                *)
(***************************************************************************)
EXTENDS TablesDigest

nd(a, p, r) == [addr |-> a, path |-> p, masks |-> 1, hashes |-> <<7>>, root |-> r]

MCThreads == {0, 1}

MCNodes == {nd(None, <<1>>, None), nd(None, <<1, 0>>, None), nd(None, <<1>>, 0),
            [nd(None, <<1>>, None) EXCEPT !.masks = 3, !.hashes = <<7, 7>>],
            nd(0, <<1>>, None), nd(1, <<1>>, None), nd(3, <<1>>, None)}

=============================================================================
