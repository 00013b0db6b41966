----------------------------- MODULE MCBenchScript -----------------------------
(***************************************************************************)
(* Three rows: two right ones, of which reth's walker meets the first, and *)
(* a wrong one it meets as well.  Under the script or by hand with every   *)
(* set of flags and up to two runs, whatever the generator does, and with  *)
(* output files of an earlier session present or not.                      *)
(***************************************************************************)
EXTENDS BenchScript

CONSTANTS top, low, wrong

MCRows     == {top, low, wrong}
MCRethRows == {top, low}
MCMet      == {top, wrong}
MCFound    == {{top, low}, {top}, {low, wrong}, NoDigest}

MCArgs == [write : BOOLEAN, reth_rebuild : BOOLEAN, clear : BOOLEAN,
           reth_serial : BOOLEAN, digest : BOOLEAN, repeat : 0..2,
           expected : {Root, BadRoot, None}]

\* --clear-trie-tables --reth-serial --expected-root, right or wrong
MCSerialArgs == {a \in MCArgs : /\ a.clear /\ a.reth_serial /\ a.expected # None
                                /\ ~a.write /\ ~a.reth_rebuild /\ ~a.digest}

\* A right result, one with a row missing, one with a wrong row, a wrong root,
\* and a wrong row together with the root the walker derives from it.
MCResults == {[rows |-> {top, low}, root |-> Root],
              [rows |-> {top}, root |-> Root],
              [rows |-> {low, wrong}, root |-> Root],
              [rows |-> {top, low}, root |-> BadRoot],
              [rows |-> {low, wrong}, root |-> BadRoot]}

=============================================================================
