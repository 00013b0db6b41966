------------------------------ MODULE TableStore ------------------------------
(***************************************************************************)
(* The trie tables as the tests of crates/bench/tests/mdbx.rs use them:    *)
(* settings are recorded, TrieUpdates are written in a transaction of      *)
(* their own, the tables are cleared and read.                             *)
(***************************************************************************)
EXTENDS TrieTables

CONSTANT Updates   \* TrieUpdates that may be written

ASSUME TableStoreAssumption ==
    \A u \in Updates : /\ u.nodes \subseteq Node /\ NodeMap(u.nodes)
                       /\ u.removed \subseteq (Addr \cup {NoAddr}) \X Path
                       /\ u.deleted \subseteq Addr

VARIABLES
    rows,      \* the committed trie tables
    settings   \* the entry of the metadata table

vars == <<rows, settings>>

Init == rows = {} /\ settings \in StorageSettings

\* write_storage_settings; its callers record settings while the tables are
\* empty, since the rows keep the encoding they were written in.
WriteStorageSettings ==
    /\ rows = {}
    /\ settings' \in {"v1", "v2"}
    /\ UNCHANGED rows

\* write_trie_updates: the encoding is read in the transaction that writes.
WriteTrieUpdates(u) ==
    /\ rows' = WriteTrieUpdatesWith(rows, u, Adapter(UsesPackedTrieKeys(settings))).rows
    /\ UNCHANGED settings

ClearTables == rows' = ClearTrieTables(rows) /\ UNCHANGED settings

Next == WriteStorageSettings \/ ClearTables \/ \E u \in Updates : WriteTrieUpdates(u)

Spec == Init /\ [][Next]_vars

-----------------------------------------------------------------------------
(* Properties *)

Store == INSTANCE NodeStore WITH nodes <- ReadTables(rows, settings)

(* Whatever TrieUpdates are written one after the other, in either encoding,  *)
(* the tables are read back as the map the updates describe: one node per     *)
(* key although StoragesTrie keeps duplicates, nothing left of a trie marked  *)
(* deleted, a key both removed and stored is stored, and no root node.        *)
ImplementsNodeStore == Store!Spec

=============================================================================
