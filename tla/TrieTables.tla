------------------------------ MODULE TrieTables ------------------------------
(***************************************************************************)
(* The trie tables of a reth database, AccountsTrie and StoragesTrie, and  *)
(* the operations crates/bench/src/rebuild.rs and mdbx.rs perform on them. *)
(*                                                                         *)
(* A table is a set of rows.  A row records the key encoding it was        *)
(* written in: the two encodings share the tables but not the keys.  Rows  *)
(* of the account trie carry the address NoAddr, the code's None.  The     *)
(* content of a branch node (masks and hashes) is an opaque value.         *)
(***************************************************************************)
EXTENDS Naturals, FiniteSets

CONSTANTS
    Addr,       \* hashed addresses of accounts that have storage
    NoAddr,     \* the account trie: hashed_address is None
    Path,       \* paths of branch nodes
    EmptyPath,  \* the path of a trie's root node
    Content     \* what a branch node holds

ASSUME TrieTablesAssumption ==
    /\ NoAddr \notin Addr
    /\ EmptyPath \in Path

-----------------------------------------------------------------------------
(* Branch nodes as the generator emits them and rows as the tables hold them. *)

Node == [addr : Addr \cup {NoAddr}, path : Path, content : Content]

Encodings == {"legacy", "packed"}

Row == [addr : Addr \cup {NoAddr}, path : Path, content : Content,
        enc : Encodings]

KeyOf(x) == <<x.addr, x.path>>

(* The metadata table's STORAGE_SETTINGS entry, as far as the code looks at it. *)
StorageSettings == {"absent", "unreadable", "v1", "v2"}

\* uses_packed_trie_keys: only a readable v2 entry switches the encoding.
UsesPackedTrieKeys(settings) == settings = "v2"

\* The adapter each caller picks: PackedKeyAdapter or LegacyKeyAdapter.
Adapter(packed) == IF packed THEN "packed" ELSE "legacy"

-----------------------------------------------------------------------------
(* reth's TrieUpdates: nodes to store, keys to remove, and the addresses    *)
(* whose storage trie is marked deleted.                                    *)

NodeMap(nodes) == \A n, m \in nodes : KeyOf(n) = KeyOf(m) => n = m

\* Mutant: every storage trie of a chunk is marked deleted first.
UpdatesReplacing(nodes) ==
    [nodes |-> nodes, removed |-> {}, deleted |-> {n.addr : n \in nodes}]

\* A chunk holds new nodes only: or_default() leaves is_deleted unset.
UpdatesOf(nodes) == [nodes |-> nodes, removed |-> {}, deleted |-> {}]

\* HashMap::insert: a later node replaces an earlier one under the same key.
InsertNode(nodes, n) == {m \in nodes : KeyOf(m) # KeyOf(n)} \cup {n}

\* TrieUpdates::into_sorted (reth): a key both stored and removed is stored.
SortedRemovals(updates) ==
    {k \in updates.removed : \A n \in updates.nodes : KeyOf(n) # k}

\* Nodes that are stored: a trie's root node never is.
Upserts(updates) == {n \in updates.nodes : n.path # EmptyPath}

RowOf(n, enc) ==
    [addr |-> n.addr, path |-> n.path, content |-> n.content, enc |-> enc]

\* Mutant: a node is inserted beside the one it replaces.
StorageKept(rows, updates, enc) ==
    {r \in rows : /\ r.addr # NoAddr
                  /\ \/ r.addr \in updates.deleted
                     \/ r.enc = enc /\ KeyOf(r) \in SortedRemovals(updates)}

(***************************************************************************)
(* The storage half, DatabaseStorageTrieCursor::write_storage_trie_updates *)
(* _sorted (reth): a deleted trie loses all its rows, in any encoding,     *)
(* then every other key but the root is removed if present and, when it    *)
(* has a node, inserted again.  StoragesTrie is a duplicate-sorted table,  *)
(* so the removal is what keeps one row per key.  Every key counts.        *)
(***************************************************************************)
StorageDoomed(rows, updates, enc) ==
    {r \in rows : /\ r.addr # NoAddr
                  /\ \/ r.addr \in updates.deleted
                     \/ /\ r.enc = enc
                        /\ r.path # EmptyPath
                        /\ \/ KeyOf(r) \in SortedRemovals(updates)
                           \/ \E n \in Upserts(updates) : KeyOf(n) = KeyOf(r)}

StorageCount(updates) ==
    Cardinality({n \in Upserts(updates) : n.addr # NoAddr})
      + Cardinality({k \in SortedRemovals(updates) :
                        k[1] # NoAddr /\ k[2] # EmptyPath})

(***************************************************************************)
(* The account half: upsert every node but the root, delete what is        *)
(* removed if it is there, and count only what really changed.             *)
(***************************************************************************)
AccountRemoved(rows, updates, enc) ==
    {r \in rows : /\ r.addr = NoAddr
                  /\ r.enc = enc
                  /\ KeyOf(r) \in SortedRemovals(updates)}

AccountOverwritten(rows, updates, enc) ==
    {r \in rows : /\ r.addr = NoAddr
                  /\ r.enc = enc
                  /\ \E n \in Upserts(updates) : KeyOf(n) = KeyOf(r)}

AccountCount(rows, updates, enc) ==
    Cardinality({n \in Upserts(updates) : n.addr = NoAddr})
      + Cardinality(AccountRemoved(rows, updates, enc))

\* write_trie_updates_with: the rows it leaves and the count it returns.
WriteTrieUpdatesWith(rows, updates, enc) ==
    [rows |-> (rows \ (AccountRemoved(rows, updates, enc)
                         \cup AccountOverwritten(rows, updates, enc)
                         \cup StorageDoomed(rows, updates, enc)))
                \cup {RowOf(n, enc) : n \in Upserts(updates)},
     written |-> AccountCount(rows, updates, enc) + StorageCount(updates)]

\* Mutant: the transaction is dropped instead of committed.
ClearsNothing(rows) == rows

\* clear_trie_tables empties both tables in one transaction.
ClearTrieTables(rows) == {}

-----------------------------------------------------------------------------
(* Reading: a row is decoded by the adapter the settings name; a row in the *)
(* other encoding comes out under a path nobody wrote.                      *)

Misread(p) == <<"misread", p>>

ReadRow(r, enc) ==
    [addr |-> r.addr,
     path |-> IF r.enc = enc THEN r.path ELSE Misread(r.path),
     content |-> r.content]

ReadTables(rows, settings) ==
    {ReadRow(r, Adapter(UsesPackedTrieKeys(settings))) : r \in rows}

=============================================================================
