--------------------------- MODULE TableStoreProofs ---------------------------
(***************************************************************************)
(* The trie tables are a map from keys to nodes, for every set of          *)
(* addresses, paths and contents and every sequence of TrieUpdates.        *)
(*                                                                         *)
(* The refinement needs two facts about the rows: all of them are in the   *)
(* encoding of the settings, and none is under the path of a root node.    *)
(***************************************************************************)
EXTENDS TableStore, TrieTablesProofs

\* The encoding of this database.
Enc == Adapter(UsesPackedTrieKeys(settings))

(* Every row is readable and none is a root node.                             *)
Readable == \A r \in rows : r \in Row /\ r.enc = Enc /\ r.path # EmptyPath

-----------------------------------------------------------------------------
(* The encoding in use is one of the two.                                     *)
LEMMA EncTyped == Enc \in Encodings
    BY DEF Enc, Adapter, Encodings

(* The nodes of an update that are stored.                                    *)
LEMMA UpsertsTyped ==
    ASSUME NEW u \in Updates, NEW n \in Upserts(u)
    PROVE  /\ n \in Node /\ n.path # EmptyPath
           /\ RowOf(n, Enc) \in Row
           /\ ReadRow(RowOf(n, Enc), Enc) = n
           /\ RowOf(n, Enc).enc = Enc /\ RowOf(n, Enc).path = n.path
<1>1. n \in Node /\ n.path # EmptyPath
  BY TableStoreAssumption DEF Upserts
<1>2. RowOf(n, Enc) \in Row /\ ReadRow(RowOf(n, Enc), Enc) = n
  BY <1>1, EncTyped, ReadsBack
<1>3. RowOf(n, Enc).enc = Enc /\ RowOf(n, Enc).path = n.path
  BY DEF RowOf
<1> QED BY <1>1, <1>2, <1>3

(* A readable row outlives a call of write_trie_updates exactly if the update *)
(* has no node for its key, does not remove it and does not delete its trie,  *)
(* whichever of the two tables it is in.                                      *)
LEMMA RowSurvives ==
    ASSUME Readable, NEW u \in Updates, NEW r \in rows
    PROVE  r \in rows \ (AccountRemoved(rows, u, Enc)
                           \cup AccountOverwritten(rows, u, Enc)
                           \cup StorageDoomed(rows, u, Enc))
             <=> /\ \A m \in Upserts(u) : KeyOf(m) # KeyOf(r)
                 /\ KeyOf(r) \notin u.removed
                 /\ r.addr \notin u.deleted
<1>1. r.enc = Enc /\ r.path # EmptyPath
  BY DEF Readable
<1>2. ASSUME \A m \in Upserts(u) : KeyOf(m) # KeyOf(r)
      PROVE  KeyOf(r) \in SortedRemovals(u) <=> KeyOf(r) \in u.removed
  <2>1. \A n \in u.nodes : KeyOf(n) # KeyOf(r)
    <3>1. \A n \in u.nodes : n.path = EmptyPath => KeyOf(n) # KeyOf(r)
      BY <1>1 DEF KeyOf
    <3> QED BY <1>2, <3>1 DEF Upserts
  <2> QED BY <2>1 DEF SortedRemovals
<1>3. CASE r.addr = NoAddr
  <2>1. r.addr \notin u.deleted
    BY <1>3, TableStoreAssumption, TrieTablesAssumption
  <2>2. r \notin StorageDoomed(rows, u, Enc)
    BY <1>3 DEF StorageDoomed
  <2>3. r \in AccountOverwritten(rows, u, Enc)
          <=> \E m \in Upserts(u) : KeyOf(m) = KeyOf(r)
    BY <1>1, <1>3 DEF AccountOverwritten
  <2>4. r \in AccountRemoved(rows, u, Enc) <=> KeyOf(r) \in SortedRemovals(u)
    BY <1>1, <1>3 DEF AccountRemoved
  <2> QED BY <1>2, <2>1, <2>2, <2>3, <2>4
<1>4. CASE r.addr # NoAddr
  <2>1. r \notin AccountOverwritten(rows, u, Enc) /\ r \notin AccountRemoved(rows, u, Enc)
    BY <1>4 DEF AccountOverwritten, AccountRemoved
  <2>2. r \in StorageDoomed(rows, u, Enc)
          <=> \/ r.addr \in u.deleted
              \/ KeyOf(r) \in SortedRemovals(u)
              \/ \E m \in Upserts(u) : KeyOf(m) = KeyOf(r)
    BY <1>1, <1>4 DEF StorageDoomed
  <2> QED BY <1>2, <2>1, <2>2
<1> QED BY <1>3, <1>4

(* The rows stay readable: the encoding changes only while there are none.    *)
LEMMA StaysReadable == Readable /\ [Next]_vars => Readable'
<1> SUFFICES ASSUME Readable, [Next]_vars PROVE Readable'
  OBVIOUS
<1>1. CASE WriteStorageSettings
  BY <1>1 DEF WriteStorageSettings, Readable
<1>2. CASE ClearTables
  BY <1>2 DEF ClearTables, ClearTrieTables, Readable
<1>3. ASSUME NEW u \in Updates, WriteTrieUpdates(u) PROVE Readable'
  <2>1. Enc' = Enc
    BY <1>3 DEF WriteTrieUpdates, Enc
  <2>2. rows' \subseteq rows \cup {RowOf(n, Enc) : n \in Upserts(u)}
    BY <1>3 DEF WriteTrieUpdates, WriteTrieUpdatesWith, Enc
  <2>3. \A n \in Upserts(u) : LET r == RowOf(n, Enc)
                              IN  r \in Row /\ r.enc = Enc /\ r.path # EmptyPath
    BY UpsertsTyped
  <2> QED BY <2>1, <2>2, <2>3 DEF Readable
<1>4. CASE UNCHANGED vars
  BY <1>4 DEF vars, Readable, Enc
<1> QED BY <1>1, <1>2, <1>3, <1>4 DEF Next

(* One call of write_trie_updates changes what is read as NodeStore says.     *)
LEMMA AppliesUpdate ==
    ASSUME Readable, NEW u \in Updates, WriteTrieUpdates(u)
    PROVE  Store!Apply(u)
<1> DEFINE seen == ReadTables(rows, settings)
           new  == Upserts(u)
           kept == rows \ (AccountRemoved(rows, u, Enc)
                             \cup AccountOverwritten(rows, u, Enc)
                             \cup StorageDoomed(rows, u, Enc))
           Stays(n) == /\ \A m \in new : KeyOf(m) # KeyOf(n)
                       /\ KeyOf(n) \notin u.removed
                       /\ n.addr \notin u.deleted
<1>1. rows' = kept \cup {RowOf(n, Enc) : n \in new} /\ settings' = settings
  BY DEF WriteTrieUpdates, WriteTrieUpdatesWith, Enc
<1>2. /\ seen = {ReadRow(r, Enc) : r \in rows}
      /\ seen' = {ReadRow(r, Enc) : r \in rows'}
  BY <1>1 DEF ReadTables, Enc
<1>3. \A r \in rows : LET n == ReadRow(r, Enc)
                      IN  KeyOf(n) = KeyOf(r) /\ n.addr = r.addr
  BY DEF Readable, ReadRow, KeyOf
<1>4. \A r \in rows : r \in kept <=> Stays(r)
  BY RowSurvives
<1>5. \A n \in new : ReadRow(RowOf(n, Enc), Enc) = n
  BY UpsertsTyped
<1> HIDE DEF kept, new
<1>6. kept \subseteq rows
  BY DEF kept
<1>7. {ReadRow(r, Enc) : r \in kept} = {n \in seen : Stays(n)}
  <2>1. \A r \in rows : Stays(r) <=> Stays(ReadRow(r, Enc))
    BY <1>3
  <2> HIDE DEF Stays, seen
  <2> QED BY <1>2, <1>4, <1>6, <2>1
<1>8. seen' = new \cup {n \in seen : Stays(n)}
  <2> HIDE DEF Stays
  <2>1. {ReadRow(r, Enc) : r \in rows'}
          = {ReadRow(r, Enc) : r \in kept} \cup {ReadRow(RowOf(n, Enc), Enc) : n \in new}
    BY <1>1
  <2>2. {ReadRow(RowOf(n, Enc), Enc) : n \in new} = new
    BY <1>5
  <2> QED BY <1>2, <1>7, <2>1, <2>2
<1> QED BY <1>8 DEF Store!Apply, Store!StoredKey, KeyOf, Upserts, new

(* Whatever updates are written one after the other, in either encoding, the  *)
(* tables are read as the map NodeStore describes.                            *)
THEOREM Refinement == Spec => ImplementsNodeStore
<1>1. Init => Readable /\ Store!Init
  BY DEF Init, Readable, Store!Init, ReadTables
<1>2. Readable /\ [Next]_vars => Readable'
  BY StaysReadable
<1>3. Readable /\ [Next]_vars => [Store!Next]_(ReadTables(rows, settings))
  <2> SUFFICES ASSUME Readable, [Next]_vars
               PROVE  Store!Next \/ UNCHANGED ReadTables(rows, settings)
    OBVIOUS
  <2>1. CASE WriteStorageSettings
    BY <2>1 DEF WriteStorageSettings, ReadTables
  <2>2. CASE ClearTables
    BY <2>2 DEF ClearTables, ClearTrieTables, ReadTables, Store!Next, Store!Clear
  <2>3. ASSUME NEW u \in Updates, WriteTrieUpdates(u) PROVE Store!Next
    BY <2>3, AppliesUpdate DEF Store!Next
  <2>4. CASE UNCHANGED vars
    BY <2>4 DEF vars, ReadTables
  <2> QED BY <2>1, <2>2, <2>3, <2>4 DEF Next
<1> QED BY <1>1, <1>2, <1>3, PTL DEF Spec, ImplementsNodeStore, Store!Spec

=============================================================================
