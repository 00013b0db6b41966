---------------------------- MODULE TrieTablesProofs ----------------------------
(***************************************************************************)
(* What one call of write_trie_updates_with does to the trie tables, for   *)
(* every set of addresses, paths and contents.                             *)
(***************************************************************************)
EXTENDS TrieTables, FiniteSetTheorems, TLAPS

(* Two disjoint finite sets have as many elements together as apart.          *)
LEMMA DisjointCount ==
    ASSUME NEW S, NEW T, IsFiniteSet(S), IsFiniteSet(T), S \cap T = {}
    PROVE  /\ IsFiniteSet(S \cup T)
           /\ Cardinality(S \cup T) = Cardinality(S) + Cardinality(T)
<1>1. Cardinality(S \cap T) = 0
  BY FS_EmptySet
<1>2. Cardinality(S) \in Nat /\ Cardinality(T) \in Nat
  BY FS_CardinalityType
<1>3. /\ IsFiniteSet(S \cup T)
      /\ Cardinality(S \cup T) =
            Cardinality(S) + Cardinality(T) - Cardinality(S \cap T)
  BY FS_Union
<1> DEFINE c == Cardinality(S \cap T)
           d == Cardinality(S \cup T)
<1>4. c = 0 /\ d = Cardinality(S) + Cardinality(T) - c
  BY <1>1, <1>3
<1> HIDE DEF c, d
<1>5. d = Cardinality(S) + Cardinality(T)
  BY <1>2, <1>4
<1> QED BY <1>3, <1>5 DEF d

(* A node is stored under its own path and read back as it was written, when  *)
(* the adapter that reads is the one that wrote.                              *)
LEMMA ReadsBack ==
    ASSUME NEW n \in Node, NEW enc \in Encodings
    PROVE  /\ RowOf(n, enc) \in Row
           /\ ReadRow(RowOf(n, enc), enc) = n
           /\ KeyOf(RowOf(n, enc)) = KeyOf(n)
    BY DEF Node, Row, RowOf, ReadRow, KeyOf

(* Different nodes become different rows.                                     *)
LEMMA RowsDiffer ==
    ASSUME NEW n \in Node, NEW m \in Node, NEW enc \in Encodings,
           RowOf(n, enc) = RowOf(m, enc)
    PROVE  n = m
    BY ReadsBack

(* A finite set of nodes becomes as many rows.                                *)
LEMMA RowsCount ==
    ASSUME NEW S, S \subseteq Node, IsFiniteSet(S), NEW enc \in Encodings
    PROVE  LET rows == {RowOf(n, enc) : n \in S}
           IN  IsFiniteSet(rows) /\ Cardinality(rows) = Cardinality(S)
<1> DEFINE rows == {RowOf(n, enc) : n \in S}
           f    == [n \in S |-> RowOf(n, enc)]
<1>1. f \in Bijection(S, rows)
  <2>1. f \in [S -> rows]
    OBVIOUS
  <2>2. \A n, m \in S : f[n] = f[m] => n = m
    BY RowsDiffer
  <2>3. \A r \in rows : \E n \in S : f[n] = r
    OBVIOUS
  <2> QED BY <2>1, <2>2, <2>3 DEF Bijection, Injection, Surjection, IsInjective
<1> QED BY <1>1, FS_Bijection DEF ExistsBijection

(* The commit of a chunk of new nodes, as the writer and the rebuild issue    *)
(* it: when no stored row has the key of a node of the chunk, the commit adds *)
(* one row per node, takes none away, and reports the size of the chunk.      *)
LEMMA CommitAddsChunk ==
    ASSUME NEW rows, NEW S, S \subseteq Node, IsFiniteSet(S),
           NEW enc \in Encodings,
           \A n \in S : n.path # EmptyPath,
           \A n \in S, r \in rows : r.enc = enc => KeyOf(r) # KeyOf(n)
    PROVE  WriteTrieUpdatesWith(rows, UpdatesOf(S), enc) =
             [rows    |-> rows \cup {RowOf(n, enc) : n \in S},
              written |-> Cardinality(S)]
<1> DEFINE u  == UpdatesOf(S)
           SA == {n \in S : n.addr = NoAddr}
           SS == {n \in S : n.addr # NoAddr}
<1>1. Upserts(u) = S /\ SortedRemovals(u) = {} /\ u.deleted = {}
  BY DEF UpdatesOf, Upserts, SortedRemovals
<1>2. AccountRemoved(rows, u, enc) = {}
  BY <1>1 DEF AccountRemoved
<1>3. AccountOverwritten(rows, u, enc) = {}
  BY <1>1 DEF AccountOverwritten
<1>4. StorageDoomed(rows, u, enc) = {}
  BY <1>1 DEF StorageDoomed
<1>5. AccountCount(rows, u, enc) = Cardinality(SA)
  <2>1. IsFiniteSet(SA)
    BY FS_Subset
  <2> QED BY <1>1, <1>2, <2>1, FS_EmptySet, FS_CardinalityType DEF AccountCount
<1>6. StorageCount(u) = Cardinality(SS)
  <2>1. IsFiniteSet(SS)
    BY FS_Subset
  <2>2. {k \in SortedRemovals(u) : k[1] # NoAddr /\ k[2] # EmptyPath} = {}
    BY <1>1
  <2> QED BY <1>1, <2>1, <2>2, FS_EmptySet, FS_CardinalityType DEF StorageCount
<1>7. Cardinality(SA) + Cardinality(SS) = Cardinality(S)
  <2>1. IsFiniteSet(SA) /\ IsFiniteSet(SS)
    BY FS_Subset
  <2>2. SA \cup SS = S /\ SA \cap SS = {}
    OBVIOUS
  <2> HIDE DEF SA, SS
  <2> QED BY <2>1, <2>2, DisjointCount
<1> HIDE DEF u, SA, SS
<1> QED BY <1>1, <1>2, <1>3, <1>4, <1>5, <1>6, <1>7 DEF WriteTrieUpdatesWith, u

(* Whatever the tables hold, a call leaves rows in them, finitely many if     *)
(* there were finitely many, and returns a natural number.                    *)
LEMMA WriteTyped ==
    ASSUME NEW rows, rows \subseteq Row, IsFiniteSet(rows),
           NEW S, S \subseteq Node, IsFiniteSet(S), NEW enc \in Encodings
    PROVE  LET result == WriteTrieUpdatesWith(rows, UpdatesOf(S), enc)
           IN  /\ result.rows \subseteq Row
               /\ IsFiniteSet(result.rows)
               /\ result.written \in Nat
<1> DEFINE u == UpdatesOf(S)
           result == WriteTrieUpdatesWith(rows, u, enc)
           new == {RowOf(n, enc) : n \in Upserts(u)}
<1>1. Upserts(u) \subseteq S /\ SortedRemovals(u) = {}
  BY DEF UpdatesOf, Upserts, SortedRemovals
<1>2. IsFiniteSet(Upserts(u)) /\ Upserts(u) \subseteq Node
  BY <1>1, FS_Subset
<1>3. new \subseteq Row
  BY <1>2, ReadsBack
<1>4. IsFiniteSet(rows \cup new)
  BY <1>2, RowsCount, FS_Union
<1>5. result.rows \subseteq rows \cup new
  BY DEF WriteTrieUpdatesWith
<1>6. result.rows \subseteq Row /\ IsFiniteSet(result.rows)
  BY <1>3, <1>4, <1>5, FS_Subset
<1>7. AccountCount(rows, u, enc) \in Nat
  <2>1. IsFiniteSet({n \in Upserts(u) : n.addr = NoAddr})
    BY <1>2, FS_Subset
  <2>2. AccountRemoved(rows, u, enc) = {}
    BY <1>1 DEF AccountRemoved
  <2> QED BY <2>1, <2>2, FS_EmptySet, FS_CardinalityType DEF AccountCount
<1>8. StorageCount(u) \in Nat
  <2>1. IsFiniteSet({n \in Upserts(u) : n.addr # NoAddr})
    BY <1>2, FS_Subset
  <2>2. {k \in SortedRemovals(u) : k[1] # NoAddr /\ k[2] # EmptyPath} = {}
    BY <1>1
  <2>3. Cardinality({n \in Upserts(u) : n.addr # NoAddr}) \in Nat
    BY <2>1, FS_CardinalityType
  <2>4. Cardinality({k \in SortedRemovals(u) :
                       k[1] # NoAddr /\ k[2] # EmptyPath}) = 0
    BY <2>2, FS_EmptySet
  <2> HIDE DEF u
  <2> QED BY <2>3, <2>4 DEF StorageCount
<1>9. result.written \in Nat
  BY <1>7, <1>8 DEF WriteTrieUpdatesWith
<1> QED BY <1>6, <1>9

=============================================================================
