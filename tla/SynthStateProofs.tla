--------------------------- MODULE SynthStateProofs ---------------------------
(***************************************************************************)
(* The hashed state of the tests, in memory and in a database, and the     *)
(* synthetic states, for any addresses, slots, values and configurations.  *)
(***************************************************************************)
EXTENDS SynthState, FiniteSetTheorems, FunctionTheorems, SequenceTheorems, TLAPS

-----------------------------------------------------------------------------
(* Rows *)

Slots == [Slot -> (Value \ {0}) \cup {None}]

\* The types of the maps in memory.
MemoryTyped ==
    /\ accounts \in [Addr -> Account \cup {None}]
    /\ storages \in [Addr -> Slots \cup {None}]

(* The slots of an address, whether it has a map or not.                      *)
LEMMA SlotsTyped ==
    ASSUME MemoryTyped, NEW a \in Addr
    PROVE  /\ SlotsOf(a) \in Slots
           /\ storages[a] = None => SlotsOf(a) = [s \in Slot |-> None]
    BY DEF MemoryTyped, SlotsOf, Slots

(* There are as many account rows as known addresses.                         *)
LEMMA AccountRows ==
    ASSUME MemoryTyped
    PROVE  /\ IsFiniteSet(Known) /\ IsFiniteSet(IterAccounts)
           /\ Cardinality(IterAccounts) = Cardinality(Known)
<1> DEFINE f == [a \in Known |-> <<a, accounts[a]>>]
<1>1. IsFiniteSet(Known)
  BY HashedStateAssumption, FS_Subset DEF Known
<1>2. IterAccounts = {<<a, accounts[a]>> : a \in Known}
  BY DEF IterAccounts, Known
<1>3. f \in Bijection(Known, IterAccounts)
  BY <1>2 DEF Bijection, Injection, Surjection, IsInjective
<1> QED BY <1>1, <1>3, FS_Bijection DEF ExistsBijection

\* The storage rows of all addresses.
AllStorage == UNION {IterStorage(a) : a \in Addr}

(* The storage rows of an address, and of all addresses, are finitely many.   *)
LEMMA StorageRows ==
    ASSUME MemoryTyped
    PROVE  /\ \A a \in Addr : IsFiniteSet(IterStorage(a))
           /\ IsFiniteSet(AllStorage)
<1> DEFINE P == {p \in Addr \X Slot : SlotsOf(p[1])[p[2]] # None}
           f == [p \in P |-> <<p[1], p[2], SlotsOf(p[1])[p[2]]>>]
<1>1. IsFiniteSet(P)
  BY HashedStateAssumption, FS_Product, FS_Subset
<1>2. ASSUME NEW p \in P PROVE f[p] \in AllStorage
  <2>1. p[1] \in Addr /\ p[2] \in Slot /\ SlotsOf(p[1])[p[2]] # None
    OBVIOUS
  <2>2. f[p] \in IterStorage(p[1])
    BY <2>1 DEF IterStorage
  <2> QED BY <2>1, <2>2 DEF AllStorage
<1>3. ASSUME NEW r \in AllStorage PROVE \E p \in P : f[p] = r
  <2>1. PICK a \in Addr : r \in IterStorage(a)
    BY DEF AllStorage
  <2>2. PICK s \in Slot : SlotsOf(a)[s] # None /\ r = <<a, s, SlotsOf(a)[s]>>
    BY <2>1 DEF IterStorage
  <2>3. <<a, s>> \in P /\ f[<<a, s>>] = r
    BY <2>2
  <2> QED BY <2>3
<1>4. f \in Surjection(P, AllStorage)
  <2> HIDE DEF P
  <2>1. f \in [P -> AllStorage]
    BY <1>2
  <2> HIDE DEF f
  <2> QED BY <1>3, <2>1 DEF Surjection
<1>5. IsFiniteSet(AllStorage)
  BY <1>1, <1>4, FS_Surjection
<1>6. \A a \in Addr : IterStorage(a) \subseteq AllStorage
  BY DEF AllStorage
<1> QED BY <1>5, <1>6, FS_Subset

-----------------------------------------------------------------------------
(* The hashed tables *)

(* The tables of a database are finite, and no storage is there without its   *)
(* account.                                                                   *)
TablesWhole ==
    /\ db = [accounts |-> db.accounts, storages |-> db.storages]
    /\ IsFiniteSet(db.accounts) /\ IsFiniteSet(db.storages)
    /\ db.accounts \subseteq Addr \X Account
    /\ db.storages \subseteq Addr \X Slot \X Value
    /\ \A r \in db.storages : \E x \in db.accounts : x[1] = r[1]

(* The rows write_hashed_state puts: those of the known accounts.             *)
LEMMA RowsToPut ==
    ASSUME MemoryTyped
    PROVE  /\ AccountsToPut \subseteq Addr \X Account
           /\ \A a \in Known : <<a, accounts[a]>> \in AccountsToPut
           /\ \A x \in AccountsToPut : x[1] \in Known
           /\ StoragesToPut \subseteq Addr \X Slot \X Value
           /\ \A r \in StoragesToPut : r[1] \in Known
           /\ StoragesToPut = {r \in AllStorage : r[1] \in Known}
           /\ IsFiniteSet(AccountsToPut) /\ IsFiniteSet(StoragesToPut)
<1>1. ASSUME NEW x \in AccountsToPut
      PROVE  x[1] \in Known /\ x \in Addr \X Account
  BY DEF AccountsToPut, IterAccounts, Known, MemoryTyped
<1>2. \A a \in Known : <<a, accounts[a]>> \in AccountsToPut
  BY DEF AccountsToPut, IterAccounts, Known
<1>3. ASSUME NEW a \in Addr, NEW r \in IterStorage(a)
      PROVE  r[1] = a /\ r \in Addr \X Slot \X Value
  <2>1. PICK s \in Slot : SlotsOf(a)[s] # None /\ r = <<a, s, SlotsOf(a)[s]>>
    BY DEF IterStorage
  <2>2. SlotsOf(a)[s] \in Value
    BY <2>1, SlotsTyped DEF Slots
  <2> QED BY <2>1, <2>2
<1>4. \A a \in Known : a \in Addr
  BY DEF Known
<1>5. ASSUME NEW r \in StoragesToPut
      PROVE  r[1] \in Known /\ r \in AllStorage /\ r \in Addr \X Slot \X Value
  <2>1. PICK a \in Known : r \in IterStorage(a)
    BY DEF StoragesToPut
  <2> QED BY <1>3, <1>4, <2>1 DEF AllStorage
<1>6. ASSUME NEW r \in AllStorage, r[1] \in Known PROVE r \in StoragesToPut
  <2>1. PICK a \in Addr : r \in IterStorage(a)
    BY DEF AllStorage
  <2> QED BY <1>3, <1>6, <2>1 DEF StoragesToPut
<1>7. IsFiniteSet(AccountsToPut)
  BY AccountRows DEF AccountsToPut
<1>8. IsFiniteSet(StoragesToPut)
  BY <1>5, StorageRows, FS_Subset
<1> QED BY <1>1, <1>2, <1>5, <1>6, <1>7, <1>8

(* write_hashed_state keeps the tables whole, whatever they held.             *)
LEMMA WriteKeepsWhole ==
    ASSUME MemoryTyped, TablesWhole, WriteHashedState PROVE TablesWhole'
<1> DEFINE kept == {r \in db.accounts : r[1] \notin Known}
<1>1. db' = [accounts |-> kept \cup AccountsToPut, storages |-> db.storages \cup StoragesToPut]
  BY DEF WriteHashedState
<1>2. IsFiniteSet(kept)
  BY FS_Subset DEF TablesWhole
<1>3. IsFiniteSet(kept \cup AccountsToPut) /\ IsFiniteSet(db.storages \cup StoragesToPut)
  BY <1>2, RowsToPut, FS_Union DEF TablesWhole
<1>4. ASSUME NEW r \in db.storages \cup StoragesToPut
      PROVE  \E x \in kept \cup AccountsToPut : x[1] = r[1]
  <2>1. CASE r[1] \in Known
    <3>1. <<r[1], accounts[r[1]]>> \in AccountsToPut
      BY <2>1, RowsToPut
    <3>2. <<r[1], accounts[r[1]]>>[1] = r[1]
      OBVIOUS
    <3> QED BY <3>1, <3>2
  <2>2. CASE r[1] \notin Known
    BY <2>2, RowsToPut DEF TablesWhole
  <2> QED BY <2>1, <2>2
<1>5. kept \subseteq db.accounts
  OBVIOUS
<1> HIDE DEF kept
<1> QED BY <1>1, <1>3, <1>4, <1>5, RowsToPut DEF TablesWhole

(* A run walks every row of tables that are whole.                            *)
LEMMA WholeIsWalked == TablesWhole => RunWalksAll
<1> SUFFICES ASSUME TablesWhole PROVE RunWalksAll
  OBVIOUS
<1>1. Walk(db) = db.accounts \cup db.storages
  BY DEF Walk, TablesWhole
<1>2. db.accounts \cap db.storages = {}
  <2>1. ASSUME NEW r \in db.accounts, r \in db.storages PROVE FALSE
    <3>1. PICK a \in Addr, x \in Account : r = <<a, x>>
      BY DEF TablesWhole
    <3>2. PICK b \in Addr, s \in Slot, v \in Value : r = <<b, s, v>>
      BY <2>1 DEF TablesWhole
    <3> QED BY <3>1, <3>2
  <2> QED BY <2>1
<1>3. Cardinality(db.accounts \cup db.storages)
        = Cardinality(db.accounts) + Cardinality(db.storages)
  <2>1. /\ Cardinality(db.accounts \cup db.storages)
             = Cardinality(db.accounts) + Cardinality(db.storages)
                 - Cardinality(db.accounts \cap db.storages)
        /\ Cardinality(db.accounts) \in Nat /\ Cardinality(db.storages) \in Nat
    BY FS_Union, FS_CardinalityType DEF TablesWhole
  <2>2. Cardinality(db.accounts \cap db.storages) = 0
    BY <1>2, FS_EmptySet
  <2> QED BY <2>1, <2>2
<1> QED BY <1>1, <1>3 DEF RunWalksAll, HashedEntries

-----------------------------------------------------------------------------
(* Writing a state, read back *)

(* A step changes the database by write_hashed_state only.                    *)
LEMMA WritesOnly ==
    ASSUME [SynthNext]_<<vars, synth>>, db' # db PROVE WriteHashedState
    BY DEF SynthNext, Eoa, DrawSizes, Contract, SetSlot, WriteDatadir, WriteFails, ByHand,
       SynthOver, Next, vars, memory, synth

(* A state written into empty tables gives the rows of its known accounts.    *)
LEMMA WriteIntoEmpty ==
    ASSUME db = EmptyTables, WriteHashedState
    PROVE  db' = [accounts |-> AccountsToPut, storages |-> StoragesToPut]
<1>1. db.accounts = {} /\ db.storages = {}
  BY DEF EmptyTables
<1>2. {r \in db.accounts : r[1] \notin Known} \cup AccountsToPut = AccountsToPut
  BY <1>1
<1>3. db.storages \cup StoragesToPut = StoragesToPut
  BY <1>1
<1> QED BY <1>2, <1>3 DEF WriteHashedState

(* The entries a run walks are the same in the database and in memory.        *)
LEMMA SameEntries ==
    ASSUME MemoryTyped, db = EmptyTables, WriteHashedState
    PROVE  Walk(db') = Walk(SortedState)
<1> DEFINE owned == {r \in AllStorage : \E x \in AccountsToPut : x[1] = r[1]}
<1>1. db' = [accounts |-> AccountsToPut, storages |-> StoragesToPut]
  BY WriteIntoEmpty
<1>2. SortedState.accounts = AccountsToPut /\ SortedState.storages = AllStorage
  BY DEF SortedState, AccountsToPut, AllStorage
<1>3. \A r : r[1] \in Known <=> \E x \in AccountsToPut : x[1] = r[1]
  <2> SUFFICES ASSUME NEW r PROVE r[1] \in Known <=> \E x \in AccountsToPut : x[1] = r[1]
    OBVIOUS
  <2>1. ASSUME r[1] \in Known PROVE \E x \in AccountsToPut : x[1] = r[1]
    <3>1. <<r[1], accounts[r[1]]>> \in AccountsToPut
      BY <2>1, RowsToPut
    <3>2. <<r[1], accounts[r[1]]>>[1] = r[1]
      OBVIOUS
    <3> QED BY <3>1, <3>2
  <2> QED BY <2>1, RowsToPut
<1>4. StoragesToPut = owned
  BY <1>3, RowsToPut
<1>5. {r \in StoragesToPut : \E x \in AccountsToPut : x[1] = r[1]} = owned
  BY <1>4
<1> QED BY <1>1, <1>2, <1>5 DEF Walk

-----------------------------------------------------------------------------
(* The synthetic state *)

Fits(k) == k \in 1..config.smallMax \/ \E i \in 1..Len(config.large) : k = config.large[i]

\* The types of the variables of synthesize and make_datadir.
SynthTyped ==
    /\ pc \in {"hand", "eoas", "contracts", "printed", "panic"}
    /\ pc # "hand" => config \in Configs
    /\ count \in Nat /\ slots \in Nat /\ sizes \in Seq(Nat)
    /\ drawn \in [Addr -> Nat \cup {None}]

(* Only contracts have storage, and nothing is printed before the state is    *)
(* written.                                                                   *)
Owned ==
    /\ pc # "hand" => \A a \in Addr : storages[a] # None => accounts[a] = "contract"
    /\ printed # None => pc = "printed"

(* The externally owned accounts made so far, before any contract.            *)
EoasMade ==
    /\ pc = "eoas" => /\ Cardinality(Made("eoa")) = count
                      /\ Made("contract") = {}
                      /\ sizes = <<>> /\ slots = 0
    /\ pc \in {"contracts", "printed"} => Cardinality(Made("eoa")) = config.eoas

(* The contracts made so far and the sizes of those to come, and the slots of *)
(* each, of which the last contract may lack some.                            *)
ContractsMade ==
    pc \in {"contracts", "printed"} =>
        /\ Cardinality(Made("contract")) + Len(sizes) = config.small + Len(config.large)
        /\ \A i \in 1..Len(sizes) : Fits(sizes[i])
        /\ slots > 0 => contract \in Made("contract")
        /\ \A a \in Made("contract") :
             /\ Fits(drawn[a])
             /\ drawn[a] = Cardinality(IterStorage(a)) + (IF a = contract THEN slots ELSE 0)
        /\ pc = "printed" => slots = 0 /\ sizes = <<>>

SynthInv == SynthTyped /\ Owned /\ EoasMade /\ ContractsMade

IInv == MemoryTyped /\ CacheFresh /\ TablesWhole /\ SynthInv

(* The kinds of accounts and the absence of one are three things, and the     *)
(* accounts of a kind are finitely many.                                      *)
LEMMA Kinds ==
    /\ "eoa" # None /\ "contract" # None
    /\ "eoa" \in Account /\ "contract" \in Account
    /\ \A kind : IsFiniteSet(Made(kind)) /\ Cardinality(Made(kind)) \in Nat
<1>1. \A kind : IsFiniteSet(Made(kind))
  BY HashedStateAssumption, FS_Subset DEF Made
<1> QED BY <1>1, FS_CardinalityType, HashedStateAssumption, SynthStateAssumption

(* The invariant holds initially.                                             *)
LEMMA InitIInv == SynthInit => IInv
<1> SUFFICES ASSUME SynthInit PROVE IInv
  OBVIOUS
<1>1. MemoryTyped /\ CacheFresh
  BY DEF SynthInit, NewState, MemoryTyped, CacheFresh
<1>2. TablesWhole
  <2>1. CASE db \in Earlier
    BY <2>1, SynthStateAssumption DEF TablesWhole
  <2>2. CASE db = EmptyTables
    BY <2>2, FS_EmptySet DEF TablesWhole, EmptyTables
  <2> QED BY <2>1, <2>2 DEF SynthInit
<1>3. \A kind : kind # None => Made(kind) = {}
  BY DEF SynthInit, NewState, Made
<1>4. SynthInv
  BY <1>3, Kinds, FS_EmptySet
     DEF SynthInit, NewState, SynthInv, SynthTyped, Owned, EoasMade, ContractsMade
<1> QED BY <1>1, <1>2, <1>4 DEF IInv

(* An account is inserted and the cache is dropped.                           *)
LEMMA InsertAccountMemory ==
    ASSUME MemoryTyped, NEW a \in Addr, NEW x \in Account, InsertAccount(a, x)
    PROVE  MemoryTyped' /\ CacheFresh'
    BY DEF InsertAccount, MemoryTyped, CacheFresh

(* A slot is set or removed and the cache is dropped.                         *)
LEMMA InsertStorageMemory ==
    ASSUME MemoryTyped, NEW a \in Addr, NEW s \in Slot, NEW v \in Value, InsertStorage(a, s, v)
    PROVE  /\ MemoryTyped' /\ CacheFresh'
           /\ SlotsOf(a)' = [SlotsOf(a) EXCEPT ![s] = IF v = 0 THEN None ELSE v]
           /\ \A b \in Addr : b # a => SlotsOf(b)' = SlotsOf(b) /\ storages'[b] = storages[b]
<1> DEFINE new == [SlotsOf(a) EXCEPT ![s] = IF v = 0 THEN None ELSE v]
<1>1. new \in Slots
  BY SlotsTyped DEF Slots
<1>2. /\ sorted' = None /\ accounts' = accounts
      /\ storages' = [storages EXCEPT ![a] = new]
  BY DEF InsertStorage, CacheAfter
<1> HIDE DEF new
<1>3. MemoryTyped' /\ CacheFresh'
  BY <1>1, <1>2 DEF MemoryTyped, CacheFresh
<1>4. storages'[a] = new /\ \A b \in Addr : b # a => storages'[b] = storages[b]
  BY <1>2 DEF MemoryTyped
<1>5. new # None
  <2>1. Slots \subseteq [Slot -> Value \cup {None}]
    BY DEF Slots
  <2> QED BY <1>1, <2>1, HashedStateAssumption
<1>6. SlotsOf(a)' = new /\ \A b \in Addr : b # a => SlotsOf(b)' = SlotsOf(b)
  BY <1>4, <1>5 DEF SlotsOf
<1> QED BY <1>3, <1>4, <1>6 DEF new

(* An externally owned account is made.                                       *)
LEMMA EoaIInv == ASSUME IInv, Eoa PROVE IInv'
<1> USE DEF IInv, SynthInv
<1>1. PICK a \in Unknown : InsertAccount(a, "eoa")
  BY DEF Eoa
<1>2. a \in Addr /\ accounts[a] = None
  BY DEF Unknown
<1>3. /\ pc = "eoas" /\ count < config.eoas /\ count' = count + 1
      /\ accounts' = [accounts EXCEPT ![a] = "eoa"] /\ storages' = storages
      /\ UNCHANGED <<db, config, pc, sizes, contract, slots, drawn, printed>>
  BY <1>1 DEF Eoa, InsertAccount
<1>4. MemoryTyped' /\ CacheFresh'
  BY <1>1, <1>2, Kinds, InsertAccountMemory
<1>5. TablesWhole'
  BY <1>3 DEF TablesWhole
<1>6. Made("eoa")' = Made("eoa") \cup {a} /\ a \notin Made("eoa")
  BY <1>2, <1>3, Kinds DEF Made, MemoryTyped
<1>7. Made("contract")' = Made("contract")
  BY <1>2, <1>3, Kinds DEF Made, MemoryTyped
<1>8. Cardinality(Made("eoa")') = Cardinality(Made("eoa")) + 1
  BY <1>6, Kinds, FS_AddElement
<1>9. EoasMade' /\ ContractsMade'
  BY <1>3, <1>7, <1>8 DEF EoasMade, ContractsMade
<1>10. SynthTyped' /\ Owned'
  BY <1>2, <1>3, Kinds DEF SynthTyped, Owned, MemoryTyped
<1> QED BY <1>4, <1>5, <1>9, <1>10

(* The sizes of all contracts are drawn.                                      *)
LEMMA DrawSizesIInv == ASSUME IInv, DrawSizes PROVE IInv'
<1> USE DEF IInv, SynthInv
<1>1. /\ pc = "eoas" /\ count = config.eoas
      /\ UNCHANGED <<memory, db, config, count, contract, slots, drawn, printed>>
  BY DEF DrawSizes
<1>2. MemoryTyped' /\ CacheFresh' /\ TablesWhole'
  BY <1>1 DEF memory, MemoryTyped, CacheFresh, TablesWhole, SortedState, IterAccounts,
     IterStorage, SlotsOf
<1>3. UNCHANGED Made("eoa") /\ UNCHANGED Made("contract")
  BY <1>1 DEF Made, memory
<1>4. Owned' /\ printed = None
  BY <1>1 DEF Owned, DrawSizes, memory
<1>5. CASE pc' = "panic" /\ UNCHANGED sizes
  BY <1>1, <1>2, <1>4, <1>5 DEF SynthTyped, EoasMade, ContractsMade
<1>6. CASE pc' = "contracts"
  <2>1. PICK small \in [1..config.small -> {1 + k : k \in Below(config.smallMax)}] :
          sizes' = small \o config.large
    BY <1>6 DEF DrawSizes
  <2>2. config.small \in Nat /\ config.smallMax \in Nat /\ config.large \in Seq(Nat)
    BY <1>1, SynthStateAssumption DEF SynthTyped
  <2>3. {1 + k : k \in Below(config.smallMax)} \subseteq 1..config.smallMax
    BY <2>2 DEF Below
  <2>4. /\ small \in Seq(Nat) /\ Len(small) = config.small
        /\ \A i \in 1..config.small : small[i] \in 1..config.smallMax
    <3>1. small \in [1..config.small -> Nat]
      BY <2>2, <2>3
    <3>2. small \in Seq(Nat) /\ Len(small) = config.small
      BY <2>2, <3>1
    <3> QED BY <2>3, <3>2
  <2>5. /\ sizes' \in Seq(Nat)
        /\ Len(sizes') = config.small + Len(config.large)
        /\ \A i \in 1..(config.small + Len(config.large)) :
             sizes'[i] = IF i <= config.small THEN small[i] ELSE config.large[i - config.small]
    <3>1. /\ small \o config.large \in Seq(Nat)
          /\ Len(small \o config.large) = Len(small) + Len(config.large)
          /\ \A i \in 1..(Len(small) + Len(config.large)) :
               (small \o config.large)[i] =
                 IF i <= Len(small) THEN small[i] ELSE config.large[i - Len(small)]
      BY <2>2, <2>4, ConcatProperties
    <3>2. Len(small) = config.small
      BY <2>4
    <3> QED BY ONLY <2>1, <3>1, <3>2
  <2>6. ASSUME NEW i \in 1..Len(sizes') PROVE Fits(sizes'[i])
    <3>1. Len(config.large) \in Nat
      BY <2>2
    <3>2. CASE i <= config.small
      BY <2>2, <2>4, <2>5, <3>1, <3>2 DEF Fits
    <3>3. CASE ~(i <= config.small)
      <4>1. i - config.small \in 1..Len(config.large)
        BY <2>2, <2>5, <3>1, <3>3
      <4>2. sizes'[i] = config.large[i - config.small]
        BY <2>2, <2>5, <3>1, <3>3
      <4> QED BY <4>1, <4>2 DEF Fits
    <3> QED BY <3>2, <3>3
  <2>7. \A k : Fits(k)' = Fits(k)
    BY <1>1 DEF Fits
  <2>8. Cardinality(Made("contract")) = 0 /\ Made("contract") = {} /\ slots = 0
    BY <1>1, FS_EmptySet DEF EoasMade
  <2>9. ContractsMade'
    BY <1>1, <1>3, <1>6, <2>2, <2>5, <2>6, <2>7, <2>8 DEF ContractsMade
  <2>10. EoasMade'
    BY <1>1, <1>3, <1>6 DEF EoasMade
  <2>11. SynthTyped'
    BY <1>1, <1>6, <2>5 DEF SynthTyped
  <2> QED BY <1>2, <1>4, <2>9, <2>10, <2>11
<1> QED BY <1>5, <1>6 DEF DrawSizes

(* A contract is made, with none of its slots.                                *)
LEMMA ContractIInv == ASSUME IInv, Contract PROVE IInv'
<1> USE DEF IInv, SynthInv
<1>1. PICK a \in Unknown : /\ InsertAccount(a, "contract")
                           /\ contract' = a
                           /\ drawn' = [drawn EXCEPT ![a] = Head(sizes)]
  BY DEF Contract
<1>2. a \in Addr /\ accounts[a] = None /\ storages[a] = None
  BY Kinds DEF Unknown, Owned, Contract
<1>3. /\ pc = "contracts" /\ slots = 0 /\ sizes # <<>>
      /\ slots' = Head(sizes) /\ sizes' = Tail(sizes)
      /\ accounts' = [accounts EXCEPT ![a] = "contract"] /\ storages' = storages
      /\ UNCHANGED <<db, config, pc, count, printed>>
  BY <1>1 DEF Contract, InsertAccount
<1>4. MemoryTyped' /\ CacheFresh'
  BY <1>1, <1>2, Kinds, InsertAccountMemory
<1>5. TablesWhole'
  BY <1>3 DEF TablesWhole
<1>6. /\ Made("contract")' = Made("contract") \cup {a} /\ a \notin Made("contract")
      /\ Made("eoa")' = Made("eoa")
  BY <1>2, <1>3, Kinds DEF Made, MemoryTyped
<1>7. Cardinality(Made("contract")') = Cardinality(Made("contract")) + 1
  BY <1>6, Kinds, FS_AddElement
<1>8. /\ Head(sizes) \in Nat /\ Head(sizes) = sizes[1]
      /\ Tail(sizes) \in Seq(Nat) /\ Len(Tail(sizes)) = Len(sizes) - 1
      /\ Len(sizes) \in Nat \ {0}
      /\ \A i \in 1..Len(Tail(sizes)) : Tail(sizes)[i] = sizes[i + 1]
  BY <1>3, HeadTailProperties, EmptySeq DEF SynthTyped
<1>9. \A k : Fits(k)' = Fits(k)
  BY <1>3 DEF Fits
<1>10. \A b : IterStorage(b)' = IterStorage(b)
  BY <1>3 DEF IterStorage, SlotsOf
<1>11. IterStorage(a) = {}
  BY <1>2, SlotsTyped DEF IterStorage
<1>12. /\ drawn'[a] = Head(sizes)
       /\ \A b \in Addr : b # a => drawn'[b] = drawn[b]
  BY <1>1, <1>2 DEF SynthTyped
<1>13. ContractsMade'
  <2>1. Cardinality(Made("contract")') + Len(sizes') = config.small + Len(config.large)
    BY <1>3, <1>7, <1>8, Kinds DEF ContractsMade
  <2>2. ASSUME NEW i \in 1..Len(sizes') PROVE Fits(sizes'[i])
    BY <1>3, <1>8 DEF ContractsMade
  <2>3. Fits(Head(sizes))
    BY <1>3, <1>8 DEF ContractsMade
  <2>4. ASSUME NEW b \in Made("contract")'
        PROVE  /\ Fits(drawn'[b])
               /\ drawn'[b] = Cardinality(IterStorage(b)) + (IF b = a THEN slots' ELSE 0)
    <3>1. CASE b = a
      <4>1. Cardinality(IterStorage(b)) = 0
        BY <1>11, <3>1, FS_EmptySet
      <4> QED BY <1>3, <1>8, <1>12, <2>3, <3>1, <4>1
    <3>2. CASE b # a
      <4>1. b \in Made("contract") /\ b \in Addr
        BY <1>6, <3>2 DEF Made
      <4>2. Cardinality(IterStorage(b)) \in Nat
        BY <4>1, StorageRows, FS_CardinalityType
      <4>3. Fits(drawn[b]) /\ drawn[b] = Cardinality(IterStorage(b))
                                            + (IF b = contract THEN slots ELSE 0)
        BY <1>3, <4>1 DEF ContractsMade
      <4> QED BY <1>3, <1>12, <3>2, <4>1, <4>2, <4>3
    <3> QED BY <3>1, <3>2
  <2> QED BY <1>1, <1>3, <1>6, <1>9, <1>10, <2>1, <2>2, <2>4 DEF ContractsMade
<1>14. EoasMade'
  BY <1>3, <1>6 DEF EoasMade
<1>15. SynthTyped'
  <2>1. drawn' \in [Addr -> Nat \cup {None}]
    BY <1>1, <1>8 DEF SynthTyped
  <2> QED BY <1>3, <1>8, <2>1 DEF SynthTyped
<1>16. Owned'
  BY <1>2, <1>3, Kinds DEF Owned, MemoryTyped
<1> QED BY <1>4, <1>5, <1>13, <1>14, <1>15, <1>16

(* A slot of the contract is set, to a value that is not zero.                *)
LEMMA SetSlotIInv == ASSUME IInv, SetSlot PROVE IInv'
<1> USE DEF IInv, SynthInv
<1>1. PICK s \in NewSlots, v \in SlotValues : InsertStorage(contract, s, v)
  BY DEF SetSlot
<1>2. PICK c : c = contract
  OBVIOUS
<1>3. /\ pc = "contracts" /\ slots > 0 /\ slots' = slots - 1
      /\ accounts' = accounts
      /\ UNCHANGED <<db, config, pc, count, sizes, contract, drawn, printed>>
  BY <1>1 DEF SetSlot, InsertStorage
<1>4. c \in Made("contract") /\ c \in Addr /\ accounts[c] = "contract"
  BY <1>2, <1>3 DEF ContractsMade, Made
<1>5. s \in Slot /\ SlotsOf(c)[s] = None
  BY <1>2 DEF NewSlots
<1>6. v \in Value /\ v # 0
  BY SynthStateAssumption DEF SlotValues
<1>7. /\ MemoryTyped' /\ CacheFresh'
      /\ SlotsOf(c)' = [SlotsOf(c) EXCEPT ![s] = v]
      /\ \A b \in Addr : b # c => SlotsOf(b)' = SlotsOf(b) /\ storages'[b] = storages[b]
  BY <1>1, <1>2, <1>4, <1>5, <1>6, InsertStorageMemory
<1>8. TablesWhole'
  BY <1>3 DEF TablesWhole
<1>9. \A b \in Addr : b # c => IterStorage(b)' = IterStorage(b)
  BY <1>7 DEF IterStorage
<1>10. IterStorage(c)' = IterStorage(c) \cup {<<c, s, v>>} /\ <<c, s, v>> \notin IterStorage(c)
  <2>1. SlotsOf(c) \in Slots /\ v # None
    BY <1>4, <1>6, SlotsTyped, HashedStateAssumption
  <2>2. SlotsOf(c)'[s] = v /\ \A q \in Slot : q # s => SlotsOf(c)'[q] = SlotsOf(c)[q]
    BY <1>5, <1>7, <2>1 DEF Slots
  <2> QED BY <1>5, <2>1, <2>2 DEF IterStorage
<1>11. /\ Cardinality(IterStorage(c)') = Cardinality(IterStorage(c)) + 1
       /\ Cardinality(IterStorage(c)) \in Nat
  BY <1>4, <1>10, StorageRows, FS_AddElement, FS_CardinalityType
<1>12. UNCHANGED Made("eoa") /\ UNCHANGED Made("contract")
  BY <1>3 DEF Made
<1>13. \A k : Fits(k)' = Fits(k)
  BY <1>3 DEF Fits
<1>14. ContractsMade'
  <2>1. ASSUME NEW b \in Made("contract")
        PROVE  drawn[b] = Cardinality(IterStorage(b)') + (IF b = c THEN slots' ELSE 0)
    <3>1. b \in Addr
      BY DEF Made
    <3>2. drawn[b] = Cardinality(IterStorage(b)) + (IF b = c THEN slots ELSE 0)
      BY <1>2, <1>3 DEF ContractsMade
    <3>3. slots \in Nat
      BY DEF SynthTyped
    <3>4. CASE b = c
      BY <1>3, <1>11, <3>2, <3>3, <3>4
    <3>5. CASE b # c
      BY <1>9, <3>1, <3>2, <3>5
    <3> QED BY <3>4, <3>5
  <2> QED BY <1>2, <1>3, <1>4, <1>12, <1>13, <2>1 DEF ContractsMade
<1>15. EoasMade'
  BY <1>3, <1>12 DEF EoasMade
<1>16. SynthTyped' /\ Owned'
  BY <1>3, <1>4, <1>7 DEF SynthTyped, Owned
<1> QED BY <1>7, <1>8, <1>14, <1>15, <1>16

(* A step that leaves the maps alone and writes the state, or fails to, or    *)
(* changes nothing.                                                           *)
LEMMA EndIInv ==
    ASSUME IInv, WriteDatadir \/ WriteFails \/ UNCHANGED <<vars, synth>> PROVE IInv'
<1> USE DEF IInv, SynthInv
<1>1. UNCHANGED <<memory, config, count, sizes, contract, slots, drawn>>
  BY DEF WriteDatadir, WriteFails, vars, synth
<1>2. MemoryTyped' /\ CacheFresh'
  BY <1>1 DEF memory, MemoryTyped, CacheFresh, SortedState, IterAccounts, IterStorage, SlotsOf
<1>3. TablesWhole'
  <2>1. CASE WriteDatadir
    BY <2>1, WriteKeepsWhole DEF WriteDatadir
  <2>2. CASE UNCHANGED db
    BY <2>2 DEF TablesWhole
  <2> QED BY <2>1, <2>2 DEF WriteFails, vars
<1>4. /\ UNCHANGED Made("eoa") /\ UNCHANGED Made("contract")
      /\ \A b : IterStorage(b)' = IterStorage(b)
      /\ \A k : Fits(k)' = Fits(k)
  BY <1>1 DEF memory, Made, IterStorage, SlotsOf, Fits
<1>5. \/ pc = "contracts" /\ slots = 0 /\ sizes = <<>> /\ pc' \in {"printed", "panic"}
         /\ (printed' # printed => pc' = "printed")
      \/ pc' = pc /\ printed' = printed
  BY DEF WriteDatadir, WriteFails, Synthesized, synth
<1>6. SynthTyped' /\ Owned'
  BY <1>1, <1>5 DEF memory, SynthTyped, Owned
<1>7. EoasMade'
  BY <1>1, <1>4, <1>5 DEF EoasMade
<1>8. ContractsMade'
  BY <1>1, <1>4, <1>5 DEF ContractsMade
<1> QED BY <1>2, <1>3, <1>6, <1>7, <1>8

(* A test puts its state together by hand, writes it or opens cursors.        *)
LEMMA ByHandIInv == ASSUME IInv, ByHand PROVE IInv'
<1> USE DEF IInv, SynthInv
<1>1. pc = "hand" /\ Next /\ UNCHANGED <<config, pc, count, sizes, slots, drawn, printed>>
  BY DEF ByHand, synth
<1>2. SynthTyped' /\ Owned' /\ EoasMade' /\ ContractsMade'
  BY <1>1 DEF SynthTyped, Owned, EoasMade, ContractsMade
<1>3. CASE UNCHANGED db /\ \E a \in Addr, x \in Account : InsertAccount(a, x)
  BY <1>2, <1>3, InsertAccountMemory DEF TablesWhole
<1>4. CASE UNCHANGED db /\ \E a \in Addr, s \in Slot, v \in Value : InsertStorage(a, s, v)
  BY <1>2, <1>4, InsertStorageMemory DEF TablesWhole
<1>5. CASE UNCHANGED db /\ OpenCursors
  <2>1. SortedState' = SortedState
    BY <1>5 DEF OpenCursors, SortedState, IterAccounts, IterStorage, SlotsOf
  <2>2. MemoryTyped' /\ CacheFresh'
    BY <1>5, <2>1 DEF OpenCursors, MemoryTyped, CacheFresh
  <2> QED BY <1>2, <1>5, <2>2 DEF TablesWhole
<1>6. CASE WriteHashedState /\ UNCHANGED memory
  <2>1. MemoryTyped' /\ CacheFresh'
    BY <1>6 DEF memory, MemoryTyped, CacheFresh, SortedState, IterAccounts, IterStorage, SlotsOf
  <2> QED BY <1>2, <1>6, <2>1, WriteKeepsWhole
<1> QED BY <1>1, <1>3, <1>4, <1>5, <1>6 DEF Next

(* The invariant holds in every reachable state.                              *)
THEOREM Invariant == SynthSpec => []IInv
<1>1. IInv /\ [SynthNext]_<<vars, synth>> => IInv'
  BY EoaIInv, DrawSizesIInv, ContractIInv, SetSlotIInv, EndIInv, ByHandIInv
     DEF SynthNext, SynthOver
<1> QED BY <1>1, InitIInv, PTL DEF SynthSpec

-----------------------------------------------------------------------------
(* What the tests rely on *)

(* The sorted form cursors read is that of the state as it is, for any maps   *)
(* and any order of insertions, removals and builds.                          *)
THEOREM CacheIsFresh == SynthSpec => []CacheFresh
<1>1. IInv => CacheFresh
  BY DEF IInv
<1> QED BY <1>1, Invariant, PTL

(* A run over any database that was written by write_hashed_state walks as    *)
(* many entries as its tables hold.                                           *)
THEOREM RunWalksAllEntries == SynthSpec => []RunWalksAll
<1>1. IInv => RunWalksAll
  BY WholeIsWalked DEF IInv
<1> QED BY <1>1, Invariant, PTL

(* A synthetic state has the shape of its configuration: the number of        *)
(* accounts of each kind, and of slots of each contract.                      *)
THEOREM SynthHasShape == SynthSpec => []SynthShape
<1>1. IInv => SynthShape
  <2> SUFFICES ASSUME IInv, Synthesized \/ pc = "printed"
               PROVE  /\ Cardinality(Made("eoa")) = config.eoas
                      /\ Cardinality(Made("contract")) = config.small + Len(config.large)
                      /\ \A a \in Made("eoa") : IterStorage(a) = {}
                      /\ \A a \in Made("contract") :
                           Cardinality(IterStorage(a)) = drawn[a] /\ Fits(drawn[a])
    BY DEF SynthShape, Fits
  <2>1. pc \in {"contracts", "printed"} /\ slots = 0 /\ sizes = <<>>
    BY DEF Synthesized, IInv, SynthInv, ContractsMade
  <2>2. Cardinality(Made("eoa")) = config.eoas
    BY <2>1 DEF IInv, SynthInv, EoasMade
  <2>3. Cardinality(Made("contract")) = config.small + Len(config.large)
    BY <2>1, Kinds, EmptySeq DEF IInv, SynthInv, ContractsMade
  <2>4. ASSUME NEW a \in Made("eoa") PROVE IterStorage(a) = {}
    <3>1. a \in Addr /\ storages[a] = None
      BY <2>1 DEF Made, IInv, SynthInv, Owned
    <3> QED BY <3>1, SlotsTyped DEF IterStorage, IInv
  <2>5. ASSUME NEW a \in Made("contract")
        PROVE  Cardinality(IterStorage(a)) = drawn[a] /\ Fits(drawn[a])
    <3>1. Cardinality(IterStorage(a)) \in Nat
      BY StorageRows, FS_CardinalityType DEF Made, IInv
    <3> QED BY <2>1, <3>1 DEF IInv, SynthInv, ContractsMade
  <2> QED BY <2>2, <2>3, <2>4, <2>5
<1> QED BY <1>1, Invariant, PTL

(* A state written into empty tables gives a run over the database the same   *)
(* entries as a run over the memory.                                          *)
THEOREM SourcesAlwaysAgree == SynthSpec => SourcesAgree
<1>1. IInv /\ [SynthNext]_<<vars, synth>> =>
        [db = EmptyTables /\ db' # db => Walk(db') = Walk(SortedState)]_vars
  BY WritesOnly, SameEntries DEF IInv
<1> QED BY <1>1, Invariant, PTL DEF SynthSpec, SourcesAgree

(* The counts make_datadir prints for a new datadir are those of its tables.  *)
THEOREM DatadirHoldsWhatIsPrinted == SynthSpec => DatadirHoldsState
<1>1. ASSUME IInv, WriteDatadir, db = EmptyTables
      PROVE  HashedEntries' = printed'.accounts + printed'.storages
  <2>1. db' = [accounts |-> AccountsToPut, storages |-> StoragesToPut]
    BY <1>1, WriteIntoEmpty DEF WriteDatadir
  <2>2. HashedEntries' = Cardinality(AccountsToPut) + Cardinality(StoragesToPut)
    BY <2>1 DEF HashedEntries
  <2>3. printed'.accounts = Cardinality(IterAccounts) /\ printed'.storages = Cardinality(AllStorage)
    BY <1>1 DEF WriteDatadir, AccountCount, StorageCount, AllStorage
  <2>4. AllStorage = StoragesToPut
    <3>1. ASSUME NEW a \in Addr, IterStorage(a) # {} PROVE a \in Known
      <4>1. storages[a] # None
        BY <1>1, <3>1, SlotsTyped DEF IterStorage, IInv
      <4> QED BY <1>1, <4>1, Kinds DEF WriteDatadir, Synthesized, IInv, SynthInv, Owned, Known
    <3>2. \A a \in Known : a \in Addr
      BY DEF Known
    <3> QED BY <3>1, <3>2 DEF AllStorage, StoragesToPut
  <2> QED BY <2>2, <2>3, <2>4 DEF AccountsToPut
<1>2. ASSUME IInv, [SynthNext]_<<vars, synth>>, ~WriteDatadir, printed' # None
      PROVE  UNCHANGED <<vars, synth>>
  <2>1. CASE UNCHANGED <<vars, synth>>
    BY <2>1
  <2>2. CASE printed' = printed
    <3>1. pc = "printed"
      BY <1>2, <2>2 DEF IInv, SynthInv, Owned
    <3> QED BY <1>2, <3>1 DEF SynthNext, Eoa, DrawSizes, Contract, SetSlot, WriteFails,
               Synthesized, ByHand, SynthOver
  <2> QED BY <1>2, <2>1, <2>2 DEF SynthNext, Eoa, DrawSizes, Contract, SetSlot, WriteFails,
             ByHand, SynthOver, synth
<1>3. IInv /\ [SynthNext]_<<vars, synth>> =>
        [db = EmptyTables /\ printed' # None =>
           HashedEntries' = printed'.accounts + printed'.storages]_<<vars, synth>>
  BY <1>1, <1>2
<1> QED BY <1>3, Invariant, PTL DEF SynthSpec, DatadirHoldsState

=============================================================================
