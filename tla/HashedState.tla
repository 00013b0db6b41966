----------------------------- MODULE HashedState -----------------------------
(***************************************************************************)
(* The hashed state the tests build in memory, crates/bench/src/memory.rs, *)
(* with its cached sorted form, and write_hashed_state (mdbx.rs), which    *)
(* copies it into the hashed tables of a database.  A generator run reads  *)
(* either, and the tests take the two for the same state.                  *)
(*                                                                         *)
(* A table is a set of rows.  HashedAccounts has one row per address;      *)
(* HashedStorages is duplicate-sorted, so a put adds a row beside those    *)
(* with another slot or another value.                                     *)
(***************************************************************************)
EXTENDS Naturals, FiniteSets

CONSTANTS
    Addr,      \* hashed addresses
    Slot,      \* hashed slots
    Account,   \* what an account row holds
    Value,     \* what can be stored in a slot, 0 included
    None       \* no entry in a map

ASSUME HashedStateAssumption ==
    /\ IsFiniteSet(Addr) /\ IsFiniteSet(Slot)
    /\ None \notin Account /\ None \notin Value
    /\ None \notin [Slot -> Value \cup {None}]
    /\ Value \subseteq Nat

VARIABLES
    accounts,  \* the map from addresses to accounts
    storages,  \* the map from addresses to maps from slots to values
    sorted,    \* the cached HashedPostStateSorted, or None
    db         \* the committed hashed tables

memory == <<accounts, storages, sorted>>
vars   == <<memory, db>>

-----------------------------------------------------------------------------
(* MemoryState *)

NewState ==
    /\ accounts = [a \in Addr |-> None]
    /\ storages = [a \in Addr |-> None]
    /\ sorted = None

EmptyTables == [accounts |-> {}, storages |-> {}]

Init == NewState /\ db = EmptyTables

InsertAccount(a, account) ==
    /\ sorted' = None
    /\ accounts' = [accounts EXCEPT ![a] = account]
    /\ UNCHANGED storages

\* entry(hashed_address).or_default()
SlotsOf(a) == IF storages[a] = None THEN [s \in Slot |-> None] ELSE storages[a]

\* Mutant: the cache is dropped only when a slot is set.
DroppedIfSet(value) == IF value = 0 THEN sorted ELSE None

\* The new cell; a state that is changed has no cached form.
CacheAfter(value) == None

\* Zero removes the slot; the map it leaves behind may be empty.
InsertStorage(a, s, value) ==
    /\ sorted' = CacheAfter(value)
    /\ storages' = [storages EXCEPT ![a] =
                      [SlotsOf(a) EXCEPT ![s] = IF value = 0 THEN None ELSE value]]
    /\ UNCHANGED accounts

IterAccounts ==
    {<<a, accounts[a]>> : a \in {b \in Addr : accounts[b] # None}}

IterStorage(a) ==
    {<<a, s, SlotsOf(a)[s]>> : s \in {t \in Slot : SlotsOf(a)[t] # None}}

AccountCount == Cardinality(IterAccounts)
StorageCount == Cardinality(UNION {IterStorage(a) : a \in Addr})

\* The sorted post-state: a storage that holds no slot has no entry.
SortedState ==
    [accounts |-> IterAccounts,
     storages |-> UNION {IterStorage(a) : a \in Addr},
     tries    |-> {a \in Addr : storages[a] # None /\ IterStorage(a) # {}}]

\* cursor_factory and provider_factory: sorted() initialises the cache once.
OpenCursors ==
    /\ sorted' = IF sorted = None THEN SortedState ELSE sorted
    /\ UNCHANGED <<accounts, storages>>

-----------------------------------------------------------------------------
(* write_hashed_state: one transaction *)

Known == {a \in Addr : accounts[a] # None}

\* Mutant: the storage of every address is written, with or without account.
StoragesOfAll == UNION {IterStorage(a) : a \in Addr}

StoragesToPut == UNION {IterStorage(a) : a \in Known}

\* Mutant: the account is put with its slots, so one without slots is not.
AccountsWithSlots == {r \in IterAccounts : IterStorage(r[1]) # {}}

AccountsToPut == IterAccounts

WriteHashedState ==
    db' = [accounts |-> {r \in db.accounts : r[1] \notin Known} \cup AccountsToPut,
           storages |-> db.storages \cup StoragesToPut]

-----------------------------------------------------------------------------
(* What a run reads *)

\* reth's cursors: every account, and the storage of accounts only.
Walk(state) ==
    state.accounts \cup {r \in state.storages : \E x \in state.accounts : x[1] = r[1]}

\* hashed_entries, the number a run is expected to walk
HashedEntries == Cardinality(db.accounts) + Cardinality(db.storages)

Next ==
    \/ /\ UNCHANGED db
       /\ \/ \E a \in Addr, x \in Account : InsertAccount(a, x)
          \/ \E a \in Addr, s \in Slot, v \in Value : InsertStorage(a, s, v)
          \/ OpenCursors
    \/ WriteHashedState /\ UNCHANGED memory

Spec == Init /\ [][Next]_vars

-----------------------------------------------------------------------------
(* Properties *)

(* The cached form is never older than the maps: whatever is inserted,        *)
(* replaced or removed between two builds, the cursors of the next build read *)
(* the state as it is, without entries for emptied storages.                  *)
CacheFresh == sorted # None => sorted = SortedState

(* A run over a database walks exactly as many entries as the table stats     *)
(* say (datadir_bench.rs:257): every storage row belongs to an account row,   *)
(* although the state in memory may hold storage of unknown addresses and may *)
(* have been written before.                                                  *)
RunWalksAll == Cardinality(Walk(db)) = HashedEntries

(* Writing a state into empty tables gives a run over the database the same   *)
(* entries as a run over the memory: the two test suites test one state.      *)
SourcesAgree ==
    [][db = EmptyTables /\ db' # db => Walk(db') = Walk(SortedState)]_vars

=============================================================================
