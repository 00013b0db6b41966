------------------------------ MODULE SynthState ------------------------------
(***************************************************************************)
(* The synthetic state, crates/bench/src/synth.rs, and the example that    *)
(* writes one into a datadir, crates/bench/examples/make_datadir.rs.       *)
(*                                                                         *)
(* The generator's draws are any values of their range.  A drawn address   *)
(* or slot is new to the state: 32 random bytes do not repeat.  The        *)
(* datadir may hold what an earlier run of the example left.  A test may   *)
(* also put its state together by hand (HashedState).                      *)
(***************************************************************************)
EXTENDS HashedState, Sequences

CONSTANTS
    Configs,   \* the SynthConfigs a run may be given
    Draws,     \* the range of below(u32::MAX), here small
    Earlier    \* hashed tables a datadir may hold before, empty ones included

ASSUME SynthStateAssumption ==
    /\ {"eoa", "contract"} \subseteq Account
    /\ \A d \in Draws : d \in Nat /\ 1 + d \in Value
    /\ \A c \in Configs : /\ c.eoas \in Nat /\ c.small \in Nat /\ c.smallMax \in Nat
                          /\ c.large \in Seq(Nat)
    \* An earlier run left finite tables and no storage without its account.
    /\ \A e \in Earlier :
        /\ IsFiniteSet(e.accounts) /\ IsFiniteSet(e.storages)
        /\ e = [accounts |-> e.accounts, storages |-> e.storages]
        /\ e.accounts \subseteq Addr \X Account
        /\ e.storages \subseteq Addr \X Slot \X Value
        /\ \A r \in e.storages : \E x \in e.accounts : x[1] = r[1]

VARIABLES
    config,    \* the SynthConfig of this run, or None
    pc,        \* where synthesize or main is, "hand" without them
    count,     \* externally owned accounts made so far
    sizes,     \* slot counts of the contracts still to be made
    contract,  \* the contract whose slots are being drawn, or None
    slots,     \* the slots it still gets
    drawn,     \* the slot count drawn for each contract (not in the program)
    printed    \* the counts of the line printed, or None

synth == <<config, pc, count, sizes, contract, slots, drawn, printed>>

SynthInit ==
    /\ NewState
    /\ \/ pc = "eoas" /\ db \in Earlier /\ config \in Configs
       \/ pc = "hand" /\ db = EmptyTables /\ config = None
    /\ count = 0
    /\ sizes = <<>>
    /\ contract = None
    /\ slots = 0
    /\ drawn = [a \in Addr |-> None]
    /\ printed = None

Unknown == {a \in Addr : accounts[a] = None}
NewSlots == {s \in Slot : SlotsOf(contract)[s] = None}

-----------------------------------------------------------------------------
(* synthesize *)

\* Rng::below
Below(n) == 0..(n - 1)

Eoa ==
    /\ pc = "eoas" /\ count < config.eoas
    /\ \E a \in Unknown : InsertAccount(a, "eoa")
    /\ count' = count + 1
    /\ UNCHANGED <<db, config, pc, sizes, contract, slots, drawn, printed>>

\* All sizes are drawn before the first contract; below(0) divides by zero.
DrawSizes ==
    /\ pc = "eoas" /\ count = config.eoas
    /\ IF config.small > 0 /\ config.smallMax = 0
       THEN pc' = "panic" /\ UNCHANGED sizes
       ELSE /\ pc' = "contracts"
            /\ \E small \in [1..config.small -> {1 + k : k \in Below(config.smallMax)}] :
                 sizes' = small \o config.large
    /\ UNCHANGED <<memory, db, config, count, contract, slots, drawn, printed>>

Contract ==
    /\ pc = "contracts" /\ slots = 0 /\ sizes # <<>>
    /\ \E a \in Unknown :
         /\ InsertAccount(a, "contract")
         /\ contract' = a
         /\ drawn' = [drawn EXCEPT ![a] = Head(sizes)]
    /\ slots' = Head(sizes)
    /\ sizes' = Tail(sizes)
    /\ UNCHANGED <<db, config, pc, count, printed>>

\* Mutant: a drawn value may be zero, which removes the slot.
DrawnValues == Draws

\* U256::from(1 + rng.below(..))
SlotValues == {1 + d : d \in Draws}

SetSlot ==
    /\ pc = "contracts" /\ slots > 0
    /\ \E s \in NewSlots, v \in SlotValues : InsertStorage(contract, s, v)
    /\ slots' = slots - 1
    /\ UNCHANGED <<db, config, pc, count, sizes, contract, drawn, printed>>

Synthesized == pc = "contracts" /\ slots = 0 /\ sizes = <<>>

-----------------------------------------------------------------------------
(* make_datadir: init_db keeps what is there, and the state is written into it *)

WriteDatadir ==
    /\ Synthesized
    /\ WriteHashedState
    /\ pc' = "printed"
    /\ printed' = [accounts |-> AccountCount, storages |-> StorageCount]
    /\ UNCHANGED <<memory, config, count, sizes, contract, slots, drawn>>

\* expect("write hashed state"): the transaction is dropped.
WriteFails ==
    /\ Synthesized
    /\ pc' = "panic"
    /\ UNCHANGED <<vars, config, count, sizes, contract, slots, drawn, printed>>

ByHand == pc = "hand" /\ Next /\ UNCHANGED synth

SynthOver == pc \in {"printed", "panic"} /\ UNCHANGED <<vars, synth>>

SynthNext == Eoa \/ DrawSizes \/ Contract \/ SetSlot \/ WriteDatadir \/ WriteFails
               \/ ByHand \/ SynthOver

SynthSpec == SynthInit /\ [][SynthNext]_<<vars, synth>>

-----------------------------------------------------------------------------
(* Properties *)

Made(kind) == {a \in Addr : accounts[a] = kind}

(* A synthetic state has the shape its configuration describes, in            *)
(* synth.rs:12-19: externally owned accounts without storage, and contracts   *)
(* with as many slots as drawn, one to small_slots_max for the small ones; no *)
(* slot is lost to a zero value, and a configuration whose small contracts    *)
(* can have no slots gives no state at all.                                   *)
SynthShape ==
    Synthesized \/ pc = "printed" =>
        /\ Cardinality(Made("eoa")) = config.eoas
        /\ Cardinality(Made("contract")) = config.small + Len(config.large)
        /\ \A a \in Made("eoa") : IterStorage(a) = {}
        /\ \A a \in Made("contract") :
             /\ Cardinality(IterStorage(a)) = drawn[a]
             /\ \/ drawn[a] \in 1..config.smallMax
                \/ \E i \in 1..Len(config.large) : drawn[a] = config.large[i]

(* The counts make_datadir prints for a new datadir are those of its tables,  *)
(* and what a run over it walks (RunWalksAll, which holds for a used datadir  *)
(* too).                                                                      *)
DatadirHoldsState ==
    [][db = EmptyTables /\ printed' # None =>
         HashedEntries' = printed'.accounts + printed'.storages]_<<vars, synth>>

=============================================================================
