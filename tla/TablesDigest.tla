----------------------------- MODULE TablesDigest -----------------------------
(***************************************************************************)
(* digest_trie_tables in crates/bench/src/mdbx.rs: the account trie table  *)
(* is walked serially, then the storage trie table in Base address ranges  *)
(* in parallel, every row pushed into one shared NodeDigest.  A read-only  *)
(* invocation either feeds its digest from a generator run (NodeDigest) or *)
(* scans the tables; the two digests are what a user compares.             *)
(*                                                                         *)
(* An address is a number of two digits in base Base; the code's has 64    *)
(* digits in base 16.  The rows of a table are the nodes its adapter       *)
(* decodes; the order in which a cursor returns them does not matter here. *)
(***************************************************************************)
EXTENDS NodeDigest

CONSTANT
    Base       \* 16: the values of the first nibble, one range for each

ASSUME TablesDigestAssumption ==
    /\ Base \in Nat \ {0}
    /\ Threads = 0..(Base - 1)
    /\ \A n \in Nodes : n.addr = None \/ n.addr \in 0..(Base * Base - 1)

VARIABLES
    tables,         \* the rows of the transaction's snapshot
    phase,          \* where digest_tables is
    returned,       \* rows each cursor has returned, the serial one's under None
    account_nodes,  \* the serial count
    counts,         \* the count of each range, and whether its cursor is done
    storage_nodes   \* the reduced count

scan     == <<returned, account_nodes, counts, storage_nodes>>
scanVars == <<vars, tables, phase, scan>>

Accounts == {n \in tables : n.addr = None}
Storages == {n \in tables : n.addr # None}

\* right_padding_from(nibble << 4): the nibble, then zeros.
RangeLow(nibble) == nibble * Base

\* Mutant: the bytes after the first nibble are left at zero.
RangeHighShort(nibble) == nibble * Base

\* All bytes 0xff, the first one nibble << 4 | 0xf.
RangeHigh(nibble) == nibble * Base + (Base - 1)

InRange(n, nibble) == RangeLow(nibble) <= n.addr /\ n.addr <= RangeHigh(nibble)

ScanInit ==
    /\ Init
    /\ \/ phase = "accounts" /\ tables \in SUBSET Nodes
       \/ phase = "emits" /\ tables = {}
    /\ returned = [t \in Threads \cup {None} |-> {}]
    /\ account_nodes = 0
    /\ counts = [t \in Threads |-> [done |-> FALSE, rows |-> 0]]
    /\ storage_nodes = 0

\* A generator run instead of a scan.
GeneratorStep ==
    /\ phase = "emits"
    /\ Next
    /\ UNCHANGED <<tables, phase, scan>>

\* The serial loop: the calling thread, here 0, pushes row after row.
AccountRow(n) ==
    /\ phase = "accounts"
    /\ n \in Accounts \ returned[None]
    /\ Idle
    /\ PushBegin(0, n)
    /\ account_nodes' = account_nodes + 1
    /\ returned' = [returned EXCEPT ![None] = @ \cup {n}]
    /\ UNCHANGED <<snapshot, tables, phase, counts, storage_nodes>>

AccountsDone ==
    /\ phase = "accounts"
    /\ Accounts = returned[None]
    /\ Idle
    /\ phase' = "storage"
    /\ UNCHANGED <<vars, tables, scan>>

\* One turn of a range's loop.
StorageRow(t, n) ==
    /\ phase = "storage"
    /\ ~counts[t].done
    /\ n \in Storages \ returned[t]
    /\ InRange(n, t)
    /\ PushBegin(t, n)
    /\ counts' = [counts EXCEPT ![t].rows = @ + 1]
    /\ returned' = [returned EXCEPT ![t] = @ \cup {n}]
    /\ UNCHANGED <<snapshot, tables, phase, account_nodes, storage_nodes>>

\* The range's cursor is exhausted and its closure returns Ok(count).
RangeDone(t) ==
    /\ phase = "storage"
    /\ ~counts[t].done
    /\ push[t] = None
    /\ \A n \in Storages \ returned[t] : ~InRange(n, t)
    /\ counts' = [counts EXCEPT ![t].done = TRUE]
    /\ UNCHANGED <<vars, tables, phase, returned, account_nodes, storage_nodes>>

ScanPush(t) ==
    /\ phase # "emits"
    /\ PushStep(t)
    /\ UNCHANGED <<tables, phase, scan>>

\* A cursor fails: try_reduce returns the error and nothing is reported.
ScanFails ==
    /\ phase \in {"accounts", "storage"}
    /\ phase' = "failed"
    /\ UNCHANGED <<vars, tables, scan>>

\* try_reduce has joined all ranges: add up and take the snapshot.
ScanDone ==
    /\ phase = "storage"
    /\ \A t \in Threads : counts[t].done
    /\ storage_nodes' = SumFunction([t \in Threads |-> counts[t].rows])
    /\ snapshot' = Snapshot
    /\ phase' = "done"
    /\ UNCHANGED <<digest, tables, returned, account_nodes, counts>>

ScanStopped == phase \in {"done", "failed"} /\ UNCHANGED scanVars

ScanNext ==
    \/ GeneratorStep
    \/ \E n \in Nodes : AccountRow(n)
    \/ AccountsDone
    \/ \E t \in Threads : \/ \E n \in Nodes : StorageRow(t, n)
                          \/ ScanPush(t)
                          \/ RangeDone(t)
    \/ ScanFails
    \/ ScanDone
    \/ ScanStopped

ScanSpec == ScanInit /\ [][ScanNext]_scanVars

-----------------------------------------------------------------------------
(* Properties *)

(* The reported digest is that of the tables' rows and the two counts are     *)
(* those of the two tables: no range leaves a row out, no row is in two       *)
(* ranges, and every push is complete when the snapshot is taken.             *)
ScanExact ==
    phase = "done" =>
        /\ snapshot = AsSnapshot(OfTrieUpdates(tables))
        /\ account_nodes = Cardinality(Accounts)
        /\ storage_nodes = Cardinality(Storages)
        /\ account_nodes + storage_nodes = snapshot.count

=============================================================================
