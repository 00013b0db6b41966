----------------------------- MODULE DatadirBench -----------------------------
(***************************************************************************)
(* One invocation after another of src/bin/datadir_bench.rs on a datadir:  *)
(* which of its jobs the flags select, in which order it does them, what   *)
(* it checks and with which status it exits.                               *)
(*                                                                         *)
(* A build is what WriteSink and RethRebuild are shown to implement: the   *)
(* tables are cleared, grow by commits and hold the build's rows when it   *)
(* reports.  The generator is the code under test: any rows and any root   *)
(* may come out of it, other ones in each run.  reth's walker takes the    *)
(* hashes of the stored rows it meets under the root and walks the hashed  *)
(* state elsewhere, so it arrives at the true root unless one of the rows  *)
(* it meets is wrong.                                                      *)
(* A printed digest stands for the rows digested (NodeDigest).             *)
(***************************************************************************)
EXTENDS Naturals, FiniteSets

CONSTANTS
    Rows,      \* rows that can be in the trie tables
    RethRows,  \* the rows reth's rebuild writes
    Met,       \* the rows reth's walker meets
    Root,      \* the root of the hashed state
    BadRoot,   \* any other root
    Args,      \* command lines that parse
    Results,   \* what the generator can come up with
    MaxCalls,  \* bound on the invocations of a behaviour
    None       \* Option::None

Roots == {Root, BadRoot}

Flags == [write : BOOLEAN, reth_rebuild : BOOLEAN, clear : BOOLEAN,
          reth_serial : BOOLEAN, digest : BOOLEAN, repeat : Nat,
          expected : Roots \cup {None}]

ASSUME DatadirBenchAssumption ==
    /\ RethRows \subseteq Rows
    /\ Met \subseteq Rows
    /\ Root # BadRoot
    /\ Args \subseteq Flags
    /\ Results \subseteq [rows : SUBSET Rows, root : Roots]
    /\ MaxCalls \in Nat
    /\ None \notin Roots /\ None # 0
    /\ \A rows \in SUBSET Rows : rows # None

VARIABLES
    tables,   \* the rows of the trie tables
    calls,    \* invocations so far
    pc,       \* where main is
    args,     \* the command line
    built,    \* what the last build comes up with
    task,     \* the job main is at
    run,      \* runs of it so far
    root,     \* the root the last run computed
    printed,  \* what the invocation has printed
    status    \* its exit status, or None

job  == <<task, run, root>>
vars == <<tables, calls, pc, args, built, job, printed, status>>

\* The last digest, the roots, how many were found to match --expected-root,
\* and the last walk.
Nothing == [digest |-> None, roots |-> {}, matches |-> 0, walk |-> None]

WalkRoot(rows) == IF rows \cap Met \subseteq RethRows THEN Root ELSE BadRoot

OpensReadWrite(a) == a.clear \/ a.reth_rebuild \/ a.write

\* What a build can come up with.
Outcomes(t) ==
    IF t = "reth_rebuild" THEN {[rows |-> RethRows, root |-> Root]} ELSE Results

-----------------------------------------------------------------------------
Init ==
    /\ tables \in SUBSET Rows
    /\ calls = 0
    /\ pc = "exited"
    /\ args = None
    /\ built = None
    /\ task = "none" /\ run = 0 /\ root = None
    /\ printed = Nothing
    /\ status = None

\* A new process whose command line parses.
Launch(a) ==
    /\ pc = "exited"
    /\ calls < MaxCalls
    /\ calls' = calls + 1
    /\ args' = a
    /\ built' = None
    /\ pc' = "open"
    /\ task' = "none" /\ run' = 0 /\ root' = None
    /\ printed' = Nothing
    /\ status' = None
    /\ UNCHANGED tables

\* parse_args prints the usage and exits.
BadUsage ==
    /\ pc = "exited"
    /\ calls < MaxCalls
    /\ calls' = calls + 1
    /\ printed' = Nothing
    /\ status' = 2
    /\ UNCHANGED <<tables, pc, args, built, job>>

ExitWith(code) == pc' = "exited" /\ status' = code

OpenReadWrite ==
    /\ pc = "open"
    /\ OpensReadWrite(args)
    /\ tables' = IF args.clear THEN {} ELSE tables
    /\ pc' = "next"
    /\ UNCHANGED <<calls, args, built, job, printed, status>>

\* After --clear-trie-tables: the rebuild once, then --repeat writing runs.
NextJob ==
    /\ pc = "next"
    /\ \/ /\ args.reth_rebuild /\ task = "none"
          /\ task' = "reth_rebuild" /\ run' = 1
          /\ pc' = "begin"
          /\ UNCHANGED status
       \/ /\ ~(args.reth_rebuild /\ task = "none")
          /\ args.write /\ (task # "write" \/ run < args.repeat)
          /\ args.repeat > 0
          /\ task' = "write"
          /\ run' = IF task = "write" THEN run + 1 ELSE 1
          /\ pc' = "begin"
          /\ UNCHANGED status
       \/ /\ ~(args.reth_rebuild /\ task = "none")
          /\ ~args.write \/ args.repeat = 0 \/ (task = "write" /\ run >= args.repeat)
          /\ ExitWith(0)
          /\ UNCHANGED <<task, run>>
    /\ UNCHANGED <<tables, calls, args, built, root, printed>>

\* The tables are cleared, and the generator or reth's rebuild runs.
BeginBuild ==
    /\ pc = "begin"
    /\ tables' = {}
    /\ built' \in Outcomes(task)
    /\ pc' = "building"
    /\ UNCHANGED <<calls, args, job, printed, status>>

CommitChunk ==
    /\ pc = "building"
    /\ \E chunk \in SUBSET (built.rows \ tables) :
         chunk # {} /\ tables' = tables \cup chunk
    /\ UNCHANGED <<calls, pc, args, built, job, printed, status>>

BuildReports ==
    /\ pc = "building"
    /\ tables = built.rows
    /\ root' = built.root
    /\ printed' = [printed EXCEPT !.roots = @ \cup {built.root}]
    /\ pc' = "check_root"
    /\ UNCHANGED <<tables, calls, args, built, task, run, status>>

\* Mutant: a root that does not match is only reported.
AcceptsAny(expected, computed) == TRUE

Accepts(expected, computed) == expected \in {None, computed}

\* check_root
CheckRoot ==
    /\ pc = "check_root"
    /\ \/ /\ Accepts(args.expected, root)
          /\ printed' = [printed EXCEPT !.matches =
                           IF args.expected = None THEN @ ELSE @ + 1]
          /\ pc' = CASE task \in {"reth_rebuild", "write"} -> "check_tables"
                     [] task = "read"                      -> "read_next"
                     [] OTHER                              -> "return"
          /\ UNCHANGED status
       \/ /\ ~Accepts(args.expected, root)
          /\ ExitWith(1)
          /\ UNCHANGED printed
    /\ UNCHANGED <<tables, calls, args, built, job>>

\* check_written_tables: print the digest, then compare the walker's root.
CheckTables ==
    /\ pc = "check_tables"
    /\ printed' = [printed EXCEPT !.digest = tables,
                                  !.walk = (WalkRoot(tables) = root)]
    /\ IF WalkRoot(tables) = root THEN pc' = "next" /\ UNCHANGED status
                                  ELSE ExitWith(1)
    /\ UNCHANGED <<tables, calls, args, built, job>>

\* The read-only half: --digest-trie-tables, else --reth-serial, else the runs.
OpenReadOnly ==
    /\ pc = "open"
    /\ ~OpensReadWrite(args)
    /\ \/ /\ args.digest
          /\ printed' = [printed EXCEPT !.digest = tables]
          /\ pc' = "return"
          /\ UNCHANGED <<task, root>>
       \/ /\ ~args.digest /\ args.reth_serial
          /\ task' = "serial"
          /\ root' = WalkRoot(tables)
          /\ printed' = [printed EXCEPT !.roots = @ \cup {WalkRoot(tables)}]
          /\ pc' = "check_root"
       \/ /\ ~args.digest /\ ~args.reth_serial
          /\ task' = "read"
          /\ pc' = "read_next"
          /\ UNCHANGED <<printed, root>>
    /\ UNCHANGED <<tables, calls, args, built, run, status>>

\* A run that writes nothing prints the digest of what it emitted.
ReadRun ==
    /\ pc = "read_next"
    /\ run < args.repeat
    /\ run' = run + 1
    /\ \E result \in Results :
         /\ root' = result.root
         /\ printed' = [printed EXCEPT !.digest = result.rows,
                                       !.roots = @ \cup {result.root}]
    /\ pc' = "check_root"
    /\ UNCHANGED <<tables, calls, args, built, task, status>>

Return ==
    /\ pc = "return" \/ (pc = "read_next" /\ run >= args.repeat)
    /\ ExitWith(0)
    /\ UNCHANGED <<tables, calls, args, built, job, printed>>

\* An operation fails and its expect panics, or the process is killed.
Panic ==
    /\ pc # "exited"
    /\ ExitWith(101)
    /\ UNCHANGED <<tables, calls, args, built, job, printed>>

MainStep ==
    \/ OpenReadWrite \/ NextJob \/ BeginBuild \/ CommitChunk \/ BuildReports
    \/ CheckRoot \/ CheckTables
    \/ OpenReadOnly \/ ReadRun \/ Return

Stopped == pc = "exited" /\ calls = MaxCalls /\ UNCHANGED vars

Next ==
    \/ \E a \in Args : Launch(a)
    \/ BadUsage
    \/ MainStep
    \/ Panic
    \/ Stopped

Spec == Init /\ [][Next]_vars

-----------------------------------------------------------------------------
(* Properties *)

\* The runs an invocation asks for.
Asked(a) == IF OpensReadWrite(a)
            THEN (IF a.write THEN a.repeat ELSE 0) + (IF a.reth_rebuild THEN 1 ELSE 0)
            ELSE a.repeat

(* What a successful exit vouches for, whatever the generator did in each run *)
(* and whatever the tables held before.  If --expected-root was given, every  *)
(* run was made and no other root was ever printed: a run that is right does  *)
(* not make up for an earlier one that was wrong.  After a build the tables   *)
(* are the whole result of the last one, the printed digest is theirs and     *)
(* reth's walker derives that build's root from them.                         *)
CleanExitVouches ==
    status = 0 =>
        /\ args.expected # None =>
             /\ printed.roots \subseteq {args.expected}
             /\ task \in {"reth_rebuild", "write", "read"} => printed.matches = Asked(args)
        /\ task \in {"reth_rebuild", "write"} =>
             /\ tables = built.rows
             /\ printed.digest = tables
             /\ root = built.root /\ WalkRoot(tables) = root

(* The module comment of datadir_bench.rs: "when `--expected-root` is given,  *)
(* does the check itself".                                                    *)
ExpectedRootChecked ==
    status = 0 /\ args.expected # None => printed.matches > 0

=============================================================================
