--------------------------- MODULE BenchScriptProofs ---------------------------
(***************************************************************************)
(* What exit status 0 of datadir_bench and the parity line of bench.sh     *)
(* vouch for, for any rows, any generator, any command lines, any output   *)
(* files of an earlier session and any number of invocations.              *)
(*                                                                         *)
(* The invariant of the binary says what is established at each point of   *)
(* main; the invariant of the script says what each run it is past left in *)
(* the tables and in its file.  The last part is about the machine the     *)
(* script is handed to.                                                    *)
(***************************************************************************)
EXTENDS BenchScript, AwsRun, FiniteSetTheorems, TLAPS

Build == {"reth_rebuild", "write"}

PCs == {"exited", "open", "next", "begin", "building", "check_root",
        "check_tables", "read_next", "return"}

Printed == [digest : (SUBSET Rows) \cup {None}, roots : SUBSET Roots, matches : Nat,
            walk : BOOLEAN \cup {None}]

\* The types of the binary's variables.
Typed ==
    /\ tables \in SUBSET Rows
    /\ calls \in Nat
    /\ pc \in PCs
    /\ pc # "exited" => args \in Flags /\ status = None
    /\ status \in {None, 0, 1, 2, 101}
    /\ run \in Nat
    /\ printed \in Printed

(* Which jobs main can be at: those that build only with the tables open for  *)
(* writing, the others only without.                                          *)
Stages ==
    /\ pc = "open" => task = "none" /\ printed.matches = 0
    /\ pc = "next" => /\ OpensReadWrite(args)
                      /\ task \in Build \/ (task = "none" /\ printed.matches = 0)
    /\ pc \in {"begin", "building", "check_tables"} => OpensReadWrite(args) /\ task \in Build
    /\ pc = "read_next" => ~OpensReadWrite(args) /\ task = "read"
    /\ pc = "return" => ~OpensReadWrite(args) /\ task \in {"none", "serial"}
    /\ pc = "check_root" => \/ OpensReadWrite(args) /\ task \in Build
                            \/ ~OpensReadWrite(args) /\ task \in {"serial", "read"}

\* How many builds have begun.
Builds == (IF task = "write" THEN run ELSE 0) + (IF args.reth_rebuild THEN 1 ELSE 0)

(* The rebuild comes first, and no more than --repeat runs follow.            *)
Sequenced ==
    pc # "exited" =>
        /\ task = "reth_rebuild" => args.reth_rebuild
        /\ task = "write" => args.write /\ run \in 1..args.repeat
        /\ task = "read" => run <= args.repeat
        /\ task = "none" => run = 0

(* With --expected-root no other root is printed, except by the run that is   *)
(* about to be checked, and each that is checked is counted.                  *)
Matching ==
    (pc # "exited" \/ status = 0) /\ args.expected # None =>
        /\ printed.roots \subseteq
             {args.expected} \cup (IF pc = "check_root" THEN {root} ELSE {})
        /\ task = "read" =>
             printed.matches = IF pc = "check_root" THEN run - 1 ELSE run

\* The tables and the root are those of the build.
Complete == built \in Outcomes(task) /\ tables = built.rows /\ root = built.root

\* A build has passed all its checks.
Vouched ==
    /\ Complete
    /\ printed.digest = tables
    /\ WalkRoot(tables) = root
    /\ args.expected # None => root = args.expected /\ printed.matches = Builds

(* What is established at each point of a build.                              *)
Checked ==
    task \in Build =>
        /\ pc \in {"begin", "building", "check_root"} /\ args.expected # None =>
             printed.matches = Builds - 1
        /\ pc = "building" => built \in Outcomes(task)
        /\ pc = "check_root" => Complete
        /\ pc = "check_tables" =>
             /\ Complete
             /\ args.expected # None => root = args.expected /\ printed.matches = Builds
        /\ pc = "next" => Vouched

(* A successful exit is one after all the jobs the flags ask for.             *)
Exited ==
    status = 0 =>
        /\ args \in Flags
        /\ args.write /\ args.repeat > 0 => task = "write"
        /\ args.reth_rebuild => task \in Build
        /\ task = "write" => args.write /\ run = args.repeat
        /\ task = "reth_rebuild" => args.reth_rebuild
        /\ task = "read" => ~OpensReadWrite(args) /\ run = args.repeat
        /\ task \in Build => Vouched

BinaryInv == Typed /\ Stages /\ Sequenced /\ Matching /\ Checked /\ Exited

-----------------------------------------------------------------------------
(* What a build can come up with.                                             *)
LEMMA OutcomesTyped ==
    \A t : Outcomes(t) \subseteq [rows : SUBSET Rows, root : Roots]
    BY DatadirBenchAssumption DEF Outcomes, Roots

(* The invariant of the binary holds before the first invocation.             *)
LEMMA InitBinary == Init => BinaryInv
    BY DatadirBenchAssumption DEF Init, BinaryInv, Typed, Stages, Sequenced, Matching, Checked,
       Exited, PCs, Printed, Build, Nothing

(* A new process starts with nothing printed.                                 *)
LEMMA LaunchBinary ==
    ASSUME BinaryInv, NEW a \in Flags, Launch(a) PROVE BinaryInv'
<1>1. printed' = [digest |-> None, roots |-> {}, matches |-> 0, walk |-> None]
  BY DEF Launch, Nothing
<1>2. Typed'
  BY <1>1, DatadirBenchAssumption DEF Launch, BinaryInv, Typed, PCs, Printed
<1> QED BY <1>1, <1>2, DatadirBenchAssumption
        DEF Launch, BinaryInv, Stages, Sequenced, Matching, Checked, Exited, Build

(* A command line that does not parse exits with 2.                           *)
LEMMA BadUsageBinary ==
    ASSUME BinaryInv, BadUsage PROVE BinaryInv'
<1>1. Typed'
  BY DatadirBenchAssumption DEF BadUsage, BinaryInv, Typed, PCs, Printed, job, Nothing
<1>2. pc' = "exited" /\ status' = 2
  BY DEF BadUsage, BinaryInv
<1> QED BY <1>1, <1>2 DEF BinaryInv, Stages, Sequenced, Matching, Checked, Exited, Build

(* A panic exits with 101.                                                    *)
LEMMA PanicBinary ==
    ASSUME BinaryInv, Panic PROVE BinaryInv'
<1>1. Typed'
  BY DEF Panic, ExitWith, BinaryInv, Typed, PCs, job
<1>2. pc' = "exited" /\ status' = 101
  BY DEF Panic, ExitWith
<1> QED BY <1>1, <1>2 DEF BinaryInv, Stages, Sequenced, Matching, Checked, Exited, Build

(* A root is added to those that were printed.                                *)
LEMMA RootPrinted ==
    ASSUME printed \in Printed, NEW new \in Roots, NEW rows \in (SUBSET Rows) \cup {None},
           printed' = [printed EXCEPT !.digest = rows, !.roots = printed.roots \cup {new}]
    PROVE  /\ printed' \in Printed
           /\ printed'.roots = printed.roots \cup {new}
           /\ printed'.matches = printed.matches
    BY DEF Printed

(* Opening the datadir for writing.                                           *)
LEMMA OpenReadWriteBinary ==
    ASSUME BinaryInv, OpenReadWrite PROVE BinaryInv'
<1> USE DEF BinaryInv
<1>1. Typed'
  BY DEF OpenReadWrite, Typed, PCs, job
<1>2. Matching'
  BY DEF OpenReadWrite, Matching, Typed, Stages, job
<1> QED BY <1>1, <1>2, DatadirBenchAssumption
        DEF OpenReadWrite, Typed, Stages, Sequenced, Checked, Exited, Build, job, OpensReadWrite

(* Opening it for reading only, for a digest, reth's root or the runs.        *)
LEMMA OpenReadOnlyBinary ==
    ASSUME BinaryInv, OpenReadOnly PROVE BinaryInv'
<1> USE DEF BinaryInv
<1>1. /\ pc = "open" /\ ~OpensReadWrite(args) /\ status = None /\ args \in Flags
      /\ task = "none" /\ run = 0 /\ printed.matches = 0 /\ printed \in Printed
      /\ tables \in SUBSET Rows
      /\ args.expected # None => printed.roots \subseteq {args.expected}
      /\ UNCHANGED <<tables, calls, args, built, run, status>>
  BY DEF OpenReadOnly, Typed, Stages, Sequenced, Matching
<1>2. CASE args.digest
  <2>1. /\ printed' = [printed EXCEPT !.digest = tables]
        /\ pc' = "return" /\ UNCHANGED <<task, root>>
    BY <1>2 DEF OpenReadOnly
  <2>2. printed' \in Printed /\ printed'.roots = printed.roots
    BY <1>1, <2>1 DEF Printed
  <2> QED BY <1>1, <2>1, <2>2, DatadirBenchAssumption
          DEF Typed, PCs, Stages, Sequenced, Matching, Checked, Exited, Build, OpensReadWrite
<1>3. CASE ~args.digest /\ args.reth_serial
  <2>1. /\ task' = "serial" /\ root' = WalkRoot(tables) /\ pc' = "check_root"
        /\ printed' = [printed EXCEPT !.roots = printed.roots \cup {root'}]
    BY <1>3 DEF OpenReadOnly
  <2>2. root' \in Roots
    BY <2>1 DEF WalkRoot, Roots
  <2>3. printed' \in Printed /\ printed'.roots = printed.roots \cup {root'}
    BY <1>1, <2>1, <2>2 DEF Printed
  <2>4. Matching'
    BY <1>1, <2>1, <2>3 DEF Matching
  <2> QED BY <1>1, <2>1, <2>3, <2>4, DatadirBenchAssumption
          DEF Typed, PCs, Stages, Sequenced, Checked, Exited, Build, OpensReadWrite
<1>4. CASE ~args.digest /\ ~args.reth_serial
  <2>1. task' = "read" /\ pc' = "read_next" /\ UNCHANGED <<printed, root>>
    BY <1>4 DEF OpenReadOnly
  <2>2. args.repeat \in Nat
    BY <1>1 DEF Flags
  <2> QED BY <1>1, <2>1, <2>2, DatadirBenchAssumption
          DEF Typed, PCs, Stages, Sequenced, Matching, Checked, Exited, Build, OpensReadWrite
<1> QED BY <1>2, <1>3, <1>4

(* A run that writes nothing.                                                 *)
LEMMA ReadRunBinary ==
    ASSUME BinaryInv, ReadRun PROVE BinaryInv'
<1> USE DEF BinaryInv
<1>1. /\ pc = "read_next" /\ ~OpensReadWrite(args) /\ task = "read"
      /\ status = None /\ args \in Flags /\ args.repeat \in Nat /\ printed \in Printed
      /\ run \in Nat /\ run < args.repeat /\ run' = run + 1
      /\ pc' = "check_root"
      /\ UNCHANGED <<tables, calls, args, built, task, status>>
  BY DEF ReadRun, Typed, Stages, Flags
<1>2. PICK result \in Results :
        /\ root' = result.root
        /\ printed' = [printed EXCEPT !.digest = result.rows,
                                      !.roots = printed.roots \cup {result.root}]
  BY DEF ReadRun
<1>3. result.rows \in SUBSET Rows /\ root' \in Roots
  BY <1>2, DatadirBenchAssumption
<1>4. /\ printed' \in Printed /\ printed'.roots = printed.roots \cup {root'}
      /\ printed'.matches = printed.matches
  BY <1>1, <1>2, <1>3, RootPrinted
<1>5. Typed'
  BY <1>1, <1>4 DEF Typed, PCs
<1>6. Matching'
  BY <1>1, <1>4 DEF Matching
<1> QED BY <1>1, <1>5, <1>6, DatadirBenchAssumption
        DEF Stages, Sequenced, Checked, Exited, Build, OpensReadWrite

(* main picks the next build, or exits when there is none.                    *)
LEMMA NextJobBinary ==
    ASSUME BinaryInv, NextJob PROVE BinaryInv'
<1> USE DEF BinaryInv
<1>1. /\ pc = "next" /\ status = None /\ args \in Flags
      /\ UNCHANGED <<tables, calls, args, built, root, printed>>
      /\ task \in Build => Vouched
      /\ task = "none" => printed.matches = 0
      /\ task \in Build \cup {"none"}
      /\ OpensReadWrite(args)
      /\ run \in Nat /\ printed.matches \in Nat
      /\ args.expected # None => printed.roots \subseteq {args.expected}
  BY DEF NextJob, Typed, Printed, Stages, Checked, Build, Matching
<1>2. args.repeat \in Nat
  BY <1>1 DEF Flags
<1>3. CASE pc' = "begin" /\ task' \in Build
  <2>1. UNCHANGED status /\ run' \in Nat /\ Sequenced'
    BY <1>1, <1>2, <1>3 DEF NextJob, ExitWith, Sequenced, Build
  <2>2. Typed' /\ Stages' /\ Exited' /\ Matching'
    BY <1>1, <1>3, <2>1, DatadirBenchAssumption
       DEF Typed, Stages, Exited, Matching, PCs, Build, OpensReadWrite
  <2>3. args.expected # None => printed.matches = Builds' - 1
    BY <1>1, <1>2, <1>3 DEF NextJob, ExitWith, Vouched, Builds, Build, Sequenced
  <2>4. Checked'
    BY <1>1, <1>3, <2>3 DEF Checked
  <2> QED BY <2>1, <2>2, <2>4
<1>4. CASE pc' = "exited" /\ status' = 0 /\ UNCHANGED <<task, run>>
  <2>1. Typed' /\ Stages' /\ Sequenced' /\ Checked' /\ Matching'
    BY <1>1, <1>4 DEF Typed, Stages, Sequenced, Matching, Checked, PCs, Build
  <2>2. Vouched' = Vouched
    BY <1>1, <1>4 DEF Vouched, Complete, Outcomes, Builds, WalkRoot
  <2>3. Exited'
    BY <1>1, <1>2, <1>4, <2>2 DEF NextJob, ExitWith, Exited, Sequenced, Build
  <2> QED BY <2>1, <2>3
<1> QED BY <1>3, <1>4 DEF NextJob, ExitWith, Build

(* A build clears the tables, adds to them and reports when they are whole.   *)
LEMMA BuildBinary ==
    ASSUME BinaryInv, BeginBuild \/ CommitChunk \/ BuildReports PROVE BinaryInv'
<1> USE DEF BinaryInv
<1>1. /\ pc \in {"begin", "building"} /\ status = None /\ args \in Flags
      /\ UNCHANGED <<calls, args, task, run, status>>
      /\ pc' \in {"building", "check_root"}
      /\ task \in Build /\ OpensReadWrite(args)
      /\ printed \in Printed /\ tables \in SUBSET Rows
      /\ args.expected # None => printed.roots \subseteq {args.expected}
      /\ args.expected # None => printed.matches = Builds - 1
  BY DEF BeginBuild, CommitChunk, BuildReports, Typed, Stages, Checked, Matching, job
<1>2. built' \in Outcomes(task) /\ (pc = "building" => built' = built)
  BY <1>1 DEF BeginBuild, CommitChunk, BuildReports, Checked
<1>3. built'.rows \in SUBSET Rows /\ built'.root \in Roots
  BY <1>2, OutcomesTyped
<1>4. tables' \in SUBSET Rows
  BY <1>1, <1>2, <1>3 DEF BeginBuild, CommitChunk, BuildReports
<1>5. /\ printed' \in Printed /\ printed'.matches = printed.matches
      /\ \/ printed' = printed
         \/ pc' = "check_root" /\ printed'.roots = printed.roots \cup {root'}
  <2>1. CASE BeginBuild \/ CommitChunk
    BY <1>1, <2>1 DEF BeginBuild, CommitChunk
  <2>2. CASE BuildReports
    <3>1. /\ pc' = "check_root" /\ root' = built'.root
          /\ printed' = [printed EXCEPT !.roots = printed.roots \cup {root'}]
      BY <1>2, <2>2 DEF BuildReports
    <3> QED BY <1>1, <1>3, <3>1 DEF Printed
  <2> QED BY <2>1, <2>2
<1>6. Typed' /\ Stages' /\ Sequenced' /\ Exited'
  BY <1>1, <1>4, <1>5, DatadirBenchAssumption
     DEF Typed, Stages, Sequenced, Exited, PCs, OpensReadWrite
<1>7. Matching'
  BY <1>1, <1>5 DEF Matching, Build
<1>8. Builds' = Builds
  BY <1>1 DEF Builds
<1>9. pc' = "check_root" => Complete'
  BY <1>1, <1>2 DEF BeginBuild, CommitChunk, BuildReports, Complete, Outcomes
<1>10. Checked'
  BY <1>1, <1>2, <1>5, <1>8, <1>9 DEF Checked, Outcomes
<1> QED BY <1>6, <1>7, <1>10

(* check_root compares with --expected-root.                                  *)
LEMMA CheckRootBinary ==
    ASSUME BinaryInv, CheckRoot PROVE BinaryInv'
<1> USE DEF BinaryInv
<1>1. /\ pc = "check_root" /\ status = None /\ args \in Flags
      /\ UNCHANGED <<tables, calls, args, built, task, run, root>>
      /\ \/ OpensReadWrite(args) /\ task \in Build
         \/ ~OpensReadWrite(args) /\ task \in {"serial", "read"}
  BY DEF CheckRoot, Typed, Stages, job
<1>2. CASE ~Accepts(args.expected, root)
  <2>1. pc' = "exited" /\ status' = 1 /\ UNCHANGED printed
    BY <1>2 DEF CheckRoot, ExitWith
  <2> QED BY <1>1, <2>1 DEF Typed, Stages, Sequenced, Matching, Checked, Exited, PCs
<1>3. CASE Accepts(args.expected, root)
  <2>1. /\ status' = status
        /\ printed' = [printed EXCEPT !.matches =
                         IF args.expected = None THEN printed.matches ELSE printed.matches + 1]
        /\ args.expected # None => root = args.expected
        /\ task \in Build => pc' = "check_tables"
        /\ task = "read" => pc' = "read_next"
        /\ task = "serial" => pc' = "return"
    BY <1>1, <1>3 DEF CheckRoot, Accepts, Build
  <2>2. /\ printed' \in Printed /\ printed'.roots = printed.roots
        /\ args.expected # None => printed'.matches = printed.matches + 1
        /\ printed.matches \in Nat
    BY <2>1 DEF Typed, Printed
  <2>3. pc' \in PCs
    BY <1>1, <2>1 DEF PCs
  <2>4. Typed'
    BY <1>1, <2>1, <2>2, <2>3 DEF Typed
  <2>5. Stages' /\ Sequenced' /\ Exited'
    BY <1>1, <2>1, DatadirBenchAssumption
       DEF Stages, Sequenced, Exited, Build, OpensReadWrite
  <2>6. Builds' = Builds
    BY <1>1 DEF Builds
  <2>7. ASSUME task \in Build PROVE Builds \in Int
    BY <1>1 DEF Builds, Typed
  <2>8. Checked'
    BY <1>1, <2>1, <2>2, <2>6, <2>7 DEF Checked, Complete, Outcomes
  <2>9. Matching'
    <3>1. run \in Nat
      BY DEF Typed
    <3> QED BY <1>1, <2>1, <2>2, <3>1 DEF Matching, Build
  <2> QED BY <2>4, <2>5, <2>8, <2>9
<1> QED BY <1>2, <1>3

(* check_written_tables prints the digest and compares the walker's root.     *)
LEMMA CheckTablesBinary ==
    ASSUME BinaryInv, CheckTables PROVE BinaryInv'
<1> USE DEF BinaryInv
<1>1. /\ pc = "check_tables" /\ status = None /\ args \in Flags
      /\ UNCHANGED <<tables, calls, args, built, task, run, root>>
      /\ OpensReadWrite(args) /\ task \in Build
      /\ tables \in SUBSET Rows
  BY DEF CheckTables, Typed, Stages, job
<1>2. /\ printed' \in Printed
      /\ printed'.digest = tables /\ printed'.matches = printed.matches
      /\ printed'.roots = printed.roots
  BY <1>1 DEF CheckTables, Typed, Printed
<1>3. CASE WalkRoot(tables) # root
  <2>1. pc' = "exited" /\ status' = 1
    BY <1>3 DEF CheckTables, ExitWith
  <2> QED BY <1>1, <1>2, <2>1 DEF Typed, Stages, Sequenced, Matching, Checked, Exited, PCs
<1>4. CASE WalkRoot(tables) = root
  <2>1. pc' = "next" /\ status' = status
    BY <1>4 DEF CheckTables
  <2>2. Typed' /\ Stages' /\ Sequenced' /\ Exited'
    BY <1>1, <1>2, <2>1, DatadirBenchAssumption
       DEF Typed, Stages, Sequenced, Exited, PCs, OpensReadWrite
  <2>3. Builds' = Builds /\ WalkRoot(tables)' = WalkRoot(tables)
    BY <1>1 DEF Builds, WalkRoot
  <2>4. Checked'
    BY <1>1, <1>2, <1>4, <2>1, <2>3 DEF Checked, Vouched, Complete, Outcomes
  <2>5. Matching'
    BY <1>1, <1>2, <2>1 DEF Matching, Build
  <2> QED BY <2>2, <2>4, <2>5
<1> QED BY <1>3, <1>4

(* main returns after a read.                                                 *)
LEMMA ReturnBinary ==
    ASSUME BinaryInv, Return PROVE BinaryInv'
<1> USE DEF BinaryInv
<1>1. /\ pc \in {"return", "read_next"} /\ args \in Flags
      /\ ~OpensReadWrite(args) /\ task \notin Build
      /\ pc' = "exited" /\ status' = 0
      /\ UNCHANGED <<tables, calls, args, built, task, run, root, printed>>
  BY DEF Return, ExitWith, Typed, Stages, Build, job
<1>2. Typed'
  BY <1>1 DEF Typed, PCs
<1>3. task = "read" => run = args.repeat
  <2>1. run \in Nat /\ args.repeat \in Nat
    BY <1>1 DEF Typed, Flags
  <2> QED BY <1>1, <2>1 DEF Return, Stages, Sequenced
<1>4. Matching'
  BY <1>1 DEF Matching
<1> QED BY <1>1, <1>2, <1>3, <1>4
        DEF Stages, Sequenced, Checked, Exited, OpensReadWrite, Build

(* A step of main, or none, preserves the invariant of the binary.            *)
LEMMA MainBinary ==
    ASSUME BinaryInv, MainStep \/ UNCHANGED vars PROVE BinaryInv'
<1>1. CASE UNCHANGED vars
  BY <1>1 DEF vars, job, BinaryInv, Typed, Stages, Sequenced, Matching, Checked, Exited,
     Vouched, Complete, Outcomes, Builds, WalkRoot, OpensReadWrite
<1> QED BY <1>1, OpenReadWriteBinary, OpenReadOnlyBinary, ReadRunBinary, NextJobBinary, BuildBinary, CheckRootBinary,
           CheckTablesBinary, ReturnBinary DEF MainStep

-----------------------------------------------------------------------------
\* The command line of a run of the script.
ArgsOf(name) == IF name = "reth-rebuild" THEN Rebuilding(expected) ELSE Writing(expected)

\* The run is one of the session and has succeeded.
Past(name) ==
    CASE name = "gen-write"    -> at \in {"reth-rebuild", "gen-write-1", "summary", "done"}
      [] name = "reth-rebuild" -> baseline /\ at \in {"gen-write-1", "summary", "done"}
      [] name = "gen-write-1"  -> serial /\ at \in {"summary", "done"}

\* The types of the script's variables.
ScriptTyped ==
    /\ at \in RunNames \cup {"hand", "tip", "summary", "aborted", "done"}
    /\ baseline \in BOOLEAN /\ serial \in BOOLEAN
    /\ at # "hand" => expected \in Roots
    /\ file \in [RunNames -> (SUBSET Rows) \cup {None, NoDigest}]
    /\ left \in [RunNames -> (SUBSET Rows) \cup {None, NoDigest}]

(* What a run the script is past has left: the rows whose digest is in its    *)
(* file, from which reth's walker derives the expected root.                  *)
Left(name) ==
    /\ left[name] \in SUBSET Rows
    /\ file[name] = left[name]
    /\ WalkRoot(left[name]) = expected
    /\ name = "reth-rebuild" => left[name] = RethRows /\ expected = Root

(* The invocation in flight is that of the run the script is at, and the runs *)
(* it has not come to, or skips, have left nothing.                           *)
Session ==
    /\ at = "reth-rebuild" => baseline
    /\ at = "gen-write-1" => serial
    /\ \A name \in RunNames :
         /\ Past(name) => Left(name)
         /\ at = name /\ left[name] # None => args = ArgsOf(name)
         /\ at \notin {name, "aborted"} /\ ~Past(name) => left[name] = None

(* The verdict is on the files as they are.                                   *)
Judged ==
    verdict # None =>
        /\ at = "done"
        /\ verdict = IF Cardinality(Digests) = 1 THEN "ok" ELSE "failed"

ScriptInv == BinaryInv /\ ScriptTyped /\ Session /\ Judged

-----------------------------------------------------------------------------
(* The command lines of the script parse.                                     *)
LEMMA ScriptArgs ==
    /\ Tip \in Flags
    /\ \A e \in Roots : Writing(e) \in Flags /\ Rebuilding(e) \in Flags
    /\ \A e : /\ Writing(e).write /\ ~Writing(e).reth_rebuild
              /\ Writing(e).repeat = 1 /\ Writing(e).expected = e
              /\ ~Rebuilding(e).write /\ Rebuilding(e).reth_rebuild
              /\ Rebuilding(e).expected = e
    BY DEF Tip, Flags, Writing, Rebuilding

(* The invariant holds before the script starts.                              *)
LEMMA InitScript == ScriptInit => ScriptInv
<1> SUFFICES ASSUME ScriptInit PROVE ScriptInv
  OBVIOUS
<1>1. BinaryInv
  BY InitBinary DEF ScriptInit
<1>2. ScriptTyped
  <2>1. /\ at = "hand" \/ (at = "tip" /\ expected \in Roots)
        /\ baseline \in BOOLEAN /\ serial \in BOOLEAN
        /\ file \in [RunNames -> {None} \cup Found]
    BY BenchScriptAssumption DEF ScriptInit
  <2>2. file \in [RunNames -> (SUBSET Rows) \cup {None, NoDigest}]
    BY <2>1, BenchScriptAssumption
  <2>3. left \in [RunNames -> (SUBSET Rows) \cup {None, NoDigest}]
    BY DEF ScriptInit
  <2> QED BY <2>1, <2>2, <2>3 DEF ScriptTyped
<1>3. Session
  BY DEF ScriptInit, Session, Past, RunNames
<1>4. Judged
  BY DEF ScriptInit, Judged
<1> QED BY <1>1, <1>2, <1>3, <1>4 DEF ScriptInv

(* A step that leaves the script's variables alone, and either the command    *)
(* line of the binary too or is made before any run of the script.            *)
LEMMA FrameScript ==
    ASSUME ScriptInv, BinaryInv',
           UNCHANGED <<at, baseline, serial, expected, file, left, verdict>>,
           UNCHANGED args \/ at \in {"tip", "hand"}
    PROVE  ScriptInv'
<1>1. ScriptTyped' /\ Judged'
  BY DEF ScriptInv, ScriptTyped, Judged, Digests
<1>2. Session'
  BY DEF ScriptInv, Session, Past, Left, ArgsOf, RunNames, WalkRoot
<1> QED BY <1>1, <1>2 DEF ScriptInv

(* The script starts a run: its file is empty until tee has something to      *)
(* write.                                                                     *)
LEMMA StartScript ==
    ASSUME ScriptInv, NEW name \in RunNames, StartRun(name, ArgsOf(name)) PROVE ScriptInv'
<1> USE DEF ScriptInv
<1>1. /\ at = name /\ left[name] = None /\ Launch(ArgsOf(name))
      /\ file' = [file EXCEPT ![name] = NoDigest]
      /\ left' = [left EXCEPT ![name] = NoDigest]
      /\ UNCHANGED <<at, baseline, serial, expected, verdict>>
  BY DEF StartRun
<1>2. ArgsOf(name) \in Flags
  BY <1>1, ScriptArgs DEF ScriptTyped, ArgsOf, RunNames
<1>3. BinaryInv'
  BY <1>1, <1>2, LaunchBinary
<1>4. ScriptTyped'
  BY <1>1 DEF ScriptTyped
<1>5. args' = ArgsOf(name)'
  BY <1>1 DEF Launch, ArgsOf
<1>6. ~Past(name)
  BY <1>1 DEF Past, RunNames
<1>7. ASSUME NEW n \in RunNames, n # name
      PROVE  left'[n] = left[n] /\ file'[n] = file[n]
  BY <1>1, <1>7 DEF ScriptTyped
<1>8. ASSUME NEW n \in RunNames PROVE Past(n)' = Past(n)
  BY <1>1 DEF Past
<1>9. Session'
  <2> SUFFICES ASSUME NEW n \in RunNames
               PROVE  /\ Past(n)' => Left(n)'
                      /\ at = n /\ left'[n] # None => args' = ArgsOf(n)'
                      /\ at \notin {n, "aborted"} /\ ~Past(n)' => left'[n] = None
    BY <1>1 DEF Session
  <2>1. CASE n = name
    BY <1>1, <1>5, <1>6, <1>8, <2>1
  <2>2. CASE n # name
    <3>1. Past(n)' => Left(n)'
      BY <1>1, <1>7, <1>8, <2>2 DEF Session, Left, WalkRoot
    <3> QED BY <1>1, <1>7, <1>8, <2>2, <3>1 DEF Session
  <2> QED BY <2>1, <2>2
<1>10. Judged'
  BY <1>1 DEF Judged, RunNames
<1> QED BY <1>3, <1>4, <1>9, <1>10

(* What a run of the script has left when it exits with 0.                    *)
LEMMA RunVouches ==
    ASSUME BinaryInv, ScriptTyped, NEW name \in RunNames, args = ArgsOf(name),
           at = name, status = 0
    PROVE  /\ printed.digest = tables /\ tables \in SUBSET Rows
           /\ WalkRoot(tables) = expected
           /\ name = "reth-rebuild" => tables = RethRows /\ expected = Root
<1>1. expected # None
  BY DatadirBenchAssumption DEF ScriptTyped, RunNames
<1>2. CASE name = "reth-rebuild"
  <2>1. args.reth_rebuild /\ ~args.write /\ args.expected = expected
    BY <1>2, ScriptArgs DEF ArgsOf
  <2>2. task = "reth_rebuild" /\ Vouched
    BY <2>1 DEF BinaryInv, Exited, Build
  <2>3. built.rows = RethRows /\ built.root = Root
    BY <2>2 DEF Vouched, Complete, Outcomes
  <2> QED BY <1>1, <2>1, <2>2, <2>3 DEF Vouched, Complete, BinaryInv, Typed
<1>3. CASE name # "reth-rebuild"
  <2>1. args.write /\ args.repeat > 0 /\ args.expected = expected
    BY <1>3, ScriptArgs DEF ArgsOf
  <2>2. task = "write" /\ Vouched
    BY <2>1 DEF BinaryInv, Exited, Build
  <2> QED BY <1>1, <1>3, <2>1, <2>2 DEF Vouched, BinaryInv, Typed
<1> QED BY <1>2, <1>3

(* A run ends: the script goes on to the next one that is not skipped, or     *)
(* aborts.                                                                    *)
LEMMA FinishScript ==
    ASSUME ScriptInv, FinishRun PROVE ScriptInv'
<1> USE DEF ScriptInv
<1>1. /\ at \in RunNames \cup {"tip"} /\ Launched
      /\ Recorded
      /\ at' = IF status = 0 THEN After(at) ELSE "aborted"
      /\ UNCHANGED <<vars, baseline, serial, expected, verdict>>
  BY DEF FinishRun, Succeeded
<1>2. BinaryInv'
  BY <1>1, MainBinary
<1>3. tables \in SUBSET Rows /\ printed.digest \in (SUBSET Rows) \cup {None}
  BY DEF BinaryInv, Typed, Printed
<1>4. After(at) \in RunNames \cup {"summary"}
  BY <1>1 DEF After, RunNames
<1>5. ScriptTyped'
  BY <1>1, <1>3, <1>4 DEF ScriptTyped, Recorded, RunNames
<1>6. verdict' = None
  BY <1>1 DEF Judged, RunNames
<1>7. CASE status # 0
  BY <1>1, <1>2, <1>5, <1>6, <1>7 DEF Session, Judged, Past, RunNames
<1>8. CASE status = 0 /\ at = "tip"
  <2>1. at' = "gen-write" /\ left' = left
    BY <1>1, <1>8 DEF After, Recorded
  <2>2. \A n \in RunNames : left[n] = None /\ ~Past(n)'
    BY <1>8, <2>1 DEF Session, Past, RunNames
  <2> QED BY <1>2, <1>5, <1>6, <2>1, <2>2 DEF Session, Judged, RunNames
<1>9. CASE status = 0 /\ at \in RunNames
  <2>1. args = ArgsOf(at)
    BY <1>1, <1>9 DEF Launched, Session, RunNames
  <2>2. /\ printed.digest = tables /\ WalkRoot(tables) = expected
        /\ at = "reth-rebuild" => tables = RethRows /\ expected = Root
    BY <1>9, <2>1, RunVouches
  <2>3. /\ left' = [left EXCEPT ![at] = tables]
        /\ file' = [file EXCEPT ![at] = tables]
    BY <1>1, <1>3, <1>9, <2>2, DatadirBenchAssumption DEF Recorded, RunNames
  <2>4. ASSUME NEW n \in RunNames, n # at
        PROVE  left'[n] = left[n] /\ file'[n] = file[n]
    BY <2>3, <2>4 DEF ScriptTyped
  <2>5. left'[at] = tables /\ file'[at] = tables
    BY <1>9, <2>3 DEF ScriptTyped
  <2>6. /\ at' = "reth-rebuild" => baseline /\ at = "gen-write"
        /\ at' = "gen-write-1" => serial /\ at \in {"gen-write", "reth-rebuild"}
        /\ at' \in {"reth-rebuild", "gen-write-1", "summary"}
        /\ at = "gen-write" /\ baseline => at' = "reth-rebuild"
        /\ at # "gen-write-1" /\ at' = "summary" => ~serial
    BY <1>1, <1>9 DEF After, RunNames, ScriptTyped
  <2>7. ASSUME NEW n \in RunNames
        PROVE  /\ Past(n)' => Left(n)'
               /\ at' = n /\ left'[n] # None => args' = ArgsOf(n)'
               /\ at' \notin {n, "aborted"} /\ ~Past(n)' => left'[n] = None
    <3>1. CASE n = at
      <4>1. Past(n)' /\ at' # n
        BY <1>1, <1>9, <2>6, <3>1 DEF Past, Session, RunNames
      <4>2. WalkRoot(tables) = expected'
        BY <1>1, <2>2
      <4>3. Left(n)'
        BY <1>1, <1>3, <2>2, <2>5, <3>1, <4>2 DEF Left, WalkRoot
      <4> QED BY <4>1, <4>3
    <3>2. CASE n # at
      <4>1. Past(n)' = Past(n)
        BY <1>1, <1>9, <2>6, <3>2 DEF Past, Session, RunNames
      <4>2. left'[n] = left[n] /\ file'[n] = file[n]
        BY <2>4, <3>2
      <4>3. Left(n) => Left(n)'
        BY <1>1, <4>2 DEF Left, WalkRoot
      <4>4. Past(n) => at' # n
        BY <1>9, <2>6, <3>2 DEF Past, RunNames
      <4> QED BY <1>1, <1>9, <3>2, <4>1, <4>2, <4>3, <4>4 DEF Session, RunNames
    <3> QED BY <3>1, <3>2
  <2>8. Session'
    BY <1>1, <2>6, <2>7 DEF Session
  <2> QED BY <1>2, <1>5, <1>6, <2>8 DEF Judged
<1> QED BY <1>1, <1>7, <1>8, <1>9

(* The summary compares the digests in the files, or aborts.                  *)
LEMMA SummaryScript ==
    ASSUME ScriptInv, Summary PROVE ScriptInv'
<1> USE DEF ScriptInv
<1>1. /\ at = "summary" /\ at' \in {"aborted", "done"}
      /\ UNCHANGED <<vars, baseline, serial, expected, file, left>>
  BY DEF Summary
<1>2. BinaryInv'
  BY <1>1, MainBinary
<1>3. ScriptTyped'
  BY <1>1 DEF ScriptTyped, RunNames
<1>4. \A n \in RunNames : /\ at' = "done" => (Past(n)' <=> Past(n))
                          /\ at' = "aborted" => ~Past(n)'
                          /\ at # n /\ at' # n
  BY <1>1 DEF Past, RunNames
<1>5. ASSUME NEW n \in RunNames, Left(n) PROVE Left(n)'
  BY <1>1, <1>5 DEF Left, WalkRoot
<1>6. Session'
  BY <1>1, <1>4, <1>5 DEF Session, RunNames
<1>7. Judged'
  BY <1>1 DEF Summary, Judged, Digests
<1> QED BY <1>2, <1>3, <1>6, <1>7

(* The invariant holds in every reachable state.                              *)
THEOREM Invariant == ScriptSpec => []ScriptInv
<1>1. ScriptInv /\ [ScriptNext]_scriptVars => ScriptInv'
  <2> SUFFICES ASSUME ScriptInv, [ScriptNext]_scriptVars PROVE ScriptInv'
    OBVIOUS
  <2>0. BinaryInv
    BY DEF ScriptInv
  <2>1. CASE StartTip
    BY <2>0, <2>1, ScriptArgs, LaunchBinary, FrameScript DEF StartTip
  <2>2. CASE StartRun("gen-write", Writing(expected))
    BY <2>2, StartScript DEF ArgsOf, RunNames
  <2>3. CASE StartRun("reth-rebuild", Rebuilding(expected))
    BY <2>3, StartScript DEF ArgsOf, RunNames
  <2>4. CASE StartRun("gen-write-1", Writing(expected))
    BY <2>4, StartScript DEF ArgsOf, RunNames
  <2>5. CASE FinishRun
    BY <2>5, FinishScript
  <2>6. CASE Summary
    BY <2>6, SummaryScript
  <2>7. CASE BinaryStep
    <3>1. UNCHANGED args
      BY <2>7 DEF BinaryStep, MainStep, Panic, OpenReadWrite, NextJob, BeginBuild, CommitChunk,
         BuildReports, CheckRoot, CheckTables, OpenReadOnly, ReadRun, Return
    <3> QED BY <2>0, <2>7, <3>1, MainBinary, PanicBinary, FrameScript DEF BinaryStep
  <2>8. CASE ByHand
    <3>1. BinaryInv'
      BY <2>0, <2>8, BadUsageBinary, LaunchBinary, DatadirBenchAssumption DEF ByHand
    <3> QED BY <2>8, <3>1, FrameScript DEF ByHand
  <2>9. CASE UNCHANGED scriptVars
    <3>1. UNCHANGED vars /\ UNCHANGED args
      BY <2>9 DEF scriptVars, vars
    <3> QED BY <2>0, <2>9, <3>1, MainBinary, FrameScript DEF scriptVars
  <2> QED BY <2>1, <2>2, <2>3, <2>4, <2>5, <2>6, <2>7, <2>8, <2>9 DEF ScriptNext, ScriptEnded
<1> QED BY <1>1, InitScript, PTL DEF ScriptSpec

-----------------------------------------------------------------------------
(* The session's runs when there is a verdict: each that was not skipped has  *)
(* left rows whose digest is in its file.                                     *)
LEMMA JudgedRuns ==
    ASSUME ScriptInv, verdict # None
    PROVE  /\ Left("gen-write")
           /\ baseline => Left("reth-rebuild")
           /\ serial => Left("gen-write-1")
           /\ \A name \in RunNames : left[name] # None => Left(name)
           /\ verdict = IF Cardinality(Digests) = 1 THEN "ok" ELSE "failed"
<1>1. at = "done" /\ verdict = IF Cardinality(Digests) = 1 THEN "ok" ELSE "failed"
  BY DEF ScriptInv, Judged
<1>2. \A name \in RunNames : (Past(name) => Left(name)) /\ (~Past(name) => left[name] = None)
  BY <1>1 DEF ScriptInv, Session, RunNames
<1>3. /\ Past("gen-write")
      /\ baseline => Past("reth-rebuild")
      /\ serial => Past("gen-write-1")
  BY <1>1 DEF Past
<1> QED BY <1>1, <1>2, <1>3 DEF RunNames

(* The rows a run left are among the digests that are compared, which are at  *)
(* most one for each file.                                                    *)
LEMMA RowsAreDigests ==
    /\ IsFiniteSet(Digests)
    /\ \A name \in RunNames : Left(name) => left[name] \in Digests
<1>1. IsFiniteSet({file["gen-write"]})
  BY FS_Singleton
<1>2. IsFiniteSet({file["gen-write"]} \cup {file["reth-rebuild"]})
  BY <1>1, FS_AddElement
<1>3. IsFiniteSet(({file["gen-write"]} \cup {file["reth-rebuild"]}) \cup {file["gen-write-1"]})
  BY <1>2, FS_AddElement
<1>4. Digests \subseteq ({file["gen-write"]} \cup {file["reth-rebuild"]}) \cup {file["gen-write-1"]}
  BY DEF Digests, RunNames
<1>5. IsFiniteSet(Digests)
  BY <1>3, <1>4, FS_Subset
<1>6. \A name \in RunNames : Left(name) => left[name] \in Digests
  BY DatadirBenchAssumption, BenchScriptAssumption DEF Left, Digests
<1> QED BY <1>5, <1>6

(* Exit status 0 of datadir_bench, whatever the generator did in each run and *)
(* the tables held before: every root printed was the expected one and every  *)
(* run was made; after a build the tables are the whole result of the last    *)
(* one, the digest printed is theirs and reth's walker derives its root.      *)
THEOREM CleanExit == ScriptSpec => []CleanExitVouches
<1>1. ScriptInv => CleanExitVouches
  <2> SUFFICES ASSUME BinaryInv, status = 0 PROVE CleanExitVouches
    BY DEF ScriptInv, CleanExitVouches
  <2>1. task \in Build => Vouched
    BY DEF BinaryInv, Exited
  <2>2. pc = "exited"
    BY DatadirBenchAssumption DEF BinaryInv, Typed
  <2>3. args.expected # None =>
          /\ printed.roots \subseteq {args.expected}
          /\ task = "read" => printed.matches = run
    BY <2>2 DEF BinaryInv, Matching
  <2>4. task \in Build => Builds = Asked(args)
    <3>1. args.repeat \in Nat
      BY DEF BinaryInv, Exited, Flags
    <3> QED BY <3>1 DEF Builds, Asked, OpensReadWrite, BinaryInv, Exited, Build
  <2>5. task = "read" => run = Asked(args)
    BY DEF Asked, BinaryInv, Exited
  <2> QED BY <2>1, <2>3, <2>4, <2>5 DEF CleanExitVouches, Vouched, Complete, Build
<1> QED BY <1>1, Invariant, PTL

(* "PARITY OK" means that the runs of the session left the same rows, whose   *)
(* root is the expected one, and with the baseline that they are reth's.      *)
THEOREM ParityVouches == ScriptSpec => []ParityMeansIdentical
<1>1. ScriptInv => ParityMeansIdentical
  <2> SUFFICES ASSUME ScriptInv, verdict = "ok" PROVE ParityMeansIdentical
    BY DEF ParityMeansIdentical
  <2>1. verdict # None
    BY BenchScriptAssumption
  <2>2. Cardinality(Digests) = 1
    BY <2>1, JudgedRuns
  <2>3. Left("gen-write") /\ left["gen-write"] \in Digests
    BY <2>1, JudgedRuns, RowsAreDigests DEF RunNames
  <2>4. Digests = {left["gen-write"]}
    BY <2>2, <2>3, RowsAreDigests, FS_Singleton
  <2>5. \A name \in RunNames : left[name] # None => left[name] = left["gen-write"]
    BY <2>1, <2>4, JudgedRuns, RowsAreDigests
  <2>6. \A name \in RunNames : file[name] \in {None, NoDigest, left["gen-write"]}
    BY <2>4 DEF Digests
  <2>7. baseline => expected = Root /\ left["gen-write"] = RethRows
    <3>1. baseline => left["reth-rebuild"] \in Digests
      BY <2>1, JudgedRuns, RowsAreDigests DEF RunNames
    <3> QED BY <2>1, <2>4, <3>1, JudgedRuns DEF Left
  <2> QED BY <2>3, <2>5, <2>6, <2>7 DEF ParityMeansIdentical, Left
<1> QED BY <1>1, Invariant, PTL

(* A session that makes all three runs is called a failure only if one of     *)
(* them left other rows than reth's rebuild writes.                           *)
THEOREM FailureIsReal == ScriptSpec => []IdenticalMeansParity
<1>1. ScriptInv => IdenticalMeansParity
  <2> SUFFICES ASSUME ScriptInv, verdict = "failed", baseline, serial,
                      \A name \in RunNames : left[name] = RethRows
               PROVE  FALSE
    BY DEF IdenticalMeansParity
  <2>1. verdict # None
    BY BenchScriptAssumption
  <2>2. Left("gen-write") /\ Left("reth-rebuild") /\ Left("gen-write-1")
    BY <2>1, JudgedRuns
  <2>3. \A name \in RunNames : file[name] = RethRows
    BY <2>2 DEF Left, RunNames
  <2>4. RethRows \in Digests
    BY <2>2, RowsAreDigests DEF RunNames
  <2>5. Digests = {RethRows}
    BY <2>3, <2>4 DEF Digests
  <2>6. Cardinality(Digests) = 1
    BY <2>5, FS_Singleton
  <2> QED BY <2>1, <2>6, JudgedRuns
<1> QED BY <1>1, Invariant, PTL

-----------------------------------------------------------------------------
(* The rented machine that a session of bench.sh is handed to *)

(* Nothing is handed off before both scripts have succeeded, and nothing runs *)
(* on the box any more once the driver fetches.                               *)
HandedOff ==
    /\ driver \in {"launch", "connect", "prepare", "timer", "handoff"} => session = "no"
    /\ driver \in {"timer", "handoff"} \/ session # "no" => restore = "ok" /\ setup = "ok"
    /\ driver \in {"fetch", "done"} => Ended
    /\ driver = "done" => fetched = bucket

(* The invariant of the machine and its driver.                               *)
THEOREM MachineInvariant == AwsSpec => []HandedOff
<1> USE DEF laptop, box, awsVars, Goto, Alive, Ended, HandedOff
<1>1. AwsInit => HandedOff
  BY DEF AwsInit
<1>2. HandedOff /\ [AwsNext]_awsVars => HandedOff'
  <2> SUFFICES ASSUME HandedOff, [AwsNext]_awsVars PROVE HandedOff'
    OBVIOUS
  <2>1. CASE RunInstances \/ Connect \/ Cleanup \/ Fail \/ Killed
    BY <2>1 DEF RunInstances, Connect, Cleanup, Fail, Killed
  <2>2. CASE Prepared \/ SetTimer \/ HandOff
    BY <2>2 DEF Prepared, RestoreDone, SetTimer, HandOff
  <2>3. CASE Poll
    BY <2>3 DEF Poll, Gone
  <2>4. CASE Fetch \/ Sleep \/ Wake
    BY <2>4 DEF Fetch, Sleep, Wake
  <2>5. CASE RestoreEnds \/ SetupEnds \/ BenchEnds \/ Upload
    BY <2>5 DEF RestoreEnds, SetupEnds, BenchEnds, Upload
  <2>6. CASE Shutdown \/ TimerFires \/ Interrupted \/ Off \/ Forget
    BY <2>6 DEF Shutdown, TimerFires, Interrupted, Off, Forget
  <2>7. CASE UNCHANGED awsVars
    BY <2>7
  <2> QED BY <2>1, <2>2, <2>3, <2>4, <2>5, <2>6, <2>7
          DEF AwsNext, Run, Host, Over
<1> QED BY <1>1, <1>2, PTL DEF AwsSpec

(* The benchmark starts only on a box that restore.sh and setup.sh have both  *)
(* prepared, whichever ends first or fails.                                   *)
THEOREM BenchStartsOnReadyBox == AwsSpec => []BenchOnReadyBox
<1>1. HandedOff => BenchOnReadyBox
  BY DEF HandedOff, BenchOnReadyBox
<1> QED BY <1>1, MachineInvariant, PTL

(* What the driver has copied is all that ever arrives in the bucket, because *)
(* it fetches only from an instance that is off.                              *)
THEOREM FetchedIsFinal == AwsSpec => []FetchIsFinal
<1>1. HandedOff => FetchIsFinal
  BY DEF HandedOff, FetchIsFinal
<1> QED BY <1>1, MachineInvariant, PTL

=============================================================================
