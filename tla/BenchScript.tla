------------------------------ MODULE BenchScript ------------------------------
(***************************************************************************)
(* scripts/aws/bench.sh: three invocations of datadir_bench on one datadir *)
(* one after the other, and a summary that compares the digests they       *)
(* printed.  The script runs under set -euo pipefail, so any command that  *)
(* fails outside a condition ends it.  The binary is also run by hand.     *)
(***************************************************************************)
EXTENDS DatadirBench

CONSTANTS
    Baselines, \* values of the variable BASELINE, as a condition
    Serials,   \* values of SERIAL
    Found,     \* what an output file of an earlier session may hold
    NoDigest   \* an output file without the line awk looks for

RunNames == {"gen-write", "reth-rebuild", "gen-write-1"}

ASSUME BenchScriptAssumption ==
    /\ Baselines \subseteq BOOLEAN
    /\ Serials \subseteq BOOLEAN
    /\ Found \subseteq (SUBSET Rows) \cup {NoDigest}
    /\ NoDigest # None
    /\ None \notin {"ok", "failed"}
    /\ \A rows \in SUBSET Rows : rows # NoDigest

VARIABLES
    at,        \* where the script is, "hand" without it
    baseline,  \* BASELINE = 1
    serial,    \* SERIAL = 1
    expected,  \* EXPECTED_ROOT
    file,      \* the digest in each output file of $OUT, None without the file
    left,      \* the rows each run of this session left, None before it
    verdict    \* the parity line of summary.txt, or None

script     == <<at, baseline, serial, expected, left, verdict>>
scriptVars == <<vars, at, baseline, serial, expected, file, left, verdict>>

Tip == [write |-> FALSE, reth_rebuild |-> FALSE, clear |-> FALSE,
        reth_serial |-> FALSE, digest |-> FALSE, repeat |-> 0, expected |-> None]

Writing(e)    == [Tip EXCEPT !.write = TRUE, !.repeat = 1, !.expected = e]
Rebuilding(e) == [Tip EXCEPT !.reth_rebuild = TRUE, !.repeat = 1, !.expected = e]

ScriptInit ==
    /\ Init
    /\ \/ /\ at = "tip"
          /\ baseline \in Baselines
          /\ serial \in Serials
          /\ expected \in Roots
          /\ file \in [RunNames -> {None} \cup Found]
       \/ /\ at = "hand"
          /\ baseline = FALSE /\ serial = FALSE
          /\ expected = None
          /\ file = [name \in RunNames |-> None]
    /\ left = [name \in RunNames |-> None]
    /\ verdict = None

\* The first invocation only prints the tip, with --repeat 0.
StartTip ==
    /\ at = "tip"
    /\ calls = 0
    /\ Launch(Tip)
    /\ UNCHANGED <<at, baseline, serial, expected, file, left, verdict>>

StartRun(name, a) ==
    /\ at = name
    /\ pc = "exited"
    /\ left[name] = None
    /\ Launch(a)
    /\ file' = [file EXCEPT ![name] = NoDigest]
    /\ left' = [left EXCEPT ![name] = NoDigest]
    /\ UNCHANGED <<at, baseline, serial, expected, verdict>>

\* What follows a step: the runs BASELINE and SERIAL do not skip.
After(name) ==
    CASE name = "tip"                               -> "gen-write"
      [] name = "gen-write" /\ baseline             -> "reth-rebuild"
      [] name \in {"gen-write", "reth-rebuild"}
           /\ (name = "reth-rebuild" \/ ~baseline)
           /\ serial                                -> "gen-write-1"
      [] OTHER                                      -> "summary"

\* The invocation's output has gone through tee into the run's file.
Recorded ==
    /\ file' = IF at = "tip" THEN file
               ELSE [file EXCEPT ![at] =
                       IF printed.digest = None THEN NoDigest ELSE printed.digest]
    /\ left' = IF at = "tip" THEN left ELSE [left EXCEPT ![at] = tables]

\* The invocation in flight, if any, belongs to the step the script is at.
Launched == IF at = "tip" THEN calls > 0 ELSE left[at] # None

\* Mutant: the pipe into tee hides the exit status.
Masked == TRUE

Succeeded == status = 0

\* pipefail: a run that fails ends the script, and there is no summary.
FinishRun ==
    /\ at \in RunNames \cup {"tip"}
    /\ Launched
    /\ pc = "exited"
    /\ Recorded
    /\ at' = IF Succeeded THEN After(at) ELSE "aborted"
    /\ UNCHANGED <<vars, baseline, serial, expected, verdict>>

\* Mutant: equal digests are counted once per file, sort without -u.
DigestsNotUnique ==
    {<<name, file[name]>> : name \in {n \in RunNames : file[n] \notin {None, NoDigest}}}

\* The digests awk finds in the files it is given.
Digests == {file[name] : name \in RunNames} \ {None, NoDigest}

\* One line per run, then the digest check.  A file of a run that was cut short
\* may lack the result line too, and then grep fails.  The glob gen-write*.txt
\* matches what is there; a missing reth-rebuild.txt makes awk fail.  Either ends
\* the summary and with it the script.
Summary ==
    /\ at = "summary"
    /\ \/ /\ \/ file["reth-rebuild"] = None
             \/ \E name \in RunNames : file[name] = NoDigest
          /\ at' = "aborted"
          /\ UNCHANGED verdict
       \/ /\ file["reth-rebuild"] # None
          /\ at' = "done"
          /\ verdict' = IF Cardinality(Digests) = 1 THEN "ok" ELSE "failed"
    /\ UNCHANGED <<vars, baseline, serial, expected, file, left>>

BinaryStep ==
    /\ pc # "exited"
    /\ MainStep \/ Panic
    /\ UNCHANGED <<at, baseline, serial, expected, file, left, verdict>>

\* The binary without the script: one invocation with any command line.
ByHand ==
    /\ at = "hand"
    /\ calls = 0
    /\ BadUsage \/ \E a \in Args : Launch(a)
    /\ UNCHANGED <<at, baseline, serial, expected, file, left, verdict>>

ScriptEnded ==
    /\ at \in {"aborted", "done"} \/ (at = "hand" /\ calls > 0 /\ pc = "exited")
    /\ UNCHANGED scriptVars

ScriptNext ==
    \/ StartTip
    \/ StartRun("gen-write", Writing(expected))
    \/ StartRun("reth-rebuild", Rebuilding(expected))
    \/ StartRun("gen-write-1", Writing(expected))
    \/ FinishRun
    \/ Summary
    \/ BinaryStep
    \/ ByHand
    \/ ScriptEnded

ScriptSpec == ScriptInit /\ [][ScriptNext]_scriptVars

-----------------------------------------------------------------------------
(* Properties *)

(* "PARITY OK: all runs left identical trie tables": when the summary says so *)
(* every run of the session left the same rows, reth's walker derives the     *)
(* expected root from them, and no digest in the directory is another one.    *)
(* If reth's rebuild was run too, the rows are the ones it writes and the     *)
(* expected root is that of the state, although the walker does not see every *)
(* row and files of an earlier session may lie in the directory.              *)
ParityMeansIdentical ==
    verdict = "ok" =>
        /\ \A name \in RunNames : left[name] # None => left[name] = left["gen-write"]
        /\ WalkRoot(left["gen-write"]) = expected
        /\ \A name \in RunNames : file[name] \in {None, NoDigest, left["gen-write"]}
        /\ baseline => expected = Root /\ left["gen-write"] = RethRows

(* The other way round: when all three runs are made, a session whose runs    *)
(* left the rows reth's rebuild writes is not called a failure, whatever was  *)
(* in the directory before.                                                   *)
IdenticalMeansParity ==
    verdict = "failed" /\ baseline /\ serial =>
        \E name \in RunNames : left[name] # RethRows

(* bench.sh: "Skip with BASELINE=0 when its number for this datadir already   *)
(* exists" and "The summary checks that all digests agree": a session whose   *)
(* runs all succeeded ends with a verdict.                                    *)
SummaryDecides ==
    at = "aborted" => status # 0

=============================================================================
