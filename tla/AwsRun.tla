-------------------------------- MODULE AwsRun --------------------------------
(***************************************************************************)
(* A benchmark on a rented machine: scripts/aws/run.sh on the laptop       *)
(* launches an EC2 instance, has restore.sh and setup.sh prepare it side   *)
(* by side, and hands bench.sh to it in a detached session, which uploads  *)
(* the results and shuts the machine down.  The driver then polls until    *)
(* the instance is gone and fetches the results.                           *)
(*                                                                         *)
(* Every ssh or aws call may fail, its answer may be lost, the driver may  *)
(* be killed, the laptop may sleep, the instance may be interrupted and    *)
(* the benchmark may hang.  Time is not counted: the machine's timer may   *)
(* fire at any moment after it is set.                                     *)
(***************************************************************************)
VARIABLES
    wait,      \* FALSE with --no-wait
    driver,    \* where run.sh is
    asleep,    \* the laptop sleeps
    fetched,   \* the files the driver has copied
    instance,  \* "none", "running", "shutting-down", "terminated", or
               \* "forgotten" by EC2
    restore,   \* restore.sh on the box: "no", "running", "ok" or "failed"
    setup,     \* setup.sh on the box, likewise
    timer,     \* shutdown -h +MAX_HOURS is pending on the box
    session,   \* where finalize.sh is on the box
    bucket     \* the files of this run in S3

laptop  == <<wait, asleep, fetched>>
box     == <<restore, setup, timer, session>>
awsVars == <<driver, laptop, instance, box, bucket>>

\* Processes on the box run until the machine is off.
Alive == instance \in {"running", "shutting-down"}
Ended == instance \in {"terminated", "forgotten"}

AwsInit ==
    /\ wait \in BOOLEAN
    /\ driver = "launch"
    /\ asleep = FALSE
    /\ fetched = {}
    /\ instance = "none"
    /\ restore = "no" /\ setup = "no"
    /\ timer = FALSE
    /\ session = "no"
    /\ bucket = {}

-----------------------------------------------------------------------------
(* run.sh up to the hand-off *)

Goto(from, to) == driver = from /\ driver' = to

\* run-instances; only after its answer does the exit trap terminate anything.
RunInstances ==
    /\ driver = "launch"
    /\ driver' \in {"connect", "failed"}
    /\ instance' \in {"none", "running"}
    /\ driver' = "connect" => instance' = "running"
    /\ UNCHANGED <<laptop, box, bucket>>

\* The instance runs, ssh answers, the repository is there; restore.sh is
\* started in the background and setup.sh in the foreground.
Connect ==
    /\ Goto("connect", "prepare")
    /\ instance = "running"
    /\ restore' = "running" /\ setup' = "running"
    /\ UNCHANGED <<laptop, instance, timer, session, bucket>>

\* Mutant: a wait without the job returns whatever restore.sh did.
AnyRestore == restore \in {"ok", "failed"}

\* wait $RESTORE under set -e
RestoreDone == restore = "ok"

Prepared ==
    /\ Goto("prepare", "timer")
    /\ setup = "ok" /\ RestoreDone
    /\ UNCHANGED <<laptop, instance, box, bucket>>

\* Mutant: the timer is not set.
NoTimer == FALSE

Timer == TRUE

SetTimer ==
    /\ Goto("timer", "handoff")
    /\ instance = "running"
    /\ timer' = Timer
    /\ UNCHANGED <<laptop, instance, restore, setup, session, bucket>>

\* finalize.sh is written and started; the answer may be lost.
HandOff ==
    /\ driver = "handoff"
    /\ instance = "running"
    /\ session' = "bench"
    /\ driver' \in {IF wait THEN "polling" ELSE "returned", "cleanup"}
    /\ UNCHANGED <<laptop, instance, restore, setup, timer, bucket>>

\* A step fails and set -e ends the script, or it is interrupted.
Fail ==
    /\ driver \in {"connect", "prepare", "timer", "handoff"}
    /\ driver' = "cleanup"
    /\ UNCHANGED <<laptop, instance, box, bucket>>

\* cleanup in the exit trap: one call to terminate-instances, which may fail.
Cleanup ==
    /\ Goto("cleanup", "failed")
    /\ \/ instance = "running" /\ instance' = "shutting-down"
       \/ UNCHANGED instance
    /\ UNCHANGED <<laptop, box, bucket>>

\* kill -9, or the laptop loses power: no trap runs.
Killed ==
    /\ driver \notin {"returned", "done", "failed", "killed"}
    /\ driver' = "killed"
    /\ UNCHANGED <<laptop, instance, box, bucket>>

-----------------------------------------------------------------------------
(* run.sh after the hand-off *)

\* Mutant: the loop does not wait for the machine to be off.
NotRunning(answer) == answer \in {"shutting-down", "terminated"}

Gone(answer) == answer = "terminated"

\* describe-instances: the state, or nothing if the call fails or EC2 does not
\* know the instance any more.
Poll ==
    /\ driver = "polling" /\ ~asleep
    /\ \E answer \in {IF instance = "forgotten" THEN "nothing" ELSE instance, "nothing"} :
         driver' = IF Gone(answer) THEN "fetch" ELSE "polling"
    /\ UNCHANGED <<laptop, instance, box, bucket>>

Fetch ==
    /\ driver = "fetch"
    /\ \/ driver' = "done" /\ fetched' = bucket
       \/ driver' = "failed" /\ fetched' \in SUBSET bucket
    /\ UNCHANGED <<wait, asleep, instance, box, bucket>>

\* "the laptop can go to sleep"
Sleep ==
    /\ driver = "polling" /\ ~asleep
    /\ asleep' = TRUE
    /\ UNCHANGED <<driver, wait, fetched, instance, box, bucket>>

Wake ==
    /\ asleep
    /\ asleep' = FALSE
    /\ UNCHANGED <<driver, wait, fetched, instance, box, bucket>>

-----------------------------------------------------------------------------
(* The box *)

\* restore.sh and setup.sh end; both install packages, and apt-get fails when
\* the other holds the lock.
RestoreEnds ==
    /\ Alive /\ restore = "running"
    /\ restore' \in {"ok", "failed"}
    /\ UNCHANGED <<driver, laptop, instance, setup, timer, session, bucket>>

SetupEnds ==
    /\ Alive /\ setup = "running"
    /\ setup' \in {"ok", "failed"}
    /\ UNCHANGED <<driver, laptop, instance, restore, timer, session, bucket>>

\* bench.sh returns, with whatever status: finalize.sh does not look at it.
BenchEnds ==
    /\ Alive /\ session = "bench"
    /\ session' = "results"
    /\ UNCHANGED <<driver, laptop, instance, restore, setup, timer, bucket>>

\* aws s3 cp ... || true, first the results, then the log
Upload ==
    /\ Alive /\ session \in {"results", "log"}
    /\ bucket' \in {bucket, bucket \cup {session}}
    /\ session' = IF session = "results" THEN "log" ELSE "shutdown"
    /\ UNCHANGED <<driver, laptop, instance, restore, setup, timer>>

\* shutdown -h now at the end of finalize.sh; the instance is set to terminate.
Shutdown ==
    /\ instance = "running" /\ session = "shutdown"
    /\ instance' = "shutting-down"
    /\ UNCHANGED <<driver, laptop, box, bucket>>

TimerFires ==
    /\ instance = "running" /\ timer
    /\ instance' = "shutting-down"
    /\ UNCHANGED <<driver, laptop, box, bucket>>

\* A spot interruption, or a hardware failure.
Interrupted ==
    /\ instance = "running"
    /\ instance' \in {"shutting-down", "terminated"}
    /\ UNCHANGED <<driver, laptop, box, bucket>>

Off ==
    /\ instance = "shutting-down"
    /\ instance' = "terminated"
    /\ UNCHANGED <<driver, laptop, box, bucket>>

\* EC2 keeps a terminated instance for about an hour, four polls of an awake
\* driver, all of which may fail.
Forget ==
    /\ instance = "terminated"
    /\ instance' = "forgotten"
    /\ UNCHANGED <<driver, laptop, box, bucket>>

-----------------------------------------------------------------------------

Run  == RunInstances \/ Connect \/ Prepared \/ SetTimer \/ HandOff \/ Fail \/ Cleanup
          \/ Fetch \/ Wake
Host == RestoreEnds \/ SetupEnds \/ Upload \/ Shutdown \/ Off

Over == driver \in {"returned", "done", "failed", "killed"} /\ UNCHANGED awsVars

AwsNext == Run \/ Poll \/ Host \/ BenchEnds \/ TimerFires \/ Killed \/ Sleep
             \/ Interrupted \/ Forget \/ Over

\* The driver goes on and a timer that is set fires.  Nothing makes the
\* benchmark end, or a poll succeed while EC2 still knows the instance.
Fairness == /\ WF_awsVars(Run) /\ WF_awsVars(Host)
            /\ WF_awsVars(TimerFires) /\ WF_awsVars(Off)

AwsSpec == AwsInit /\ [][AwsNext]_awsVars /\ Fairness

-----------------------------------------------------------------------------
(* Properties *)

(* The benchmark only ever starts on a box whose datadir is completely        *)
(* restored and whose binaries are built, whichever of the two scripts ends   *)
(* first or fails.                                                            *)
BenchOnReadyBox == session # "no" => restore = "ok" /\ setup = "ok"

(* Results reported as copied are final: nothing of the run arrives in the    *)
(* bucket after the driver has fetched it, however polls fail and whatever    *)
(* ends the instance.                                                         *)
FetchIsFinal == driver = "done" => fetched = bucket

(* Once the benchmark is handed off the instance ends without the driver,     *)
(* even if the benchmark hangs, an upload fails or the laptop never returns.  *)
HandedOffEnds == session # "no" ~> Ended

=============================================================================
