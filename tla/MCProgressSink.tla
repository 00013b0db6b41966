---------------------------- MODULE MCProgressSink ----------------------------
(***************************************************************************)
(* Two workers, one of which reports an empty batch first.  The stats fall *)
(* short of what is walked.                                                *)
(***************************************************************************)
EXTENDS ProgressSink

CONSTANTS w1, w2

MCWorkers == {w1, w2}
MCBatches == [w \in MCWorkers |-> IF w = w1 THEN <<0, 2, 1>> ELSE <<1, 3>>]

=============================================================================
