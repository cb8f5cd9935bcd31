------------------------ MODULE MCCheckpointEvaluation ------------------------
(* Two Checkpoints, so that the verdict on one meets every stage of the    *)
(* evaluation of the other; one for the paths of a single evaluation.      *)
EXTENDS CheckpointEvaluation

TwoCheckpoints == 1..2
OneCheckpoint == 1..1

(* The bound of the run with two Checkpoints: while only the first one     *)
(* exists anything may happen to its evaluation, up to the bounds of the   *)
(* faults and retries; beside the second one, a fault or a cancel.         *)
Canceling == IF cancelAsked \/ canceled THEN 1 ELSE 0
UpsetsAreFew ==
  2 \in saved \cup published => retries = 0 /\ faults + Canceling <= 1
=============================================================================
