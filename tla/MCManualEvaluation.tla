-------------------------- MODULE MCManualEvaluation --------------------------
(* One job for two Checkpoints, whose results may be projected by two      *)
(* advances of the job, or whose job is canceled while training goes on.   *)
EXTENDS ManualEvaluation

TwoSteps == [j \in Jobs |-> {1, 2}]
=============================================================================
