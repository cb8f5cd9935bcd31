------------------------- MODULE MCLearnerSupervision -------------------------
(* A Run that requires Acceptance, with a backend that acknowledges stops. *)
EXTENDS LearnerSupervision

RequiredRuns == {[required |-> TRUE, acknowledges |-> TRUE]}

(* The operator and dstack do what they can, too.                          *)
RetriedSpec == FairSpec /\ WF_vars(TaskRestarts) /\ WF_vars(Retry)
=============================================================================
