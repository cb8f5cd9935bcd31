--------------------------- MODULE EvaluationRecord ---------------------------
(***************************************************************************)
(* What the evaluation of a Run promises: each Checkpoint gets at most one *)
(* verdict, a verdict is final, and the promoted Checkpoint is, from then  *)
(* on, the accepted one of the lowest step (run_authority.py:              *)
(* create_terminal refuses any other promotion).                          *)
(***************************************************************************)
EXTENDS Integers, FiniteSetsExt

CONSTANTS Checkpoints, None

VARIABLES
  verdict,     \* the verdict on each Checkpoint, or None
  promoted     \* the promoted Checkpoint, or None

Verdicts == {"accepted", "rejected", "failed", "expired", "canceled"}

Init ==
  /\ verdict = [c \in Checkpoints |-> None]
  /\ promoted = None

Judge(c, v) ==
  /\ verdict[c] = None
  /\ v = "accepted" /\ promoted # None => promoted < c
  /\ verdict' = [verdict EXCEPT ![c] = v]
  /\ UNCHANGED promoted

Promote ==
  /\ promoted = None
  /\ LET accepted == {c \in Checkpoints : verdict[c] = "accepted"}
     IN  accepted # {} /\ promoted' = Min(accepted)
  /\ UNCHANGED verdict

Next ==
  \/ \E c \in Checkpoints, v \in Verdicts : Judge(c, v)
  \/ Promote

Spec == Init /\ [][Next]_<<verdict, promoted>>
=============================================================================
