-------------------------- MODULE LearnerSupervision --------------------------
(***************************************************************************)
(* One Run, its Attempts, and in each of them the supervisor               *)
(* (run_supervisor.py), the thread that renews its lease in the background *)
(* and the learner process it starts, stops and buries                     *)
(* (supervisor_lifecycle.py, supervisor_runtime.py, train.py).             *)
(*                                                                         *)
(* A stop is a SIGUSR1.  A learner that has installed its handler finishes *)
(* its update, leaves a marker (the acknowledgement, with backends that    *)
(* give one), writes its result and exits.  One that is still starting has *)
(* the default disposition and dies.  A deadline is a choice: it may pass  *)
(* when the learner hangs, and otherwise at the cost of a fault.           *)
(* Evaluation is reduced to the acceptance that may arrive while the       *)
(* supervisor works; CheckpointEvaluation models it.                       *)
(***************************************************************************)
EXTENDS Naturals

CONSTANTS
  Kinds,        \* kinds of Runs: [required: evaluation_required, acknowledges: BOOLEAN]
  MaxAttempts,  \* bound of the model: Attempts of the Run
  MaxFaults     \* bound of the model: failures, deaths, hangs, lost leases, early deadlines

SupervisionAssumption ==
  /\ Kinds \subseteq [required : BOOLEAN, acknowledges : BOOLEAN]
  /\ MaxAttempts \in Nat \ {0} /\ MaxFaults \in Nat

Attempts == 1..MaxAttempts

VARIABLES
  kind, attempt,
  mode,       \* recovery_mode of the Attempt
  \* Durable: what the stores hold of the Run.
  cancel,     \* a cancel request for the Attempt
  closed,     \* an evaluation was accepted
  final,      \* the final Checkpoint is published
  promoted,   \* the Promotion
  receipt,    \* the terminal receipts of the Attempts
  canonical,  \* the terminal receipt of the Run
  \* The supervisor of the Attempt.
  sup,        \* where it is
  lost,       \* lease_lost; the background thread may set it
  canceled,   \* cancel_requested
  asked,      \* learner_state: "no", "asked", "acknowledged"
  failure,    \* "none", "learner", "supervisor", "lease"
  \* The learner of the Attempt.
  learner, hung, marker,
  faults

run == <<kind, attempt, mode>>
stores == <<cancel, closed, final, promoted, receipt, canonical>>
supervisor == <<sup, lost, canceled, asked, failure>>
process == <<learner, hung, marker>>
vars == <<run, stores, supervisor, process, faults>>

Alive == {"starting", "training", "stopping", "finished"}
Complete == {"exited", "broken"}  \* it left its final model; "broken": but an exit code other than 0
Over == {"over", "dead"}

Init ==
  /\ kind \in Kinds /\ attempt = 1 /\ mode = "resume-training"
  /\ cancel = FALSE /\ closed = FALSE /\ final = FALSE /\ promoted = FALSE
  /\ receipt = [a \in Attempts |-> "none"] /\ canonical = FALSE
  /\ sup = "begin" /\ lost = FALSE /\ canceled = FALSE /\ asked = "no" /\ failure = "none"
  /\ learner = "none" /\ hung = FALSE /\ marker = FALSE
  /\ faults = 0

Fault == faults < MaxFaults /\ faults' = faults + 1
Passes == IF hung THEN UNCHANGED faults ELSE Fault  \* a deadline passes

At(step) == sup = step
GoTo(step) == sup' = step

-----------------------------------------------------------------------------
(* The learner.                                                            *)
Signaled ==
  learner' \in CASE learner = "starting" -> {"gone"}
                 [] learner = "training" -> {"stopping"}
                 [] learner = "finished" -> {"finished", "broken"}  \* the handler may be gone
                 [] OTHER -> {learner}

Ready ==
  /\ learner = "starting" /\ ~hung
  /\ learner' = "training"
  /\ UNCHANGED <<run, stores, supervisor, hung, marker, faults>>

(* on_policy_update_end: the safe boundary at which a stop is acknowledged *)
Boundary ==
  /\ learner = "stopping" /\ ~hung /\ kind.acknowledges /\ ~marker
  /\ marker' = TRUE
  /\ UNCHANGED <<run, stores, supervisor, learner, hung, faults>>

Result ==
  /\ ~hung
  /\ \/ learner = "training"
     \/ learner = "stopping" /\ (kind.acknowledges => marker)
  /\ learner' = "finished"
  /\ UNCHANGED <<run, stores, supervisor, hung, marker, faults>>

Exits ==
  /\ learner = "finished" /\ ~hung
  /\ learner' = "exited"
  /\ UNCHANGED <<run, stores, supervisor, hung, marker, faults>>

(* It fails: a failed result or none, and an exit code that says so.       *)
Crashes ==
  /\ learner \in Alive /\ Fault
  /\ learner' = "gone" /\ hung' = FALSE
  /\ UNCHANGED <<run, stores, supervisor, marker>>

Hangs ==
  /\ learner \in Alive /\ ~hung /\ Fault
  /\ hung' = TRUE
  /\ UNCHANGED <<run, stores, supervisor, learner, marker>>

(* SIGTERM and SIGKILL of its group, or the sentinel of a supervisor that  *)
(* is gone.                                                                *)
Killed ==
  /\ learner \in Alive /\ sup \in {"term", "kill", "failing"} \cup Over
  /\ learner' = IF learner = "finished" THEN "broken" ELSE "gone"
  /\ hung' = FALSE
  /\ UNCHANGED <<run, stores, supervisor, marker, faults>>

-----------------------------------------------------------------------------
(* _request_learner_stop, a part of other steps.                           *)
Ask ==
  IF learner \in Alive
  THEN /\ Signaled
       /\ asked' = IF kind.acknowledges /\ asked = "no" THEN "asked" ELSE asked
  ELSE UNCHANGED <<learner, asked>>
NoAsk == UNCHANGED <<learner, asked>>

(* The except branch of _run: a last request, then the teardown.           *)
Raise(what) ==
  /\ failure' = what /\ Ask
  /\ GoTo(IF learner = "none" THEN "failing" ELSE "grace")

Same == UNCHANGED <<run, cancel, closed, final, promoted, receipt, canonical, hung, marker>>

(* The start of _run.                                                      *)
Begin ==
  /\ At("begin")
  /\ canceled' = cancel
  /\ IF cancel \/ (final /\ (mode = "drain-only" \/ closed))
     THEN GoTo("drain") /\ UNCHANGED learner
     ELSE /\ learner' = "starting"
          /\ GoTo(IF closed THEN "finalize" ELSE "loop")
  /\ UNCHANGED <<lost, asked, failure, faults>> /\ Same

(* A provisional stop was recovered: the new learner is only to finalize.  *)
FinalizeOnly ==
  /\ At("finalize")
  /\ IF learner \in Alive THEN Signaled ELSE UNCHANGED learner
  /\ GoTo("loop")
  /\ UNCHANGED <<lost, canceled, asked, failure, faults>> /\ Same

StartupFails ==
  /\ At("begin") /\ Fault
  /\ receipt' = IF receipt[attempt] = "none"
                THEN [receipt EXCEPT ![attempt] = "resumable_failure"] ELSE receipt
  /\ GoTo("over")
  /\ UNCHANGED <<run, cancel, closed, final, promoted, canonical, lost, canceled, asked, failure, process>>

(* The active loop: the lease, the cancel request, the stop, the work.     *)
(* Faulty variant: a canceled supervisor does not wait for its learner.    *)
Renew_LeavesWhenCanceled ==
  /\ At("loop")
  /\ IF canceled THEN GoTo("drain") /\ NoAsk
     ELSE IF learner \notin Alive THEN GoTo("wait") /\ NoAsk
     ELSE IF lost THEN GoTo("look") /\ Ask
     ELSE GoTo("observe") /\ NoAsk
  /\ UNCHANGED <<lost, canceled, failure, faults>> /\ Same

Renew ==
  /\ At("loop")
  /\ IF learner \notin Alive THEN GoTo("wait") /\ NoAsk
     ELSE IF lost THEN GoTo("look") /\ Ask
     ELSE GoTo("observe") /\ NoAsk
  /\ UNCHANGED <<lost, canceled, failure, faults>> /\ Same

Observe ==
  /\ At("observe")
  /\ canceled' = (canceled \/ cancel)
  /\ IF cancel /\ ~canceled THEN Ask ELSE NoAsk
  /\ GoTo("maintain")
  /\ UNCHANGED <<lost, failure, faults>> /\ Same

(* A request that is not acknowledged is repeated until its deadline.      *)
Unanswered == At("maintain") /\ asked = "asked" /\ learner \in Alive /\ ~marker

Maintain ==
  /\ At("maintain")
  /\ GoTo("work")
  /\ IF Unanswered THEN Ask \/ NoAsk
     ELSE /\ asked' = IF asked = "asked" /\ learner \in Alive THEN "acknowledged" ELSE asked
          /\ UNCHANGED learner
  /\ UNCHANGED <<lost, canceled, failure, faults>> /\ Same

(* Faulty variant: the deadline starts again with every request.           *)
AckDeadline_Restarted ==
  /\ Unanswered /\ ~hung
  /\ Passes /\ Raise("learner")
  /\ UNCHANGED <<lost, canceled>> /\ Same

AckDeadline ==
  /\ Unanswered
  /\ Passes /\ Raise("learner")
  /\ UNCHANGED <<lost, canceled>> /\ Same

Work ==
  /\ At("work")
  /\ \/ ~lost /\ GoTo("look") /\ NoAsk /\ UNCHANGED <<closed, failure, faults>>
     \/ /\ kind.required /\ ~closed /\ ~canceled  \* a verified acceptance
        /\ closed' = TRUE /\ Ask
        /\ UNCHANGED <<sup, failure, faults>>
     \/ lost /\ Raise("lease") /\ UNCHANGED <<closed, faults>>
     \/ Fault /\ Raise("supervisor") /\ UNCHANGED closed
  /\ UNCHANGED <<run, cancel, final, promoted, receipt, canonical, lost, canceled, hung, marker>>

(* _observe_learner_after_active_iteration, then "if self.lease_lost".     *)
Look ==
  /\ At("look")
  /\ GoTo(IF learner \notin Alive \/ lost THEN "wait" ELSE "loop")
  /\ UNCHANGED <<lost, canceled, asked, failure, learner, faults>> /\ Same

(* startup_timeout_seconds and result_exit_grace_seconds.                  *)
LookDeadline ==
  /\ At("look") /\ learner \in {"starting", "finished"}
  /\ Passes /\ Raise("learner")
  /\ UNCHANGED <<lost, canceled>> /\ Same

(* learner.wait and _validate_learner_exit.                                *)
Wait ==
  /\ At("wait") /\ learner \notin Alive
  /\ IF learner \in {"gone", "broken"} THEN Raise("learner")
     ELSE IF lost THEN Raise("lease")
     ELSE GoTo("drain") /\ NoAsk /\ UNCHANGED failure
  /\ UNCHANGED <<lost, canceled, faults>> /\ Same

(* The drain observes the request to cancel and the last verdicts, and     *)
(* publishes the Checkpoints of a learner that has exited.                 *)
Drain ==
  /\ At("drain")
  /\ IF lost
     THEN /\ Raise("lease") /\ UNCHANGED <<canceled, closed, final, faults>>
     ELSE /\ canceled' = (canceled \/ cancel)
          /\ \/ /\ final' = (final \/ learner \in Complete)
                /\ closed' \in IF kind.required /\ ~canceled' THEN {closed, TRUE} ELSE {closed}
                /\ GoTo("promote") /\ NoAsk /\ UNCHANGED <<failure, faults>>
             \/ Fault /\ Raise("supervisor") /\ UNCHANGED <<closed, final>>
  /\ UNCHANGED <<run, cancel, promoted, receipt, canonical, lost, hung, marker>>

Promote ==
  /\ At("promote")
  /\ promoted' = (promoted \/ (kind.required /\ ~canceled /\ closed))
  /\ GoTo("receipt")
  /\ UNCHANGED <<run, cancel, closed, final, receipt, canonical, lost, canceled, asked, failure, process, faults>>

-----------------------------------------------------------------------------
(* _teardown_learner_group: each wait ends with the group or its deadline. *)
Teardown ==
  /\ \E step \in {<<"grace", "term">>, <<"term", "kill">>, <<"kill", "failing">>} :
        /\ At(step[1])
        /\ \/ learner \notin Alive /\ GoTo("failing") /\ UNCHANGED faults
           \/ learner \in Alive /\ Passes /\ GoTo(step[2])
  /\ UNCHANGED <<run, stores, lost, canceled, asked, failure, process>>

FailureDrain ==
  /\ At("failing")
  /\ IF lost THEN GoTo("over") /\ UNCHANGED <<canceled, final>>
     ELSE /\ GoTo("receipt")
          /\ canceled' \in {canceled, canceled \/ cancel}
          /\ final' \in {final, final \/ learner = "exited"}
  /\ UNCHANGED <<run, cancel, closed, promoted, receipt, canonical, lost, asked, failure, process, faults>>

(* _terminal_outcome, without early stops.                                 *)
Outcome ==
  IF failure # "none" THEN "resumable_failure"
  ELSE IF canceled THEN "canceled"
  ELSE IF kind.required /\ ~promoted THEN "failed"
  ELSE "succeeded"

(* A supervisor that lost its lease writes no receipt, and none writes a   *)
(* second one: one that finds a receipt of its Attempt ends there.         *)
Receipt ==
  /\ At("receipt")
  /\ IF lost \/ receipt[attempt] # "none" THEN GoTo("over") /\ UNCHANGED receipt
     ELSE receipt' = [receipt EXCEPT ![attempt] = Outcome] /\ GoTo("announce")
  /\ UNCHANGED <<run, cancel, closed, final, promoted, canonical, lost, canceled, asked, failure, process, faults>>

(* The receipt is announced to W&B, as long as that takes; a lease that    *)
(* was lost meanwhile, or a call that fails, is only printed.              *)
Announce ==
  /\ At("announce")
  /\ GoTo(IF kind.required /\ receipt[attempt] = "succeeded" THEN "canonical" ELSE "over")
  /\ UNCHANGED <<run, stores, lost, canceled, asked, failure, process, faults>>

Canonical ==
  /\ At("canonical")
  /\ canonical' = ~lost
  /\ GoTo("over")
  /\ UNCHANGED <<run, cancel, closed, final, promoted, receipt, lost, canceled, asked, failure, process, faults>>

-----------------------------------------------------------------------------
(* The background thread finds the lease expired or taken.                 *)
LoseLease ==
  /\ sup \notin Over \cup {"begin"} /\ ~lost /\ Fault
  /\ lost' = TRUE
  /\ UNCHANGED <<run, stores, sup, canceled, asked, failure, process>>

(* The task is stopped: the cancel handler, while it is installed.         *)
Interrupted ==
  /\ sup \notin Over \cup {"begin", "finalize", "receipt", "announce", "canonical"}
  /\ ~canceled /\ Fault
  /\ canceled' = TRUE /\ Ask
  /\ UNCHANGED <<run, stores, sup, lost, failure, hung, marker>>

Dies ==
  /\ sup \notin Over /\ Fault
  /\ GoTo("dead")
  /\ UNCHANGED <<run, stores, lost, canceled, asked, failure, process>>

(* dstack starts a task again that was interrupted: the same Attempt, also *)
(* when its receipt is written.                                            *)
TaskRestarts ==
  /\ At("dead") /\ learner \notin Alive
  /\ GoTo("begin") /\ lost' = FALSE /\ canceled' = FALSE /\ asked' = "no" /\ failure' = "none"
  /\ learner' = "none" /\ hung' = FALSE /\ marker' = FALSE
  /\ UNCHANGED <<run, stores, faults>>

(* The operator: gradlab experiment cancel and retry.                      *)
Cancel ==
  /\ receipt[attempt] = "none" /\ ~cancel
  /\ cancel' = TRUE
  /\ UNCHANGED <<run, closed, final, promoted, receipt, canonical, supervisor, process, faults>>

(* A task that ended without a receipt is given one first.                 *)
Retry ==
  /\ sup \in Over /\ learner \notin Alive
  /\ ~canonical /\ receipt[attempt] # "succeeded"
  /\ attempt < MaxAttempts /\ attempt' = attempt + 1
  /\ mode' = IF final THEN "drain-only" ELSE "resume-training"
  /\ cancel' = FALSE
  /\ receipt' = IF receipt[attempt] = "none"
                THEN [receipt EXCEPT ![attempt] = "resumable_failure"] ELSE receipt
  /\ GoTo("begin") /\ lost' = FALSE /\ canceled' = FALSE /\ asked' = "no" /\ failure' = "none"
  /\ learner' = "none" /\ hung' = FALSE /\ marker' = FALSE
  /\ UNCHANGED <<kind, closed, final, promoted, canonical, faults>>

-----------------------------------------------------------------------------
Learn == Ready \/ Boundary \/ Result \/ Exits

Supervise ==
  \/ Begin \/ FinalizeOnly \/ Renew \/ Observe \/ Maintain \/ Work \/ Look \/ Wait
  \/ AckDeadline \/ LookDeadline
  \/ Drain \/ Promote \/ Teardown \/ FailureDrain \/ Receipt \/ Announce \/ Canonical

Next ==
  \/ Supervise \/ Learn \/ Killed
  \/ StartupFails \/ Crashes \/ Hangs \/ LoseLease \/ Interrupted \/ Dies
  \/ TaskRestarts \/ Cancel \/ Retry

Spec == Init /\ [][Next]_vars

(* The supervisor runs, a learner that does not hang makes progress, a     *)
(* signal that cannot be caught is delivered, and time passes: deadlines   *)
(* that stay relevant while the loop goes around are reached.  Operators   *)
(* owe nothing.                                                            *)
Fairness ==
  /\ WF_vars(Supervise) /\ WF_vars(Learn) /\ WF_vars(Killed)
  /\ SF_vars(hung /\ AckDeadline)
FairSpec == Spec /\ Fairness
-----------------------------------------------------------------------------
(* Every variable keeps its kind of value, and only a supervisor with a    *)
(* failure buries a learner.                                               *)
TypeOK ==
  /\ kind \in Kinds /\ attempt \in Attempts /\ mode \in {"resume-training", "drain-only"}
  /\ {cancel, closed, final, promoted, canonical, lost, canceled, hung, marker} \subseteq BOOLEAN
  /\ receipt \in [Attempts -> {"none", "resumable_failure", "canceled", "failed", "succeeded"}]
  /\ sup \in {"begin", "finalize", "loop", "observe", "maintain", "work", "look", "wait", "drain",
              "promote", "grace", "term", "kill", "failing", "receipt", "announce", "canonical"}
             \cup Over
  /\ asked \in {"no", "asked", "acknowledged"}
  /\ failure \in {"none", "learner", "supervisor", "lease"}
  /\ learner \in Alive \cup Complete \cup {"none", "gone"}
  /\ faults \in 0..MaxFaults
  /\ sup \in {"grace", "term", "kill", "failing"} => failure # "none"

(* A verdict other than a failure is recorded, by the supervisor or in any *)
(* other step, only when the learner of the Attempt is gone, whatever      *)
(* order cancel requests, acceptances, signals, deadlines, deaths and lost *)
(* leases come in: what the verdict speaks of is then complete.  (It may   *)
(* not stay so: an Attempt that dies after its receipt is started again.)  *)
Verdicts == {"succeeded", "failed", "canceled"}
RecordsOfTheGone ==
  \A a \in Attempts : receipt'[a] # receipt[a] /\ receipt'[a] \in Verdicts =>
    a = attempt /\ learner \notin Alive
VerdictAfterLearner == [][RecordsOfTheGone]_vars

(* A learner that was asked to stop acknowledges or is gone before long,   *)
(* even when it hangs: the deadline of the request leads to the teardown   *)
(* (_maintain_learner_stop).  A supervisor that loses its lease only waits.*)
StopIsAnswered == asked = "asked" ~> asked = "acknowledged" \/ learner \notin Alive \/ lost

(* "a successfully drained training-only run must not be retried"          *)
(* (_require_retryable_attempt_terminal) takes the receipt of the Attempt  *)
(* for that of a training-only Run: where Acceptance is required, success  *)
(* is eventually recorded in the terminal receipt of the Run.              *)
SuccessIsRecorded ==
  kind.required /\ receipt[attempt] = "succeeded" ~> canonical
=============================================================================
