----------------------- MODULE LearnerSupervisionProofs -----------------------
(* Theorems about LearnerSupervision for every set of kinds of Runs and    *)
(* every number of Attempts and faults, with their proofs.                 *)
EXTENDS LearnerSupervision, TLAPS

(* Where the supervisor is, and what has become of its learner by then: it *)
(* starts one at most, and drains only when that one has left a final      *)
(* model, unless the model is published already or the Run is canceled.    *)
Placed ==
  /\ sup = "begin" => learner = "none"
  /\ sup \in {"finalize", "loop", "observe", "maintain", "work", "look", "wait",
              "grace", "term", "kill"} => learner # "none"
  /\ sup = "drain" => learner \in Complete \/ (learner = "none" /\ (final \/ canceled))
  /\ sup = "promote" => learner \notin Alive /\ (final \/ canceled)
  /\ sup = "receipt" /\ failure = "none" => learner \notin Alive /\ (final \/ canceled)
  /\ sup = "canonical" => kind.required /\ receipt[attempt] = "succeeded"

(* What is promoted was accepted, in a Run that requires it.               *)
PromotedIsAccepted == promoted => kind.required /\ closed

(* An Attempt that succeeded in a Run that requires Acceptance has its     *)
(* Checkpoint promoted.  When its task dies and is started again, the      *)
(* published final model and the closed admission keep it from starting    *)
(* another learner.  An Attempt that failed or was canceled, or that       *)
(* succeeded in a Run of training only, does start one.                    *)
AcceptedIsFinal ==
  kind.required /\ receipt[attempt] = "succeeded" => promoted /\ final /\ learner \notin Alive

(* An Attempt that has not begun has no receipt.                           *)
Ahead == \A a \in Attempts : a > attempt => receipt[a] = "none"

(* The terminal receipt of the Run: success of its last Attempt, with the  *)
(* final Checkpoint published and the accepted one promoted.               *)
SuccessIsWhole ==
  canonical => receipt[attempt] = "succeeded" /\ promoted /\ closed /\ final

IInv ==
  /\ TypeOK /\ Placed /\ PromotedIsAccepted /\ AcceptedIsFinal /\ Ahead
  /\ SuccessIsWhole

(* A step in which no learner comes to life.                               *)
Fades ==
  \/ learner' = learner
  \/ learner \in Alive /\ learner' \in Alive \cup Complete \cup {"gone"}

(* The learner moves on its own: the supervisor and the stores stay.       *)
LEMMA LearnerMoves ==
  ASSUME Learn \/ Killed \/ Crashes \/ Hangs
  PROVE  UNCHANGED <<run, stores, supervisor>> /\ Fades
<1>1. CASE Learn
  BY <1>1 DEF Learn, Ready, Boundary, Result, Exits, Fades, Alive, Complete
<1>2. CASE Killed \/ Crashes \/ Hangs
  BY <1>2 DEF Killed, Crashes, Hangs, Fades, Alive, Complete
<1> QED
  BY <1>1, <1>2

(* A stop request reaches only a learner that lives.                       *)
LEMMA Asking ==
  ASSUME Ask \/ NoAsk
  PROVE  Fades
BY DEF Ask, NoAsk, Signaled, Fades, Alive, Complete

(* The loop goes around, or ends with its learner or a failure.            *)
Looping == {"loop", "observe", "maintain", "work", "look"}
LEMMA LoopMoves ==
  ASSUME Renew \/ Observe \/ Maintain \/ Work \/ Look \/ AckDeadline \/ LookDeadline
  PROVE  /\ sup \in Looping
         /\ Fades
         /\ UNCHANGED <<run, cancel, final, promoted, receipt, canonical>>
         /\ \/ sup' \in Looping \cup {"wait"}
            \/ sup' = (IF learner = "none" THEN "failing" ELSE "grace")
<1>1. CASE Renew \/ Observe
  <2>1. Ask \/ NoAsk
    BY <1>1 DEF Renew, Observe
  <2> QED
    BY <1>1, <2>1, Asking DEF Renew, Observe, At, GoTo, Same, Looping
<1>2. CASE Maintain
  <2>1. Fades
    BY <1>2, Asking DEF Maintain, Fades
  <2> QED
    BY <1>2, <2>1 DEF Maintain, At, GoTo, Same, Looping
<1>3. CASE Work
  <2>1. Ask \/ NoAsk
    BY <1>3 DEF Work, Raise
  <2> QED
    BY <1>3, <2>1, Asking DEF Work, Raise, At, GoTo, Looping
<1>4. CASE Look
  BY <1>4 DEF Look, At, GoTo, Same, Fades, Looping
<1>5. CASE AckDeadline \/ LookDeadline
  <2>1. Ask /\ (Unanswered \/ At("look"))
    BY <1>5 DEF AckDeadline, LookDeadline, Raise
  <2> QED
    BY <1>5, <2>1, Asking DEF AckDeadline, LookDeadline, Unanswered, Raise, At, GoTo, Same,
       Looping
<1> QED
  BY <1>1, <1>2, <1>3, <1>4, <1>5

(* What every variable holds after a step, apart from where the supervisor *)
(* is and what it has found.                                               *)
LEMMA FlagsStep ==
  ASSUME TypeOK, [Next]_vars
  PROVE  {cancel, closed, final, promoted, canonical, lost, canceled, hung, marker}' \subseteq BOOLEAN
<1>1. CASE Learn \/ Killed \/ Crashes \/ Hangs
  BY <1>1, LearnerMoves DEF TypeOK, Learn, Ready, Boundary, Result, Exits, Killed, Crashes,
     Hangs, run, stores, supervisor
<1>2. CASE Renew \/ Observe \/ Maintain \/ Work \/ Look \/ AckDeadline \/ LookDeadline
  BY <1>2 DEF TypeOK, Renew, Observe, Maintain, Work, Look, AckDeadline, LookDeadline, Same
<1>3. CASE Begin \/ FinalizeOnly \/ Wait \/ Drain
  BY <1>3 DEF TypeOK, Begin, FinalizeOnly, Wait, Drain, Same
<1>4. CASE Promote \/ Teardown \/ FailureDrain \/ Receipt \/ Announce \/ Canonical \/ StartupFails
  BY <1>4 DEF TypeOK, Promote, Teardown, FailureDrain, Receipt, Announce, Canonical, StartupFails, run,
     stores, process
<1>5. CASE LoseLease \/ Interrupted \/ Dies \/ TaskRestarts \/ Cancel \/ Retry
  BY <1>5 DEF TypeOK, LoseLease, Interrupted, Dies, TaskRestarts, Cancel, Retry, run, stores,
     supervisor, process
<1>6. CASE UNCHANGED vars
  BY <1>6 DEF TypeOK, vars, run, stores, supervisor, process
<1> QED
  BY <1>1, <1>2, <1>3, <1>4, <1>5, <1>6 DEF Next, Supervise

LEMMA TypeStep ==
  ASSUME SupervisionAssumption, TypeOK, [Next]_vars
  PROVE  TypeOK'
<1>1. {cancel, closed, final, promoted, canonical, lost, canceled, hung, marker}' \subseteq BOOLEAN
  BY FlagsStep
<1> USE DEF TypeOK
<1>2. kind' \in Kinds /\ attempt' \in Attempts /\ mode' \in {"resume-training", "drain-only"}
  <2>1. CASE Retry
    BY <2>1 DEF Retry, Attempts, SupervisionAssumption
  <2>2. CASE Learn \/ Killed \/ Crashes \/ Hangs
    BY <2>2, LearnerMoves DEF run
  <2>3. CASE Supervise \/ StartupFails \/ LoseLease \/ Interrupted \/ Dies \/ TaskRestarts
             \/ Cancel
    BY <2>3 DEF run, Same, Supervise, Begin, FinalizeOnly, Renew, Observe, Maintain, Work, Look,
       Wait,
                AckDeadline, LookDeadline, Drain, Promote, Teardown, FailureDrain, Receipt, Announce,
                    Canonical,
                StartupFails, LoseLease, Interrupted, Dies, TaskRestarts, Cancel
  <2> QED
    BY <2>1, <2>2, <2>3 DEF Next, vars, run
<1>3. receipt' \in [Attempts -> {"none", "resumable_failure", "canceled", "failed", "succeeded"}]
  <2>1. CASE StartupFails \/ Receipt \/ Retry
    BY <2>1 DEF StartupFails, Receipt, Outcome, Retry
  <2>2. CASE Learn \/ Killed \/ Crashes \/ Hangs
    BY <2>2, LearnerMoves DEF stores
  <2>3. CASE \/ Begin \/ FinalizeOnly \/ Renew \/ Observe \/ Maintain \/ Work \/ Look \/ Wait
             \/ AckDeadline \/ LookDeadline \/ Drain \/ Promote \/ Teardown \/ FailureDrain
                  \/ Announce \/ Canonical
             \/ LoseLease \/ Interrupted \/ Dies \/ TaskRestarts \/ Cancel
    BY <2>3 DEF Begin, FinalizeOnly, Renew, Observe, Maintain, Work, Look, Wait, AckDeadline,
                LookDeadline, Drain, Promote, Teardown, FailureDrain, Announce, Canonical, LoseLease,
                    Interrupted,
                Dies, TaskRestarts, Cancel, Same, stores
  <2> QED
    BY <2>1, <2>2, <2>3 DEF Next, Supervise, vars, stores
<1>4. learner' \in Alive \cup Complete \cup {"none", "gone"}
  <2>1. CASE Fades
    BY <2>1 DEF Fades
  <2>2. CASE \/ Learn \/ Killed \/ Crashes \/ Hangs
             \/ Renew \/ Observe \/ Maintain \/ Work \/ Look \/ AckDeadline \/ LookDeadline
    BY <2>1, <2>2, LearnerMoves, LoopMoves
  <2>3. CASE Begin \/ TaskRestarts \/ Retry
    BY <2>3 DEF Begin, TaskRestarts, Retry, Alive
  <2>4. CASE FinalizeOnly \/ Wait \/ Drain \/ Interrupted
    <3>1. CASE FinalizeOnly
      BY <3>1 DEF FinalizeOnly, Signaled, Alive, Complete
    <3>2. CASE Wait \/ Drain \/ Interrupted
      BY <2>1, <3>2, Asking DEF Wait, Drain, Interrupted, Raise
    <3> QED
      BY <2>4, <3>1, <3>2
  <2>5. CASE \/ Promote \/ Teardown \/ FailureDrain \/ Receipt \/ Announce \/ Canonical
             \/ StartupFails \/ LoseLease \/ Dies \/ Cancel \/ UNCHANGED vars
    BY <2>5 DEF Promote, Teardown, FailureDrain, Receipt, Announce, Canonical, StartupFails, LoseLease,
       Dies,
                Cancel, process, vars
  <2> QED
    BY <2>2, <2>3, <2>4, <2>5 DEF Next, Supervise
<1>5. /\ sup' \in {"begin", "finalize", "loop", "observe", "maintain", "work", "look", "wait", "drain",
                   "promote", "grace", "term", "kill", "failing", "receipt", "announce",
                   "canonical"} \cup Over
      /\ asked' \in {"no", "asked", "acknowledged"}
      /\ failure' \in {"none", "learner", "supervisor", "lease"}
      /\ sup' \in {"grace", "term", "kill", "failing"} => failure' # "none"
  <2>1. CASE Learn \/ Killed \/ Crashes \/ Hangs
    BY <2>1, LearnerMoves DEF supervisor
  <2>2. CASE Renew \/ Observe \/ Maintain \/ Look
    BY <2>2 DEF Renew, Observe, Maintain, Look, Ask, NoAsk, At, GoTo, Over
  <2>3. CASE Work \/ AckDeadline \/ LookDeadline \/ Wait \/ Drain
    BY <2>3 DEF Work, AckDeadline, LookDeadline, Wait, Drain, Raise, Ask, NoAsk, At, GoTo, Over,
       Unanswered
  <2>4. CASE Begin \/ FinalizeOnly \/ Promote \/ Teardown \/ FailureDrain \/ Receipt
             \/ Announce \/ Canonical
    BY <2>4 DEF Begin, FinalizeOnly, Promote, Teardown, FailureDrain, Receipt, Announce, Canonical, At,
       GoTo, Over
  <2>5. CASE StartupFails \/ LoseLease \/ Interrupted \/ Dies \/ TaskRestarts \/ Cancel \/ Retry
    BY <2>5 DEF StartupFails, LoseLease, Interrupted, Dies, TaskRestarts, Cancel, Retry, Ask,
       GoTo, Over,
                supervisor
  <2> QED
    BY <2>1, <2>2, <2>3, <2>4, <2>5 DEF Next, Supervise, vars, supervisor
<1>6. faults' \in 0..MaxFaults
  <2>1. faults' = faults \/ Fault
    <3>1. CASE Learn \/ Killed \/ Crashes \/ Hangs \/ StartupFails \/ LoseLease \/ Interrupted
               \/ Dies
      BY <3>1 DEF Learn, Ready, Boundary, Result, Exits, Killed, Crashes, Hangs, StartupFails,
         LoseLease,
                  Interrupted, Dies
    <3>2. CASE Begin \/ FinalizeOnly \/ Renew \/ Observe \/ Maintain \/ Work \/ Look \/ Wait
               \/ Drain
      BY <3>2 DEF Begin, FinalizeOnly, Renew, Observe, Maintain, Work, Look, Wait, Drain
    <3>3. CASE AckDeadline \/ LookDeadline \/ Teardown
      BY <3>3 DEF AckDeadline, LookDeadline, Teardown, Passes
    <3>4. CASE Promote \/ FailureDrain \/ Receipt \/ Announce \/ Canonical \/ TaskRestarts \/ Cancel
               \/ Retry
      BY <3>4 DEF Promote, FailureDrain, Receipt, Announce, Canonical, TaskRestarts, Cancel, Retry
    <3> QED
      BY <3>1, <3>2, <3>3, <3>4 DEF Next, Supervise, vars
  <2> QED
    BY <2>1 DEF Fault, SupervisionAssumption
<1> QED
  BY <1>1, <1>2, <1>3, <1>4, <1>5, <1>6

(* Admission stays closed, and a promotion stays.                          *)
LEMMA AcceptedStep ==
  ASSUME TypeOK, PromotedIsAccepted, [Next]_vars
  PROVE  PromotedIsAccepted'
<1>1. CASE Work \/ Drain \/ Promote
  BY <1>1 DEF Work, Drain, Promote, Same, run, PromotedIsAccepted, TypeOK
<1>2. CASE Learn \/ Killed \/ Crashes \/ Hangs
  BY <1>2, LearnerMoves DEF run, stores, PromotedIsAccepted
<1>3. CASE \/ Begin \/ FinalizeOnly \/ Renew \/ Observe \/ Maintain \/ Look \/ Wait
                \/ AckDeadline
           \/ LookDeadline \/ Teardown \/ FailureDrain \/ Receipt \/ Announce \/ Canonical \/ StartupFails
           \/ LoseLease \/ Interrupted \/ Dies \/ TaskRestarts \/ Cancel \/ Retry
                \/ UNCHANGED vars
  BY <1>3 DEF Begin, FinalizeOnly, Renew, Observe, Maintain, Look, Wait, AckDeadline,
     LookDeadline,
              Teardown, FailureDrain, Receipt, Announce, Canonical, StartupFails, LoseLease, Interrupted,
                  Dies,
              TaskRestarts, Cancel, Retry, Same, run, stores, vars, PromotedIsAccepted
<1> QED
  BY <1>1, <1>2, <1>3 DEF Next, Supervise

(* Steps that write no receipt and begin no Attempt.                       *)
LEMMA ReceiptsStay ==
  ASSUME [Next]_vars, ~StartupFails, ~Receipt, ~Retry
  PROVE  receipt' = receipt /\ attempt' = attempt /\ kind' = kind
<1>1. CASE Learn \/ Killed \/ Crashes \/ Hangs
  BY <1>1, LearnerMoves DEF run, stores
<1>2. CASE Renew \/ Observe \/ Maintain \/ Work \/ Look \/ AckDeadline \/ LookDeadline
  BY <1>2, LoopMoves DEF run
<1>3. CASE \/ Begin \/ FinalizeOnly \/ Wait \/ Drain \/ Promote \/ Teardown \/ FailureDrain
                \/ Announce \/ Canonical
           \/ LoseLease \/ Interrupted \/ Dies \/ TaskRestarts \/ Cancel \/ UNCHANGED vars
  BY <1>3 DEF Begin, FinalizeOnly, Wait, Drain, Promote, Teardown, FailureDrain, Announce, Canonical,
     LoseLease,
              Interrupted, Dies, TaskRestarts, Cancel, Same, run, stores, vars
<1> QED
  BY <1>1, <1>2, <1>3 DEF Next, Supervise

LEMMA AheadStep ==
  ASSUME TypeOK, Ahead, [Next]_vars
  PROVE  Ahead'
<1>1. CASE StartupFails \/ Receipt
  <2>1. attempt' = attempt /\ \A a \in Attempts : a # attempt => receipt'[a] = receipt[a]
    BY <1>1 DEF StartupFails, Receipt, run, TypeOK
  <2> QED
    BY <2>1 DEF Ahead, TypeOK, Attempts
<1>2. CASE Retry
  <2>1. attempt' = attempt + 1 /\ \A a \in Attempts : a # attempt => receipt'[a] = receipt[a]
    BY <1>2 DEF Retry, TypeOK
  <2> QED
    BY <2>1 DEF Ahead, TypeOK, Attempts
<1>3. CASE ~StartupFails /\ ~Receipt /\ ~Retry
  BY <1>3, ReceiptsStay DEF Ahead
<1> QED
  BY <1>1, <1>2, <1>3

LEMMA PlacedStep ==
  ASSUME TypeOK, Placed, [Next]_vars
  PROVE  Placed'
<1>1. CASE Learn \/ Killed \/ Crashes \/ Hangs
  BY <1>1, LearnerMoves DEF Placed, Fades, run, stores, supervisor, Alive, Complete
<1>2. CASE Renew \/ Observe \/ Maintain \/ Work \/ Look \/ AckDeadline \/ LookDeadline
  BY <1>2, LoopMoves DEF Placed, Looping, Fades, Alive, Complete
<1>3. CASE Begin \/ FinalizeOnly
  BY <1>3 DEF Begin, FinalizeOnly, At, GoTo, Signaled, Same, Placed, Alive, Complete
<1>4. CASE Wait
  BY <1>4, Asking DEF Wait, Raise, NoAsk, At, GoTo, Same, Placed, TypeOK, Fades, Alive, Complete
<1>5. CASE Drain
  BY <1>5 DEF Drain, Raise, Ask, NoAsk, At, GoTo, Placed, TypeOK, Alive, Complete
<1>6. CASE Promote \/ Teardown
  BY <1>6 DEF Promote, Teardown, At, GoTo, Placed, TypeOK, Alive, process, stores
<1>7. CASE FailureDrain
  BY <1>7 DEF FailureDrain, At, GoTo, Placed, TypeOK
<1>8. CASE Receipt
  BY <1>8 DEF Receipt, At, GoTo, Outcome, Placed, TypeOK, Alive, process, run
<1>9. CASE Announce \/ Canonical \/ Dies \/ StartupFails
  BY <1>9 DEF Announce, Canonical, Dies, StartupFails, At, GoTo, Placed, run, stores
<1>10. CASE LoseLease \/ Cancel
  BY <1>10 DEF LoseLease, Cancel, process, stores, supervisor, run, Placed
<1>11. CASE Interrupted
  BY <1>11, Asking DEF Interrupted, process, stores, run, Placed, TypeOK, Fades, Alive,
     Complete, Over
<1>12. CASE TaskRestarts \/ Retry
  BY <1>12 DEF TaskRestarts, Retry, GoTo, Placed
<1>13. CASE UNCHANGED vars
  BY <1>13 DEF vars, process, stores, supervisor, run, Placed
<1> QED
  BY <1>1, <1>2, <1>3, <1>4, <1>5, <1>6, <1>7, <1>8, <1>9, <1>10, <1>11, <1>12, <1>13
  DEF Next, Supervise

(* What a supervisor records at the end of its Attempt.                    *)
LEMMA ReceiptEffect ==
  ASSUME TypeOK, Placed, PromotedIsAccepted, Receipt
  PROVE  /\ UNCHANGED <<run, cancel, closed, final, promoted, canonical, process>>
         /\ sup' \in {"over", "announce"}
         /\ receipt'[attempt] \in Verdicts => receipt' = receipt \/ learner \notin Alive
         /\ kind.required /\ receipt'[attempt] = "succeeded" =>
              receipt' = receipt \/ (promoted /\ final /\ learner \notin Alive)
BY DEF Receipt, At, GoTo, Outcome, Verdicts, Placed, TypeOK

(* What is published and promoted stays so.                                *)
LEMMA PublishedStays ==
  ASSUME TypeOK, [Next]_vars
  PROVE  /\ final => final'
         /\ promoted => promoted'
         /\ closed => closed'
<1>1. CASE Learn \/ Killed \/ Crashes \/ Hangs
  BY <1>1, LearnerMoves DEF stores
<1>2. CASE Renew \/ Observe \/ Maintain \/ Work \/ Look \/ AckDeadline \/ LookDeadline
  BY <1>2, LoopMoves DEF Renew, Observe, Maintain, Work, Look, AckDeadline, LookDeadline, Same
<1>3. CASE Begin \/ FinalizeOnly \/ Wait \/ Teardown \/ Receipt
  BY <1>3 DEF Begin, FinalizeOnly, Wait, Teardown, Receipt, Same, stores
<1>4. CASE Promote \/ Drain \/ FailureDrain
  <2>1. CASE Promote
    BY <2>1, Zenon DEF Promote
  <2>2. CASE Drain
    <3>1. CASE final' = final /\ closed' = closed
      BY <2>2, <3>1 DEF Drain
    <3>2. CASE /\ final' = (final \/ learner \in Complete)
               /\ closed' \in IF kind.required /\ ~canceled' THEN {closed, TRUE} ELSE {closed}
      <4>1. final => final'
        BY <3>2, Zenon
      <4>2. closed => closed'
        BY <3>2
      <4> QED
        BY <2>2, <4>1, <4>2 DEF Drain
    <3> QED
      BY <2>2, <3>1, <3>2 DEF Drain
  <2>3. CASE FailureDrain
    BY <2>3, Zenon DEF FailureDrain
  <2> QED
    BY <1>4, <2>1, <2>2, <2>3
<1>5. CASE \/ Announce \/ Canonical \/ StartupFails \/ LoseLease \/ Interrupted \/ Dies \/ TaskRestarts
                \/ Cancel
           \/ Retry \/ UNCHANGED vars
  BY <1>5 DEF Announce, Canonical, StartupFails, LoseLease, Interrupted, Dies, TaskRestarts, Cancel,
     Retry, stores,
              vars
<1> QED
  BY <1>1, <1>2, <1>3, <1>4, <1>5 DEF Next, Supervise

(* Only Begin starts a learner.                                            *)
LEMMA NoLearnerRises ==
  ASSUME [Next]_vars, learner \notin Alive, ~Begin
  PROVE  learner' \notin Alive
<1>1. CASE Fades
  BY <1>1 DEF Fades
<1>2. CASE Learn \/ Killed \/ Crashes \/ Hangs
  BY <1>1, <1>2, LearnerMoves
<1>3. CASE Renew \/ Observe \/ Maintain \/ Work \/ Look \/ AckDeadline \/ LookDeadline
  BY <1>1, <1>3, LoopMoves
<1>4. CASE Wait \/ Drain \/ Interrupted
  BY <1>1, <1>4, Asking DEF Wait, Drain, Interrupted, Raise
<1>5. CASE FinalizeOnly \/ TaskRestarts \/ Retry
  BY <1>5 DEF FinalizeOnly, TaskRestarts, Retry, Alive
<1>6. CASE \/ Promote \/ Teardown \/ FailureDrain \/ Receipt \/ Announce \/ Canonical \/ StartupFails
           \/ LoseLease \/ Dies \/ Cancel \/ UNCHANGED vars
  BY <1>6 DEF Promote, Teardown, FailureDrain, Receipt, Announce, Canonical, StartupFails, LoseLease,
     Dies, Cancel,
              process, vars
<1> QED
  BY <1>2, <1>3, <1>4, <1>5, <1>6 DEF Next, Supervise

(* The task of an Attempt whose Checkpoint was accepted drains without a   *)
(* learner.                                                                *)
LEMMA NoSecondLearner ==
  ASSUME Placed, PromotedIsAccepted, AcceptedIsFinal, kind.required,
         receipt[attempt] = "succeeded", Begin
  PROVE  learner' \notin Alive
BY DEF Begin, At, Placed, PromotedIsAccepted, AcceptedIsFinal, Alive

LEMMA FinalStep ==
  ASSUME SupervisionAssumption, TypeOK, Placed, PromotedIsAccepted, AcceptedIsFinal, Ahead,
         [Next]_vars
  PROVE  AcceptedIsFinal'
<1>1. CASE StartupFails
  BY <1>1 DEF StartupFails, AcceptedIsFinal, TypeOK, run, process
<1>2. CASE Receipt
  BY <1>2, ReceiptEffect DEF AcceptedIsFinal, run, process
<1>3. CASE Retry
  <2>1. attempt' = attempt + 1 /\ attempt' \in Attempts
        /\ receipt'[attempt'] = receipt[attempt']
    BY <1>3, TypeStep DEF Retry, TypeOK, Attempts
  <2>2. receipt[attempt'] = "none"
    BY <2>1 DEF Ahead, TypeOK, Attempts
  <2> QED
    BY <2>1, <2>2 DEF AcceptedIsFinal
<1>4. CASE ~StartupFails /\ ~Receipt /\ ~Retry
  <2>1. receipt' = receipt /\ attempt' = attempt /\ kind' = kind
    BY <1>4, ReceiptsStay
  <2> QED
    BY <2>1, PublishedStays, NoLearnerRises, NoSecondLearner DEF AcceptedIsFinal
<1> QED
  BY <1>1, <1>2, <1>3, <1>4

(* Verdicts are recorded by Receipt; the other steps that write a receipt  *)
(* write one of failure.                                                   *)
LEMMA VerdictStep ==
  ASSUME TypeOK, Placed, PromotedIsAccepted, [Next]_vars
  PROVE  RecordsOfTheGone
<1>1. CASE Receipt
  <2>1. \A a \in Attempts : a # attempt => receipt'[a] = receipt[a]
    BY <1>1 DEF Receipt, TypeOK
  <2> QED
    BY <1>1, <2>1, ReceiptEffect DEF RecordsOfTheGone
<1>2. CASE Retry \/ StartupFails
  <2>1. \A a \in Attempts : receipt'[a] \in {receipt[a], "resumable_failure"}
    BY <1>2 DEF Retry, StartupFails, TypeOK
  <2> QED
    BY <2>1 DEF RecordsOfTheGone, Verdicts
<1>3. CASE ~StartupFails /\ ~Receipt /\ ~Retry
  BY <1>3, ReceiptsStay DEF RecordsOfTheGone
<1> QED
  BY <1>1, <1>2, <1>3

LEMMA WholeStep ==
  ASSUME TypeOK, Placed, PromotedIsAccepted, AcceptedIsFinal, SuccessIsWhole, [Next]_vars
  PROVE  SuccessIsWhole'
<1>1. CASE Canonical
  BY <1>1 DEF Canonical, At, run, SuccessIsWhole, Placed, PromotedIsAccepted, AcceptedIsFinal
<1>2. CASE Receipt
  BY <1>2, ReceiptEffect DEF Receipt, SuccessIsWhole, run
<1>3. CASE Retry \/ StartupFails
  BY <1>3 DEF Retry, StartupFails, run, SuccessIsWhole
<1>4. CASE ~Canonical /\ ~Receipt /\ ~Retry /\ ~StartupFails
  <2>1. canonical' = canonical
    <3>1. CASE Learn \/ Killed \/ Crashes \/ Hangs
      BY <3>1, LearnerMoves DEF stores
    <3>2. CASE Renew \/ Observe \/ Maintain \/ Work \/ Look \/ AckDeadline \/ LookDeadline
      BY <3>2, LoopMoves
    <3>3. CASE \/ Begin \/ FinalizeOnly \/ Wait \/ Drain \/ Promote \/ Teardown \/ FailureDrain
               \/ Announce \/ LoseLease \/ Interrupted \/ Dies \/ TaskRestarts \/ Cancel \/ UNCHANGED vars
      BY <3>3 DEF Begin, FinalizeOnly, Wait, Drain, Promote, Teardown, FailureDrain, Announce,
                  LoseLease,
                  Interrupted, Dies, TaskRestarts, Cancel, Same, stores, vars
    <3> QED
      BY <1>4, <3>1, <3>2, <3>3 DEF Next, Supervise
  <2> QED
    BY <1>4, <2>1, ReceiptsStay, PublishedStays DEF SuccessIsWhole
<1> QED
  BY <1>1, <1>2, <1>3, <1>4

LEMMA Initial ==
  ASSUME SupervisionAssumption, Init
  PROVE  IInv
<1>1. TypeOK
  <2>1. kind \in Kinds /\ attempt \in Attempts /\ mode \in {"resume-training", "drain-only"}
    BY DEF SupervisionAssumption, Init, Attempts
  <2>2. {cancel, closed, final, promoted, canonical, lost, canceled, hung, marker} \subseteq BOOLEAN
    BY DEF Init
  <2>3. receipt \in [Attempts -> {"none", "resumable_failure", "canceled", "failed", "succeeded"}]
    BY DEF Init
  <2>4. faults \in 0..MaxFaults
    BY DEF SupervisionAssumption, Init
  <2> QED
    BY <2>1, <2>2, <2>3, <2>4 DEF Init, TypeOK
<1>2. receipt[attempt] = "none" /\ Ahead
  BY DEF SupervisionAssumption, Init, Attempts, Ahead
<1>3. Placed /\ PromotedIsAccepted /\ AcceptedIsFinal /\ SuccessIsWhole
  BY <1>2 DEF Init, Placed, PromotedIsAccepted, AcceptedIsFinal, SuccessIsWhole
<1> QED
  BY <1>1, <1>2, <1>3 DEF IInv

LEMMA Inductive == SupervisionAssumption => (Spec => []IInv)
<1> SUFFICES ASSUME SupervisionAssumption PROVE Spec => []IInv
  OBVIOUS
<1>1. Init => IInv
  BY Initial
<1>2. IInv /\ [Next]_vars => IInv'
  <2> SUFFICES ASSUME IInv, [Next]_vars PROVE IInv'
    OBVIOUS
  <2> QED
    BY TypeStep, AcceptedStep, AheadStep, PlacedStep, FinalStep, WholeStep
    DEF IInv
<1> QED
  BY <1>1, <1>2, PTL DEF Spec

(* Every variable keeps its kind of value, and nobody but a supervisor     *)
(* with a failure buries a learner.                                        *)
THEOREM SupervisionTypeCorrect == ASSUME SupervisionAssumption PROVE Spec => []TypeOK
<1>1. IInv => TypeOK
  BY DEF IInv
<1> QED
  BY <1>1, Inductive, PTL

(* A verdict other than a failure is recorded only when the learner of the *)
(* Attempt is gone, whoever records it and whatever died before.           *)
THEOREM VerdictsFollowLearner ==
  ASSUME SupervisionAssumption
  PROVE  Spec => VerdictAfterLearner
<1>1. IInv /\ [Next]_vars => [RecordsOfTheGone]_vars
  BY VerdictStep DEF IInv
<1> QED
  BY <1>1, Inductive, PTL DEF Spec, VerdictAfterLearner

(* Once an Attempt has succeeded in a Run that requires Acceptance, no     *)
(* learner lives in it, also when its task dies while the receipt is       *)
(* announced and is started again: nothing trains after the model that was *)
(* accepted.                                                               *)
THEOREM AcceptedAttemptsLearnNoMore ==
  ASSUME SupervisionAssumption
  PROVE  Spec => [](kind.required /\ receipt[attempt] = "succeeded" => learner \notin Alive)
<1>1. IInv => (kind.required /\ receipt[attempt] = "succeeded" => learner \notin Alive)
  BY DEF IInv, AcceptedIsFinal
<1> QED
  BY <1>1, Inductive, PTL

(* A Run that is recorded as succeeded has its last Attempt's receipt of   *)
(* success, its accepted Checkpoint promoted and its final one published.  *)
THEOREM RunSuccessIsWhole == ASSUME SupervisionAssumption PROVE Spec => []SuccessIsWhole
<1>1. IInv => SuccessIsWhole
  BY DEF IInv
<1> QED
  BY <1>1, Inductive, PTL

-----------------------------------------------------------------------------
(* The success of an Attempt that the Run never records.                   *)

(* The Attempt has its receipt of success, the Run has none, and nobody is *)
(* about to write it.                                                      *)
Stranded ==
  /\ kind.required /\ receipt[attempt] = "succeeded" /\ ~canonical
  /\ sup \notin {"announce", "canonical"}

(* A lease is lost by a fault, and so is a receipt.                        *)
Faulty == (lost \/ Stranded) => faults > 0

(* Faults are counted up.                                                  *)
LEMMA FaultsCount ==
  ASSUME SupervisionAssumption, TypeOK, [Next]_vars
  PROVE  faults > 0 \/ Crashes \/ Hangs \/ StartupFails \/ LoseLease \/ Dies => faults' > 0
<1>1. faults' = faults \/ faults' = faults + 1
  <2>1. CASE Learn \/ Killed
    BY <2>1 DEF Learn, Ready, Boundary, Result, Exits, Killed
  <2>2. CASE Crashes \/ Hangs \/ StartupFails \/ LoseLease \/ Interrupted \/ Dies
    BY <2>2 DEF Crashes, Hangs, StartupFails, LoseLease, Interrupted, Dies, Fault
  <2>3. CASE Begin \/ FinalizeOnly \/ Renew \/ Observe \/ Maintain \/ Look \/ Wait
    BY <2>3 DEF Begin, FinalizeOnly, Renew, Observe, Maintain, Look, Wait
  <2>4. CASE Work \/ Drain \/ AckDeadline \/ LookDeadline \/ Teardown
    BY <2>4 DEF Work, Drain, AckDeadline, LookDeadline, Teardown, Passes, Fault
  <2>5. CASE \/ Promote \/ FailureDrain \/ Receipt \/ Announce \/ Canonical \/ TaskRestarts \/ Cancel
             \/ Retry \/ UNCHANGED vars
    BY <2>5 DEF Promote, FailureDrain, Receipt, Announce, Canonical, TaskRestarts, Cancel, Retry, vars
  <2> QED
    BY <2>1, <2>2, <2>3, <2>4, <2>5 DEF Next, Supervise
<1>2. Crashes \/ Hangs \/ StartupFails \/ LoseLease \/ Dies => faults' = faults + 1
  BY DEF Crashes, Hangs, StartupFails, LoseLease, Dies, Fault
<1>3. faults \in Nat
  BY DEF TypeOK, SupervisionAssumption
<1> QED
  BY <1>1, <1>2, <1>3

(* Only the background thread loses the lease.                             *)
LEMMA LeaseStep == ASSUME [Next]_vars, lost' PROVE lost \/ LoseLease
<1>1. CASE Learn \/ Killed \/ Crashes \/ Hangs
  BY <1>1, LearnerMoves DEF supervisor
<1>2. CASE Renew \/ Observe \/ Maintain \/ Work \/ Look \/ AckDeadline \/ LookDeadline
  BY <1>2 DEF Renew, Observe, Maintain, Work, Look, AckDeadline, LookDeadline
<1>3. CASE \/ Begin \/ FinalizeOnly \/ Wait \/ Drain \/ Promote \/ Teardown \/ FailureDrain
           \/ Receipt \/ Announce \/ Canonical \/ StartupFails \/ Interrupted \/ Dies \/ TaskRestarts
           \/ Cancel \/ Retry \/ UNCHANGED vars
  BY <1>3 DEF Begin, FinalizeOnly, Wait, Drain, Promote, Teardown, FailureDrain, Receipt, Announce,
     Canonical, StartupFails, Interrupted, Dies, TaskRestarts, Cancel, Retry, process,
     supervisor, vars
<1> QED
  BY <1>1, <1>2, <1>3 DEF Next, Supervise

(* The receipt of the Run is written after that of the Attempt, when that  *)
(* is announced, and by no other step.                                     *)
LEMMA CanonicalStep ==
  ASSUME TypeOK, [Next]_vars
  PROVE  /\ Canonical \/ canonical' = canonical
         /\ sup \in {"announce", "canonical"} =>
              sup' \in {"announce", "canonical"} \/ Announce \/ Canonical \/ Dies
         /\ sup' \in {"announce", "canonical"} =>
              sup \in {"announce", "canonical"} \/ Receipt
         /\ kind' = kind
<1>1. CASE Learn \/ Killed \/ Crashes \/ Hangs
  BY <1>1, LearnerMoves DEF run, stores, supervisor
<1>2. CASE Renew \/ Observe \/ Maintain \/ Work \/ Look \/ AckDeadline \/ LookDeadline
  BY <1>2, LoopMoves DEF Looping, run
<1>3. CASE Begin \/ FinalizeOnly \/ Wait \/ Drain \/ Promote \/ Teardown \/ FailureDrain
  <2>1. CASE Begin \/ FinalizeOnly \/ Promote \/ FailureDrain
    BY <2>1 DEF Begin, FinalizeOnly, Promote, FailureDrain, Same, At, GoTo, run
  <2>2. CASE Wait \/ Drain
    BY <2>2 DEF Wait, Drain, Raise, Same, At, GoTo, run
  <2>3. CASE Teardown
    BY <2>3 DEF Teardown, At, GoTo, run, stores
  <2> QED
    BY <1>3, <2>1, <2>2, <2>3
<1>4. CASE Receipt \/ Announce \/ Canonical \/ Dies \/ StartupFails \/ TaskRestarts \/ Retry
  BY <1>4 DEF Receipt, Announce, Canonical, Dies, StartupFails, TaskRestarts, Retry, At, GoTo, Over, run,
     stores
<1>5. CASE LoseLease \/ Interrupted \/ Cancel \/ UNCHANGED vars
  BY <1>5 DEF LoseLease, Interrupted, Cancel, run, stores, supervisor, vars
<1> QED
  BY <1>1, <1>2, <1>3, <1>4, <1>5 DEF Next, Supervise

(* An Attempt that succeeded stays the last one of a Run without receipt.  *)
LEMMA SuccessStays ==
  ASSUME TypeOK, [Next]_vars, receipt[attempt] = "succeeded"
  PROVE  attempt' = attempt /\ receipt'[attempt] = "succeeded" /\ (Receipt => sup' = "over")
<1>1. CASE Receipt
  BY <1>1 DEF Receipt, run, GoTo
<1>2. CASE StartupFails
  BY <1>2 DEF StartupFails, run, Receipt, At
<1>3. CASE Retry
  BY <1>3 DEF Retry
<1>4. CASE ~StartupFails /\ ~Receipt /\ ~Retry
  BY <1>4, ReceiptsStay
<1> QED
  BY <1>1, <1>2, <1>3, <1>4

LEMMA StrandedStays == ASSUME TypeOK, [Next]_vars, Stranded PROVE Stranded'
<1>1. attempt' = attempt /\ receipt'[attempt] = "succeeded" /\ (Receipt => sup' = "over")
  BY SuccessStays DEF Stranded
<1>2. ~Canonical
  BY DEF Stranded, Canonical, At
<1> QED
  BY <1>1, <1>2, CanonicalStep DEF Stranded

LEMMA FaultyStep ==
  ASSUME SupervisionAssumption, TypeOK, Ahead, Faulty, [Next]_vars
  PROVE  Faulty'
<1>1. lost' => faults' > 0
  BY LeaseStep, FaultsCount DEF Faulty
<1>2. ASSUME Stranded', ~Stranded PROVE faults' > 0
  <2>1. /\ kind.required /\ receipt'[attempt'] = "succeeded" /\ ~canonical'
        /\ sup' \notin {"announce", "canonical"}
    BY <1>2, CanonicalStep DEF Stranded
  <2>2. ~Retry
    <3>1. SUFFICES ASSUME Retry PROVE FALSE
      OBVIOUS
    <3>2. attempt' = attempt + 1 /\ attempt' \in Attempts /\ receipt'[attempt'] = receipt[attempt']
      BY <3>1 DEF Retry, TypeOK, Attempts, SupervisionAssumption
    <3> QED
      BY <2>1, <3>2 DEF Ahead, TypeOK, Attempts
  <2>3. ~StartupFails
    BY <1>2, <2>1, CanonicalStep DEF StartupFails, run, TypeOK, Stranded, At, Canonical
  <2>4. CASE Receipt
    BY <1>2, <2>1, <2>4 DEF Receipt, GoTo, run, TypeOK, Stranded, At
  <2>5. CASE ~Receipt
    <3>1. receipt[attempt] = "succeeded"
      BY <2>1, <2>2, <2>3, <2>5, ReceiptsStay
    <3>2. canonical \/ sup \in {"announce", "canonical"}
      BY <1>2, <2>1, <3>1 DEF Stranded
    <3>3. Canonical \/ Dies
      BY <2>1, <3>1, <3>2, CanonicalStep DEF Announce, At, GoTo
    <3>4. CASE Dies
      BY <3>4, FaultsCount
    <3>5. CASE Canonical
      BY <2>1, <3>5, FaultsCount DEF Canonical, Faulty, TypeOK
    <3> QED
      BY <3>3, <3>4, <3>5
  <2> QED
    BY <2>4, <2>5
<1>3. Stranded => faults' > 0
  BY FaultsCount DEF Faulty
<1> QED
  BY <1>1, <1>2, <1>3 DEF Faulty

(* A Run is left without the success of its Attempt only by a fault: the   *)
(* death of the supervisor, or the loss of its lease, between the receipts *)
(* of the Attempt and of the Run (run_supervisor.py writes them in order). *)
THEOREM OnlyAFaultStrands ==
  ASSUME SupervisionAssumption
  PROVE  Spec => [](Stranded => faults > 0)
<1>1. Init => Faulty
  BY DEF Init, Faulty, Stranded, SupervisionAssumption, Attempts
<1>2. IInv /\ Faulty /\ [Next]_vars => Faulty'
  BY FaultyStep DEF IInv
<1>3. Faulty => (Stranded => faults > 0)
  BY DEF Faulty
<1> QED
  BY <1>1, <1>2, <1>3, Inductive, PTL DEF Spec

(* It stays so: neither the task that is started again nor a retry records *)
(* the success, whatever the operator does.                                *)
THEOREM StrandedForGood ==
  ASSUME SupervisionAssumption
  PROVE  Spec => [][Stranded => Stranded']_vars
<1>1. IInv /\ [Next]_vars => [Stranded => Stranded']_vars
  BY StrandedStays DEF IInv
<1> QED
  BY <1>1, Inductive, PTL DEF Spec
=============================================================================
