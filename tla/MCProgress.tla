------------------------------ MODULE MCProgress ------------------------------
(***************************************************************************)
(* What must happen in the end, for the components side by side: "part" is *)
(* chosen in the initial state, and only that component moves, fairly.     *)
(* JobQueue is the one this module extends.                                *)
(***************************************************************************)
EXTENDS JobQueue

CONSTANTS j1, j2, s1, c1, f1, f2, i1, i2, r1

OneBatch == [j \in {"job"} |-> {1}]
RunKind == [required |-> TRUE, acknowledges |-> TRUE]

VARIABLES
  part,
  lKind, lAttempt, lMode, lCancel, lClosed, lFinal, lPromoted, lReceipt, lCanonical,
  lSup, lLost, lCanceled, lAsked, lFailure, lLearner, lHung, lMarker, lFaults,
  mState, mCommitted, mResult, mPublished, mRows, mTurn, mPhase, mProc, mDoing,
  mClaimed, mLocal, mFaults,
  uJob, uCancel, uTraining, uRetries, uLease, uTrained, uPromotion, uDeadline,
  uDispatched, uCall, uResult, uVerified, uJournal, uProjection, uPublished, uReceipt,
  uFrame, uNext, uHigh, uDoing, uStep, uTodo, uSeen, uStatus, uCandidate, uUpsets,
  oSegments, oVerified, oLogged, oDelivery, oSeqOf, oStatus, oNext, oHigh, oPc, oPut,
  oSettling, oReplaying, oRestoring, oAttempt, oRestarts, oFaults, oSpent,
  vPublished, vIntents, vDeadline, vResult, vVerified, vPromotion, vCancelAsked,
  vOutcome, vCall, vMode, vAt, vRow, vClosed, vCanceled, vLearner, vSaved, vRetries,
  vFaults

supervision == <<lKind, lAttempt, lMode, lCancel, lClosed, lFinal, lPromoted,
  lReceipt, lCanonical, lSup, lLost, lCanceled, lAsked, lFailure, lLearner, lHung,
  lMarker, lFaults>>
monitoring == <<mState, mCommitted, mResult, mPublished, mRows, mTurn, mPhase, mProc,
  mDoing, mClaimed, mLocal, mFaults>>
request == <<uJob, uCancel, uTraining, uRetries, uLease, uTrained, uPromotion,
  uDeadline, uDispatched, uCall, uResult, uVerified, uJournal, uProjection, uPublished,
  uReceipt, uFrame, uNext, uHigh, uDoing, uStep, uTodo, uSeen, uStatus, uCandidate, uUpsets>>
journaling == <<oSegments, oVerified, oLogged, oDelivery, oSeqOf, oStatus, oNext, oHigh,
  oPc, oPut, oSettling, oReplaying, oRestoring, oAttempt, oRestarts, oFaults, oSpent>>
evaluation == <<vPublished, vIntents, vDeadline, vResult, vVerified, vPromotion,
  vCancelAsked, vOutcome, vCall, vMode, vAt, vRow, vClosed, vCanceled, vLearner, vSaved,
  vRetries, vFaults>>

Learner == INSTANCE LearnerSupervision WITH
  Kinds <- {RunKind}, MaxAttempts <- 1, MaxFaults <- 1, kind <- lKind,
  attempt <- lAttempt, mode <- lMode, cancel <- lCancel, closed <- lClosed,
  final <- lFinal, promoted <- lPromoted, receipt <- lReceipt,
  canonical <- lCanonical, sup <- lSup, lost <- lLost, canceled <- lCanceled,
  asked <- lAsked, failure <- lFailure, learner <- lLearner, hung <- lHung,
  marker <- lMarker, faults <- lFaults

Monitoring == INSTANCE CheckpointMonitoring WITH
  Checkpoints <- {"checkpoint"}, Episodes <- {"episode1", "episode2"}, Active <- 1,
  Cpus <- 2, MaxFaults <- 2, Nothing <- None, state <- mState,
  committed <- mCommitted, result <- mResult, published <- mPublished, rows <- mRows,
  turn <- mTurn, phase <- mPhase, proc <- mProc, doing <- mDoing, claimed <- mClaimed,
  local <- mLocal, faults <- mFaults

Journal == INSTANCE MetricJournal WITH
  Metrics <- {1}, IdleMetrics <- <<i1, i2>>, Results <- {r1},
  Deliveries <- {"mlflow"}, Limit <- 2, MaxRestarts <- 1,
  MaxFaults <- 1, segments <- oSegments, verified <- oVerified, logged <- oLogged,
  delivery <- oDelivery, seqOf <- oSeqOf, status <- oStatus, next <- oNext,
  high <- oHigh, pc <- oPc, put <- oPut, settling <- oSettling,
  replaying <- oReplaying, restoring <- oRestoring, attempt <- oAttempt,
  restarts <- oRestarts, faults <- oFaults, spent <- oSpent

Manual == INSTANCE ManualEvaluation WITH
  Jobs <- {"job"}, Batch <- OneBatch, Verdicts <- {"accepted"},
  MaxAttempts <- 1, MaxUpsets <- 1, job <- uJob, cancel <- uCancel,
  training <- uTraining, retries <- uRetries, lease <- uLease, trained <- uTrained,
  promotion <- uPromotion, deadline <- uDeadline, dispatched <- uDispatched,
  call <- uCall, result <- uResult,
  verified <- uVerified, journal <- uJournal, projection <- uProjection,
  published <- uPublished, receipt <- uReceipt, frame <- uFrame, next <- uNext,
  high <- uHigh, doing <- uDoing, step <- uStep, todo <- uTodo, seen <- uSeen,
  status <- uStatus, candidate <- uCandidate, upsets <- uUpsets

Evaluation == INSTANCE CheckpointEvaluation WITH
  Checkpoints <- {1}, WorkerVerdicts <- {"accepted", "rejected"},
  MayCancel <- FALSE, MaxRetries <- 1, MaxFaults <- 1, published <- vPublished,
  intents <- vIntents, deadline <- vDeadline, result <- vResult, verified <- vVerified,
  promotion <- vPromotion, cancelAsked <- vCancelAsked, outcome <- vOutcome,
  call <- vCall, mode <- vMode, at <- vAt, row <- vRow, closed <- vClosed,
  canceled <- vCanceled, learner <- vLearner, saved <- vSaved, retries <- vRetries,
  faults <- vFaults

ASSUME Manual!BatchAssumption
-----------------------------------------------------------------------------
PartsInit ==
  /\ part \in {"queue", "learner", "monitoring", "manual", "journal", "evaluation"}
  /\ Init /\ Learner!Init /\ Monitoring!Init /\ Manual!Init
  /\ Journal!Init
  /\ Evaluation!Init

QueueMoves ==
  /\ part = "queue" /\ Next
  /\ UNCHANGED <<part, supervision, monitoring, request, journaling, evaluation>>

LearnerMoves ==
  /\ part = "learner" /\ Learner!Next
  /\ UNCHANGED <<part, vars, monitoring, request, journaling, evaluation>>

MonitoringMoves ==
  /\ part = "monitoring" /\ Monitoring!Next
  /\ UNCHANGED <<part, vars, supervision, request, journaling, evaluation>>

ManualMoves ==
  /\ part = "manual" /\ Manual!Next
  /\ UNCHANGED <<part, vars, supervision, monitoring, journaling, evaluation>>

JournalMoves ==
  /\ part = "journal" /\ Journal!Next
  /\ UNCHANGED <<part, vars, supervision, monitoring, request, evaluation>>

EvaluationMoves ==
  /\ part = "evaluation" /\ Evaluation!Next
  /\ UNCHANGED <<part, vars, supervision, monitoring, request, journaling>>

PartsNext ==
  \/ QueueMoves \/ LearnerMoves \/ MonitoringMoves \/ ManualMoves
  \/ JournalMoves \/ EvaluationMoves

allVars == <<part, vars, supervision, monitoring, request, journaling, evaluation>>

(* The fairness of each component's FairSpec, where it moves.              *)
QueueFairness ==
  /\ \A c \in Clients : WF_vars(part = "queue" /\ ClientStep(c))
  /\ \A f \in Flushers :
       WF_vars(part = "queue" /\ FlusherStep(f)) /\ SF_vars(part = "queue" /\ Ends(f))
  /\ \A j \in Jobs : WF_vars(part = "queue" /\ BecomesDue(j))

LearnerFairness ==
  /\ WF_supervision(part = "learner" /\ Learner!Supervise)
  /\ WF_supervision(part = "learner" /\ Learner!Learn)
  /\ WF_supervision(part = "learner" /\ Learner!Killed)
  /\ SF_supervision(part = "learner" /\ lHung /\ Learner!AckDeadline)

MonitoringFairness ==
  /\ WF_monitoring(part = "monitoring" /\ Monitoring!Advance("checkpoint"))
  /\ \A k \in Monitoring!Executions :
       WF_monitoring(part = "monitoring" /\ Monitoring!Finalize("checkpoint", k))
  /\ \A k \in Monitoring!Executions, p \in Monitoring!Parts :
       WF_monitoring(part = "monitoring" /\ Monitoring!Worker("checkpoint", k, p))

ManualFairness ==
  /\ WF_request(part = "manual" /\ Manual!Advance)
  /\ WF_request(part = "manual" /\ Manual!TrainingStarts)
  /\ WF_request(part = "manual" /\ Manual!TrainingEnds)
  /\ WF_request(part = "manual" /\ Manual!LeaseExpires)
  /\ WF_request(part = "manual" /\ Manual!PutManifest)
  /\ \A a \in Manual!Attempts : WF_request(part = "manual" /\ Manual!AttemptExpires(1, a))

JournalFairness ==
  WF_journaling(part = "journal" /\ Journal!Drains /\ oPc \in {"drain", "final"})

EvaluationFairness ==
  /\ WF_evaluation(part = "evaluation" /\ Evaluation!Supervisor)
  /\ WF_evaluation(part = "evaluation" /\ Evaluation!LearnerExits)
  /\ WF_evaluation(part = "evaluation" /\ vMode = "down" /\ Evaluation!Restart)
  /\ \A a \in Evaluation!Attempts :
       WF_evaluation(part = "evaluation" /\ Evaluation!AttemptExpires(1, a))

PartsSpec ==
  /\ PartsInit /\ [][PartsNext]_allVars
  /\ QueueFairness /\ LearnerFairness /\ MonitoringFairness /\ ManualFairness
  /\ JournalFairness /\ EvaluationFairness
-----------------------------------------------------------------------------
(* LearnerSupervision: a learner that was asked to stop acknowledges or is *)
(* gone, even when it hangs, unless the lease was lost.                    *)
StopIsAnswered == Learner!StopIsAnswered

(* CheckpointMonitoring: every published Checkpoint's monitoring ends, or  *)
(* is stranded for good.                                                   *)
MonitoringSettles == Monitoring!MonitoringSettles

(* ManualEvaluation: the job of an operator ends, whatever becomes of its  *)
(* calls and of the worker, once training has ended (JobsEnd).             *)
(* MetricJournal: the drains end, with a complete drain or an exception    *)
(* (DrainsEnd).                                                            *)
(* CheckpointEvaluation: the supervisor ends, whatever becomes of workers  *)
(* and results (SupervisionEnds).                                          *)
JobsAndDrainsEnd ==
  <>[](CASE part = "manual" -> Manual!NoJobIsActive
         [] part = "evaluation" -> Evaluation!SupervisionIsOver
         [] OTHER -> Journal!Drained)
=============================================================================
