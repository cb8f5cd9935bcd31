------------------------- MODULE CheckpointEvaluation -------------------------
(***************************************************************************)
(* The automatic acceptance evaluation of the Checkpoints of one Run       *)
(* (run_supervisor.py, supervisor_ledger.py, evaluation_attempts.py).      *)
(*                                                                         *)
(* The learner saves Checkpoints; the supervisor publishes them, records   *)
(* an evaluation intent for each, dispatches at most two attempts to a     *)
(* remote worker, verifies the result the worker uploads, and stores the   *)
(* verdict.  The first accepted verdict closes admission and stops the     *)
(* learner; after the drain the lowest accepted Checkpoint is promoted.    *)
(*                                                                         *)
(* The supervisor's ledger lives on the task's disk and dies with it; only *)
(* the objects of the evaluation bucket survive.  All attempts of one      *)
(* evaluation upload to the same object, result.json, whose signed URL     *)
(* creates it only once.  Each request to the bucket or to the worker      *)
(* service is a step of its own: workers, deadlines, the learner, a cancel *)
(* request, an exception and the death of the process come in between.     *)
(***************************************************************************)
EXTENDS Integers, Sequences, FiniteSetsExt

CONSTANTS
  Checkpoints,   \* the Checkpoints the learner may save, ordered by step
  WorkerVerdicts,\* the statuses a worker that finishes may upload
  MayCancel,     \* whether the operator may cancel
  MaxRetries,    \* bound of the model: retries by the operator
  MaxFaults,     \* bound of the model: exceptions, failed uploads and crashes
  None           \* no document

MaxAttempts == 2      \* protocol.max_attempts
Attempts == 1..MaxAttempts

ASSUME EvaluationAssumption ==
  /\ Checkpoints \subseteq Nat
  /\ WorkerVerdicts \subseteq {"accepted", "rejected", "failed"}
  /\ MayCancel \in BOOLEAN
  /\ MaxRetries \in Nat /\ MaxFaults \in Nat

Terminal == {"accepted", "rejected", "failed", "expired", "canceled"}
ASSUME NoneAssumption ==
  None \notin Terminal /\ None \notin Checkpoints /\ None \notin [attempt : Attempts, status : Terminal]

VARIABLES
  \* The buckets.
  published,   \* index.json: the published Checkpoints
  intents,     \* the evaluations with an intent.json
  deadline,    \* attempt-N.json: "none", "live" or "late", that is past expires_at
  result,      \* result.json: the attempt that wrote it and its status
  verified,    \* verified-result.json: the verdict
  promotion,   \* promotion.json: the promoted Checkpoint
  cancelAsked, \* cancel-request.json of the current Attempt
  outcome,     \* the state of the last attempt terminal
  \* The remote workers.
  call,
  \* The supervisor process and its learner.
  mode,        \* "down", "recover", "active", "drain", "failing", "ended"
  at,          \* the position in the iteration: phase, rows left, step of the row
  row,         \* ledger: status and attempt of each evaluation
  closed,      \* automatic_evaluation.closed
  canceled,    \* cancel_requested
  learner,     \* the learner process runs
  saved,       \* Checkpoints on the local disk
  retries, faults

bucket == <<published, intents, deadline, result, verified, promotion,
            cancelAsked, outcome>>
process == <<mode, at, row, closed, canceled, learner, saved>>
vars == <<bucket, call, process, retries, faults>>

NoRow == [status |-> "absent", attempt |-> 0]
Idle == [phase |-> "begin", todo |-> {}, step |-> "row"]

Init ==
  /\ published = {} /\ intents = {}
  /\ deadline = [c \in Checkpoints |-> [a \in Attempts |-> "none"]]
  /\ result = [c \in Checkpoints |-> None]
  /\ verified = [c \in Checkpoints |-> None]
  /\ promotion = None
  /\ cancelAsked = FALSE
  /\ outcome = "none"
  /\ call = [c \in Checkpoints |-> [a \in Attempts |-> "none"]]
  /\ mode = "active"
  /\ at = Idle
  /\ row = [c \in Checkpoints |-> NoRow]
  /\ closed = FALSE /\ canceled = FALSE
  /\ learner = TRUE
  /\ saved = {}
  /\ retries = 0 /\ faults = 0

-----------------------------------------------------------------------------
(* The learner.  Checkpoints come in step order; a stopped learner exits,  *)
(* possibly after a last Checkpoint.                                       *)
LearnerSaves(c) ==
  /\ learner
  /\ c \notin published /\ \A k \in saved \cup published : k < c
  /\ \A k \in Checkpoints : k < c => k \in saved \cup published
  /\ saved' = saved \cup {c}
  /\ UNCHANGED <<bucket, call, mode, at, row, closed, canceled, learner, retries, faults>>

LearnerExits ==
  /\ learner
  /\ learner' = FALSE
  /\ UNCHANGED <<bucket, call, mode, at, row, closed, canceled, saved, retries, faults>>

CancelRequest ==
  /\ MayCancel /\ mode # "ended" /\ ~cancelAsked
  /\ cancelAsked' = TRUE
  /\ UNCHANGED <<published, intents, deadline, result, verified, promotion, outcome,
                 call, process, retries, faults>>

(* Time passes the expires_at an attempt was prepared with.                *)
AttemptExpires(c, a) ==
  /\ deadline[c][a] = "live"
  /\ deadline' = [deadline EXCEPT ![c][a] = "late"]
  /\ UNCHANGED <<published, intents, result, verified, promotion, cancelAsked, outcome,
                 call, process, retries, faults>>

-----------------------------------------------------------------------------
(* The worker of attempt a.  Its upload takes effect only if no attempt of *)
(* this evaluation uploaded before (If-None-Match).  The signed URL        *)
(* outlives the deadline by expiry_margin_seconds.                         *)
Upload(c, a, status) ==
  result' = IF result[c] = None
            THEN [result EXCEPT ![c] = [attempt |-> a, status |-> status]]
            ELSE result

(* A worker that starts after the deadline uploads an "expired" result; one*)
(* that started before may still finish after it.  A worker whose call is  *)
(* canceled or lost, that dies, or whose upload fails, never answers.      *)
(* "inTime" records a verdict reached before the attempt's deadline.       *)
WorkerAnswers(c, a, status) ==
  /\ call[c][a] = "called"
  /\ status = "expired" => deadline[c][a] = "late"
  /\ call' = [call EXCEPT ![c][a] =
       IF deadline[c][a] = "live" /\ status # "failed" THEN "inTime" ELSE "answered"]
  /\ Upload(c, a, status)
  /\ UNCHANGED <<published, intents, deadline, verified, promotion, cancelAsked, outcome,
                 process, retries, faults>>

-----------------------------------------------------------------------------
(* The iteration of the supervisor (active_iteration, drain_iteration).    *)
(* Each phase works through the rows its query returns when it starts.     *)
Settled == Terminal \cup {"deferred"}
Rows(ledger, statuses) == {c \in Checkpoints : ledger[c].status \in statuses}

Phases == <<"publish", "cancel", "observe", "settle", "submit", "poll", "settle again">>

Worklist(phase, ledger, shut, cancel) ==
  CASE phase = "publish" -> saved \ published
    [] phase = "cancel"  -> IF cancel THEN Rows(ledger, {"pending", "submitted"}) ELSE {}
    [] phase = "observe" ->
         IF cancel THEN {}
         ELSE {c \in Rows(ledger, {"pending", "submitted"}) : ledger[c].attempt > 0}
    [] phase = "settle"  -> IF shut /\ ~cancel THEN Rows(ledger, {"pending"}) ELSE {}
    [] phase = "submit"  -> IF shut \/ cancel THEN {} ELSE Rows(ledger, {"pending"})
    [] phase = "poll"    -> Rows(ledger, {"submitted"})
    [] phase = "settle again" -> IF shut THEN Rows(ledger, {"pending"}) ELSE {}

(* The position after the phases up to number n, the next one with work.   *)
PhaseAfter(n, ledger, shut, cancel) ==
  LET busy == {i \in n + 1 .. Len(Phases) : Worklist(Phases[i], ledger, shut, cancel) # {}}
  IN  IF busy = {} THEN [Idle EXCEPT !.phase = "end"]
      ELSE LET p == Phases[Min(busy)]
           IN  [phase |-> p, todo |-> Worklist(p, ledger, shut, cancel), step |-> "row"]

(* Rows come in step order; reconciliation takes the pending ones first.   *)
Current ==
  LET pending == at.todo \cap Rows(row, {"pending"})
  IN  IF at.phase = "observe" /\ pending # {} THEN Min(pending) ELSE Min(at.todo)

At(phases, step) == at.phase \in phases /\ at.step = step /\ at.todo # {}

NextRow(ledger, shut) ==
  LET rest == at.todo \ {Current}
      done == [Idle EXCEPT !.phase = "end"]
  IN  at' = IF rest # {} THEN [at EXCEPT !.todo = rest, !.step = "row"]
            ELSE IF at.phase \in {"recover", "defer"} THEN done
            ELSE PhaseAfter(CHOOSE i \in DOMAIN Phases : Phases[i] = at.phase,
                            ledger, shut, canceled)

Step(step) == at' = [at EXCEPT !.step = step]

SetRow(c, status, attempt, shut) ==
  /\ row' = [row EXCEPT ![c] = [status |-> status, attempt |-> attempt]]
  /\ NextRow(row', shut)

(* The process ends, and its ledger, its disk and its learner with it.     *)
Gone(to) ==
  /\ mode' = to
  /\ at' = Idle
  /\ row' = [c \in Checkpoints |-> NoRow]
  /\ closed' = FALSE /\ canceled' = FALSE /\ learner' = FALSE /\ saved' = {}

(* An exception leaves the loop: the learner is torn down, admission is    *)
(* closed and the failure drain starts.  One during recovery, during the   *)
(* failure drain or after the drain ends the Attempt as a failure.         *)
Raise ==
  IF mode \in {"active", "drain"} /\ at.phase # "finish"
  THEN /\ mode' = "failing" /\ at' = Idle
       /\ closed' = TRUE /\ learner' = FALSE
       /\ UNCHANGED <<row, canceled, saved, outcome>>
  ELSE /\ Gone("ended") /\ outcome' = "resumable_failure"

Running == mode \in {"recover", "active", "drain", "failing"}
Only(x) == UNCHANGED <<call, retries, faults, x>>

-----------------------------------------------------------------------------
Begin ==
  /\ mode \in {"active", "drain", "failing"} /\ at.phase = "begin"
  /\ canceled' = (canceled \/ cancelAsked)
  /\ at' = PhaseAfter(0, row, closed, canceled')
  /\ Only(<<bucket, mode, row, closed, learner, saved>>)

PublishCheckpoint ==
  /\ At({"publish"}, "row")
  /\ published' = published \cup {Current}
  /\ IF closed THEN NextRow(row, closed) ELSE Step("intent")
  /\ Only(<<intents, deadline, result, verified, promotion, cancelAsked, outcome,
            mode, row, closed, canceled, learner, saved>>)

EnsureEval ==
  /\ At({"publish"}, "intent")
  /\ intents' = intents \cup {Current}
  /\ SetRow(Current, "pending", 0, closed)
  /\ Only(<<published, deadline, result, verified, promotion, cancelAsked, outcome,
            mode, closed, canceled, learner, saved>>)

(* verify_eval_result: the document must carry the row's current attempt.  *)
Verifiable(c) ==
  /\ result[c] # None
  /\ result[c].attempt = row[c].attempt

ObservesNow ==
  \/ At({"observe", "poll", "cancel", "defer"}, "row")
  \/ At({"recover"}, "observe")
  \/ At({"settle", "settle again"}, "row") /\ row[Current].attempt > 0

(* Faulty variant: the write is not create-only.                           *)
PutVerified_Overwrites(c, status) == verified' = [verified EXCEPT ![c] = status]

(* put_verified_eval_result creates the object.  A second verdict carries  *)
(* another time of observation, so it is another document and conflicts.   *)
PutVerified(c, status) ==
  /\ verified[c] = None
  /\ verified' = [verified EXCEPT ![c] = status]

ObserveResult ==
  /\ ObservesNow /\ Verifiable(Current)
  /\ PutVerified(Current, result[Current].status)
  /\ Step("verified")
  /\ Only(<<published, intents, deadline, result, promotion, cancelAsked, outcome,
            mode, row, closed, canceled, learner, saved>>)

(* Faulty variant: the deadline is not compared with the time.             *)
Late_Always(c) == row[c].attempt > 0

Late(c) == row[c].attempt > 0 /\ deadline[c][row[c].attempt] = "late"

(* No usable result: _poll_evals resets or expires a late attempt; a       *)
(* pending row of a closed admission expires; the others wait.             *)
ObserveNothing ==
  /\ ObservesNow /\ ~Verifiable(Current)
  /\ IF at.phase \in {"observe", "recover"} \/ (at.phase = "poll" /\ ~Late(Current))
     THEN NextRow(row, closed)
     ELSE Step("unseen")
  /\ Only(<<bucket, mode, row, closed, canceled, learner, saved>>)

(* Faulty variant: no limit on the attempts.                               *)
ResetExpiredEval_Unbounded ==
  /\ At({"poll"}, "unseen")
  /\ ~closed
  /\ SetRow(Current, "pending", row[Current].attempt, closed)
  /\ Only(<<bucket, mode, closed, canceled, learner, saved>>)

ResetExpiredEval ==
  /\ At({"poll"}, "unseen")
  /\ ~closed /\ row[Current].attempt < MaxAttempts
  /\ SetRow(Current, "pending", row[Current].attempt, closed)
  /\ Only(<<bucket, mode, closed, canceled, learner, saved>>)

(* Faulty variant: an exhausted evaluation waits for admission to close.   *)
MustExpire_WhenClosed ==
  \/ At({"settle", "settle again"}, "unseen")
  \/ At({"poll"}, "unseen") /\ closed

MustExpire ==
  \/ At({"settle", "settle again"}, "unseen")
  \/ At({"poll"}, "unseen") /\ (closed \/ row[Current].attempt = MaxAttempts)

MarkExpired ==
  /\ MustExpire
  /\ PutVerified(Current, "expired")
  /\ Step("verified")
  /\ Only(<<published, intents, deadline, result, promotion, cancelAsked, outcome,
            mode, row, closed, canceled, learner, saved>>)

(* ConditionalWriteConflict: a verdict is already stored, but the ledger   *)
(* of this process does not know it.                                       *)
VerdictConflict ==
  /\ \/ ObservesNow /\ Verifiable(Current)
     \/ MustExpire
  /\ verified[Current] # None
  /\ Raise
  /\ Only(<<published, intents, deadline, result, verified, promotion, cancelAsked>>)

(* mark_eval_terminal, and what _observe_result does for an acceptance.    *)
MarkTerminal ==
  /\ at.step = "verified" /\ at.todo # {}
  /\ closed' = (closed \/ verified[Current] = "accepted")
  /\ SetRow(Current, verified[Current], row[Current].attempt, closed')
  /\ Only(<<bucket, mode, canceled, learner, saved>>)

DeferClosed ==
  /\ At({"settle", "settle again"}, "row") /\ row[Current].attempt = 0
  /\ SetRow(Current, "deferred", 0, closed)
  /\ Only(<<bucket, mode, closed, canceled, learner, saved>>)

(* _cancel_outstanding_evals and _defer_unsettled_evals_after_failure take *)
(* a verdict that is stored already; otherwise the former stores one.      *)
ReconcileVerified ==
  /\ At({"cancel", "defer"}, "unseen") /\ verified[Current] # None
  /\ SetRow(Current, verified[Current], row[Current].attempt, closed)
  /\ Only(<<bucket, mode, closed, canceled, learner, saved>>)

CancelEval ==
  /\ At({"cancel"}, "unseen")
  /\ PutVerified(Current, "canceled")
  /\ Step("verified")
  /\ Only(<<published, intents, deadline, result, promotion, cancelAsked, outcome,
            mode, row, closed, canceled, learner, saved>>)

DeferFailed ==
  /\ At({"defer"}, "unseen") /\ verified[Current] = None
  /\ SetRow(Current, "deferred", row[Current].attempt, closed)
  /\ Only(<<bucket, mode, closed, canceled, learner, saved>>)

NextAttempt == row[Current].attempt + 1

(* Faulty variant: no document is written before the call.                 *)
PrepareAttempt_Forgotten ==
  /\ At({"submit"}, "row")
  /\ Step("spawn")
  /\ Only(<<bucket, mode, row, closed, canceled, learner, saved>>)

(* _submit_pending_evals.  The attempt document is written before the      *)
(* worker is called, so that no restart calls it twice; an attempt that    *)
(* has its document already is taken as submitted.                         *)
PrepareAttempt ==
  /\ At({"submit"}, "row")
  /\ IF deadline[Current][NextAttempt] # "none"
     THEN /\ SetRow(Current, "submitted", NextAttempt, closed)
          /\ UNCHANGED deadline
     ELSE /\ deadline' = [deadline EXCEPT ![Current][NextAttempt] = "live"]
          /\ Step("spawn") /\ UNCHANGED row
  /\ Only(<<published, intents, result, verified, promotion, cancelAsked, outcome,
            mode, closed, canceled, learner, saved>>)

(* A submission whose call raises may have been received or not: it is a   *)
(* call that may never answer.  Its error is caught, the attempt counts.   *)
SpawnWorker ==
  /\ At({"submit"}, "spawn")
  /\ call' = [call EXCEPT ![Current][NextAttempt] = "called"]
  /\ Step("dispatch")
  /\ UNCHANGED <<bucket, mode, row, closed, canceled, learner, saved, retries, faults>>

MarkSubmitted ==
  /\ At({"submit"}, "dispatch")
  /\ SetRow(Current, "submitted", NextAttempt, closed)
  /\ Only(<<bucket, mode, closed, canceled, learner, saved>>)

-----------------------------------------------------------------------------
AllSettled == \A c \in Checkpoints : row[c].status \in Settled \cup {"absent"}

Converged == saved \subseteq published /\ AllSettled

EndActive ==
  /\ mode = "active" /\ at.phase = "end"
  /\ mode' = IF learner THEN "active" ELSE "drain"
  /\ at' = Idle
  /\ Only(<<bucket, row, closed, canceled, learner, saved>>)

EndDrain ==
  /\ mode = "drain" /\ at.phase = "end"
  /\ at' = IF Converged THEN [Idle EXCEPT !.phase = "promote"] ELSE Idle
  /\ Only(<<bucket, mode, row, closed, canceled, learner, saved>>)

(* The failure drain ends the Attempt when it converges, or at its         *)
(* deadline, after it has deferred what is not settled.                    *)
EndFailing ==
  /\ mode = "failing" /\ at.phase = "end"
  /\ LET open == Rows(row, {"pending", "submitted"})
     IN  \/ /\ ~Converged
            /\ at' = Idle
            /\ UNCHANGED <<mode, row, closed, canceled, learner, saved, outcome>>
         \/ /\ ~Converged /\ open # {}
            /\ at' = [phase |-> "defer", todo |-> open, step |-> "row"]
            /\ UNCHANGED <<mode, row, closed, canceled, learner, saved, outcome>>
         \/ /\ AllSettled
            /\ Gone("ended") /\ outcome' = "resumable_failure"
  /\ Only(<<published, intents, deadline, result, verified, promotion, cancelAsked>>)

Accepted == Rows(row, {"accepted"})

(* _create_promotion: an existing receipt stands, otherwise the accepted   *)
(* Checkpoint of the lowest step is promoted.                              *)
CreatePromotion ==
  /\ mode = "drain" /\ at.phase = "promote" /\ ~canceled
  /\ promotion # None \/ Accepted # {}
  /\ promotion' = IF promotion # None THEN promotion ELSE Min(Accepted)
  /\ at' = [Idle EXCEPT !.phase = "finish"]
  /\ Only(<<published, intents, deadline, result, verified, cancelAsked, outcome,
            mode, row, closed, canceled, learner, saved>>)

NoAcceptance == published # {} /\ \A c \in published : row[c].status = "rejected"

SkipPromotion ==
  /\ mode = "drain" /\ at.phase = "promote"
  /\ canceled \/ (promotion = None /\ Accepted = {} /\ NoAcceptance)
  /\ at' = [Idle EXCEPT !.phase = "finish"]
  /\ Only(<<bucket, mode, row, closed, canceled, learner, saved>>)

IncompleteEvidence ==
  /\ mode = "drain" /\ at.phase = "promote" /\ ~canceled
  /\ promotion = None /\ Accepted = {} /\ ~NoAcceptance
  /\ Raise
  /\ Only(<<published, intents, deadline, result, verified, promotion, cancelAsked>>)

(* The attempt terminal, and for a success the Run's terminal.             *)
Finish ==
  /\ mode = "drain" /\ at.phase = "finish"
  /\ outcome' = CASE canceled -> "canceled"
                  [] ~canceled /\ promotion # None -> "succeeded"
                  [] OTHER -> "failed"
  /\ Gone("ended")
  /\ Only(<<published, intents, deadline, result, verified, promotion, cancelAsked>>)

(* A signal sets cancel_requested; the loop reads it between iterations    *)
(* and before and after the promotion.                                     *)
CancelSignal ==
  /\ mode \in {"active", "drain"} /\ at.phase \in {"begin", "promote", "finish"}
  /\ MayCancel /\ ~canceled
  /\ canceled' = TRUE
  /\ Only(<<bucket, mode, at, row, closed, learner, saved>>)

-----------------------------------------------------------------------------
Exception ==
  /\ Running /\ faults < MaxFaults
  /\ faults' = faults + 1
  /\ Raise
  /\ UNCHANGED <<published, intents, deadline, result, verified, promotion,
                 cancelAsked, call, retries>>

(* An upload that fails is retried by a later iteration.                   *)
PublishFails ==
  /\ At({"publish"}, "row") /\ faults < MaxFaults
  /\ faults' = faults + 1
  /\ NextRow(row, closed)
  /\ UNCHANGED <<bucket, call, mode, row, closed, canceled, learner, saved, retries>>

Crash ==
  /\ Running /\ faults < MaxFaults
  /\ faults' = faults + 1
  /\ Gone("down")
  /\ UNCHANGED <<bucket, call, retries>>

(* The task is started again after an interruption, or the operator        *)
(* retries an Attempt that ended without success.  _recover_durable_state  *)
(* reads the verdicts and the public inventory first.                      *)
HasAcceptedEval == \E c \in Checkpoints : verified[c] = "accepted"

(* Faulty variant: the acceptance is not looked up.                        *)
RecoverInventory_Reopened ==
  /\ closed' = FALSE
  /\ intents' = published
  /\ row' = [c \in Checkpoints |->
               IF c \in published THEN [status |-> "pending", attempt |-> 0] ELSE NoRow]
  /\ at' = IF published = {} THEN [Idle EXCEPT !.phase = "end"]
           ELSE [phase |-> "recover", todo |-> published, step |-> "row"]

RecoverInventory ==
  /\ closed' = HasAcceptedEval
  /\ intents' = IF HasAcceptedEval THEN intents ELSE published
  /\ LET known == intents' \cap published
     IN  /\ row' = [c \in Checkpoints |->
                      IF c \in known THEN [status |-> "pending", attempt |-> 0] ELSE NoRow]
         /\ at' = IF known = {} THEN [Idle EXCEPT !.phase = "end"]
                  ELSE [phase |-> "recover", todo |-> known, step |-> "row"]

Restart ==
  /\ \/ mode = "down" /\ UNCHANGED <<cancelAsked, retries>>
     \/ /\ mode = "ended" /\ outcome # "succeeded" /\ retries < MaxRetries
        /\ cancelAsked' = FALSE
        /\ retries' = retries + 1
  /\ mode' = "recover"
  /\ RecoverInventory
  /\ canceled' = FALSE /\ learner' = FALSE /\ saved' = {}
  /\ UNCHANGED <<published, deadline, result, verified, promotion, outcome, call, faults>>

(* The ledger row of one evaluation is rebuilt from its documents: the     *)
(* highest prepared attempt, then a stored verdict or an uploaded result.  *)
RecoverEval ==
  /\ At({"recover"}, "row")
  /\ LET prepared == {a \in Attempts : deadline[Current][a] # "none"}
         last == Max(prepared \cup {0})
     IN  IF verified[Current] # None
         THEN SetRow(Current, verified[Current], last, closed)
         ELSE /\ row' = [row EXCEPT ![Current] =
                           [status |-> IF last = 0 THEN "pending" ELSE "submitted",
                            attempt |-> last]]
              /\ Step("observe")
  /\ Only(<<bucket, mode, closed, canceled, learner, saved>>)

(* After recovery a canceled Attempt starts no learner; a finished learner *)
(* is not started again.                                                   *)
Recovered ==
  /\ mode = "recover" /\ at.phase = "end"
  /\ canceled' = cancelAsked
  /\ learner' \in IF cancelAsked THEN {FALSE} ELSE BOOLEAN
  /\ mode' = IF learner' THEN "active" ELSE "drain"
  /\ at' = Idle
  /\ Only(<<bucket, row, closed, saved>>)

-----------------------------------------------------------------------------
Supervisor ==
  \/ Begin \/ PublishCheckpoint \/ EnsureEval
  \/ ObserveResult \/ ObserveNothing \/ ResetExpiredEval \/ MarkExpired
  \/ VerdictConflict \/ MarkTerminal \/ DeferClosed
  \/ ReconcileVerified \/ CancelEval \/ DeferFailed
  \/ PrepareAttempt \/ SpawnWorker \/ MarkSubmitted
  \/ EndActive \/ EndDrain \/ EndFailing
  \/ CreatePromotion \/ SkipPromotion \/ IncompleteEvidence \/ Finish
  \/ RecoverEval \/ Recovered

Environment ==
  \/ \E c \in Checkpoints : LearnerSaves(c)
  \/ LearnerExits \/ CancelRequest \/ CancelSignal
  \/ Exception \/ PublishFails \/ Crash \/ Restart
  \/ \E c \in Checkpoints, a \in Attempts :
       \/ AttemptExpires(c, a)
       \/ \E status \in WorkerVerdicts \cup {"expired"} : WorkerAnswers(c, a, status)

Next == Supervisor \/ Environment

(* The process runs; a learner ends by its budget; a task that died is     *)
(* started again; time passes.  Nothing is assumed of the workers.         *)
Fairness ==
  /\ WF_vars(Supervisor)
  /\ WF_vars(LearnerExits)
  /\ WF_vars(mode = "down" /\ Restart)
  /\ \A c \in Checkpoints, a \in Attempts : WF_vars(AttemptExpires(c, a))

Spec == Init /\ [][Next]_vars
FairSpec == Spec /\ Fairness

-----------------------------------------------------------------------------
Steps == {"row", "observe", "unseen", "verified", "intent", "spawn", "dispatch"}

(* Every variable keeps its kind of value; a pending row always has an     *)
(* attempt left, so _submit_pending_evals never meets its exhausted case.  *)
TypeOK ==
  /\ published \subseteq Checkpoints /\ intents \subseteq published
  /\ deadline \in [Checkpoints -> [Attempts -> {"none", "live", "late"}]]
  /\ result \in [Checkpoints ->
       {None} \cup [attempt : Attempts, status : WorkerVerdicts \cup {"expired"}]]
  /\ verified \in [Checkpoints -> Terminal \cup {None}]
  /\ promotion \in Checkpoints \cup {None}
  /\ cancelAsked \in BOOLEAN
  /\ outcome \in {"none", "resumable_failure", "succeeded", "failed", "canceled"}
  /\ call \in [Checkpoints ->
       [Attempts -> {"none", "called", "inTime", "answered"}]]
  /\ mode \in {"down", "recover", "active", "drain", "failing", "ended"}
  /\ at \in [phase : {Phases[i] : i \in DOMAIN Phases}
                        \cup {"begin", "end", "recover", "defer", "promote", "finish"},
             todo : SUBSET Checkpoints, step : Steps]
  /\ row \in [Checkpoints -> [status : Settled \cup {"absent", "pending", "submitted"},
                              attempt : 0..MaxAttempts]]
  /\ \A c \in Rows(row, {"pending"}) : row[c].attempt < MaxAttempts
  /\ closed \in BOOLEAN /\ canceled \in BOOLEAN /\ learner \in BOOLEAN
  /\ saved \subseteq Checkpoints
  /\ retries \in 0..MaxRetries /\ faults \in 0..MaxFaults

Dispatch(c, a) ==
  /\ At({"submit"}, "spawn") /\ at'.step = "dispatch"
  /\ c = Current /\ a = NextAttempt

(* No attempt is dispatched twice, whatever restarts come between, and the *)
(* second one only after the deadline of the first.                        *)
AttemptsAreSequential ==
  [][\A c \in Checkpoints, a \in Attempts :
       Dispatch(c, a) => /\ call[c][a] = "none"
                         /\ \A b \in Attempts : b < a => deadline[c][b] = "late"]_vars

(* Once an acceptance is stored no evaluation is dispatched any more, not  *)
(* even by a supervisor that was restarted right after storing it.         *)
AcceptanceClosesAdmission ==
  [][\A c \in Checkpoints, a \in Attempts : Dispatch(c, a) => ~HasAcceptedEval]_vars

(* A dispatched evaluation may run to its deadline: unless the Attempt has *)
(* failed, it is not declared expired before, nor deferred, even though    *)
(* another Checkpoint is accepted meanwhile.                               *)
SubmittedMayFinish ==
  [][(mode \in {"active", "drain"}) => \A c \in Checkpoints :
       /\ verified[c] = None /\ verified'[c] = "expired" =>
            \A a \in Attempts : deadline[c][a] # "live"
       /\ row[c].status # "deferred" /\ row'[c].status = "deferred" =>
            \A a \in Attempts : call[c][a] = "none"]_vars

(* A late answer of an earlier attempt took result.json, which a later     *)
(* attempt can then not write any more.                                    *)
Straggled(c) ==
  result[c] # None /\ \E a \in Attempts : deadline[c][a] # "none" /\ result[c].attempt < a

(* Unless the Attempt has failed, a straggler is the only way to lose a    *)
(* verdict that was reached in time: an evaluation with such an answer is  *)
(* not stored as expired because of where the supervisor looked for it, of *)
(* when the admission was closed, or of a restart.                         *)
OnlyStragglersCost ==
  [][(mode \in {"active", "drain"}) => \A c \in Checkpoints :
       /\ verified[c] = None /\ verified'[c] = "expired"
       /\ \E a \in Attempts : call[c][a] = "inTime"
       => Straggled(c)]_vars

(* The stored verdicts and the promotion implement the evaluation record:  *)
(* verdicts are final and the promotion stays the lowest acceptance.       *)
Record == INSTANCE EvaluationRecord WITH verdict <- verified, promoted <- promotion
ImplementsRecord == Record!Spec

(* No evaluation keeps a supervisor from ending: lost workers, lost        *)
(* results and a result of the wrong attempt only delay the drain.         *)
SupervisionIsOver == mode = "ended"
SupervisionEnds == <>[]SupervisionIsOver

(* An evaluation attempt that reached its verdict before its deadline is   *)
(* not recorded as expired.  The code breaks this: a late first attempt    *)
(* may take result.json, which only attempt 1 could then have claimed.     *)
FinishedEvaluationCounts ==
  \A c \in Checkpoints : verified[c] = "expired" =>
    \A a \in Attempts : call[c][a] # "inTime"
=============================================================================
