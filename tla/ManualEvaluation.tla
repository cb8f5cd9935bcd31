--------------------------- MODULE ManualEvaluation ---------------------------
(***************************************************************************)
(* The evaluation an operator asks for after training                      *)
(* (manual_evaluation.py): the handler of an evaluate-checkpoints job,     *)
(* advanced by the one worker of the local queue.  JobQueue models the     *)
(* queue itself; of it only the states of the jobs are kept here.          *)
(*                                                                         *)
(* Each advance looks at every Checkpoint of the batch: a verified result  *)
(* is projected to the Run's journal and its metrics service, a raw one is *)
(* verified first, and one without a result gets at most MaxAttempts       *)
(* Modal calls, one after the deadline of the other.  When all are settled *)
(* the lowest accepted Checkpoint of the Run is promoted and the job gets  *)
(* its terminal receipt.                                                   *)
(*                                                                         *)
(* Nothing is projected before the terminal receipt of training, nor while *)
(* training still holds the writer lease.  The lease is asked for when the *)
(* advance begins and before each projection, never in between, and an     *)
(* operator may start another Attempt once it has run out.  How two take   *)
(* it at once is in WriterLease; here it is taken in one step.             *)
(*                                                                         *)
(* Sequences are counted from the high-water mark of training.  A          *)
(* Checkpoint is a number, its step; each has one metric event.            *)
(***************************************************************************)
EXTENDS Integers, FiniteSets, FiniteSetsExt

CONSTANTS
  Jobs,         \* the jobs of the queue
  Batch,        \* the Checkpoints each was queued with
  Verdicts,     \* of an evaluation worker: "accepted", "rejected", "failed"
  MaxAttempts,  \* protocol.max_attempts of experiments/modal_eval.yaml
  MaxUpsets,    \* bound of the model: cancels, retries, exceptions, deaths
  None          \* nothing

Checkpoints == UNION {Batch[j] : j \in Jobs}
Attempts == 1..MaxAttempts

(* Faulty: a verdict whose projection is awaited counts as settled.        *)
Settled_Awaiting == {"accepted", "rejected", "failed", "expired", "awaiting"}

Settled == {"accepted", "rejected", "failed", "expired"}

(* What a document says of a Checkpoint, and what the job's receipt says.  *)
Statuses == Settled \cup {"none", "submitted", "queued", "uncertain", "awaiting", "canceled"}
Promotions == [checkpoint : Checkpoints, by : {"manual", "training"}]
Receipts == [state : {"canceled", "failed", "succeeded"}, status : [Checkpoints -> Statuses],
             promotion : Promotions \cup {None}]

(* A Checkpoint that any job was queued with is never queued again.        *)
BatchAssumption ==
  /\ DOMAIN Batch = Jobs
  /\ \A j \in Jobs : Batch[j] # {} /\ Batch[j] \subseteq Nat \ {0} /\ IsFiniteSet(Batch[j])
  /\ \A j, k \in Jobs : j # k => Batch[j] \cap Batch[k] = {}
  /\ Verdicts \subseteq {"accepted", "rejected", "failed"}
  /\ MaxAttempts \in Nat \ {0} /\ MaxUpsets \in Nat
  /\ None \notin Jobs \cup Statuses \cup Promotions \cup Receipts
  /\ None \notin [attempt : Attempts, verdict : Verdicts]

VARIABLES
  \* The queue.
  job,         \* jobs.state
  cancel,      \* jobs.cancel_requested
  \* Training.  Its latest Attempt is "active" until its terminal receipt,
  \* then "ended"; "retried" while the operator starts the next one.
  training,
  retries,     \* the Attempts that were started after the first
  lease,       \* the holder of the Run's live writer lease: "none", "training", "job"
  trained,     \* the Checkpoints accepted under the protocol of training
  promotion,   \* promotion.json: the Checkpoint and the protocol of its evidence
  \* The evaluation bucket and the workers.
  deadline,    \* attempt-N.json: its expires_at, "none" before it is put
  dispatched,  \* the dispatch-N.json
  call,        \* the call of an attempt: "none", "called", "ended"
  result,      \* result.json: the attempt that uploaded it, and its verdict
  verified,    \* verified-result.json
  \* The control bucket and the metrics service.
  journal,     \* the sealed events: sequence and Checkpoint
  projection,  \* the projection document's high-water mark, 0 before it is put
  published,   \* the Checkpoints whose event the service has
  receipt,     \* the terminal receipt of a job
  \* The ledger of a job, under the work directory of the queue.
  frame,       \* metric_frames.id of a Checkpoint's event, or 0
  next,        \* the next id
  high,        \* MAX(metric_segments.last_event_seq)
  \* The worker.
  doing, step, todo,
  seen,        \* what the advance knows: the terminal receipt, cancel, the offset, and
               \* its own lease: "none", "live", "expired"
  status,      \* the status of each Checkpoint so far
  candidate,   \* the lowest accepted evidence
  upsets

queue == <<job, cancel>>
run == <<training, retries, lease, trained>>
evidence == <<deadline, dispatched, call, result, verified>>
projected == <<journal, projection, published>>
ledger == <<frame, next, high>>
worker == <<doing, step, todo, seen, status, candidate>>
vars == <<queue, run, promotion, evidence, projected, receipt, ledger, worker,
          upsets>>

Nobody == [terminal |-> FALSE, cancel |-> FALSE, offset |-> 0, own |-> "none"]
NoStatus == [c \in Checkpoints |-> "none"]

Waiting(j) == job[j] \in {"queued", "retry_wait"}

(* What the operator or a failure upsets.                                  *)
Upset == upsets < MaxUpsets /\ upsets' = upsets + 1

Init ==
  /\ job = [j \in Jobs |-> "absent"] /\ cancel = [j \in Jobs |-> FALSE]
  /\ training = "active" /\ retries = 0 /\ lease = "training"
  /\ trained = {} /\ promotion = None
  /\ deadline = [c \in Checkpoints |-> [a \in Attempts |-> "none"]]
  /\ dispatched = {}
  /\ call = [c \in Checkpoints |-> [a \in Attempts |-> "none"]]
  /\ result = [c \in Checkpoints |-> None] /\ verified = [c \in Checkpoints |-> None]
  /\ journal = {} /\ projection = [c \in Checkpoints |-> 0] /\ published = {}
  /\ receipt = [j \in Jobs |-> None]
  /\ frame = [c \in Checkpoints |-> 0]
  /\ next = [j \in Jobs |-> 1] /\ high = [j \in Jobs |-> 0]
  /\ doing = None /\ step = "idle" /\ todo = {} /\ seen = Nobody
  /\ status = NoStatus /\ candidate = None
  /\ upsets = 0

-----------------------------------------------------------------------------
(* The player and the operator.                                            *)
Enqueue(j) ==
  /\ job[j] = "absent"
  /\ job' = [job EXCEPT ![j] = "queued"]
  /\ UNCHANGED <<cancel, run, promotion, evidence, projected, receipt, ledger, worker,
                 upsets>>

Request ==
  /\ Upset
  /\ UNCHANGED <<run, promotion, evidence, projected, receipt, ledger, worker>>

RequestCancel(j) ==
  /\ Request
  /\ Waiting(j) \/ job[j] = "running"
  /\ cancel' = [cancel EXCEPT ![j] = TRUE]
  /\ job' = IF Waiting(j) THEN [job EXCEPT ![j] = "canceled"] ELSE job

Retry(j) ==
  /\ Request
  /\ job[j] \in {"blocked", "failed", "canceled"}
  /\ job' = [job EXCEPT ![j] = "queued"] /\ cancel' = [cancel EXCEPT ![j] = FALSE]

(* The supervisor of the Run, which takes the lease, accepts Checkpoints   *)
(* of its own, promotes the lowest unless there is a promotion, and ends.  *)
(* An Attempt that cannot have the lease, or dies, is started until it has *)
(* a terminal receipt.                                                     *)
Trains ==
  /\ training = "active" /\ lease = "training"
  /\ UNCHANGED <<retries, queue, evidence, projected, receipt, ledger, worker>>

TrainingStarts ==
  /\ training = "active" /\ lease = "none"
  /\ lease' = "training"
  /\ UNCHANGED <<training, retries, trained, queue, promotion, evidence, projected, receipt,
                 ledger, worker, upsets>>

TrainingAccepts(c) ==
  /\ Trains /\ trained = {}
  /\ trained' = {c}
  /\ UNCHANGED <<training, lease, promotion, upsets>>

TrainingPromotes ==
  /\ Trains /\ trained # {} /\ promotion = None
  /\ promotion' = [checkpoint |-> Min(trained), by |-> "training"]
  /\ UNCHANGED <<training, lease, trained, upsets>>

TrainingEnds ==
  /\ Trains
  /\ training' = "ended"
  /\ UNCHANGED <<lease, trained, promotion, upsets>>

TrainingIsInterrupted ==
  /\ Trains /\ Upset
  /\ lease' = "none"
  /\ UNCHANGED <<training, trained, promotion>>

(* Neither training, once it has ended, nor a job gives up its lease: it   *)
(* is renewed no more, and runs out.                                       *)
LeaseExpires ==
  /\ lease = "job" \/ (lease = "training" /\ training # "active")
  /\ lease' = "none"
  /\ seen' = [seen EXCEPT !.own = IF @ = "live" THEN "expired" ELSE @]
  /\ UNCHANGED <<training, retries, trained, queue, promotion, evidence, projected, receipt,
                 ledger, doing, step, todo, status, candidate, upsets>>

(* The operator retries a Run whose latest receipt allows it and whose     *)
(* lease has run out; the manifest of the new Attempt is put half a minute *)
(* later, and until then the receipt of the former one is the latest.      *)
RetryTraining ==
  /\ training = "ended" /\ lease = "none" /\ Upset
  /\ training' = "retried"
  /\ UNCHANGED <<retries, lease, trained, queue, promotion, evidence, projected, receipt,
                 ledger, worker>>

PutManifest ==
  /\ training = "retried"
  /\ training' = "active" /\ retries' = retries + 1
  /\ UNCHANGED <<lease, trained, queue, promotion, evidence, projected, receipt, ledger,
                 worker, upsets>>

-----------------------------------------------------------------------------
(* The Modal calls.  Both attempts of an evaluation upload to one          *)
(* create-only object; a call may end late, or never.                      *)
Upload(c, a, v) ==
  /\ call[c][a] = "called"
  /\ call' = [call EXCEPT ![c][a] = "ended"]
  /\ result' = IF result[c] = None
               THEN [result EXCEPT ![c] = [attempt |-> a, verdict |-> v]]
               ELSE result
  /\ UNCHANGED <<queue, run, promotion, deadline, dispatched, verified, projected, receipt,
                 ledger, worker, upsets>>

AttemptExpires(c, a) ==
  /\ deadline[c][a] = "live"
  /\ deadline' = [deadline EXCEPT ![c][a] = "late"]
  /\ UNCHANGED <<queue, run, promotion, dispatched, call, result, verified, projected,
                 receipt, ledger, worker, upsets>>

-----------------------------------------------------------------------------
(* The handler.  "doing" is the job it advances, "at" the Checkpoint of    *)
(* the batch it looks at, in the order of the request.                     *)
at == Min(todo)
Latest(c) == Max({0} \cup {a \in Attempts : deadline[c][a] # "none"})

(* Faulty: an attempt never expires.                                       *)
Live_Forever(c) == Latest(c) > 0

Live(c) == Latest(c) > 0 /\ deadline[c][Latest(c)] = "live"
Sent(c) == <<c, Latest(c)>> \in dispatched

At(s) == step = s
GoTo(s) == step' = s /\ UNCHANGED <<doing, todo, seen, candidate>>
KeepQueue == UNCHANGED <<queue, upsets>>

(* The status of the Checkpoint is known; the next one, if any, follows.   *)
Report(s) ==
  /\ status' = [status EXCEPT ![at] = s]
  /\ todo' = todo \ {at}
  /\ step' = IF todo = {at} THEN "settle" ELSE "look"
  /\ UNCHANGED <<doing, seen, candidate>>

Finish(state) ==
  /\ job' = [job EXCEPT ![doing] = state]
  /\ doing' = None /\ step' = "idle" /\ todo' = {} /\ seen' = Nobody
  /\ status' = NoStatus /\ candidate' = None
  /\ UNCHANGED cancel

Claim(j) ==
  /\ doing = None /\ Waiting(j)
  /\ job' = [job EXCEPT ![j] = "running"]
  /\ doing' = j /\ step' = "admit" /\ todo' = Batch[j]
  /\ seen' = [Nobody EXCEPT !.cancel = cancel[j]]
  /\ UNCHANGED <<cancel, run, promotion, evidence, projected, receipt, ledger, status,
                 candidate, upsets>>

(* _training_terminal: the receipt of the latest Attempt.                  *)
Admit ==
  /\ At("admit")
  /\ seen' = [seen EXCEPT !.terminal = training # "active"]
  /\ step' = IF training = "active" THEN "look" ELSE "lease"
  /\ UNCHANGED <<doing, todo, status, candidate>>
  /\ KeepQueue /\ UNCHANGED <<run, promotion, evidence, projected, receipt, ledger>>

(* Faulty: the advance goes on although training holds the lease.          *)
Leases_Ignored(s) ==
  IF lease = "training" THEN UNCHANGED lease /\ seen' = s
  ELSE lease' = "job" /\ seen' = [s EXCEPT !.own = "live"]

(* _lease: renewed, or acquired again when it has run out.  "s" is what    *)
(* else the advance knows then.                                            *)
Leases(s) ==
  /\ lease # "training"
  /\ lease' = "job" /\ seen' = [s EXCEPT !.own = "live"]

(* The lease, and the offset of the sequences.                             *)
TakeLease ==
  /\ At("lease")
  /\ Leases([seen EXCEPT !.offset = Max({projection[c] : c \in Checkpoints})])
  /\ step' = "look"
  /\ UNCHANGED <<training, retries, trained, doing, todo, status, candidate>>
  /\ KeepQueue /\ UNCHANGED <<promotion, evidence, projected, receipt, ledger>>

(* A job's own lease counts as another's if it names a former Attempt.     *)
LeaseIsTaken ==
  /\ \/ /\ At("lease")
        /\ lease = "training" \/ (lease = "job" /\ retries > 0)
        /\ Finish("retry_wait")
     \/ At("append") /\ lease = "training" /\ Report("awaiting") /\ UNCHANGED queue
  /\ UNCHANGED <<run, promotion, evidence, projected, receipt, ledger, upsets>>

(* _status: what the documents say of the Checkpoint.  The result is read  *)
(* before the attempts are, and may be uploaded in between.                *)
Look ==
  /\ At("look")
  /\ CASE verified[at] # None -> GoTo("terminal") /\ UNCHANGED status
       [] verified[at] = None /\ result[at] # None -> GoTo("verify") /\ UNCHANGED status
       [] OTHER ->
            IF seen.cancel THEN Report(IF Sent(at) THEN "submitted" ELSE "queued")
            ELSE IF Live(at) THEN Report(IF Sent(at) THEN "submitted" ELSE "uncertain")
            ELSE IF Latest(at) = MaxAttempts THEN Report("expired")
            ELSE GoTo("prepare") /\ UNCHANGED status
  /\ KeepQueue /\ UNCHANGED <<run, promotion, evidence, projected, receipt, ledger>>

(* The raw result must be of the latest attempt; otherwise the job fails.  *)
Verify ==
  /\ At("verify")
  /\ IF result[at].attempt = Latest(at)
     THEN /\ verified' = [verified EXCEPT ![at] = result[at].verdict]
          /\ GoTo("terminal") /\ UNCHANGED <<queue, status>>
     ELSE Finish("failed") /\ UNCHANGED verified
  /\ UNCHANGED <<run, promotion, deadline, dispatched, call, result, projected, receipt,
                 ledger, upsets>>

Prepare ==
  /\ At("prepare")
  /\ deadline' = [deadline EXCEPT ![at][Latest(at) + 1] = "live"]
  /\ GoTo("submit")
  /\ KeepQueue
  /\ UNCHANGED <<run, promotion, dispatched, call, result, verified, projected, receipt,
                 ledger, status>>

Submit ==
  /\ At("submit")
  /\ call' = [call EXCEPT ![at][Latest(at)] = "called"]
  /\ GoTo("dispatch")
  /\ KeepQueue
  /\ UNCHANGED <<run, promotion, deadline, dispatched, result, verified, projected,
                 receipt, ledger, status>>

(* The exception may come from a call that was accepted all the same.      *)
SubmitFails ==
  /\ At("submit") /\ Upset
  /\ call' \in {call, [call EXCEPT ![at][Latest(at)] = "called"]}
  /\ Report("uncertain")
  /\ UNCHANGED <<queue, run, promotion, deadline, dispatched, result, verified, projected,
                 receipt, ledger>>

Dispatch ==
  /\ At("dispatch")
  /\ dispatched' = dispatched \cup {<<at, Latest(at)>>}
  /\ Report("submitted")
  /\ KeepQueue
  /\ UNCHANGED <<run, promotion, deadline, call, result, verified, projected, receipt,
                 ledger>>

-----------------------------------------------------------------------------
(* _terminal_status: the projection of a verified result.                  *)
TerminalStatus ==
  /\ At("terminal")
  /\ CASE projection[at] # 0 -> Report(verified[at])
       [] projection[at] = 0 /\ ~seen.terminal -> Report("awaiting")
       [] OTHER -> GoTo("append") /\ UNCHANGED status
  /\ KeepQueue /\ UNCHANGED <<run, promotion, evidence, projected, receipt, ledger>>

(* _project_result.  An insert that meets the event takes a number too.    *)
AppendEvent ==
  /\ At("append")
  /\ Leases(seen)
  /\ frame' = IF frame[at] = 0 THEN [frame EXCEPT ![at] = next[doing]] ELSE frame
  /\ next' = [next EXCEPT ![doing] = @ + 1]
  /\ step' = "seal"
  /\ UNCHANGED <<doing, todo, candidate, training, retries, trained>>
  /\ KeepQueue
  /\ UNCHANGED <<promotion, evidence, projected, receipt, high, status>>

Frames == {c \in Batch[doing] : frame[c] # 0}
Unsealed == {c \in Frames : frame[c] > high[doing]}

(* seal_metric_segment, then record_metric_segment.                        *)
SealSegment ==
  /\ At("seal")
  /\ journal' = journal \cup {[seq |-> seen.offset + frame[c], event |-> c] : c \in Unsealed}
  /\ GoTo(IF Unsealed = {} THEN "publish" ELSE "record")
  /\ KeepQueue
  /\ UNCHANGED <<run, promotion, evidence, projection, published, receipt, ledger, status>>

RecordSegment ==
  /\ At("record")
  /\ high' = [high EXCEPT ![doing] = Max({frame[c] : c \in Frames})]
  /\ GoTo("publish")
  /\ KeepQueue
  /\ UNCHANGED <<run, promotion, evidence, projected, receipt, frame, next, status>>

PublishFrames ==
  /\ At("publish")
  /\ published' = published \cup Frames
  /\ GoTo("project")
  /\ KeepQueue
  /\ UNCHANGED <<run, promotion, evidence, journal, projection, receipt, ledger, status>>

PutProjection ==
  /\ At("project")
  /\ projection' = [projection EXCEPT ![at] = seen.offset + Max({frame[c] : c \in Frames})]
  /\ Report(verified[at])
  /\ KeepQueue
  /\ UNCHANGED <<run, promotion, evidence, journal, published, receipt, ledger>>

(* Whatever goes wrong there is only noted: the projection is awaited.     *)
ProjectionFails ==
  /\ step \in {"append", "seal", "record", "publish", "project"}
  /\ Upset
  /\ Report("awaiting")
  /\ UNCHANGED <<queue, run, promotion, evidence, projected, receipt, ledger>>

-----------------------------------------------------------------------------
(* All Checkpoints were looked at.  A cancel stops the calls it can, and   *)
(* ends the job whatever is left; otherwise what is left is waited for.    *)
Settle ==
  /\ At("settle")
  /\ IF seen.cancel
     THEN LET open == {c \in Batch[doing] : status[c] \notin Settled}
              calls == {<<c, Latest(c)>> : c \in open} \cap dispatched
          IN
          /\ status' = [c \in Checkpoints |-> IF c \in open THEN "canceled" ELSE status[c]]
          /\ \E stopped \in SUBSET calls :
               call' = [c \in Checkpoints |-> [a \in Attempts |->
                 IF <<c, a>> \in stopped THEN "ended" ELSE call[c][a]]]
          /\ GoTo("candidate") /\ UNCHANGED <<queue>>
     ELSE /\ IF \A c \in Batch[doing] : status[c] \in Settled
             THEN GoTo("candidate") /\ UNCHANGED <<queue, status>>
             ELSE Finish("retry_wait")
          /\ UNCHANGED call
  /\ UNCHANGED <<run, promotion, deadline, dispatched, result, verified, projected, receipt,
                 ledger, upsets>>

(* The accepted evidence of the Run, of manual evaluation and of training. *)
Evidence == [checkpoint : {c \in Checkpoints : verified[c] = "accepted"}, by : {"manual"}]
            \cup [checkpoint : trained, by : {"training"}]
Lowest == Min({e.checkpoint : e \in Evidence})
Twice == {e.checkpoint : e \in {d \in Evidence : d.by = "manual"}} \cap trained

(* _promotion_candidate takes the minimum of tuples whose last member has  *)
(* no order: with two results of the lowest Checkpoint it raises, with two *)
(* of another one it may, as the documents are listed.                     *)
FindCandidate ==
  /\ At("candidate")
  /\ CASE Evidence = {} /\ promotion = None ->
            GoTo("receipt") /\ UNCHANGED <<queue, status>>
       [] Evidence = {} /\ promotion # None -> Finish("failed")
       [] Evidence # {} ->
            \/ /\ Lowest \notin Twice
               /\ LET lowest == CHOOSE e \in Evidence : e.checkpoint = Lowest IN
                  IF promotion \notin {None, lowest}
                  THEN Finish("blocked")
                  ELSE /\ candidate' = lowest
                       /\ step' = IF promotion = None THEN "promote" ELSE "summary"
                       /\ UNCHANGED <<queue, doing, todo, seen, status>>
            \/ Twice # {} /\ Finish("failed")
  /\ UNCHANGED <<run, promotion, evidence, projected, receipt, ledger, upsets>>

(* Training may have promoted since, before or after _promote looks again. *)
Promote ==
  /\ At("promote")
  /\ \/ /\ promotion = None
        /\ promotion' = candidate /\ GoTo("summary") /\ UNCHANGED <<queue, status>>
     \/ /\ promotion = candidate
        /\ GoTo("summary") /\ UNCHANGED <<queue, status, promotion>>
     \/ /\ promotion \notin {None, candidate}
        /\ promotion.checkpoint <= candidate.checkpoint
        /\ Finish("blocked") /\ UNCHANGED promotion
     \/ promotion # None /\ Finish("failed") /\ UNCHANGED promotion
  /\ UNCHANGED <<run, evidence, projected, receipt, ledger, upsets>>

(* _ensure_promotion_projection.                                           *)
Summarize ==
  /\ At("summary")
  /\ GoTo("receipt")
  /\ KeepQueue
  /\ UNCHANGED <<run, promotion, evidence, projected, receipt, ledger, status>>

SummaryFails ==
  /\ At("summary") /\ Upset
  /\ Finish("retry_wait")
  /\ UNCHANGED <<run, promotion, evidence, projected, receipt, ledger>>

Outcome == IF seen.cancel THEN "canceled"
           ELSE IF \E c \in Batch[doing] : status[c] \in {"failed", "expired"}
           THEN "failed" ELSE "succeeded"

Terminal == [state |-> Outcome, status |-> status, promotion |-> candidate]

(* The receipt is put once; another one that differs fails the job.        *)
PutReceipt ==
  /\ At("receipt")
  /\ CASE receipt[doing] = None ->
            /\ receipt' = [receipt EXCEPT ![doing] = Terminal]
            /\ GoTo("finish") /\ UNCHANGED <<queue, status>>
       [] receipt[doing] = Terminal ->
            GoTo("finish") /\ UNCHANGED <<queue, status, receipt>>
       [] receipt[doing] \notin {None, Terminal} -> Finish("failed") /\ UNCHANGED receipt
  /\ UNCHANGED <<run, promotion, evidence, projected, ledger, upsets>>

FinishJob ==
  /\ At("finish")
  /\ Finish(Outcome)
  /\ UNCHANGED <<run, promotion, evidence, projected, receipt, ledger, upsets>>

(* An exception elsewhere fails the job; a worker that dies is replaced by *)
(* one that queues it again.                                               *)
Raises ==
  /\ doing # None
  /\ step \notin {"submit", "append", "seal", "record", "publish", "project", "summary",
                  "finish"}
  /\ Upset
  /\ Finish("failed")
  /\ UNCHANGED <<run, promotion, evidence, projected, receipt, ledger>>

WorkerDies ==
  /\ doing # None
  /\ Upset
  /\ Finish("queued")
  /\ UNCHANGED <<run, promotion, evidence, projected, receipt, ledger>>

-----------------------------------------------------------------------------
Advance ==
  \/ \E j \in Jobs : Claim(j)
  \/ Admit \/ TakeLease \/ LeaseIsTaken \/ Look \/ Verify \/ Prepare \/ Submit \/ Dispatch
  \/ TerminalStatus \/ AppendEvent \/ SealSegment \/ RecordSegment \/ PublishFrames
  \/ PutProjection \/ Settle \/ FindCandidate \/ Promote \/ Summarize \/ PutReceipt
  \/ FinishJob

Goes == SubmitFails \/ ProjectionFails \/ SummaryFails \/ Raises \/ WorkerDies

Next ==
  \/ \E j \in Jobs : Enqueue(j) \/ RequestCancel(j) \/ Retry(j)
  \/ \E c \in Checkpoints : TrainingAccepts(c)
  \/ TrainingStarts \/ TrainingPromotes \/ TrainingEnds \/ TrainingIsInterrupted
  \/ LeaseExpires \/ RetryTraining \/ PutManifest
  \/ \E c \in Checkpoints, a \in Attempts :
       AttemptExpires(c, a) \/ \E v \in Verdicts : Upload(c, a, v)
  \/ Advance \/ Goes

Spec == Init /\ [][Next]_vars

FairSpec ==
  /\ Spec
  /\ WF_vars(Advance) /\ WF_vars(TrainingStarts) /\ WF_vars(TrainingEnds)
  /\ WF_vars(LeaseExpires) /\ WF_vars(PutManifest)
  /\ \A c \in Checkpoints, a \in Attempts : WF_vars(AttemptExpires(c, a))
-----------------------------------------------------------------------------
(* Every variable keeps its kind of value.                                 *)
Steps == {"idle", "admit", "lease", "look", "verify", "prepare", "submit", "dispatch",
          "terminal", "append", "seal", "record", "publish", "project", "settle",
          "candidate", "promote", "summary", "receipt", "finish"}

TypeOK ==
  /\ job \in [Jobs -> {"absent", "queued", "running", "retry_wait", "blocked", "succeeded",
                       "failed", "canceled"}]
  /\ cancel \in [Jobs -> BOOLEAN]
  /\ training \in {"active", "ended", "retried"} /\ retries \in Nat
  /\ lease \in {"none", "training", "job"}
  /\ trained \subseteq Checkpoints
  /\ promotion \in Promotions \cup {None} /\ candidate \in Promotions \cup {None}
  /\ deadline \in [Checkpoints -> [Attempts -> {"none", "live", "late"}]]
  /\ dispatched \subseteq Checkpoints \X Attempts
  /\ call \in [Checkpoints -> [Attempts -> {"none", "called", "ended"}]]
  /\ result \in [Checkpoints -> {None} \cup [attempt : Attempts, verdict : Verdicts]]
  /\ verified \in [Checkpoints -> {None} \cup Verdicts]
  /\ \A e \in journal : e.seq \in Nat \ {0} /\ e.event \in Checkpoints
  /\ projection \in [Checkpoints -> Nat]
  /\ published \subseteq Checkpoints
  /\ receipt \in [Jobs -> Receipts \cup {None}]
  /\ frame \in [Checkpoints -> Nat] /\ next \in [Jobs -> Nat] /\ high \in [Jobs -> Nat]
  /\ doing \in Jobs \cup {None} /\ step \in Steps /\ todo \subseteq Checkpoints
  /\ seen \in [terminal : BOOLEAN, cancel : BOOLEAN, offset : Nat,
              own : {"none", "live", "expired"}]
  /\ status \in [Checkpoints -> Statuses]
  /\ doing # None => job[doing] = "running"
  /\ upsets \in 0..MaxUpsets

(* A job that succeeded kept its word for every Checkpoint of its batch,   *)
(* through deaths, cancels and retries: it has a verdict, the journal and  *)
(* the service have its event, and what is promoted is not above it when   *)
(* it was accepted.                                                        *)
SuccessIsBacked ==
  \A j \in Jobs : job[j] = "succeeded" =>
    /\ receipt[j] # None /\ receipt[j].state = "succeeded"
    /\ \A c \in Batch[j] :
         /\ verified[c] \in {"accepted", "rejected"}
         /\ c \in published /\ \E e \in journal : e.event = c
         /\ verified[c] = "accepted" => promotion # None /\ promotion.checkpoint <= c

(* Before an Attempt of training has its terminal receipt nothing is       *)
(* written to the journal of the Run or to its service, and no result is   *)
(* marked as projected, whatever the verdicts, cancels, retries and        *)
(* deaths.  Later, when an operator may start further Attempts at any      *)
(* time, a job projects beside one that holds the lease only if the lease  *)
(* it took itself has run out since (which no step of the projection       *)
(* asks: it is a lease of a minute, renewed once per Checkpoint).          *)
ProjectionAwaitsTraining ==
  /\ training = "active" /\ retries = 0 =>
       journal = {} /\ published = {} /\ \A c \in Checkpoints : projection[c] = 0
  /\ step \in {"seal", "record", "publish", "project"} /\ lease = "training" =>
       seen.own = "expired"

(* While training goes on, the Run's promotion is the lowest Checkpoint    *)
(* that training accepted: put_terminal of the supervisor asserts it, and  *)
(* a promotion is never replaced.                                          *)
PromotionIsLowest ==
  training = "active" /\ trained # {} /\ promotion # None =>
    promotion.checkpoint = Min(trained)

(* A job that waits or runs ends, whatever becomes of its calls, once      *)
(* training has ended.  Requests are bounded: in the end no job is active. *)
NoJobIsActive == \A j \in Jobs : job[j] \notin {"queued", "running", "retry_wait"}
JobsEnd == <>[]NoJobIsActive

(* The journal stays readable: no two events have a sequence, no sequence  *)
(* is skipped.                                                             *)
JournalStaysReadable ==
  /\ \A d, e \in journal : d.seq = e.seq => d = e
  /\ {e.seq : e \in journal} = 1..Cardinality({e.seq : e \in journal})
=============================================================================
