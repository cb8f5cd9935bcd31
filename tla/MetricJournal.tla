---------------------------- MODULE MetricJournal ----------------------------
(***************************************************************************)
(* The metric events of one Run on their way from the task's ledger to     *)
(* the journal in R2 and to the metrics service (metric_store.py,          *)
(* supervisor_ledger.py, run_supervisor.py, selected_delivery.py).         *)
(*                                                                         *)
(* The learner and the supervisor append events to metric_frames; the row  *)
(* id an event gets is its sequence.  The supervisor seals the rows above  *)
(* its high-water mark into create-only segments, a batch at a time, and   *)
(* publishes pending rows to the service under their sequence, in either   *)
(* order.  The ledger dies with the task.  A restart replays the segments  *)
(* of every Attempt into a new ledger, whose high-water mark is zero, and  *)
(* records the metrics of the verified evaluations again.                  *)
(*                                                                         *)
(* The id column is AUTOINCREMENT: an insert that meets an event already   *)
(* there changes no row and still takes a number.                          *)
(***************************************************************************)
EXTENDS Integers, FiniteSets, FiniteSetsExt

CONSTANTS
  Metrics,      \* measurements of the learner, ordered by step
  IdleMetrics,  \* measurements of the drains: a sequence, one for each life of the task
  Results,      \* evaluation results, each with its metric event
  Deliveries,   \* manifest.tracking: the services the Run may be bound to
  Limit,        \* METRIC_SEGMENT_EVENTS
  MaxRestarts,  \* bound of the model: restarts of the task
  MaxFaults     \* bound of the model: exceptions

IdleEvents == {IdleMetrics[i] : i \in DOMAIN IdleMetrics}
Events == Metrics \cup IdleEvents \cup Results

JournalAssumption ==
  /\ Deliveries \subseteq {"wandb", "mlflow", "local_only"}
  /\ Limit \in Nat \ {0} /\ MaxRestarts \in Nat /\ MaxFaults \in Nat
  /\ IsFiniteSet(Events) /\ Metrics \subseteq Nat
  /\ DOMAIN IdleMetrics = 1..(MaxRestarts + 1)

VARIABLES
  \* R2.
  segments,  \* metric-segments: the attempt that sealed a segment, and its rows
  verified,  \* the results with a verified-result.json
  \* The metrics service.
  delivery,  \* the service the Run is bound to
  logged,    \* the points it has accepted: sequence and event
  \* The ledger of the task.
  seqOf,     \* metric_frames.id of an event, 0 if it has no row
  status,    \* metric_frames.status; "pending" stands for failed_retryable too
  next,      \* the next id
  high,      \* MAX(metric_segments.last_event_seq)
  \* The supervisor.
  pc,        \* "down", "recover", "run", "drain", "final", "failing", "failed", "done"
  put,       \* last sequence of a segment put and not yet recorded, or 0
  settling,  \* the result verified and not yet recorded
  replaying, \* the segments left to replay
  restoring, \* the verified results left to record
  attempt,
  \* Bounds and history.
  restarts, faults,
  spent      \* a number was taken by an event already there

ledger == <<seqOf, status, next, high>>
control == <<put, settling, replaying, restoring, attempt, restarts, delivery>>
vars == <<segments, verified, logged, ledger, pc, control, faults, spent>>

Row == [seq : Nat, event : Events]
Rows == {e \in Events : seqOf[e] # 0}
JournalRows(stored) == UNION {s.rows : s \in stored}

Init ==
  /\ segments = {} /\ verified = {} /\ logged = {}
  /\ delivery \in Deliveries
  /\ seqOf = [e \in Events |-> 0] /\ status = [e \in Events |-> "none"]
  /\ next = 1 /\ high = 0
  /\ pc = "run" /\ put = 0 /\ settling = {}
  /\ replaying = {} /\ restoring = {}
  /\ attempt = 1 /\ restarts = 0 /\ faults = 0 /\ spent = FALSE

-----------------------------------------------------------------------------
(* append_metrics and enqueue_event.  A row that is already there keeps    *)
(* its sequence and its status.                                            *)
Insert(e) ==
  /\ next' = next + 1
  /\ seqOf' = IF e \in Rows THEN seqOf ELSE [seqOf EXCEPT ![e] = next]
  /\ status' = IF e \in Rows THEN status ELSE [status EXCEPT ![e] = "pending"]
  /\ spent' = (spent \/ e \in Rows)
  /\ UNCHANGED high

Serving == pc \in {"run", "drain", "final", "failing"}
Idle == put = 0 /\ settling = {}

(* A measurement is a new event: nobody has seen its content before.       *)
Fresh(e) == e \notin Rows /\ \A r \in JournalRows(segments) \cup logged : r.event # e

Append(e) ==
  /\ pc = "run" /\ e \in Metrics /\ Fresh(e)
  /\ \A d \in Metrics : d < e => ~Fresh(d)
  /\ Insert(e)
  /\ UNCHANGED <<segments, verified, logged, pc, control, faults>>

(* The supervisor verifies a result, then records its metrics.             *)
Settle(r) ==
  /\ Serving /\ Idle /\ r \notin verified
  /\ verified' = verified \cup {r}
  /\ settling' = {r}
  /\ UNCHANGED <<segments, logged, ledger, pc, put, replaying, restoring, attempt,
                 restarts, delivery, faults, spent>>

RecordMetrics(r) ==
  /\ r \in settling
  /\ Insert(r)
  /\ settling' = {}
  /\ UNCHANGED <<segments, verified, logged, pc, put, replaying, restoring, attempt,
                 restarts, delivery, faults>>

-----------------------------------------------------------------------------
(* Sealing.  While the learner runs a small batch may wait for its time,   *)
(* so Seal need not happen before Publish; a drain forces it.              *)
Unsealed == {e \in Rows : seqOf[e] > high}

Batch == {e \in Unsealed : Cardinality({d \in Unsealed : seqOf[d] < seqOf[e]}) < Limit}

Segment(batch) == [attempt |-> attempt, rows |-> {[seq |-> seqOf[e], event |-> e] : e \in batch}]

SealPut ==
  /\ Serving /\ Idle /\ Unsealed # {}
  /\ segments' = segments \cup {Segment(Batch)}
  /\ put' = Max({seqOf[e] : e \in Batch})
  /\ UNCHANGED <<verified, logged, ledger, pc, settling, replaying, restoring, attempt,
                 restarts, delivery, faults, spent>>

SealRecord ==
  /\ put # 0
  /\ high' = put /\ put' = 0
  /\ UNCHANGED <<segments, verified, logged, seqOf, status, next, pc, settling, replaying,
                 restoring, attempt, restarts, delivery, faults, spent>>

(* An exception ends the loop the supervisor is in: the active loop and    *)
(* the drains give way to the failure drain, and that to the receipt of a  *)
(* failed Attempt.                                                         *)
Raise == pc' = IF pc = "failing" THEN "failed" ELSE "failing"

(* The put of a segment fails, although R2 may have stored it.             *)
SealFails(stored) ==
  /\ Serving /\ Idle /\ Unsealed # {} /\ faults < MaxFaults
  /\ segments' = IF stored THEN segments \cup {Segment(Batch)} ELSE segments
  /\ Raise
  /\ faults' = faults + 1
  /\ UNCHANGED <<verified, logged, ledger, control, spent>>

(* Any other exception, also between verifying a result and recording it.  *)
Exception ==
  /\ Serving /\ faults < MaxFaults
  /\ Raise
  /\ put' = 0 /\ settling' = {}
  /\ faults' = faults + 1
  /\ UNCHANGED <<segments, verified, logged, ledger, replaying, restoring, attempt,
                 restarts, delivery, spent>>

-----------------------------------------------------------------------------
(* Delivery.  W&B takes the sequence for its step and drops a step below   *)
(* the highest it has committed; MLflow keeps every point.                 *)
Pending == {e \in Rows : status[e] = "pending"}
RemoteHighWater == Max({0} \cup {p.seq : p \in logged})
LocalHighWater == Max({0} \cup {seqOf[e] : e \in {d \in Rows : status[d] = "published"}})

Deliver(e) ==
  LET point == [seq |-> seqOf[e], event |-> e]
  IN  logged' = IF delivery = "wandb" /\ seqOf[e] <= RemoteHighWater
                THEN logged ELSE logged \cup {point}

(* Rows are published in the order of their sequence, one at a time.  The  *)
(* call may fail after the service took the point: the row stays pending.  *)
Publish(e) ==
  /\ Serving /\ Idle /\ delivery # "local_only"
  /\ e \in Pending /\ \A d \in Pending : seqOf[e] <= seqOf[d]
  /\ Deliver(e)
  /\ \/ status' = [status EXCEPT ![e] = "published"] /\ UNCHANGED faults
     \/ status' = status /\ faults < MaxFaults /\ faults' = faults + 1
  /\ UNCHANGED <<segments, verified, seqOf, next, high, pc, control, spent>>

(* mark_pending_frames_local_only asks nothing of the high-water mark.     *)
MarkLocalOnly ==
  /\ Serving /\ Idle /\ delivery = "local_only" /\ Pending # {}
  /\ status' = [e \in Events |-> IF e \in Pending THEN "local_only" ELSE status[e]]
  /\ UNCHANGED <<segments, verified, logged, seqOf, next, high, pc, control, faults, spent>>

-----------------------------------------------------------------------------
(* The end of an Attempt.  The learner exits; the supervisor drains, adds  *)
(* the idle time of the drain as an event of its own, and drains again.    *)
LearnerExits ==
  /\ pc = "run" /\ Idle
  /\ pc' = "drain"
  /\ UNCHANGED <<segments, verified, logged, ledger, control, faults, spent>>

Converged == Idle /\ Pending = {} /\ Unsealed = {}

(* Faulty variant: the second drain is left out.                           *)
DrainEnds_Once ==
  /\ pc = "drain" /\ Converged
  /\ Insert(IdleMetrics[restarts + 1])
  /\ pc' = "done"
  /\ UNCHANGED <<segments, verified, logged, control, faults>>

DrainEnds ==
  /\ pc = "drain" /\ Converged
  /\ Insert(IdleMetrics[restarts + 1])
  /\ pc' = "final"
  /\ UNCHANGED <<segments, verified, logged, control, faults>>

FinalDrainEnds ==
  /\ pc = "final" /\ Converged
  /\ delivery # "local_only" => RemoteHighWater >= LocalHighWater
  /\ pc' = "done"
  /\ UNCHANGED <<segments, verified, logged, ledger, control, faults, spent>>

(* The failure drain converges or reaches its deadline.                    *)
FailureDrainEnds ==
  /\ pc = "failing" /\ Idle
  /\ pc' = "failed"
  /\ UNCHANGED <<segments, verified, logged, ledger, control, faults, spent>>

-----------------------------------------------------------------------------
(* The task dies with its ledger.                                          *)
Crash ==
  /\ pc \in {"recover", "run", "drain", "final", "failing"} /\ restarts < MaxRestarts
  /\ pc' = "down"
  /\ seqOf' = [e \in Events |-> 0] /\ status' = [e \in Events |-> "none"]
  /\ next' = 1 /\ high' = 0
  /\ put' = 0 /\ settling' = {} /\ replaying' = {} /\ restoring' = {}
  /\ UNCHANGED <<segments, verified, logged, attempt, restarts, delivery, faults, spent>>

(* Faulty variant: an Attempt replays the segments it sealed itself.       *)
Restart_OwnSegments(a) ==
  /\ restarts < MaxRestarts
  /\ \/ pc = "down" /\ a \in {attempt, attempt + 1}
     \/ pc \in {"failed", "done"} /\ a = attempt + 1
  /\ attempt' = a
  /\ restarts' = restarts + 1
  /\ pc' = "recover"
  /\ replaying' = {s \in segments : s.attempt = a} /\ restoring' = verified
  /\ seqOf' = [e \in Events |-> 0] /\ status' = [e \in Events |-> "none"]
  /\ next' = 1 /\ high' = 0
  /\ UNCHANGED <<segments, verified, logged, put, settling, faults, spent, delivery>>

(* dstack starts the same Attempt again, or the operator's retry the next  *)
(* one.  An Attempt that ended is only ever followed by the next one.      *)
Restart(a) ==
  /\ restarts < MaxRestarts
  /\ \/ pc = "down" /\ a \in {attempt, attempt + 1}
     \/ pc \in {"failed", "done"} /\ a = attempt + 1
  /\ attempt' = a
  /\ restarts' = restarts + 1
  /\ pc' = "recover"
  /\ replaying' = segments /\ restoring' = verified
  /\ seqOf' = [e \in Events |-> 0] /\ status' = [e \in Events |-> "none"]
  /\ next' = 1 /\ high' = 0
  /\ UNCHANGED <<segments, verified, logged, put, settling, faults, spent, delivery>>

(* Segments are replayed in the order of their Attempts, and within one in *)
(* the order of their keys, which begin with the first and last sequence.  *)
Sequences(s) == {r.seq : r \in s.rows}
(* Faulty variant: the keys are taken as the bucket lists them.            *)
SortsBefore_Listed(s, t) == FALSE

SortsBefore(s, t) ==
  \/ s.attempt < t.attempt
  \/ s.attempt = t.attempt /\ Min(Sequences(s)) < Min(Sequences(t))
  \/ s.attempt = t.attempt /\ Min(Sequences(s)) = Min(Sequences(t))
       /\ Max(Sequences(s)) < Max(Sequences(t))

(* Every row of the segment takes the next number, in order, and the event *)
(* of the row keeps it unless the ledger has the event already.            *)
Replayed(s) == {r.event : r \in s.rows}
Number(s, e) ==
  LET row == CHOOSE r \in s.rows : r.event = e
  IN  next + Cardinality({r \in s.rows : r.seq < row.seq})

Replay(s) ==
  /\ pc = "recover" /\ s \in replaying /\ \A t \in replaying : ~SortsBefore(t, s)
  /\ seqOf' = [e \in Events |-> IF e \in Replayed(s) \ Rows THEN Number(s, e) ELSE seqOf[e]]
  /\ status' = [e \in Events |-> IF e \in Replayed(s) \ Rows THEN "pending" ELSE status[e]]
  /\ next' = next + Cardinality(s.rows)
  /\ spent' = (spent \/ Replayed(s) \cap Rows # {})
  /\ replaying' = replaying \ {s}
  /\ UNCHANGED <<segments, verified, logged, high, pc, put, settling, restoring, attempt,
                 restarts, delivery, faults>>

(* Recovery records the metrics of a verified result, replayed or not.     *)
RestoreResult(r) ==
  /\ pc = "recover" /\ replaying = {} /\ r \in restoring
  /\ Insert(r)
  /\ restoring' = restoring \ {r}
  /\ UNCHANGED <<segments, verified, logged, pc, put, settling, replaying, attempt,
                 restarts, delivery, faults>>

Recovered ==
  /\ pc = "recover" /\ replaying = {} /\ restoring = {}
  /\ pc' = "run"
  /\ UNCHANGED <<segments, verified, logged, ledger, control, faults, spent>>

Next ==
  \/ \E e \in Events : Append(e) \/ Publish(e)
  \/ \E r \in Results : Settle(r) \/ RecordMetrics(r) \/ RestoreResult(r)
  \/ SealPut \/ SealRecord \/ \E stored \in BOOLEAN : SealFails(stored)
  \/ Exception \/ MarkLocalOnly
  \/ LearnerExits \/ DrainEnds \/ FinalDrainEnds \/ FailureDrainEnds
  \/ Crash \/ \E a \in {attempt, attempt + 1} : Restart(a)
  \/ \E s \in replaying : Replay(s)
  \/ Recovered

Spec == Init /\ [][Next]_vars

(* The supervisor's loop keeps stepping; nobody promises that the learner  *)
(* measures, exits, or that a crashed task is started again.               *)
Drains ==
  \/ SealPut \/ SealRecord \/ MarkLocalOnly \/ DrainEnds \/ FinalDrainEnds
  \/ \E e \in Events : Publish(e)
  \/ \E r \in Results : RecordMetrics(r)

FairSpec == Spec /\ WF_vars(Drains /\ pc \in {"drain", "final"})

-----------------------------------------------------------------------------
TypeOK ==
  /\ segments \subseteq [attempt : Nat, rows : SUBSET Row]
  /\ verified \subseteq Results /\ logged \subseteq Row
  /\ seqOf \in [Events -> Nat]
  /\ status \in [Events -> {"none", "pending", "published", "local_only"}]
  /\ next \in Nat \ {0} /\ high \in Nat
  /\ pc \in {"down", "recover", "run", "drain", "final", "failing", "failed", "done"}
  /\ put \in Nat /\ settling \subseteq Results
  /\ replaying \subseteq segments /\ restoring \subseteq Results
  /\ attempt \in Nat /\ restarts \in 0..MaxRestarts /\ faults \in 0..MaxFaults
  /\ spent \in BOOLEAN
  /\ \A e \in Events : (seqOf[e] = 0) <=> (status[e] = "none")

(* After recovery the ledger holds every event any Attempt ever sealed.    *)
(* METRICS.md:711 "A retry reconstructs its local SQLite state from those  *)
(* segments before producing new events."                                  *)
NothingSealedIsLost ==
  pc \in {"run", "drain", "final", "failing", "failed", "done"} =>
    \A r \in JournalRows(segments) : r.event \in Rows

(* Every event of the ledger is at the service.                            *)
Delivered == \A e \in Rows : \E p \in logged : p.event = e

(* An Attempt that reports a complete drain left nothing behind: its rows  *)
(* are in R2, and are published or, without a service, marked local only;  *)
(* the metrics of every verified result are among them; the receipt's two  *)
(* high-water marks agree (run_contracts.py:798); and MLflow, which keeps  *)
(* every point, has every event.                                           *)
DrainIsComplete ==
  pc = "done" =>
    /\ \A e \in Rows : [seq |-> seqOf[e], event |-> e] \in JournalRows(segments)
    /\ \A e \in Rows : status[e] = IF delivery = "local_only" THEN "local_only" ELSE "published"
    /\ verified \subseteq Rows
    /\ delivery # "local_only" => high = LocalHighWater
    /\ delivery = "mlflow" => Delivered

(* What read_control_journal asks of the segments of all Attempts: one     *)
(* event per sequence, and no sequence missing.                            *)
Readable(stored) ==
  LET rows == JournalRows(stored) IN
  /\ \A r, q \in rows : r.seq = q.seq => r.event = q.event
  /\ {r.seq : r \in rows} = 1..Cardinality({r.seq : r \in rows})

(* Until a number is spent on an event already there, the journal can be   *)
(* read at any time, whatever failed and whenever the task restarted.      *)
ReadableUnlessNumbersAreSpent == ~spent => Readable(segments)

(* The drains end, with a complete drain or an exception; restarts are     *)
(* bounded, so no drain is left in the end.                                *)
Drained == pc \notin {"drain", "final"}
DrainsEnd == <>[]Drained

(* "Its terminal receipt ... proves" the delivery (METRICS.md:743), but W&B *)
(* takes no point at a step it has passed.                                 *)
NoPointIsDropped == pc = "done" /\ delivery = "wandb" => Delivered

(* The rule of read_control_journal for a Run whose drain was complete:    *)
(* "metric journal sequence has a gap", "conflicting metric journal event  *)
(* sequence".                                                              *)
CompleteJournalIsReadable == pc = "done" => Readable(segments)

(* METRICS.md:691 "Online delivery to the selected service uses stable     *)
(* sequence, step, and value identity, so replay after an interrupted      *)
(* local acknowledgement cannot append a second scientific point."  A      *)
(* second restart breaks this: it replays segments that overlap, and the   *)
(* numbers of the repeated rows move later events to new sequences.        *)
NoSecondPoint == \A p, q \in logged : p.event = q.event => p.seq = q.seq
=============================================================================
