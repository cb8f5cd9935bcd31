------------------------- MODULE CheckpointMonitoring -------------------------
(***************************************************************************)
(* Checkpoint Monitoring: the supervisor's queue of monitored Checkpoints  *)
(* (monitor_supervisor.py), the worker processes on the same host          *)
(* (monitor_backend.py, monitor_bootstrap.py) and what they do             *)
(* (monitor_worker.py, monitor_work.py, monitor_delivery.py).              *)
(*                                                                         *)
(* A Checkpoint is executed at most twice.  An execution has a directory,  *)
(* a main worker and, during the final drain, a helper; both claim         *)
(* episodes of the manifest, commit them to the store and only then report *)
(* them complete in the directory.  The main worker waits for all episodes *)
(* and for its helper, and commits the result.  The supervisor works from  *)
(* rows it has read once; a write that fails makes it forget them, whether *)
(* or not the store took the write.  Rows are visited in any order, a row  *)
(* at a time.                                                              *)
(***************************************************************************)
EXTENDS Naturals, FiniteSets

CONSTANTS
  Checkpoints, Episodes,
  Active, Cpus,  \* active_workers and task_cpus
  MaxFaults,     \* bound of the model: deaths and failures of any kind
  Nothing

MonitoringAssumption ==
  /\ Active \in Nat \ {0} /\ Cpus \in Nat /\ Active <= Cpus /\ MaxFaults \in Nat
  /\ Nothing \notin Checkpoints

Executions == 1..2
Parts == {"main", "helper"}
Processes == Checkpoints \X Executions \X Parts
Settled == {"complete", "failed", "canceled"}
Statuses == {"pending", "submitting", "running", "verified"} \cup Settled
Row == [status : Statuses, attempts : 0..2]

VARIABLES
  \* The object store.
  state,      \* state.json of a Checkpoint's evaluation
  committed,  \* the episodes whose episode.json is stored
  result,     \* the Checkpoints whose result.json is stored
  \* The supervisor.
  published,  \* the Checkpoints of the Run
  rows,       \* the rows it has read
  turn,       \* the Checkpoint it is submitting
  phase,      \* "active", "final"; "canceled", "expired"
  \* The host.
  proc,       \* the processes
  doing,      \* the episode of a process
  claimed, local,  \* next.json and the completed episodes of a directory
  faults

store == <<state, committed, result>>
host == <<proc, doing, claimed, local>>
vars == <<store, published, rows, turn, phase, host, faults>>

Idle == [p \in Processes |-> "none"]
NoEpisode == [p \in Processes |-> Nothing]
Empty == [d \in Checkpoints \X Executions |-> {}]

Init ==
  /\ state = [c \in Checkpoints |-> [status |-> "pending", attempts |-> 0]]
  /\ committed = [c \in Checkpoints |-> {}] /\ result = {}
  /\ published = {} /\ rows = [c \in Checkpoints |-> Nothing] /\ turn = Nothing
  /\ phase = "active" /\ faults = 0
  /\ proc = Idle /\ doing = NoEpisode /\ claimed = Empty /\ local = Empty

Fault == faults < MaxFaults /\ faults' = faults + 1
Running(p) == proc[p] \in {"claim", "episode", "wait"}
Held(c) == rows[c] # Nothing

-----------------------------------------------------------------------------
(* The workers.                                                            *)
Claim(c, k, part) ==
  LET p == <<c, k, part>> IN
  /\ proc[p] = "claim"
  /\ IF claimed[<<c, k>>] = Episodes
     THEN /\ proc' = [proc EXCEPT ![p] = IF part = "main" THEN "wait" ELSE "ok"]
          /\ UNCHANGED <<doing, claimed>>
     ELSE \E e \in Episodes \ claimed[<<c, k>>] :
            /\ claimed' = [claimed EXCEPT ![<<c, k>>] = @ \cup {e}]
            /\ doing' = [doing EXCEPT ![p] = e]
            /\ proc' = [proc EXCEPT ![p] = "episode"]
  /\ UNCHANGED <<store, published, rows, turn, phase, local, faults>>

(* after_pending: the local completion follows the commit.                 *)
CommitEpisode(c, k, part) ==
  LET p == <<c, k, part>> IN
  /\ proc[p] = "episode" /\ doing[p] \notin committed[c]
  /\ committed' = [committed EXCEPT ![c] = @ \cup {doing[p]}]
  /\ UNCHANGED <<state, result, published, rows, turn, phase, host, faults>>

(* Faulty variant: the local completion does not wait for the commit.      *)
CompleteEpisode_AtOnce(c, k, part) ==
  LET p == <<c, k, part>> IN
  /\ proc[p] = "episode"
  /\ local' = [local EXCEPT ![<<c, k>>] = @ \cup {doing[p]}]
  /\ proc' = [proc EXCEPT ![p] = "claim"] /\ doing' = [doing EXCEPT ![p] = Nothing]
  /\ UNCHANGED <<store, published, rows, turn, phase, claimed, faults>>

CompleteEpisode(c, k, part) ==
  LET p == <<c, k, part>> IN
  /\ proc[p] = "episode" /\ doing[p] \in committed[c]
  /\ local' = [local EXCEPT ![<<c, k>>] = @ \cup {doing[p]}]
  /\ proc' = [proc EXCEPT ![p] = "claim"] /\ doing' = [doing EXCEPT ![p] = Nothing]
  /\ UNCHANGED <<store, published, rows, turn, phase, claimed, faults>>

(* A result that is stored already is taken over.                          *)
Finalize(c, k) ==
  LET p == <<c, k, "main">> IN
  /\ \/ proc[p] = "wait" /\ local[<<c, k>>] = Episodes /\ proc[<<c, k, "helper">>] \in {"none", "ok"}
     \/ proc[p] = "claim" /\ c \in result
  /\ result' = result \cup {c}
  /\ proc' = [proc EXCEPT ![p] = "ok"]
  /\ UNCHANGED <<state, committed, published, rows, turn, phase, doing, claimed, local, faults>>

(* A worker raises (and reports it) or is killed.                          *)
WorkerFails(p) ==
  /\ Running(p) /\ Fault
  /\ proc' \in {[proc EXCEPT ![p] = "failed"], [proc EXCEPT ![p] = "dead"]}
  /\ doing' = [doing EXCEPT ![p] = Nothing]
  /\ UNCHANGED <<store, published, rows, turn, phase, claimed, local>>

Worker(c, k, part) ==
  Claim(c, k, part) \/ CommitEpisode(c, k, part) \/ CompleteEpisode(c, k, part)

-----------------------------------------------------------------------------
(* SameHostEvalBackend.                                                    *)
Limit == IF phase = "active" THEN Active ELSE Cpus
Slots == Limit - Cardinality({p \in Processes : Running(p)})  \* available_slots; not below 0

(* Faulty variant: the helpers of an execution are not looked at.          *)
Poll_MainOnly(c, k) ==
  LET main == proc[<<c, k, "main">>] IN
  IF main \in {"none", "failed", "dead"} THEN "failed"
  ELSE IF main = "ok" THEN "succeeded"
  ELSE "running"

Poll(c, k) ==
  LET main == proc[<<c, k, "main">>]  helper == proc[<<c, k, "helper">>] IN
  IF main = "none" \/ helper \in {"failed", "dead"} THEN "failed"
  ELSE IF main \in {"failed", "dead"} THEN "failed"
  ELSE IF main = "ok" /\ ~Running(<<c, k, "helper">>) THEN "succeeded"
  ELSE "running"

(* cancel and forget: its processes are gone, and so is the directory.     *)
Reclaim(c, k) ==
  /\ proc' = [p \in Processes |-> IF p[1] = c /\ p[2] = k THEN "none" ELSE proc[p]]
  /\ doing' = [p \in Processes |-> IF p[1] = c /\ p[2] = k THEN Nothing ELSE doing[p]]
  /\ claimed' = [claimed EXCEPT ![<<c, k>>] = {}] /\ local' = [local EXCEPT ![<<c, k>>] = {}]

(* cancel alone.                                                           *)
Killed(c, k) ==
  /\ proc' = [p \in Processes |-> IF p[1] = c /\ p[2] = k /\ Running(p) THEN "dead" ELSE proc[p]]
  /\ doing' = [p \in Processes |-> IF p[1] = c /\ p[2] = k THEN Nothing ELSE doing[p]]
  /\ UNCHANGED <<claimed, local>>

-----------------------------------------------------------------------------
(* The supervisor.                                                         *)
Publish(c) ==
  /\ phase = "active" /\ c \notin published
  /\ published' = published \cup {c}
  /\ UNCHANGED <<store, rows, turn, phase, host, faults>>

Read(c) ==
  /\ c \in published /\ ~Held(c)
  /\ rows' = [rows EXCEPT ![c] = state[c]]
  /\ UNCHANGED <<store, published, turn, phase, host, faults>>

(* _save, and what follows it.                                             *)
Put(c, row) ==
  /\ state' = [state EXCEPT ![c] = row]
  /\ rows' = [rows EXCEPT ![c] = row]
  /\ UNCHANGED <<committed, result, published, phase>>

Save(c, row) == Put(c, row) /\ UNCHANGED faults

Forgotten == [c \in Checkpoints |-> Nothing]

(* _save raises during training: the store has the row or has it not.      *)
SaveFails(c, row) ==
  /\ phase = "active" /\ Fault
  /\ state' \in {state, [state EXCEPT ![c] = row]}
  /\ rows' = Forgotten /\ turn' = Nothing
  /\ UNCHANGED <<committed, result, published, phase>>

Becomes(c, status) == [rows[c] EXCEPT !.status = status]
AfterFailure(c) == Becomes(c, IF rows[c].attempts < 2 THEN "pending" ELSE "failed")

Ended(c) ==
  /\ Held(c) /\ rows[c].status = "running" /\ turn = Nothing
  /\ phase \in {"active", "final"} /\ Poll(c, rows[c].attempts) # "running"

(* Whatever fails after a result was collected, its verification, the      *)
(* write of the row or the removal of the directory, counts as a failure   *)
(* of the execution: the row is written again, and only if that fails too  *)
(* does the pass end.                                                      *)
Collect(c) ==
  LET k == rows[c].attempts
      verified == Poll(c, k) = "succeeded" /\ c \in result
      row == IF verified THEN Becomes(c, "verified") ELSE AfterFailure(c)
  IN /\ Ended(c)
     /\ \/ Save(c, row) /\ Reclaim(c, k) /\ UNCHANGED turn
        \/ /\ verified /\ Fault
           /\ Put(c, AfterFailure(c)) /\ Reclaim(c, k) /\ UNCHANGED turn
        \/ \E last \in {row, AfterFailure(c)} : SaveFails(c, last) /\ Killed(c, k)

(* The result reaches the tracking service.                                *)
Deliver(c) ==
  /\ Held(c) /\ rows[c].status = "verified" /\ turn = Nothing /\ phase \in {"active", "final"}
  /\ \/ Save(c, Becomes(c, "complete")) /\ UNCHANGED turn
     \/ SaveFails(c, Becomes(c, "complete"))
  /\ UNCHANGED host

Admissible(c) ==
  /\ \A x \in published : Held(x)
  /\ c \in published /\ turn = Nothing /\ phase \in {"active", "final"}
  /\ Slots > 0
  /\ Cardinality({x \in published : rows[x].status = "running"}) < Limit

Intend(c) ==
  LET row == [status |-> "submitting", attempts |-> rows[c].attempts + 1] IN
  /\ Admissible(c)
  /\ \/ rows[c].status = "pending" /\ Save(c, row) /\ turn' = c
     \/ rows[c].status = "pending" /\ SaveFails(c, row)
     \/ /\ rows[c].status = "submitting" /\ turn' = c
        /\ UNCHANGED <<store, published, rows, phase, faults>>
  /\ UNCHANGED host

(* submit: an execution that runs or has a result is not started again.    *)
Submit(c) ==
  LET k == rows[c].attempts  main == proc[<<c, k, "main">>]
      started == [proc EXCEPT ![<<c, k, "main">>] = "claim"] IN
  /\ turn = c /\ turn' = Nothing
  /\ proc' = IF Running(<<c, k, "main">>) \/ main \in {"ok", "failed"} THEN proc ELSE started
  /\ Save(c, Becomes(c, "running")) \/ SaveFails(c, Becomes(c, "running"))
  /\ UNCHANGED <<doing, claimed, local>>

(* It may fail only when it has to start a process.                        *)
SubmitFails(c) ==
  LET row == AfterFailure(c) IN
  /\ turn = c /\ turn' = Nothing /\ Fault
  /\ proc[<<c, rows[c].attempts, "main">>] \in {"none", "dead"}
  /\ \/ state' = [state EXCEPT ![c] = row] /\ rows' = [rows EXCEPT ![c] = row]
     \/ /\ phase = "active"
        /\ state' \in {state, [state EXCEPT ![c] = row]} /\ rows' = Forgotten
  /\ UNCHANGED <<committed, result, published, phase, host>>

(* The final drain fills the slots with helpers.                           *)
Expandable(c, k) ==
  /\ phase = "final" /\ turn = Nothing
  /\ Held(c) /\ rows[c].status = "running" /\ k = rows[c].attempts
  /\ Running(<<c, k, "main">>) /\ claimed[<<c, k>>] # Episodes
  /\ proc[<<c, k, "helper">>] = "none"

(* Faulty variant: helpers are not counted against the slots.              *)
Expand_Freely(c, k) ==
  /\ Expandable(c, k)
  /\ proc' = [proc EXCEPT ![<<c, k, "helper">>] = "claim"]
  /\ UNCHANGED <<store, published, rows, turn, phase, doing, claimed, local, faults>>

Expand(c, k) ==
  /\ Expandable(c, k) /\ Slots > 0
  /\ proc' = [proc EXCEPT ![<<c, k, "helper">>] = "claim"]
  /\ UNCHANGED <<store, published, rows, turn, phase, doing, claimed, local, faults>>

(* A cancel request or the deadline of the Run, then every row.            *)
Stop(c) ==
  /\ phase \in {"canceled", "expired"} /\ turn = Nothing
  /\ Held(c) /\ rows[c].status \notin Settled
  /\ Save(c, Becomes(c, IF phase = "canceled" THEN "canceled" ELSE "failed"))
  /\ IF rows[c].attempts > 0 THEN Reclaim(c, rows[c].attempts) ELSE UNCHANGED host
  /\ UNCHANGED turn

Enter(next) ==
  /\ turn = Nothing
  /\ next = "final" => phase = "active"
  /\ next \in {"canceled", "expired"} => phase \in {"active", "final"} /\ published # {}
  /\ phase' = next
  /\ UNCHANGED <<store, published, rows, turn, host, faults>>

(* The supervisor dies, and its workers with it; the next Attempt has an   *)
(* empty host.                                                             *)
Restart ==
  /\ Fault
  /\ rows' = Forgotten /\ turn' = Nothing
  /\ phase' = IF phase = "final" THEN "active" ELSE phase
  /\ proc' = Idle /\ doing' = NoEpisode /\ claimed' = Empty /\ local' = Empty
  /\ UNCHANGED <<store, published>>

-----------------------------------------------------------------------------
Advance(c) ==
  \/ Read(c) \/ Collect(c) \/ Deliver(c) \/ Intend(c) \/ Submit(c) \/ Stop(c)

Next ==
  \/ \E c \in Checkpoints : Publish(c) \/ Advance(c) \/ SubmitFails(c)
  \/ \E c \in Checkpoints, k \in Executions : Finalize(c, k) \/ Expand(c, k)
  \/ \E c \in Checkpoints, k \in Executions, part \in Parts : Worker(c, k, part)
  \/ \E p \in Processes : WorkerFails(p)
  \/ \E next \in {"final", "canceled", "expired"} : Enter(next)
  \/ Restart

Spec == Init /\ [][Next]_vars

(* The supervisor visits every row again and again, and a worker that does *)
(* not fail makes progress.  No deadline is assumed.                       *)
Fairness ==
  /\ \A c \in Checkpoints : WF_vars(Advance(c))
  /\ \A c \in Checkpoints, k \in Executions : WF_vars(Finalize(c, k))
  /\ \A c \in Checkpoints, k \in Executions, part \in Parts : WF_vars(Worker(c, k, part))

FairSpec == Spec /\ Fairness
-----------------------------------------------------------------------------
(* Every variable keeps its kind of value, and no more than two executions *)
(* of a Checkpoint are ever started.                                       *)
TypeOK ==
  /\ state \in [Checkpoints -> Row] /\ committed \in [Checkpoints -> SUBSET Episodes]
  /\ result \in SUBSET Checkpoints /\ published \in SUBSET Checkpoints
  /\ rows \in [Checkpoints -> Row \cup {Nothing}] /\ turn \in Checkpoints \cup {Nothing}
  /\ phase \in {"active", "final", "canceled", "expired"}
  /\ proc \in [Processes -> {"none", "claim", "episode", "wait", "ok", "failed", "dead"}]
  /\ doing \in [Processes -> Episodes \cup {Nothing}]
  /\ claimed \in [Checkpoints \X Executions -> SUBSET Episodes]
  /\ local \in [Checkpoints \X Executions -> SUBSET Episodes]
  /\ faults \in 0..MaxFaults

(* Worker processes stay within the task's CPUs, and no Checkpoint is ever *)
(* evaluated by two executions at a time, whatever failed, was restarted,  *)
(* or was submitted again after a write whose answer was lost (submit,     *)
(* expand, cancel, forget).                                                *)
WorkersAreBounded ==
  /\ Cardinality({p \in Processes : Running(p)}) <= Cpus
  /\ \A p, q \in Processes : Running(p) /\ Running(q) /\ p[1] = q[1] => p[2] = q[2]

(* A Checkpoint is verified or complete only with its result and all of    *)
(* its episodes in the store: a verdict never rests on a claim or on a     *)
(* completion that is only known on the host.                              *)
VerdictsAreDurable ==
  \A c \in Checkpoints :
    /\ c \in result => committed[c] = Episodes
    /\ state[c].status \in {"verified", "complete"} => c \in result

(* An execution waits for an episode that was claimed in its directory and *)
(* that nobody evaluates: its worker was killed with the claim and started *)
(* again there, because the row did not say that it had been running.      *)
Stranded(c) ==
  \E k \in Executions :
    /\ Running(<<c, k, "main">>) /\ proc[<<c, k, "helper">>] \notin {"failed", "dead"}
    /\ \E e \in claimed[<<c, k>>] \ local[<<c, k>>] :
         \A part \in Parts : doing[<<c, k, part>>] # e

(* The monitoring of every published Checkpoint comes to an end before any *)
(* deadline, whatever writes are lost and whatever dies, except where its  *)
(* execution is stranded for good.                                         *)
MonitoringSettles ==
  \A c \in Checkpoints :
    c \in published ~> (state[c].status \in Settled \/ []Stranded(c))

(* "Monitoring failures must not stop the learner; retry unfinished        *)
(* operational work once" (docs/specs/queued-execution.md:21): that it     *)
(* comes to an end in any case.                                            *)
UnfinishedWorkIsRetried ==
  \A c \in Checkpoints : c \in published ~> state[c].status \in Settled
=============================================================================
