------------------------------- MODULE JobQueue -------------------------------
(***************************************************************************)
(* The operator's local job queue (job_queue.py): a SQLite file of jobs, a *)
(* lock file, the clients that queue work and make sure a worker runs, and *)
(* the detached workers ("flushers").                                      *)
(*                                                                         *)
(* Every JobStore method is one SQLite transaction and one step here.  The *)
(* worker that leaves an empty queue holds its transaction open while it   *)
(* gives up the lock; "writer" is the process that holds one open, and no  *)
(* other process writes meanwhile (readers do not wait).  The lock file is *)
(* locked by the leading worker, and for an instant by everyone who asks   *)
(* whether it is locked: lock_is_held takes it to find out.                *)
(***************************************************************************)
EXTENDS Naturals, Sequences, FiniteSets

CONSTANTS
  Jobs,       \* job identities: type, version and idempotency key
  Subjects,   \* the subjects of a job
  Clients,    \* processes that call the queue
  Flushers,   \* worker processes; the slot of one that ended is used again
  Reports,    \* the states a handler may report of a subject
  MaxCalls,   \* bound of the model: calls of clients and workers started by hand
  MaxFaults,  \* bound of the model: processes that die, workers that fail to launch
  None        \* nobody, nothing

ActiveStates == {"queued", "running", "retry_wait"}
TerminalStates == {"blocked", "succeeded", "failed", "canceled"}
ActiveSubject == {"queued", "running", "waiting"}  \* "waiting": retry_wait, submitted, ...
SettledSubject == {"succeeded", "accepted", "blocked", "failed", "expired", "canceled"}

SubjectStates == [Subjects -> ActiveSubject \cup SettledSubject]

ASSUME QueueAssumption ==
  /\ Reports \subseteq ActiveSubject \cup SettledSubject
  /\ MaxCalls \in Nat /\ MaxFaults \in Nat
ASSUME NobodyAssumption ==
  None \notin Jobs \cup Clients \cup Flushers /\ Clients \cap Flushers = {}

VARIABLES
  \* The file jobs.sqlite3.
  state,     \* jobs.state, "absent" before the job is queued
  due,       \* jobs.available_at has been reached
  cancel,    \* jobs.cancel_requested
  subject,   \* job_subjects.state
  created,   \* the jobs in the order of created_at
  recorded,  \* worker_state.generation: the last worker that led
  writer,    \* the process that keeps a write transaction open
  \* The file flusher.lock.
  lock,
  \* The workers.
  pc,        \* where run_flusher is
  doing,     \* the job it advances
  \* The clients.
  at,        \* where ensure_flusher is
  why,       \* what its probe of the lock is for
  child,     \* the worker it launched
  answer,    \* what it returned last
  calls, faults

queue == <<state, due, cancel, subject, created>>
worker == <<pc, doing>>
client == <<at, why, child, answer>>
vars == <<queue, recorded, writer, lock, worker, client, calls, faults>>

Init ==
  /\ state = [j \in Jobs |-> "absent"]
  /\ due = [j \in Jobs |-> FALSE]
  /\ cancel = [j \in Jobs |-> FALSE]
  /\ subject = [j \in Jobs |-> [s \in Subjects |-> "queued"]]
  /\ created = <<>>
  /\ recorded = None /\ writer = None /\ lock = None
  /\ pc = [f \in Flushers |-> "none"]
  /\ doing = [f \in Flushers |-> None]
  /\ at = [c \in Clients |-> "free"]
  /\ why = [c \in Clients |-> "first"]
  /\ child = [c \in Clients |-> None]
  /\ answer = [c \in Clients |-> "none"]
  /\ calls = 0 /\ faults = 0

Unfinished == \E j \in Jobs : state[j] \in ActiveStates
Waiting(j) == state[j] \in {"queued", "retry_wait"}

(* What retry, cancel, claim and recovery make of the state of a subject.  *)
Again(x) == IF x \in {"blocked", "failed", "expired", "canceled"} THEN "queued" ELSE x
Dropped(x) == IF x \in {"accepted", "failed"} THEN x ELSE "canceled"
Begun(x) == IF x \in {"queued", "waiting"} THEN "running" ELSE x
Requeued(x) == IF x = "running" THEN "queued" ELSE x

-----------------------------------------------------------------------------
(* A request of a client, each followed by ensure_flusher.                 *)
Call(c) ==
  /\ at[c] = "free" /\ calls < MaxCalls
  /\ calls' = calls + 1
  /\ at' = [at EXCEPT ![c] = "check"]
  /\ answer' = [answer EXCEPT ![c] = "none"]
  /\ UNCHANGED <<why, child, recorded, writer, lock, worker, faults>>

(* Faulty variant: a job that is queued already is inserted again.         *)
Enqueue_Again(c, j) ==
  /\ Call(c) /\ writer = None
  /\ state' = [state EXCEPT ![j] = "queued"]
  /\ due' = [due EXCEPT ![j] = TRUE]
  /\ created' = Append(created, j)
  /\ UNCHANGED <<cancel, subject>>

(* A job that is queued already is returned as it is.                      *)
Enqueue(c, j) ==
  /\ Call(c) /\ writer = None
  /\ IF state[j] = "absent"
     THEN /\ state' = [state EXCEPT ![j] = "queued"]
          /\ due' = [due EXCEPT ![j] = TRUE]
          /\ created' = Append(created, j)
     ELSE UNCHANGED <<state, due, created>>
  /\ UNCHANGED <<cancel, subject>>

Retry(c, j) ==
  /\ Call(c) /\ writer = None
  /\ state[j] \in {"blocked", "failed", "canceled"}
  /\ state' = [state EXCEPT ![j] = "queued"]
  /\ due' = [due EXCEPT ![j] = TRUE]
  /\ cancel' = [cancel EXCEPT ![j] = FALSE]
  /\ subject' = [subject EXCEPT ![j] = [s \in Subjects |-> Again(subject[j][s])]]
  /\ UNCHANGED created

(* A waiting job is canceled at once; a running one is only told, and one  *)
(* that ended is left as it is.                                            *)
RequestCancel(c, j) ==
  /\ Call(c) /\ writer = None
  /\ state[j] # "absent"
  /\ cancel' = [cancel EXCEPT ![j] = cancel[j] \/ state[j] \in ActiveStates]
  /\ IF Waiting(j)
     THEN /\ state' = [state EXCEPT ![j] = "canceled"]
          /\ subject' = [subject EXCEPT ![j] = [s \in Subjects |-> Dropped(subject[j][s])]]
     ELSE UNCHANGED <<state, subject>>
  /\ UNCHANGED <<due, created>>

-----------------------------------------------------------------------------
(* ensure_flusher.                                                         *)
Ended == {"done", "killed"}
Alive == {"start", "recover", "record", "claim", "advance", "leave", "commit"}

GoTo(c, step) == at' = [at EXCEPT ![c] = step] /\ UNCHANGED <<why, child, answer>>
Probe(c, purpose) ==
  /\ at' = [at EXCEPT ![c] = "probe"]
  /\ why' = [why EXCEPT ![c] = purpose]
  /\ UNCHANGED <<child, answer>>
Return(c, result) ==
  /\ at' = [at EXCEPT ![c] = "free"]
  /\ why' = [why EXCEPT ![c] = "first"]
  /\ child' = [child EXCEPT ![c] = None]
  /\ answer' = [answer EXCEPT ![c] = result]
OnlyClient == UNCHANGED <<queue, recorded, writer, worker, calls, faults>>

Check(c) ==
  /\ at[c] = "check"
  /\ IF Unfinished
     THEN Probe(c, "first")
     ELSE Return(c, "no_work")
  /\ UNCHANGED lock /\ OnlyClient

(* lock_is_held: the lock is taken, without waiting, and given back.       *)
ProbeTakes(c) ==
  /\ at[c] = "probe" /\ lock = None
  /\ lock' = c
  /\ GoTo(c, "probing")
  /\ OnlyClient

ProbeIsRefused(c) ==
  /\ at[c] = "probe" /\ lock # None
  /\ Return(c, IF why[c] = "mine" THEN "started" ELSE "already_running")
  /\ UNCHANGED lock /\ OnlyClient

ProbeReleases(c) ==
  /\ at[c] = "probing"
  /\ lock' = None
  /\ \/ why[c] = "first" /\ GoTo(c, "spawn")
     \/ why[c] = "mine" /\ GoTo(c, "free?")
     \/ why[c] \in {"ended", "timeout"} /\ Return(c, "start_failed")
  /\ OnlyClient

(* The worker led and is not seen leading: it has ended, with nothing left *)
(* to do, or it failed, or it is still looked for.                         *)
AfterLeading(c) ==
  /\ at[c] = "free?"
  /\ LET finished == pc[child[c]] = "done" /\ ~Unfinished
     IN \/ finished /\ Return(c, "started")
        \/ ~finished /\ pc[child[c]] \in Ended /\ Probe(c, "ended")
        \/ pc[child[c]] \notin Ended /\ GoTo(c, "wait")
  /\ UNCHANGED lock /\ OnlyClient

Unused(f) == pc[f] \in {"none"} \cup Ended /\ \A c \in Clients : child[c] # f

Launch(f) ==
  /\ Unused(f)
  /\ pc' = [pc EXCEPT ![f] = "start"]
  /\ UNCHANGED doing

Spawn(c, f) ==
  /\ at[c] = "spawn"
  /\ Launch(f)
  /\ child' = [child EXCEPT ![c] = f]
  /\ at' = [at EXCEPT ![c] = "wait"]
  /\ UNCHANGED <<why, answer, lock, queue, recorded, writer, calls, faults>>

SpawnFails(c) ==
  /\ at[c] = "spawn" /\ faults < MaxFaults
  /\ faults' = faults + 1
  /\ Return(c, "start_failed")
  /\ UNCHANGED <<lock, queue, recorded, writer, worker, calls>>

WaitLooks(c) ==
  /\ at[c] = "wait"
  /\ \/ recorded = child[c] /\ Probe(c, "mine")
     \/ recorded # child[c] /\ pc[child[c]] \in Ended /\ Probe(c, "ended")
  /\ UNCHANGED lock /\ OnlyClient

WaitTimesOut(c) ==
  /\ at[c] = "wait"
  /\ Probe(c, "timeout")
  /\ UNCHANGED lock /\ OnlyClient

-----------------------------------------------------------------------------
(* run_flusher.                                                            *)
OnlyWorker == UNCHANGED <<client, calls, faults>>
Move(f, step) == pc' = [pc EXCEPT ![f] = step]

(* The command "jobs flush" leads in the foreground.                       *)
Flush(f) ==
  /\ calls < MaxCalls /\ calls' = calls + 1
  /\ Launch(f)
  /\ UNCHANGED <<queue, recorded, writer, lock, client, faults>>

(* Faulty variant: a worker that finds the lock taken leads all the same.  *)
Start_Anyway(f) ==
  /\ pc[f] = "start"
  /\ lock' = f /\ Move(f, "recover")
  /\ UNCHANGED <<queue, recorded, writer, doing>> /\ OnlyWorker

Start(f) ==
  /\ pc[f] = "start"
  /\ IF lock = None THEN lock' = f /\ Move(f, "recover")
                    ELSE UNCHANGED lock /\ Move(f, "done")
  /\ UNCHANGED <<queue, recorded, writer, doing>> /\ OnlyWorker

(* Faulty variant: what a worker left running is not queued again.         *)
Recover_Nothing(f) ==
  /\ pc[f] = "recover" /\ writer = None
  /\ Move(f, "record")
  /\ UNCHANGED <<queue, recorded, writer, lock, doing>> /\ OnlyWorker

Recover(f) ==
  /\ pc[f] = "recover" /\ writer = None
  /\ state' = [j \in Jobs |-> IF state[j] = "running" THEN "queued" ELSE state[j]]
  /\ due' = [j \in Jobs |-> due[j] \/ state[j] = "running"]
  /\ subject' = [j \in Jobs |-> IF state[j] = "running"
                                 THEN [s \in Subjects |-> Requeued(subject[j][s])]
                                 ELSE subject[j]]
  /\ Move(f, "record")
  /\ UNCHANGED <<cancel, created, recorded, writer, lock, doing>> /\ OnlyWorker

Record(f) ==
  /\ pc[f] = "record" /\ writer = None
  /\ recorded' = f
  /\ Move(f, "claim")
  /\ UNCHANGED <<queue, writer, lock, doing>> /\ OnlyWorker

Runnable(j) == Waiting(j) /\ due[j]

(* The oldest runnable job.                                                *)
First(j) ==
  \E i \in DOMAIN created :
    /\ created[i] = j /\ Runnable(j)
    /\ \A k \in 1 .. i - 1 : ~Runnable(created[k])

Claim(f, j) ==
  /\ pc[f] = "claim" /\ writer = None
  /\ First(j)
  /\ state' = [state EXCEPT ![j] = "running"]
  /\ subject' = [subject EXCEPT ![j] = [s \in Subjects |-> Begun(subject[j][s])]]
  /\ doing' = [doing EXCEPT ![f] = j]
  /\ Move(f, "advance")
  /\ UNCHANGED <<due, cancel, created, recorded, writer, lock>> /\ OnlyWorker

(* The handler reports new states of some of the subjects.                 *)
Reported(j, report) == \A s \in Subjects : report[s] # subject[j][s] => report[s] \in Reports

(* Progress that the handler stores between its own steps.                 *)
Checkpoint(f, report) ==
  /\ pc[f] = "advance" /\ writer = None
  /\ state[doing[f]] = "running"
  /\ Reported(doing[f], report)
  /\ subject' = [subject EXCEPT ![doing[f]] = report]
  /\ UNCHANGED <<state, due, cancel, created, recorded, writer, lock, worker>> /\ OnlyWorker

(* Faulty variant: the subjects the handler leaves open stay open.         *)
Settle_Subjects(j, result, report) == subject' = [subject EXCEPT ![j] = report]

(* A job that ends settles the subjects its handler left open.             *)
Settle(j, result, report) ==
  subject' = [subject EXCEPT ![j] = [s \in Subjects |->
    IF result \in TerminalStates /\ report[s] \in ActiveSubject THEN result ELSE report[s]]]

(* finish raises when the job is not running; the worker dies of it.       *)
Finish(f, result, report) ==
  /\ pc[f] = "advance" /\ writer = None
  /\ Reported(doing[f], report)
  /\ IF state[doing[f]] = "running"
     THEN /\ state' = [state EXCEPT ![doing[f]] = result]
          /\ due' = [due EXCEPT ![doing[f]] = result \in TerminalStates]
          /\ Settle(doing[f], result, report)
          /\ Move(f, "claim") /\ UNCHANGED lock
     ELSE /\ Move(f, "killed") /\ lock' = None
          /\ UNCHANGED <<state, due, subject>>
  /\ doing' = [doing EXCEPT ![f] = None]
  /\ UNCHANGED <<cancel, created, recorded, writer>> /\ OnlyWorker

BecomesDue(j) ==
  /\ state[j] = "retry_wait" /\ ~due[j]
  /\ due' = [due EXCEPT ![j] = TRUE]
  /\ UNCHANGED <<state, cancel, subject, created, recorded, writer, lock, worker>> /\ OnlyWorker

(* Nothing was claimed, nothing waits, and idle_seconds have passed.       *)
Idle(f) ==
  /\ pc[f] = "claim"
  /\ \A j \in Jobs : ~Waiting(j)
  /\ Move(f, "leave")
  /\ UNCHANGED <<queue, recorded, writer, lock, doing>> /\ OnlyWorker

(* Faulty variant: the emptiness is not looked at again under the          *)
(* transaction.                                                            *)
Leave_Unchecked(f) ==
  /\ pc[f] = "leave" /\ writer = None
  /\ writer' = f /\ lock' = None /\ Move(f, "commit")
  /\ UNCHANGED <<queue, recorded, doing>> /\ OnlyWorker

(* Faulty variant: the last look takes no write lock.                      *)
Leave_Unlocked(f) ==
  /\ pc[f] = "leave"
  /\ IF Unfinished
     THEN Move(f, "claim") /\ UNCHANGED lock
     ELSE lock' = None /\ Move(f, "commit")
  /\ UNCHANGED <<queue, recorded, writer, doing>> /\ OnlyWorker

(* Faulty variant: a job that failed is counted as work.                   *)
Leave_Failed(f) ==
  /\ pc[f] = "leave" /\ writer = None
  /\ IF Unfinished \/ \E j \in Jobs : state[j] = "failed"
     THEN Move(f, "claim") /\ UNCHANGED <<writer, lock>>
     ELSE writer' = f /\ lock' = None /\ Move(f, "commit")
  /\ UNCHANGED <<queue, recorded, doing>> /\ OnlyWorker

(* BEGIN IMMEDIATE, the last look, and the unlock before the commit.       *)
Leave(f) ==
  /\ pc[f] = "leave" /\ writer = None
  /\ IF Unfinished
     THEN Move(f, "claim") /\ UNCHANGED <<writer, lock>>
     ELSE writer' = f /\ lock' = None /\ Move(f, "commit")
  /\ UNCHANGED <<queue, recorded, doing>> /\ OnlyWorker

Commit(f) ==
  /\ pc[f] = "commit"
  /\ writer' = None
  /\ Move(f, "done")
  /\ UNCHANGED <<queue, recorded, lock, doing>> /\ OnlyWorker

(* A process dies: its lock is released and its transaction rolled back.   *)
Dies(p) ==
  /\ faults < MaxFaults /\ faults' = faults + 1
  /\ lock' = IF lock = p THEN None ELSE lock
  /\ writer' = IF writer = p THEN None ELSE writer
  /\ UNCHANGED <<queue, recorded, calls>>

FlusherDies(f) ==
  /\ pc[f] \in Alive
  /\ Dies(f)
  /\ Move(f, "killed")
  /\ doing' = [doing EXCEPT ![f] = None]
  /\ UNCHANGED client

ClientDies(c) ==
  /\ at[c] # "free"
  /\ Dies(c)
  /\ Return(c, "none")
  /\ UNCHANGED worker

-----------------------------------------------------------------------------
ClientStep(c) ==
  \/ Check(c) \/ ProbeTakes(c) \/ ProbeIsRefused(c) \/ ProbeReleases(c)
  \/ AfterLeading(c) \/ WaitLooks(c) \/ WaitTimesOut(c)
  \/ \E f \in Flushers : Spawn(c, f)

Finishes(f) ==
  \E result \in TerminalStates \cup {"retry_wait"},
     report \in SubjectStates : Finish(f, result, report)

FlusherStep(f) ==
  \/ Start(f) \/ Recover(f) \/ Record(f) \/ \E j \in Jobs : Claim(f, j)
  \/ Finishes(f) \/ Idle(f) \/ Leave(f) \/ Commit(f)

Next ==
  \/ \E c \in Clients :
       \/ \E j \in Jobs : Enqueue(c, j) \/ Retry(c, j) \/ RequestCancel(c, j)
       \/ ClientStep(c) \/ SpawnFails(c) \/ ClientDies(c)
  \/ \E f \in Flushers : FlusherStep(f) \/ Flush(f) \/ FlusherDies(f)
       \/ \E report \in SubjectStates : Checkpoint(f, report)
  \/ \E j \in Jobs : BecomesDue(j)

Spec == Init /\ [][Next]_vars

(* The processes run and time passes; a job that is advanced again and     *)
(* again ends some day: evaluations expire after two attempts.             *)
Ends(f) ==
  \E result \in TerminalStates,
     report \in SubjectStates : Finish(f, result, report)

FairSpec ==
  /\ Spec
  /\ \A c \in Clients : WF_vars(ClientStep(c))
  /\ \A f \in Flushers : WF_vars(FlusherStep(f)) /\ SF_vars(Ends(f))
  /\ \A j \in Jobs : WF_vars(BecomesDue(j))
-----------------------------------------------------------------------------
(* Every variable keeps its kind of value, and a job has one row.          *)
TypeOK ==
  /\ state \in [Jobs -> {"absent"} \cup ActiveStates \cup TerminalStates]
  /\ due \in [Jobs -> BOOLEAN] /\ cancel \in [Jobs -> BOOLEAN]
  /\ subject \in [Jobs -> SubjectStates]
  /\ created \in Seq(Jobs)
  /\ \A i, k \in DOMAIN created : created[i] = created[k] => i = k
  /\ \A j \in Jobs : state[j] # "absent" <=> \E i \in DOMAIN created : created[i] = j
  /\ recorded \in Flushers \cup {None} /\ writer \in Flushers \cup {None}
  /\ lock \in Flushers \cup Clients \cup {None}
  /\ pc \in [Flushers -> {"none"} \cup Alive \cup Ended]
  /\ doing \in [Flushers -> Jobs \cup {None}]
  /\ at \in [Clients -> {"free", "check", "probe", "probing", "free?", "spawn", "wait"}]
  /\ why \in [Clients -> {"first", "mine", "ended", "timeout"}]
  /\ child \in [Clients -> Flushers \cup {None}]
  /\ answer \in [Clients ->
       {"none", "no_work", "started", "already_running", "start_failed"}]
  /\ calls \in 0..MaxCalls /\ faults \in 0..MaxFaults

Leading == {"recover", "record", "claim", "advance", "leave"}

(* A job is advanced by one process at a time, and by none but the holder  *)
(* of the lock; no cancel, retry or recovery takes a job away from the     *)
(* worker that advances it, so finish never raises.                        *)
OneAdvancer ==
  /\ \A f \in Flushers : pc[f] \in Leading => lock = f
  /\ \A f \in Flushers : pc[f] = "advance" => state[doing[f]] = "running"

(* No job stays "running" behind the back of a worker: once it has         *)
(* recovered the queue, the only running job is the one it advances.       *)
NoStaleRunning ==
  \A j \in Jobs, f \in Flushers :
    state[j] = "running" /\ pc[f] \in Leading \ {"recover"} => doing[f] = j

(* A worker that has given up the lock for want of work leaves none, up to *)
(* the end of its transaction: what is queued later finds the lock free.   *)
LeavesNoWork == \A f \in Flushers : pc[f] = "commit" => ~Unfinished

(* A job that ended has no subject that is still shown as in progress.     *)
EndedJobsAreSettled ==
  \A j \in Jobs : state[j] \in TerminalStates =>
    \A s \in Subjects : subject[j][s] \in SettledSubject

(* Queued work is carried out, or a client was told that no worker started.*)
WorkIsServed ==
  \A j \in Jobs : state[j] \in ActiveStates ~>
    \/ state[j] \in TerminalStates
    \/ \E c \in Clients : answer[c] = "start_failed"

(* The workers leave when no work remains.                                 *)
WorkersLeave == <>[](\A f \in Flushers : pc[f] \notin Alive)
=============================================================================
