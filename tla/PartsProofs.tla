------------------------------ MODULE PartsProofs ------------------------------
(* Theorems about the modules of Parts for every value of their constants, *)
(* with their proofs: the queue, and the components that have no proof     *)
(* module of their own.                                                    *)
EXTENDS Parts, FiniteSetTheorems, WellFoundedInduction, TLAPS

(* JobQueue.                                                               *)

(* Who probes holds the lock, and so does who leads.                       *)
LockIsHeld ==
  /\ \A f \in Flushers : pc[f] \in Leading => lock = f
  /\ \A c \in Clients : at[c] = "probing" => lock = c

(* The open write transaction is the one of the worker that leaves.        *)
WriterLeaves == \A f \in Flushers : pc[f] = "commit" => writer = f

(* What a worker advances is a running job, and at any other step it has   *)
(* none in hand.                                                           *)
AdvancesRunning ==
  \A f \in Flushers :
    /\ pc[f] = "advance" => doing[f] \in Jobs /\ state[doing[f]] = "running"
    /\ pc[f] # "advance" => doing[f] = None

IInv ==
  /\ TypeOK /\ LockIsHeld /\ WriterLeaves /\ AdvancesRunning
  /\ NoStaleRunning /\ LeavesNoWork /\ EndedJobsAreSettled

ClientCalls(c) ==
  \/ Check(c) \/ ProbeTakes(c) \/ ProbeIsRefused(c) \/ ProbeReleases(c)
  \/ AfterLeading(c) \/ WaitLooks(c) \/ WaitTimesOut(c) \/ SpawnFails(c)

-----------------------------------------------------------------------------
(* Type correctness                                                        *)

Rows ==
  /\ \A i, k \in DOMAIN created : created[i] = created[k] => i = k
  /\ \A j \in Jobs : state[j] # "absent" <=> \E i \in DOMAIN created : created[i] = j

LEMMA InitType == Init => TypeOK
BY QueueAssumption DEF Init, TypeOK, SubjectStates, ActiveSubject, ActiveStates

LEMMA SubjectTypes ==
  ASSUME NEW x \in ActiveSubject \cup SettledSubject
  PROVE  /\ Again(x) \in ActiveSubject \cup SettledSubject
         /\ Dropped(x) \in SettledSubject
         /\ Begun(x) \in ActiveSubject \cup SettledSubject
         /\ Requeued(x) \in ActiveSubject \cup SettledSubject
BY DEF Again, Dropped, Begun, Requeued, ActiveSubject, SettledSubject

LEMMA RequestType ==
  ASSUME TypeOK, NEW c \in Clients, NEW j \in Jobs,
         Enqueue(c, j) \/ Retry(c, j) \/ RequestCancel(c, j)
  PROVE  TypeOK'
<1>1. /\ at' \in [Clients -> {"free", "check", "probe", "probing", "free?", "spawn", "wait"}]
      /\ answer' \in [Clients ->
           {"none", "no_work", "started", "already_running", "start_failed"}]
      /\ calls' \in 0..MaxCalls
      /\ UNCHANGED <<why, child, recorded, writer, lock, pc, doing, faults>>
  <2>1. Call(c)
    BY DEF Enqueue, Retry, RequestCancel
  <2> QED
    BY <2>1, QueueAssumption DEF TypeOK, Call, worker
<1>2. CASE Enqueue(c, j)
  <2>1. CASE state[j] = "absent"
    <3>1. created' = Append(created, j) /\ state' = [state EXCEPT ![j] = "queued"]
      BY <1>2, <2>1 DEF Enqueue
    <3>2. \A i \in DOMAIN created : created[i] # j
      BY <2>1 DEF TypeOK
    <3>3. /\ created' \in Seq(Jobs)
          /\ \A i \in DOMAIN created : i \in DOMAIN created' /\ created'[i] = created[i]
          /\ DOMAIN created' = DOMAIN created \cup {Len(created) + 1}
          /\ created'[Len(created) + 1] = j
      BY <3>1 DEF TypeOK
    <3>4. Rows'
      BY <3>1, <3>2, <3>3 DEF Rows, TypeOK
    <3> QED
      <4>1. /\ state' \in [Jobs -> {"absent"} \cup ActiveStates \cup TerminalStates]
            /\ due' \in [Jobs -> BOOLEAN]
            /\ UNCHANGED <<cancel, subject>>
        BY <1>2, <2>1 DEF TypeOK, Enqueue, ActiveStates
      <4> QED
        BY <1>1, <3>3, <3>4, <4>1 DEF TypeOK, Rows
  <2>2. CASE state[j] # "absent"
    BY <1>1, <1>2, <2>2 DEF TypeOK, Enqueue
  <2> QED
    BY <2>1, <2>2
<1>3. CASE Retry(c, j)
  <2>1. [s \in Subjects |-> Again(subject[j][s])] \in SubjectStates
    BY SubjectTypes DEF TypeOK, SubjectStates
  <2> QED
    BY <1>1, <1>3, <2>1 DEF TypeOK, Retry, ActiveStates
<1>4. CASE RequestCancel(c, j)
  <2>1. [s \in Subjects |-> Dropped(subject[j][s])] \in SubjectStates
    BY SubjectTypes DEF TypeOK, SubjectStates
  <2> QED
    <3>1. /\ cancel' \in [Jobs -> BOOLEAN]
          /\ UNCHANGED <<due, created>>
          /\ state[j] # "absent"
      BY <1>4 DEF TypeOK, RequestCancel
    <3>2. /\ state' \in [Jobs -> {"absent"} \cup ActiveStates \cup TerminalStates]
          /\ subject' \in [Jobs -> SubjectStates]
          /\ \A k \in Jobs : state'[k] = "absent" <=> state[k] = "absent"
      BY <1>4, <2>1, <3>1 DEF TypeOK, RequestCancel, TerminalStates
    <3> QED
      BY <1>1, <3>1, <3>2 DEF TypeOK
<1> QED
  BY <1>2, <1>3, <1>4

LEMMA ClientType ==
  ASSUME TypeOK, NEW c \in Clients, ClientCalls(c)
  PROVE  TypeOK'
<1> USE DEF TypeOK, OnlyClient, GoTo, Probe, Return, queue, worker, client
<1>1. CASE Check(c)
  BY <1>1 DEF Check
<1>2. CASE ProbeTakes(c)
  BY <1>2 DEF ProbeTakes
<1>3. CASE ProbeIsRefused(c)
  <2>1. Return(c, "started") \/ Return(c, "already_running")
    BY <1>3 DEF ProbeIsRefused
  <2> QED
    BY <1>3, <2>1 DEF ProbeIsRefused
<1>4. CASE ProbeReleases(c)
  <2>1. lock' = None /\ OnlyClient
    BY <1>4 DEF ProbeReleases
  <2>2. GoTo(c, "spawn") \/ GoTo(c, "free?") \/ Return(c, "start_failed")
    BY <1>4 DEF ProbeReleases
  <2> QED
    BY <2>1, <2>2
<1>5. CASE AfterLeading(c)
  BY <1>5 DEF AfterLeading
<1>6. CASE WaitLooks(c)
  BY <1>6 DEF WaitLooks
<1>7. CASE WaitTimesOut(c)
  BY <1>7 DEF WaitTimesOut
<1>8. CASE SpawnFails(c)
  BY <1>8, QueueAssumption DEF SpawnFails
<1> QED
  BY <1>1, <1>2, <1>3, <1>4, <1>5, <1>6, <1>7, <1>8 DEF ClientCalls

LEMMA RowsKept ==
  ASSUME TypeOK, created' = created,
         \A j \in Jobs : state'[j] = "absent" <=> state[j] = "absent"
  PROVE  created' \in Seq(Jobs) /\ Rows'
BY DEF TypeOK, Rows

(* The steps of a worker that change no job.                               *)
LEMMA WorkerTypeOutsideJobs ==
  ASSUME TypeOK, NEW f \in Flushers,
         \/ Start(f) \/ Record(f) \/ Idle(f) \/ Leave(f) \/ Commit(f)
         \/ Flush(f) \/ FlusherDies(f)
  PROVE  TypeOK'
<1> USE DEF TypeOK, OnlyWorker, Move, queue, worker, client, Alive, Ended
<1>1. CASE Start(f)
  BY <1>1 DEF Start
<1>2. CASE Record(f)
  BY <1>2 DEF Record
<1>3. CASE Idle(f)
  BY <1>3 DEF Idle
<1>4. CASE Leave(f)
  BY <1>4 DEF Leave
<1>5. CASE Commit(f)
  BY <1>5 DEF Commit
<1>6. CASE Flush(f)
  BY <1>6, QueueAssumption DEF Flush, Launch
<1>7. CASE FlusherDies(f)
  BY <1>7, QueueAssumption DEF FlusherDies, Dies
<1> QED
  BY <1>1, <1>2, <1>3, <1>4, <1>5, <1>6, <1>7

(* What a worker leaves of the queue when its own part keeps its kind.     *)
WorkerFrame ==
  UNCHANGED <<created, writer, at, why, child, answer, calls, faults>>

LEMMA WorkerTypeOnJobs ==
  ASSUME TypeOK, WorkerFrame,
         state' \in [Jobs -> {"absent"} \cup ActiveStates \cup TerminalStates],
         \A j \in Jobs : state'[j] = "absent" <=> state[j] = "absent",
         due' \in [Jobs -> BOOLEAN], cancel' = cancel,
         subject' \in [Jobs -> SubjectStates], recorded' = recorded,
         lock' \in Flushers \cup Clients \cup {None},
         pc' \in [Flushers -> {"none"} \cup Alive \cup Ended],
         doing' \in [Flushers -> Jobs \cup {None}]
  PROVE  TypeOK'
<1>1. created' \in Seq(Jobs) /\ Rows'
  BY RowsKept DEF WorkerFrame
<1> QED
  BY <1>1 DEF TypeOK, Rows, WorkerFrame

LEMMA RecoverType ==
  ASSUME TypeOK, NEW f \in Flushers, Recover(f)
  PROVE  TypeOK'
<1>1. /\ state' = [j \in Jobs |-> IF state[j] = "running" THEN "queued" ELSE state[j]]
      /\ due' = [j \in Jobs |-> due[j] \/ state[j] = "running"]
      /\ UNCHANGED <<cancel, recorded, lock, doing>> /\ WorkerFrame
      /\ pc' = [pc EXCEPT ![f] = "record"]
  BY DEF Recover, OnlyWorker, Move, client, WorkerFrame
<1>2. \A j \in Jobs : [s \in Subjects |-> Requeued(subject[j][s])] \in SubjectStates
  BY SubjectTypes DEF TypeOK, SubjectStates
<1>3. subject' \in [Jobs -> SubjectStates]
  BY <1>2 DEF Recover, TypeOK
<1>4. /\ state' \in [Jobs -> {"absent"} \cup ActiveStates \cup TerminalStates]
      /\ \A j \in Jobs : state'[j] = "absent" <=> state[j] = "absent"
      /\ due' \in [Jobs -> BOOLEAN]
  BY <1>1 DEF TypeOK, ActiveStates
<1>5. pc' \in [Flushers -> {"none"} \cup Alive \cup Ended]
  BY <1>1 DEF TypeOK, Alive
<1> QED
  BY <1>1, <1>3, <1>4, <1>5, WorkerTypeOnJobs DEF TypeOK

LEMMA ClaimType ==
  ASSUME TypeOK, NEW f \in Flushers, NEW j \in Jobs, Claim(f, j)
  PROVE  TypeOK'
<1>1. /\ state' = [state EXCEPT ![j] = "running"]
      /\ doing' = [doing EXCEPT ![f] = j]
      /\ pc' = [pc EXCEPT ![f] = "advance"]
      /\ UNCHANGED <<due, cancel, recorded, lock>> /\ WorkerFrame
  BY DEF Claim, OnlyWorker, Move, client, WorkerFrame
<1>2. Waiting(j)
  BY DEF Claim, First, Runnable
<1>3. [s \in Subjects |-> Begun(subject[j][s])] \in SubjectStates
  BY SubjectTypes DEF TypeOK, SubjectStates
<1>4. subject' \in [Jobs -> SubjectStates]
  BY <1>3 DEF Claim, TypeOK
<1>5. /\ state' \in [Jobs -> {"absent"} \cup ActiveStates \cup TerminalStates]
      /\ \A k \in Jobs : state'[k] = "absent" <=> state[k] = "absent"
  BY <1>1, <1>2 DEF TypeOK, ActiveStates, Waiting
<1>6. /\ pc' \in [Flushers -> {"none"} \cup Alive \cup Ended]
      /\ doing' \in [Flushers -> Jobs \cup {None}]
  BY <1>1 DEF TypeOK, Alive
<1> QED
  BY <1>1, <1>4, <1>5, <1>6, WorkerTypeOnJobs DEF TypeOK

(* finish raises only for a job that is not running, and none is advanced  *)
(* that is not.                                                            *)
LEMMA FinishSucceeds ==
  ASSUME TypeOK, AdvancesRunning, NEW f \in Flushers,
         NEW result \in TerminalStates \cup {"retry_wait"},
         NEW report \in SubjectStates, Finish(f, result, report)
  PROVE  /\ doing[f] \in Jobs /\ state[doing[f]] = "running"
         /\ pc[f] = "advance" /\ writer = None
         /\ state' = [state EXCEPT ![doing[f]] = result]
         /\ due' = [due EXCEPT ![doing[f]] = result \in TerminalStates]
         /\ Settle(doing[f], result, report)
         /\ pc' = [pc EXCEPT ![f] = "claim"]
         /\ doing' = [doing EXCEPT ![f] = None]
         /\ UNCHANGED <<cancel, recorded, lock>> /\ WorkerFrame
<1>1. pc[f] = "advance"
  BY DEF Finish
<1>2. doing[f] \in Jobs /\ state[doing[f]] = "running"
  BY <1>1 DEF AdvancesRunning
<1> QED
  BY <1>1, <1>2 DEF Finish, Move, OnlyWorker, client, WorkerFrame

LEMMA FinishType ==
  ASSUME TypeOK, AdvancesRunning, NEW f \in Flushers,
         NEW result \in TerminalStates \cup {"retry_wait"},
         NEW report \in SubjectStates, Finish(f, result, report)
  PROVE  TypeOK'
<1> DEFINE j == doing[f]
<1>1. /\ j \in Jobs /\ state[j] = "running"
      /\ state' = [state EXCEPT ![j] = result]
      /\ due' = [due EXCEPT ![j] = result \in TerminalStates]
      /\ Settle(j, result, report)
      /\ pc' = [pc EXCEPT ![f] = "claim"]
      /\ doing' = [doing EXCEPT ![f] = None]
      /\ UNCHANGED <<cancel, recorded, lock>> /\ WorkerFrame
  BY FinishSucceeds
<1> HIDE DEF j
<1>2. TerminalStates \subseteq SettledSubject \cup ActiveSubject
  BY DEF TerminalStates, SettledSubject
<1>3. subject' \in [Jobs -> SubjectStates]
  BY <1>1, <1>2 DEF Settle, TypeOK, SubjectStates
<1>4. /\ state' \in [Jobs -> {"absent"} \cup ActiveStates \cup TerminalStates]
      /\ \A k \in Jobs : state'[k] = "absent" <=> state[k] = "absent"
      /\ due' \in [Jobs -> BOOLEAN]
  BY <1>1 DEF TypeOK, ActiveStates, TerminalStates
<1>5. /\ pc' \in [Flushers -> {"none"} \cup Alive \cup Ended]
      /\ doing' \in [Flushers -> Jobs \cup {None}]
  BY <1>1 DEF TypeOK, Alive
<1> QED
  BY <1>1, <1>3, <1>4, <1>5, WorkerTypeOnJobs DEF TypeOK

LEMMA CheckpointType ==
  ASSUME TypeOK, NEW f \in Flushers, NEW report \in SubjectStates, Checkpoint(f, report)
  PROVE  TypeOK'
<1>1. /\ subject' = [subject EXCEPT ![doing[f]] = report]
      /\ UNCHANGED <<state, due, cancel, recorded, lock, pc, doing>> /\ WorkerFrame
  BY DEF Checkpoint, OnlyWorker, worker, client, WorkerFrame
<1>2. subject' \in [Jobs -> SubjectStates]
  BY <1>1 DEF TypeOK
<1> QED
  BY <1>1, <1>2, WorkerTypeOnJobs DEF TypeOK

LEMMA BecomesDueType ==
  ASSUME TypeOK, NEW j \in Jobs, BecomesDue(j)
  PROVE  TypeOK'
<1>1. /\ due' = [due EXCEPT ![j] = TRUE]
      /\ UNCHANGED <<state, cancel, subject, recorded, lock, pc, doing>> /\ WorkerFrame
  BY DEF BecomesDue, OnlyWorker, worker, client, WorkerFrame
<1> QED
  BY <1>1, WorkerTypeOnJobs DEF TypeOK

LEMMA SpawnType ==
  ASSUME TypeOK, NEW c \in Clients, NEW f \in Flushers, Spawn(c, f)
  PROVE  TypeOK'
BY DEF TypeOK, Spawn, Launch, queue, Alive

LEMMA ClientDiesType ==
  ASSUME TypeOK, NEW c \in Clients, ClientDies(c)
  PROVE  TypeOK'
BY QueueAssumption DEF TypeOK, ClientDies, Dies, Return, queue, worker

-----------------------------------------------------------------------------
(* The inductive invariant, step by step                                   *)

(* The parts that speak of the queue and of the workers only.              *)
QueueParts ==
  WriterLeaves /\ AdvancesRunning /\ NoStaleRunning /\ LeavesNoWork /\ EndedJobsAreSettled

LEMMA QueueKept ==
  ASSUME QueueParts, UNCHANGED <<state, subject, writer, pc, doing>>
  PROVE  QueueParts'
BY DEF QueueParts, WriterLeaves, AdvancesRunning, NoStaleRunning, LeavesNoWork,
       EndedJobsAreSettled, Unfinished

(* Nobody changes a job while a worker that leaves keeps its transaction.  *)
LEMMA NobodyLeaves ==
  ASSUME WriterLeaves, writer = None
  PROVE  \A f \in Flushers : pc[f] # "commit"
BY NobodyAssumption DEF WriterLeaves

LEMMA RequestStep ==
  ASSUME IInv, NEW c \in Clients, NEW j \in Jobs,
         Enqueue(c, j) \/ Retry(c, j) \/ RequestCancel(c, j)
  PROVE  IInv'
<1>1. TypeOK'
  BY RequestType DEF IInv
<1>2. /\ at' = [at EXCEPT ![c] = "check"]
      /\ UNCHANGED <<lock, writer, pc, doing>>
      /\ writer = None
  <2>1. Call(c) /\ writer = None
    BY DEF Enqueue, Retry, RequestCancel
  <2> QED
    BY <2>1 DEF Call, worker
<1>3. LockIsHeld'
  BY <1>2 DEF IInv, TypeOK, LockIsHeld
<1>4. \A k \in Jobs : state'[k] = "running" <=> state[k] = "running"
  BY DEF Enqueue, Retry, RequestCancel, Waiting, IInv, TypeOK
<1>5. WriterLeaves' /\ LeavesNoWork'
  BY <1>2, NobodyLeaves DEF IInv, WriterLeaves, LeavesNoWork
<1>6. AdvancesRunning' /\ NoStaleRunning'
  BY <1>2, <1>4 DEF IInv, AdvancesRunning, NoStaleRunning
<1>7. EndedJobsAreSettled'
  <2>1. CASE Enqueue(c, j)
    <3>1. UNCHANGED subject /\ (state' = [state EXCEPT ![j] = "queued"] \/ state' = state)
      BY <2>1 DEF Enqueue
    <3> QED
      BY <3>1 DEF IInv, TypeOK, EndedJobsAreSettled, TerminalStates
  <2>2. CASE Retry(c, j)
    <3>1. /\ state' = [state EXCEPT ![j] = "queued"]
          /\ \A k \in Jobs \ {j} : subject'[k] = subject[k]
      BY <2>2 DEF Retry, IInv, TypeOK
    <3> QED
      BY <3>1 DEF IInv, TypeOK, EndedJobsAreSettled, TerminalStates
  <2>3. CASE RequestCancel(c, j)
    <3>1. CASE Waiting(j)
      <4>1. /\ state' = [state EXCEPT ![j] = "canceled"]
            /\ subject' = [subject EXCEPT ![j] =
                 [s \in Subjects |-> Dropped(subject[j][s])]]
        BY <2>3, <3>1 DEF RequestCancel
      <4>2. \A s \in Subjects : Dropped(subject[j][s]) \in SettledSubject
        BY SubjectTypes DEF IInv, TypeOK, SubjectStates
      <4> QED
        BY <4>1, <4>2 DEF IInv, TypeOK, EndedJobsAreSettled
    <3>2. CASE ~Waiting(j)
      BY <2>3, <3>2 DEF RequestCancel, IInv, EndedJobsAreSettled
    <3> QED
      BY <3>1, <3>2
  <2> QED
    BY <2>1, <2>2, <2>3
<1> QED
  BY <1>1, <1>3, <1>5, <1>6, <1>7 DEF IInv

(* What a client does between its requests.                                *)
LEMMA ClientFrame ==
  ASSUME NEW c \in Clients, ClientCalls(c)
  PROVE  UNCHANGED <<state, subject, writer, pc, doing>>
<1> USE DEF OnlyClient, queue, worker
<1>1. CASE SpawnFails(c)
  BY <1>1 DEF SpawnFails
<1>2. CASE ~SpawnFails(c)
  <2>1. OnlyClient
    BY <1>2 DEF ClientCalls, Check, ProbeTakes, ProbeIsRefused, ProbeReleases,
                AfterLeading, WaitLooks, WaitTimesOut
  <2> QED
    BY <2>1
<1> QED
  BY <1>1, <1>2

LEMMA ClientStepKeeps ==
  ASSUME IInv, NEW c \in Clients, ClientCalls(c)
  PROVE  IInv'
<1>1. TypeOK'
  BY ClientType DEF IInv
<1>2. UNCHANGED <<state, subject, writer, pc, doing>>
  BY ClientFrame
<1>3. QueueParts'
  BY <1>2, QueueKept DEF IInv, QueueParts
<1>4. LockIsHeld'
  <2> USE NobodyAssumption DEF IInv, TypeOK, LockIsHeld, Probe, GoTo, Return
  <2>1. CASE ProbeTakes(c)
    BY <1>2, <2>1 DEF ProbeTakes
  <2>2. CASE ProbeReleases(c)
    <3>1. /\ lock = c /\ lock' = None
          /\ \E step \in {"spawn", "free?", "free"} : at' = [at EXCEPT ![c] = step]
      BY <2>2 DEF ProbeReleases
    <3> QED
      BY <1>2, <3>1
  <2>3. CASE ~ProbeTakes(c) /\ ~ProbeReleases(c)
    <3>1. /\ lock' = lock
          /\ \E step \in {"probe", "free", "spawn", "wait"} : at' = [at EXCEPT ![c] = step]
      BY <2>3 DEF ClientCalls, Check, ProbeIsRefused, AfterLeading, WaitLooks,
                  WaitTimesOut, SpawnFails
    <3> QED
      BY <1>2, <3>1
  <2> QED
    BY <2>1, <2>2, <2>3
<1> QED
  BY <1>1, <1>3, <1>4 DEF IInv, QueueParts

(* The worker launched begins at its lock; the slot it takes led nothing.  *)
LEMMA LaunchKeeps ==
  ASSUME IInv, NEW f \in Flushers, Launch(f), TypeOK', UNCHANGED <<queue, writer, lock>>,
         \A c \in Clients : at'[c] = "probing" => at[c] = "probing"
  PROVE  IInv'
<1>1. /\ pc' = [pc EXCEPT ![f] = "start"] /\ UNCHANGED <<doing, state, subject>>
  BY DEF Launch, queue
<1>2. /\ pc'[f] = "start"
      /\ \A g \in Flushers : g # f => pc'[g] = pc[g]
  BY <1>1 DEF IInv, TypeOK
<1>3. LockIsHeld'
  BY <1>2 DEF IInv, LockIsHeld, Leading
<1>4. WriterLeaves' /\ LeavesNoWork'
  BY <1>1, <1>2 DEF IInv, WriterLeaves, LeavesNoWork, Unfinished
<1>5. AdvancesRunning' /\ NoStaleRunning' /\ EndedJobsAreSettled'
  <2>1. pc[f] # "advance"
    BY DEF Launch, Unused, Ended
  <2> QED
    BY <1>1, <1>2, <2>1 DEF IInv, AdvancesRunning, NoStaleRunning, EndedJobsAreSettled,
                            Leading
<1> QED
  BY <1>3, <1>4, <1>5 DEF IInv

LEMMA SpawnStep ==
  ASSUME IInv, NEW c \in Clients, NEW f \in Flushers, Spawn(c, f)
  PROVE  IInv'
<1>1. TypeOK'
  BY SpawnType DEF IInv
<1>2. /\ Launch(f) /\ UNCHANGED <<queue, writer, lock>>
      /\ at' = [at EXCEPT ![c] = "wait"]
  BY DEF Spawn
<1>3. \A k \in Clients : at'[k] = "probing" => at[k] = "probing"
  BY <1>2 DEF IInv, TypeOK
<1> QED
  BY <1>1, <1>2, <1>3, LaunchKeeps

LEMMA FlushStep ==
  ASSUME IInv, NEW f \in Flushers, Flush(f)
  PROVE  IInv'
<1>1. TypeOK'
  BY WorkerTypeOutsideJobs DEF IInv
<1>2. Launch(f) /\ UNCHANGED <<queue, writer, lock, at>>
  BY DEF Flush, client
<1> QED
  BY <1>1, <1>2, LaunchKeeps

LEMMA StartStep ==
  ASSUME IInv, NEW f \in Flushers, Start(f)
  PROVE  IInv'
<1>1. TypeOK'
  BY WorkerTypeOutsideJobs DEF IInv
<1>2. UNCHANGED <<state, subject, writer, doing, at>>
  BY DEF Start, queue, OnlyWorker, client
<1>3. \/ lock = None /\ lock' = f /\ pc' = [pc EXCEPT ![f] = "recover"]
      \/ lock' = lock /\ pc' = [pc EXCEPT ![f] = "done"]
  BY DEF Start, Move
<1>4. LockIsHeld'
  BY <1>2, <1>3, NobodyAssumption DEF IInv, TypeOK, LockIsHeld, Leading
<1>5. \A g \in Flushers : pc'[g] \in {"commit", "advance"} \cup (Leading \ {"recover"}) =>
        pc'[g] = pc[g]
  BY <1>3 DEF IInv, TypeOK, Leading
<1>6. pc[f] # "advance" /\ \A g \in Flushers \ {f} : pc'[g] = pc[g]
  BY <1>3 DEF Start, IInv, TypeOK
<1>7. QueueParts'
  BY <1>2, <1>5, <1>6 DEF IInv, QueueParts, WriterLeaves, AdvancesRunning, NoStaleRunning,
                    LeavesNoWork, EndedJobsAreSettled, Unfinished
<1> QED
  BY <1>1, <1>4, <1>7 DEF IInv, QueueParts

(* Only one worker leads: the lock is one.                                 *)
LEMMA OneLeads ==
  ASSUME LockIsHeld, NEW f \in Flushers, NEW g \in Flushers,
         pc[f] \in Leading, pc[g] \in Leading
  PROVE  f = g
BY DEF LockIsHeld

LEMMA RecoverStep ==
  ASSUME IInv, NEW f \in Flushers, Recover(f)
  PROVE  IInv'
<1>1. TypeOK'
  BY RecoverType DEF IInv
<1>2. /\ pc[f] = "recover" /\ writer = None
      /\ pc' = [pc EXCEPT ![f] = "record"]
      /\ state' = [j \in Jobs |-> IF state[j] = "running" THEN "queued" ELSE state[j]]
      /\ UNCHANGED <<writer, lock, doing, at>>
  BY DEF Recover, Move, OnlyWorker, client
<1>3. LockIsHeld'
  BY <1>2 DEF IInv, TypeOK, LockIsHeld, Leading
<1>4. \A g \in Flushers : g # f => pc[g] \notin Leading
  BY <1>2, OneLeads DEF IInv, Leading
<1>5. WriterLeaves' /\ LeavesNoWork'
  BY <1>2, NobodyLeaves DEF IInv, TypeOK, WriterLeaves, LeavesNoWork
<1>6. AdvancesRunning' /\ NoStaleRunning'
  BY <1>2, <1>4 DEF IInv, TypeOK, AdvancesRunning, NoStaleRunning, Leading
<1>7. EndedJobsAreSettled'
  <2>1. \A j \in Jobs : state'[j] \in TerminalStates =>
          state[j] = state'[j] /\ subject'[j] = subject[j]
    BY <1>2 DEF Recover, TerminalStates
  <2> QED
    BY <2>1 DEF IInv, EndedJobsAreSettled
<1> QED
  BY <1>1, <1>3, <1>5, <1>6, <1>7 DEF IInv

LEMMA RecordStep ==
  ASSUME IInv, NEW f \in Flushers, Record(f)
  PROVE  IInv'
<1>1. TypeOK'
  BY WorkerTypeOutsideJobs DEF IInv
<1>2. /\ pc[f] = "record" /\ pc' = [pc EXCEPT ![f] = "claim"]
      /\ UNCHANGED <<state, subject, writer, lock, doing, at>>
  BY DEF Record, Move, queue, OnlyWorker, client
<1>3. LockIsHeld'
  BY <1>2 DEF IInv, TypeOK, LockIsHeld, Leading
<1>4. QueueParts'
  BY <1>2 DEF IInv, TypeOK, QueueParts, WriterLeaves, AdvancesRunning, NoStaleRunning,
              LeavesNoWork, EndedJobsAreSettled, Unfinished, Leading
<1> QED
  BY <1>1, <1>3, <1>4 DEF IInv, QueueParts

LEMMA ClaimStep ==
  ASSUME IInv, NEW f \in Flushers, NEW j \in Jobs, Claim(f, j)
  PROVE  IInv'
<1>1. TypeOK'
  BY ClaimType DEF IInv
<1>2. /\ pc[f] = "claim" /\ writer = None
      /\ pc' = [pc EXCEPT ![f] = "advance"]
      /\ doing' = [doing EXCEPT ![f] = j]
      /\ state' = [state EXCEPT ![j] = "running"]
      /\ UNCHANGED <<writer, lock, at>>
  BY DEF Claim, Move, OnlyWorker, client
<1>3. LockIsHeld'
  BY <1>2 DEF IInv, TypeOK, LockIsHeld, Leading
<1>4. \A g \in Flushers : g # f => pc[g] \notin Leading
  BY <1>2, OneLeads DEF IInv, Leading
<1>5. \A k \in Jobs : state[k] # "running"
  BY <1>2, NobodyAssumption DEF IInv, NoStaleRunning, AdvancesRunning, Leading
<1>6. WriterLeaves' /\ LeavesNoWork'
  BY <1>2, NobodyLeaves DEF IInv, TypeOK, WriterLeaves, LeavesNoWork
<1>7. AdvancesRunning'
  BY <1>2, <1>4 DEF IInv, TypeOK, AdvancesRunning, Leading
<1>8. NoStaleRunning'
  BY <1>2, <1>4, <1>5 DEF IInv, TypeOK, NoStaleRunning, Leading
<1>9. EndedJobsAreSettled'
  <2>1. subject' = [subject EXCEPT ![j] = [s \in Subjects |-> Begun(subject[j][s])]]
    BY DEF Claim
  <2>2. \A k \in Jobs : state'[k] \in TerminalStates =>
          state[k] = state'[k] /\ subject'[k] = subject[k]
    BY <1>2, <2>1 DEF IInv, TypeOK, TerminalStates
  <2> QED
    BY <2>2 DEF IInv, EndedJobsAreSettled
<1> QED
  BY <1>1, <1>3, <1>6, <1>7, <1>8, <1>9 DEF IInv

LEMMA FinishStep ==
  ASSUME IInv, NEW f \in Flushers, NEW result \in TerminalStates \cup {"retry_wait"},
         NEW report \in SubjectStates, Finish(f, result, report)
  PROVE  IInv'
<1> DEFINE j == doing[f]
<1>1. TypeOK'
  BY FinishType DEF IInv
<1>2. /\ pc[f] = "advance" /\ writer = None
      /\ j \in Jobs /\ state[j] = "running"
      /\ pc' = [pc EXCEPT ![f] = "claim"]
      /\ doing' = [doing EXCEPT ![f] = None]
      /\ state' = [state EXCEPT ![j] = result]
      /\ Settle(j, result, report)
      /\ UNCHANGED <<writer, lock, at>>
  BY FinishSucceeds DEF IInv, WorkerFrame
<1>3. LockIsHeld'
  BY <1>2 DEF IInv, TypeOK, LockIsHeld, Leading
<1>4. \A g \in Flushers : g # f => pc[g] \notin Leading
  BY <1>2, OneLeads DEF IInv, Leading
<1>5. \A k \in Jobs : state'[k] # "running"
  <2>1. \A k \in Jobs : state[k] = "running" => k = j
    BY <1>2 DEF IInv, NoStaleRunning, Leading
  <2> QED
    BY <1>2, <2>1 DEF IInv, TypeOK, TerminalStates
<1>6. WriterLeaves' /\ LeavesNoWork'
  BY <1>2, NobodyLeaves DEF IInv, TypeOK, WriterLeaves, LeavesNoWork
<1>7. AdvancesRunning' /\ NoStaleRunning'
  BY <1>2, <1>4, <1>5 DEF IInv, TypeOK, AdvancesRunning, NoStaleRunning, Leading
<1>8. EndedJobsAreSettled'
  <2> HIDE DEF j
  <2>1. \A k \in Jobs \ {j} : state'[k] = state[k] /\ subject'[k] = subject[k]
    BY <1>2 DEF IInv, TypeOK, Settle
  <2>2. ASSUME result \in TerminalStates, NEW s \in Subjects
        PROVE  subject'[j][s] \in SettledSubject
    <3>1. subject'[j][s] = IF report[s] \in ActiveSubject THEN result ELSE report[s]
      BY <1>2, <2>2 DEF IInv, TypeOK, Settle
    <3>2. report[s] \in ActiveSubject \cup SettledSubject
      BY DEF SubjectStates
    <3> QED
      BY <2>2, <3>1, <3>2 DEF TerminalStates, SettledSubject
  <2>3. state'[j] = result
    BY <1>2 DEF IInv, TypeOK
  <2> QED
    BY <2>1, <2>2, <2>3 DEF IInv, EndedJobsAreSettled
<1> QED
  BY <1>1, <1>3, <1>6, <1>7, <1>8 DEF IInv

LEMMA CheckpointStep ==
  ASSUME IInv, NEW f \in Flushers, NEW report \in SubjectStates, Checkpoint(f, report)
  PROVE  IInv'
<1>1. TypeOK'
  BY CheckpointType DEF IInv
<1>2. /\ state[doing[f]] = "running"
      /\ subject' = [subject EXCEPT ![doing[f]] = report]
      /\ UNCHANGED <<state, writer, lock, pc, doing, at>>
  BY DEF Checkpoint, OnlyWorker, worker, client
<1>3. LockIsHeld' /\ WriterLeaves' /\ AdvancesRunning' /\ NoStaleRunning' /\ LeavesNoWork'
  BY <1>2 DEF IInv, LockIsHeld, WriterLeaves, AdvancesRunning, NoStaleRunning,
              LeavesNoWork, Unfinished
<1>4. EndedJobsAreSettled'
  BY <1>2 DEF IInv, TypeOK, EndedJobsAreSettled, TerminalStates
<1> QED
  BY <1>1, <1>3, <1>4 DEF IInv

LEMMA BecomesDueStep ==
  ASSUME IInv, NEW j \in Jobs, BecomesDue(j)
  PROVE  IInv'
<1>1. TypeOK'
  BY BecomesDueType DEF IInv
<1>2. UNCHANGED <<state, subject, writer, lock, pc, doing, at>>
  BY DEF BecomesDue, OnlyWorker, worker, client
<1>3. LockIsHeld' /\ QueueParts'
  BY <1>2, QueueKept DEF IInv, LockIsHeld, QueueParts
<1> QED
  BY <1>1, <1>3 DEF IInv, QueueParts

LEMMA IdleStep ==
  ASSUME IInv, NEW f \in Flushers, Idle(f)
  PROVE  IInv'
<1>1. TypeOK'
  BY WorkerTypeOutsideJobs DEF IInv
<1>2. /\ pc[f] = "claim" /\ pc' = [pc EXCEPT ![f] = "leave"]
      /\ UNCHANGED <<state, subject, writer, lock, doing, at>>
  BY DEF Idle, Move, queue, OnlyWorker, client
<1>3. LockIsHeld'
  BY <1>2 DEF IInv, TypeOK, LockIsHeld, Leading
<1>4. QueueParts'
  BY <1>2 DEF IInv, TypeOK, QueueParts, WriterLeaves, AdvancesRunning, NoStaleRunning,
              LeavesNoWork, EndedJobsAreSettled, Unfinished, Leading
<1> QED
  BY <1>1, <1>3, <1>4 DEF IInv, QueueParts

(* The worker leaves under its own transaction: the queue it saw empty is  *)
(* empty until it commits.                                                 *)
LEMMA LeaveStep ==
  ASSUME IInv, NEW f \in Flushers, Leave(f)
  PROVE  IInv'
<1>1. TypeOK'
  BY WorkerTypeOutsideJobs DEF IInv
<1>2. pc[f] = "leave" /\ writer = None /\ UNCHANGED <<state, subject, doing, at>>
  BY DEF Leave, queue, OnlyWorker, client
<1>3. CASE Unfinished
  <2>1. pc' = [pc EXCEPT ![f] = "claim"] /\ UNCHANGED <<writer, lock>>
    BY <1>3 DEF Leave, Move
  <2>2. LockIsHeld'
    BY <1>2, <2>1 DEF IInv, TypeOK, LockIsHeld, Leading
  <2>3. QueueParts'
    BY <1>2, <2>1 DEF IInv, TypeOK, QueueParts, WriterLeaves, AdvancesRunning,
                      NoStaleRunning, LeavesNoWork, EndedJobsAreSettled, Unfinished, Leading
  <2> QED
    BY <1>1, <2>2, <2>3 DEF IInv, QueueParts
<1>4. CASE ~Unfinished
  <2>1. pc' = [pc EXCEPT ![f] = "commit"] /\ writer' = f /\ lock' = None
    BY <1>4 DEF Leave, Move
  <2>2. lock = f
    BY <1>2 DEF IInv, LockIsHeld, Leading
  <2>3. LockIsHeld'
    BY <1>2, <2>1, <2>2, NobodyAssumption DEF IInv, TypeOK, LockIsHeld, Leading
  <2>4. WriterLeaves'
    BY <1>2, <2>1, NobodyLeaves DEF IInv, TypeOK, WriterLeaves
  <2>5. LeavesNoWork'
    BY <1>2, <1>4 DEF LeavesNoWork, Unfinished
  <2>6. AdvancesRunning' /\ NoStaleRunning' /\ EndedJobsAreSettled'
    BY <1>2, <2>1 DEF IInv, TypeOK, AdvancesRunning, NoStaleRunning, EndedJobsAreSettled,
                      Leading
  <2> QED
    BY <1>1, <2>3, <2>4, <2>5, <2>6 DEF IInv
<1> QED
  BY <1>3, <1>4

LEMMA CommitStep ==
  ASSUME IInv, NEW f \in Flushers, Commit(f)
  PROVE  IInv'
<1>1. TypeOK'
  BY WorkerTypeOutsideJobs DEF IInv
<1>2. /\ pc[f] = "commit" /\ pc' = [pc EXCEPT ![f] = "done"] /\ writer' = None
      /\ UNCHANGED <<state, subject, lock, doing, at>>
  BY DEF Commit, Move, queue, OnlyWorker, client
<1>3. LockIsHeld'
  BY <1>2 DEF IInv, TypeOK, LockIsHeld, Leading
<1>4. WriterLeaves' /\ LeavesNoWork'
  BY <1>2 DEF IInv, TypeOK, WriterLeaves, LeavesNoWork, Unfinished
<1>5. AdvancesRunning' /\ NoStaleRunning' /\ EndedJobsAreSettled'
  BY <1>2 DEF IInv, TypeOK, AdvancesRunning, NoStaleRunning, EndedJobsAreSettled, Leading
<1> QED
  BY <1>1, <1>3, <1>4, <1>5 DEF IInv

LEMMA FlusherDiesStep ==
  ASSUME IInv, NEW f \in Flushers, FlusherDies(f)
  PROVE  IInv'
<1>1. TypeOK'
  BY WorkerTypeOutsideJobs DEF IInv
<1>2. /\ pc' = [pc EXCEPT ![f] = "killed"]
      /\ doing' = [doing EXCEPT ![f] = None]
      /\ lock' = IF lock = f THEN None ELSE lock
      /\ writer' = IF writer = f THEN None ELSE writer
      /\ UNCHANGED <<state, subject, at>>
  BY DEF FlusherDies, Dies, Move, queue, client
<1>3. LockIsHeld'
  BY <1>2, NobodyAssumption DEF IInv, TypeOK, LockIsHeld, Leading
<1>4. WriterLeaves' /\ LeavesNoWork'
  BY <1>2 DEF IInv, TypeOK, WriterLeaves, LeavesNoWork, Unfinished
<1>5. AdvancesRunning' /\ NoStaleRunning' /\ EndedJobsAreSettled'
  BY <1>2 DEF IInv, TypeOK, AdvancesRunning, NoStaleRunning, EndedJobsAreSettled, Leading
<1> QED
  BY <1>1, <1>3, <1>4, <1>5 DEF IInv

LEMMA ClientDiesStep ==
  ASSUME IInv, NEW c \in Clients, ClientDies(c)
  PROVE  IInv'
<1>1. TypeOK'
  BY ClientDiesType DEF IInv
<1>2. /\ at' = [at EXCEPT ![c] = "free"]
      /\ lock' = IF lock = c THEN None ELSE lock
      /\ UNCHANGED <<state, subject, pc, doing>>
  BY DEF ClientDies, Dies, Return, queue, worker
<1>3. writer' = writer
  BY NobodyAssumption DEF ClientDies, Dies, IInv, TypeOK
<1>4. LockIsHeld'
  BY <1>2, NobodyAssumption DEF IInv, TypeOK, LockIsHeld, Leading
<1>5. QueueParts'
  BY <1>2, <1>3, QueueKept DEF IInv, QueueParts
<1> QED
  BY <1>1, <1>4, <1>5 DEF IInv, QueueParts

-----------------------------------------------------------------------------
(* The invariants                                                          *)

LEMMA InitInductive == Init => IInv
<1> SUFFICES ASSUME Init
             PROVE  IInv
  OBVIOUS
<1>1. TypeOK
  BY InitType
<1>2. LockIsHeld
  BY DEF Init, LockIsHeld, Leading
<1>3. QueueParts
  BY DEF Init, QueueParts, WriterLeaves, AdvancesRunning, NoStaleRunning, LeavesNoWork,
         EndedJobsAreSettled, TerminalStates
<1> QED
  BY <1>1, <1>2, <1>3 DEF IInv, QueueParts

LEMMA StepInductive == IInv /\ [Next]_vars => IInv'
<1> SUFFICES ASSUME IInv, [Next]_vars
             PROVE  IInv'
  OBVIOUS
<1>1. ASSUME NEW c \in Clients, NEW j \in Jobs,
             Enqueue(c, j) \/ Retry(c, j) \/ RequestCancel(c, j)
      PROVE  IInv'
  BY <1>1, RequestStep
<1>2. ASSUME NEW c \in Clients, ClientStep(c) \/ SpawnFails(c) \/ ClientDies(c)
      PROVE  IInv'
  BY <1>2, ClientStepKeeps, SpawnStep, ClientDiesStep DEF ClientStep, ClientCalls
<1>3. ASSUME NEW f \in Flushers, FlusherStep(f)
      PROVE  IInv'
  BY <1>3, StartStep, RecoverStep, RecordStep, ClaimStep, FinishStep, IdleStep,
     LeaveStep, CommitStep DEF FlusherStep, Finishes
<1>4. ASSUME NEW f \in Flushers,
             \/ Flush(f) \/ FlusherDies(f)
             \/ \E report \in SubjectStates : Checkpoint(f, report)
      PROVE  IInv'
  BY <1>4, FlushStep, FlusherDiesStep, CheckpointStep
<1>5. ASSUME NEW j \in Jobs, BecomesDue(j)
      PROVE  IInv'
  BY <1>5, BecomesDueStep
<1>6. CASE UNCHANGED vars
  <2>1. TypeOK'
    BY <1>6 DEF IInv, TypeOK, vars, queue, worker, client
  <2>2. LockIsHeld' /\ QueueParts'
    BY <1>6, QueueKept DEF IInv, QueueParts, LockIsHeld, vars, queue, worker, client
  <2> QED
    BY <2>1, <2>2 DEF IInv, QueueParts
<1> QED
  BY <1>1, <1>2, <1>3, <1>4, <1>5, <1>6 DEF Next

LEMMA Inductive == Spec => []IInv
<1> QED
  BY InitInductive, StepInductive, PTL DEF Spec

(* Every variable of the queue, of its workers and of its clients keeps    *)
(* its kind of value, and a job has one row however often it is queued.    *)
THEOREM QueueTypeCorrect == Spec => []TypeOK
<1>1. IInv => TypeOK
  BY DEF IInv
<1> QED
  BY <1>1, Inductive, PTL

(* Whoever advances a job holds the lock, and the job stays running under  *)
(* its hands: JobStore.finish never refuses what a handler reports.        *)
THEOREM OneWorkerAdvances == Spec => []OneAdvancer
<1>1. IInv => OneAdvancer
  BY DEF IInv, LockIsHeld, AdvancesRunning, OneAdvancer
<1> QED
  BY <1>1, Inductive, PTL

(* After recovery no job is shown as running that nobody advances.         *)
THEOREM RunningIsAdvanced == Spec => []NoStaleRunning
<1>1. IInv => NoStaleRunning
  BY DEF IInv
<1> QED
  BY <1>1, Inductive, PTL

(* The worker that gave up the lock leaves an empty queue, and nobody adds *)
(* to it before its transaction ends.                                      *)
THEOREM NoWorkIsLeft == Spec => []LeavesNoWork
<1>1. IInv => LeavesNoWork
  BY DEF IInv
<1> QED
  BY <1>1, Inductive, PTL

(* A job that ended has no subject in progress, whatever its handler       *)
(* reported and whoever canceled it.                                       *)
THEOREM EndedAreSettled == Spec => []EndedJobsAreSettled
<1>1. IInv => EndedJobsAreSettled
  BY DEF IInv
<1> QED
  BY <1>1, Inductive, PTL

-----------------------------------------------------------------------------
(* StateArchive.                                                           *)

(* The view of a closure refers to its entries only.                       *)
ArchiveCoherent(c) == c # None => c.view \subseteq c.entries

(* A view refers to entries of its own closure, wherever the closure is.   *)
ArchiveReferring ==
  /\ aView \subseteq aLocal
  /\ ArchiveCoherent(aClosure) /\ ArchiveCoherent(aStage) /\ ArchiveCoherent(aLatest)
  /\ aLate # None /\ aLate[1] = "latest" => aLate[2] \in Archive!Closure
       /\ ArchiveCoherent(aLate[2])
  /\ aLate # None /\ aLate[1] = "generation" => aLate[2] \in Archive!Closure
  /\ aLate # None /\ aLate[1] = "object" => aLate[2] \in Archive!Files

(* What the supervisor relies on at each step of a publication, unless a   *)
(* late request came between.                                              *)
ArchivePublishing ==
  /\ aPc # "idle" => aStage # None
  /\ ~aOverrun =>
       /\ aPc = "objects" => aPrior \subseteq aObjects
       /\ aPc = "latest" => aStage \in aGenerations
            /\ Archive!Content(aStage) \subseteq aObjects
       /\ aPc \in {"prune", "delete"} => aLatest # None
       /\ aPc = "delete"
            => aDoomed \cap (Archive!Content(aLatest) \cup Archive!Keys({aLatest})) = {}

(* What latest.json names is there, whole.                                 *)
ArchiveStored == ~aOverrun => Archive!Restorable

(* The inductive invariant.                                                *)
ArchiveInv == Archive!TypeOK /\ ArchiveReferring /\ ArchivePublishing /\ ArchiveStored

(* The files of a closure are files.                                       *)
LEMMA ArchiveContent ==
  ASSUME NEW c \in Archive!Closure
  PROVE  Archive!Content(c) \subseteq Archive!Files
  BY DEF Archive!Content, Archive!Files, Archive!Closure

(* The archive begins empty, with nothing to restore.                      *)
LEMMA ArchiveInit == ASSUME Archive!ArchiveAssumption, Archive!Init PROVE ArchiveInv
<1> USE DEF Archive!Init
<1>a. 1 \in Archive!Attempts /\ 0 \in 0..MaxClosures
  BY DEF Archive!Attempts, Archive!ArchiveAssumption
<1>b. aLocal \in SUBSET Entries /\ aView \in SUBSET Entries
  OBVIOUS
<1>c. aClosure \in Archive!Closure \cup {None} /\ aLearner \in {"run", "retain", "seal"}
      /\ aSealed \in 0..MaxClosures
  BY <1>a
<1>d. aObjects \in SUBSET Archive!Files /\ aGenerations \in SUBSET Archive!Closure
  /\ aLatest \in Archive!Closure \cup {None} /\ aOwner \in Archive!Attempts
       /\ aPc \in {"idle", "prior", "objects", "latest", "prune", "delete"}
  BY <1>a
<1>e. aStage \in Archive!Closure \cup {None} /\ aPublished \in Archive!Closure \cup {None}
  /\ aPrior \in SUBSET Archive!Files
       /\ aDoomed \subseteq Archive!Files \cup Archive!Keys(Archive!Closure)
  OBVIOUS
<1>1. Archive!TypeOK
  BY <1>a, <1>b, <1>c, <1>d, <1>e DEF Archive!TypeOK
<1>2. ArchiveReferring /\ ArchivePublishing /\ ArchiveStored
  BY DEF Archive!Init, ArchiveReferring, ArchivePublishing, ArchiveStored,
     ArchiveCoherent, Archive!Restorable
<1> QED
  BY <1>1, <1>2 DEF ArchiveInv

(* The learner changes the directory, and nothing else.                    *)
LEMMA ArchiveLearnerStep ==
  ASSUME Archive!ArchiveAssumption, ArchiveInv,
         \/ \E e \in Entries : Archive!Capture(e)
         \/ \E s \in SUBSET Entries : Archive!WriteView(s)
         \/ Archive!Retain \/ Archive!Seal
  PROVE  ArchiveInv'
<1> USE DEF ArchiveInv, Archive!ArchiveAssumption
<1>0. UNCHANGED <<Archive!bucket, Archive!supervisor, aLate, aOverrun>>
  BY DEF Archive!Capture, Archive!WriteView, Archive!Retain, Archive!Seal
<1>1. aLocal' \in SUBSET Entries /\ aView' \in SUBSET Entries /\ aView' \subseteq aLocal'
  BY DEF Archive!Capture, Archive!WriteView, Archive!Retain, Archive!Seal,
     Archive!TypeOK, ArchiveReferring
<1>2. aClosure' \in Archive!Closure \cup {None} /\ ArchiveCoherent(aClosure')
  <2>1. CASE Archive!Seal
    <3>1. aClosure' \in Archive!Closure
      BY <2>1 DEF Archive!Seal, Archive!TypeOK, Archive!Closure
    <3> QED
      BY <2>1, <3>1 DEF Archive!Seal, ArchiveCoherent, ArchiveReferring
  <2>2. CASE ~Archive!Seal
    BY <2>2 DEF Archive!Capture, Archive!WriteView, Archive!Retain, Archive!TypeOK,
       ArchiveReferring, ArchiveCoherent
  <2> QED
    BY <2>1, <2>2
<1>3. aLearner' \in {"run", "retain", "seal"} /\ aSealed' \in 0..MaxClosures
  BY DEF Archive!Capture, Archive!WriteView, Archive!Retain, Archive!Seal, Archive!TypeOK
<1>4. Archive!TypeOK'
  BY <1>0, <1>1, <1>2, <1>3 DEF Archive!TypeOK, Archive!bucket, Archive!supervisor
<1>5. ArchiveReferring' /\ ArchivePublishing' /\ ArchiveStored'
  BY <1>0, <1>1, <1>2 DEF ArchiveReferring, ArchivePublishing, ArchiveStored,
     Archive!bucket, Archive!supervisor, ArchiveCoherent, Archive!Restorable
<1> QED
  BY <1>4, <1>5

(* A request of the supervisor writes what it has staged.                  *)
LEMMA ArchiveSupervisorType ==
  ASSUME Archive!ArchiveAssumption, ArchiveInv,
         \/ Archive!Stage \/ Archive!ReadPrior \/ Archive!PutGeneration \/ Archive!PutLatest
              \/ Archive!ListObsolete \/ Archive!Finish
         \/ \E file \in Archive!Files : Archive!PutObject(file)
         \/ \E key \in aDoomed : Archive!Delete(key)
  PROVE  Archive!TypeOK' /\ ArchiveReferring'
<1> USE DEF ArchiveInv, Archive!ArchiveAssumption
<1>1. UNCHANGED <<Archive!directory, aLate, aOverrun, aOwner>>
  BY DEF Archive!Stage, Archive!ReadPrior, Archive!PutGeneration, Archive!PutLatest,
     Archive!ListObsolete, Archive!Finish, Archive!PutObject, Archive!Delete,
     Archive!supervisor
<1>2. /\ aObjects' \in SUBSET Archive!Files /\ aGenerations' \in SUBSET Archive!Closure
      /\ aLatest' \in Archive!Closure \cup {None} /\ ArchiveCoherent(aLatest')
  <2>1. Archive!PutGeneration => aStage \in Archive!Closure
    BY DEF Archive!PutGeneration, ArchivePublishing, Archive!TypeOK
  <2>2. Archive!PutLatest => aStage \in Archive!Closure
    BY DEF Archive!PutLatest, ArchivePublishing, Archive!TypeOK
  <2> QED
    BY <2>1, <2>2 DEF Archive!Stage, Archive!ReadPrior, Archive!PutGeneration,
       Archive!PutLatest, Archive!ListObsolete, Archive!Finish, Archive!PutObject,
       Archive!Delete, Archive!bucket, Archive!supervisor, Archive!TypeOK,
       ArchiveReferring, ArchiveCoherent
<1>3. aStage' \in Archive!Closure \cup {None} /\ ArchiveCoherent(aStage')
      /\ aPublished' \in Archive!Closure \cup {None}
  BY DEF Archive!Stage, Archive!ReadPrior, Archive!PutGeneration, Archive!PutLatest,
     Archive!ListObsolete, Archive!Finish, Archive!PutObject, Archive!Delete,
     Archive!Idle, Archive!GoTo, Archive!bucket, Archive!supervisor, Archive!TypeOK,
     ArchiveReferring, ArchiveCoherent
<1>4. aPc' \in {"idle", "prior", "objects", "latest", "prune", "delete"}
  BY DEF Archive!Stage, Archive!ReadPrior, Archive!PutGeneration, Archive!PutLatest,
     Archive!ListObsolete, Archive!Finish, Archive!PutObject, Archive!Delete,
     Archive!Idle, Archive!GoTo, Archive!bucket, Archive!supervisor, Archive!TypeOK
<1>5. aPrior' \in SUBSET Archive!Files
  BY ArchiveContent DEF Archive!Stage, Archive!ReadPrior, Archive!PutGeneration,
     Archive!PutLatest, Archive!ListObsolete, Archive!Finish, Archive!PutObject,
     Archive!Delete, Archive!Idle, Archive!GoTo, Archive!bucket, Archive!supervisor,
     Archive!TypeOK
<1>6. aDoomed' \subseteq Archive!Files \cup Archive!Keys(Archive!Closure)
  BY DEF Archive!Stage, Archive!ReadPrior, Archive!PutGeneration, Archive!PutLatest,
     Archive!ListObsolete, Archive!Finish, Archive!PutObject, Archive!Delete,
     Archive!Idle, Archive!GoTo, Archive!bucket, Archive!supervisor, Archive!TypeOK,
     Archive!Keys
<1>7. Archive!TypeOK'
  BY <1>1, <1>2, <1>3, <1>4, <1>5, <1>6 DEF Archive!TypeOK, Archive!directory
<1>8. ArchiveReferring'
  BY <1>1, <1>2, <1>3 DEF ArchiveReferring, Archive!directory, ArchiveCoherent
<1> QED
  BY <1>7, <1>8

(* The order of the requests: objects before the generation, the           *)
(* generation before latest.json, and deletion last, of what latest.json   *)
(* does not name.                                                          *)
LEMMA ArchiveSupervisorStep ==
  ASSUME Archive!ArchiveAssumption, ArchiveInv,
         \/ Archive!Stage \/ Archive!ReadPrior \/ Archive!PutGeneration \/ Archive!PutLatest
              \/ Archive!ListObsolete \/ Archive!Finish
         \/ \E file \in Archive!Files : Archive!PutObject(file)
         \/ \E key \in aDoomed : Archive!Delete(key)
  PROVE  ArchivePublishing' /\ ArchiveStored'
<1> USE DEF ArchiveInv
<1>1. CASE Archive!Stage
  BY <1>1 DEF Archive!Stage, Archive!GoTo, ArchivePublishing, ArchiveStored,
     Archive!Restorable, Archive!bucket
<1>2. CASE Archive!ReadPrior
  BY <1>2 DEF Archive!ReadPrior, Archive!GoTo, ArchivePublishing, ArchiveStored,
     Archive!Restorable, Archive!bucket
<1>3. CASE Archive!PutGeneration
  BY <1>3 DEF Archive!PutGeneration, Archive!GoTo, ArchivePublishing, ArchiveStored,
     Archive!Restorable, Archive!Missing
<1>4. CASE Archive!PutLatest
  BY <1>4 DEF Archive!PutLatest, Archive!GoTo, ArchivePublishing, ArchiveStored,
     Archive!Restorable
<1>5. CASE Archive!ListObsolete
  <2>1. ASSUME aLatest # None
        PROVE  aDoomed' \cap (Archive!Content(aLatest) \cup Archive!Keys({aLatest})) = {}
    <3>1. \A x \in Archive!Content(aLatest) : x[1] \in {"entry", "view"}
      BY DEF Archive!Content
    <3>2. \A g : \A x \in Archive!Keys({g}) : x[1] = "generation"
      BY DEF Archive!Keys
    <3>3. \A x \in Archive!Keys(aGenerations \ {aLatest}) : x[1] = "generation"
          /\ x[2] # aLatest
      BY DEF Archive!Keys
    <3>4. \A x \in Archive!Keys({aLatest}) : x[2] = aLatest
      BY DEF Archive!Keys
    <3>5. \A x \in aObjects : x[1] \in {"entry", "view"}
      BY DEF Archive!TypeOK, Archive!Files
    <3> QED
      BY <1>5, <2>1, <3>1, <3>2, <3>3, <3>4, <3>5 DEF Archive!ListObsolete
  <2> QED
    BY <1>5, <2>1 DEF Archive!ListObsolete, Archive!GoTo, ArchivePublishing,
       ArchiveStored, Archive!Restorable, Archive!bucket
<1>6. CASE Archive!Finish
  BY <1>6 DEF Archive!Finish, Archive!Idle, Archive!GoTo, ArchivePublishing,
     ArchiveStored, Archive!Restorable, Archive!bucket
<1>7. ASSUME NEW file \in Archive!Files, Archive!PutObject(file)
      PROVE  ArchivePublishing' /\ ArchiveStored'
  BY <1>7 DEF Archive!PutObject, Archive!supervisor, ArchivePublishing, ArchiveStored,
     Archive!Restorable
<1>8. ASSUME NEW key \in aDoomed, Archive!Delete(key)
      PROVE  ArchivePublishing' /\ ArchiveStored'
  <2>1. CASE aOverrun
    BY <1>8, <2>1 DEF Archive!Delete, ArchivePublishing, ArchiveStored
  <2>2. CASE ~aOverrun
    <3>1. key \notin Archive!Content(aLatest) /\ Archive!Keys({aLatest}) # {key}
          /\ aLatest # None
      BY <1>8, <2>2 DEF Archive!Delete, ArchivePublishing, Archive!Keys
    <3>2. aLatest \in aGenerations' /\ Archive!Content(aLatest) \subseteq aObjects'
      BY <1>8, <2>2, <3>1 DEF Archive!Delete, ArchiveStored, Archive!Restorable
    <3> QED
      BY <1>8, <2>2, <3>1, <3>2 DEF Archive!Delete, ArchivePublishing, ArchiveStored,
         Archive!Restorable
  <2> QED
    BY <2>1, <2>2
<1> QED
  BY <1>1, <1>2, <1>3, <1>4, <1>5, <1>6, <1>7, <1>8

(* The next Attempt begins from what latest.json names, and a request may  *)
(* be left under way.                                                      *)
LEMMA ArchiveTakeOverStep ==
  ASSUME Archive!ArchiveAssumption, ArchiveInv, Archive!TakeOver
  PROVE  ArchiveInv'
<1> USE DEF ArchiveInv, Archive!ArchiveAssumption
<1>1. UNCHANGED <<aSealed, Archive!bucket, aOverrun>> /\ aPc' = "idle" /\ aStage' = None
      /\ aPrior' = {} /\ aDoomed' = {}
  BY DEF Archive!TakeOver, Archive!Idle, Archive!GoTo
<1>2. /\ aOwner' \in Archive!Attempts /\ aLearner' = "run" /\ aPublished' = None
  BY DEF Archive!TakeOver, Archive!TypeOK, Archive!Attempts
<1>3. /\ aLocal' \in SUBSET Entries /\ aView' \in SUBSET Entries /\ aView' \subseteq aLocal'
      /\ aClosure' \in Archive!Closure \cup {None} /\ ArchiveCoherent(aClosure')
  <2>1. CASE aLatest = None
    BY <2>1 DEF Archive!TakeOver, Archive!TypeOK, ArchiveReferring, ArchiveCoherent
  <2>2. CASE aLatest # None
    <3>1. aLatest \in Archive!Closure /\ aLatest.entries \in SUBSET Entries
          /\ aLatest.view \in SUBSET Entries
      BY <2>2 DEF Archive!TypeOK, Archive!Closure
    <3> QED
      BY <2>2, <3>1 DEF Archive!TakeOver, Archive!TypeOK, ArchiveReferring,
         ArchiveCoherent
  <2> QED
    BY <2>1, <2>2
<1>4. aLate' # None =>
        /\ aLate'[1] \in {"object", "generation", "latest", "delete"}
        /\ aLate'[1] = "latest" => aLate'[2] \in Archive!Closure /\ ArchiveCoherent(aLate'[2])
        /\ aLate'[1] = "generation" => aLate'[2] \in Archive!Closure
        /\ aLate'[1] = "object" => aLate'[2] \in Archive!Files
  <2>1. CASE aLate' \in Archive!UnderWay
    <3>1. ASSUME aPc = "objects", NEW file \in Archive!Missing, aLate' = <<"object", file>>
          PROVE  file \in Archive!Files
      <4>1. aStage \in Archive!Closure
        BY <3>1 DEF ArchivePublishing, Archive!TypeOK
      <4> QED
        BY <4>1, ArchiveContent DEF Archive!Missing
    <3>2. CASE aPc = "objects" /\ Archive!Missing # {}
      BY <2>1, <3>2, <3>1 DEF Archive!UnderWay
    <3>3. CASE aPc = "objects" /\ Archive!Missing = {}
      BY <2>1, <3>3 DEF Archive!UnderWay, ArchivePublishing, Archive!TypeOK
    <3>4. CASE aPc = "latest"
      BY <2>1, <3>4 DEF Archive!UnderWay, ArchivePublishing, Archive!TypeOK,
         ArchiveReferring
    <3>5. CASE aPc = "delete"
      BY <2>1, <3>5 DEF Archive!UnderWay
    <3>6. CASE aPc \notin {"objects", "latest", "delete"}
      BY <2>1, <3>6 DEF Archive!UnderWay
    <3> QED
      BY <3>2, <3>3, <3>4, <3>5, <3>6
  <2>2. CASE aLate' = None
    BY <2>2
  <2>3. CASE aLate' = aLate
    BY <2>3 DEF Archive!TypeOK, ArchiveReferring
  <2> QED
    BY <2>1, <2>2, <2>3 DEF Archive!TakeOver
<1>5. Archive!TypeOK'
  BY <1>1, <1>2, <1>3, <1>4 DEF Archive!TypeOK, Archive!bucket
<1>6. ArchiveReferring'
  <2>1. ArchiveCoherent(aLatest')
    BY <1>1 DEF ArchiveReferring, Archive!bucket, ArchiveCoherent
  <2>2. ArchiveCoherent(aStage')
    BY <1>1 DEF ArchiveCoherent
  <2> QED
    BY <1>3, <1>4, <2>1, <2>2 DEF ArchiveReferring
<1>7. ArchivePublishing' /\ ArchiveStored'
  BY <1>1 DEF ArchivePublishing, ArchiveStored, Archive!Restorable, Archive!bucket
<1> QED
  BY <1>5, <1>6, <1>7

(* A late request only adds to the store, or has overrun it.               *)
LEMMA ArchiveLateStep ==
  ASSUME Archive!ArchiveAssumption, ArchiveInv, Archive!LateRequest
  PROVE  ArchiveInv'
<1> USE DEF ArchiveInv, Archive!ArchiveAssumption
<1>1. UNCHANGED <<Archive!directory, Archive!supervisor>> /\ aLate' = None
      /\ aOverrun' \in BOOLEAN
  BY DEF Archive!LateRequest
<1>2. aLate[1] \in {"object", "generation", "latest", "delete"}
  BY DEF Archive!LateRequest, Archive!TypeOK
<1>3. /\ aObjects' \in SUBSET Archive!Files /\ aGenerations' \in SUBSET Archive!Closure
      /\ aLatest' \in Archive!Closure \cup {None} /\ ArchiveCoherent(aLatest')
  <2>1. aObjects' \in SUBSET Archive!Files
    BY <1>2 DEF Archive!LateRequest, Archive!TypeOK, ArchiveReferring
  <2>2. aGenerations' \in SUBSET Archive!Closure
    BY <1>2 DEF Archive!LateRequest, Archive!TypeOK, ArchiveReferring
  <2>3. aLatest' = IF aLate[1] = "latest" THEN aLate[2] ELSE aLatest
    BY DEF Archive!LateRequest
  <2>4. aLate[1] = "latest" => aLate[2] \in Archive!Closure /\ ArchiveCoherent(aLate[2])
    BY DEF Archive!LateRequest, ArchiveReferring
  <2>5. aLatest \in Archive!Closure \cup {None} /\ ArchiveCoherent(aLatest)
    BY DEF Archive!TypeOK, ArchiveReferring
  <2> QED
    BY <2>1, <2>2, <2>3, <2>4, <2>5
<1>4. CASE ~aOverrun'
  <2>1. ~aOverrun /\ aLatest' = aLatest /\ aObjects \subseteq aObjects'
        /\ aGenerations \subseteq aGenerations'
    BY <1>2, <1>4 DEF Archive!LateRequest, Archive!TypeOK
  <2> QED
    BY <1>1, <1>3, <1>4, <2>1 DEF Archive!TypeOK, ArchiveReferring, ArchivePublishing,
       ArchiveStored, Archive!Restorable, ArchiveCoherent, Archive!directory,
       Archive!supervisor
<1>5. CASE aOverrun'
  BY <1>1, <1>3, <1>5 DEF Archive!TypeOK, ArchiveReferring, ArchivePublishing,
     ArchiveStored, ArchiveCoherent, Archive!directory, Archive!supervisor
<1> QED
  BY <1>1, <1>4, <1>5

(* The invariant holds in every state.                                     *)
LEMMA ArchiveInductive == ASSUME Archive!ArchiveAssumption PROVE Archive!Spec => []ArchiveInv
<1>1. Archive!Init => ArchiveInv
  BY ArchiveInit
<1>2. ArchiveInv /\ [Archive!Next]_Archive!vars => ArchiveInv'
  <2> SUFFICES ASSUME ArchiveInv, [Archive!Next]_Archive!vars PROVE ArchiveInv'
    OBVIOUS
  <2>1. CASE UNCHANGED Archive!vars
    <3>1. /\ UNCHANGED <<aLocal, aView, aClosure, aLearner, aSealed>>
          /\ UNCHANGED <<aObjects, aGenerations, aLatest, aOwner, aPc>>
          /\ UNCHANGED <<aStage, aPublished, aPrior, aDoomed, aLate, aOverrun>>
      BY <2>1 DEF Archive!vars, Archive!directory, Archive!bucket, Archive!supervisor
    <3>2. Archive!TypeOK'
      BY <3>1 DEF ArchiveInv, Archive!TypeOK
    <3>3. ArchiveReferring' /\ ArchivePublishing' /\ ArchiveStored'
      BY <3>1 DEF ArchiveInv, ArchiveReferring, ArchivePublishing, ArchiveStored,
         Archive!Restorable, ArchiveCoherent
    <3> QED
      BY <3>2, <3>3 DEF ArchiveInv
  <2>2. CASE Archive!Next
    <3>1. ArchiveInv' \/ Archive!Stage \/ Archive!ReadPrior \/ Archive!PutGeneration
          \/ Archive!PutLatest \/ Archive!ListObsolete \/ Archive!Finish
         \/ (\E file \in Archive!Files : Archive!PutObject(file))
         \/ (\E key \in aDoomed : Archive!Delete(key))
      BY <2>2, ArchiveLearnerStep, ArchiveTakeOverStep, ArchiveLateStep DEF Archive!Next
    <3> QED
      BY <3>1, ArchiveSupervisorType, ArchiveSupervisorStep DEF ArchiveInv
  <2> QED
    BY <2>1, <2>2
<1> QED
  BY <1>1, <1>2, PTL DEF Archive!Spec

(* Whatever the learner, the supervisor and its successors do, what        *)
(* latest.json names can be restored.                                      *)
THEOREM ArchiveIsRestorable ==
  ASSUME Archive!ArchiveAssumption
  PROVE  Archive!Spec => [](Archive!TypeOK /\ Archive!LatestIsRestorable)
<1>1. ArchiveInv => Archive!TypeOK /\ Archive!LatestIsRestorable
  BY DEF ArchiveInv, ArchiveStored, ArchiveReferring, ArchiveCoherent,
     Archive!LatestIsRestorable
<1> QED
  BY <1>1, ArchiveInductive, PTL

-----------------------------------------------------------------------------
(* PlaybackHost.                                                           *)

(* The imports that hold a runner, and the loader when it holds one.       *)
PlaybackImporting == {i \in Importers : pImporter[i].pc = "import"}
PlaybackSwapping == IF pLoader.pc = "swap" THEN 1 ELSE 0

(* The loader, with the fields TypeOK leaves out.                          *)
PlaybackLoader == [pc : {"off", "prepare", "activate", "swap", "except", "say"}, gen : Nat,
           runner : {0} \cup Playback!Runners, say : Playback!Phases,
               then : {"off", "prepare", "activate"}]

(* An epoch is spent on a runner that was built, and on one only.          *)
PlaybackSpent == pEpoch + Cardinality(PlaybackImporting) + PlaybackSwapping <= pBuilt

(* What an epoch was shown with, and who relies on it.                     *)
PlaybackShowing ==
  /\ \A s \in pShown : s[1] <= pEpoch
  /\ \A s, t \in pShown : s[1] = t[1] => s[2] = t[2]
  /\ pActive # 0 => <<pEpoch, pActive>> \in pShown
  /\ \A r \in PlaybackReaders : pReader[r].pc # "off"
       => <<pReader[r].epoch, pReader[r].runner>> \in pShown

(* Who closes an open runner.                                              *)
PlaybackOwned ==
  /\ pStopped => pActive = 0
  /\ pFaults = 0 => \A n \in pOpen :
       \/ n = pActive
       \/ pLoader.pc = "swap" /\ n = pLoader.runner
       \/ \E i \in PlaybackImporting : n = pImporter[i].runner

(* The kinds of the variables; a runner to be swapped in exists.           *)
PlaybackType ==
  /\ Playback!TypeOK /\ pLoader \in PlaybackLoader
  /\ pLoader.pc = "swap" => pLoader.runner # 0
  /\ \A i \in Importers : pImporter[i].pc = "import" => pImporter[i].runner # 0
(* The inductive invariant.                                                *)
PlaybackInv == PlaybackType /\ PlaybackSpent /\ PlaybackShowing /\ PlaybackOwned

(* The host begins without a runner.                                       *)
LEMMA PlaybackInit == ASSUME Playback!PlaybackAssumption, Playback!Init PROVE PlaybackInv
<1> USE DEF Playback!Init
<1>1. /\ pGeneration \in Nat /\ pEpoch \in Playback!Epochs /\ pPhase \in Playback!Phases
           /\ pStopped \in BOOLEAN
      /\ pActive \in {0} \cup Playback!Runners /\ pOpen \in SUBSET Playback!Runners
           /\ pBuilt \in {0} \cup Playback!Runners
      /\ pCommands \in 0..MaxCommands /\ pFaults \in 0..PlaybackFaults
  <2>1. pGeneration \in Nat /\ pPhase \in Playback!Phases /\ pStopped \in BOOLEAN
        /\ pOpen \in SUBSET Playback!Runners
    BY DEF Playback!Phases
  <2>2. pEpoch \in Playback!Epochs /\ pActive \in {0} \cup Playback!Runners
        /\ pBuilt \in {0} \cup Playback!Runners
    BY DEF Playback!Epochs, Playback!PlaybackAssumption
  <2>3. pCommands \in 0..MaxCommands /\ pFaults \in 0..PlaybackFaults
    BY DEF Playback!PlaybackAssumption
  <2> QED
    BY <2>1, <2>2, <2>3
<1>2. pLoader \in PlaybackLoader
  BY DEF PlaybackLoader, Playback!NoLoader, Playback!Phases
<1>3. /\ pLoader.pc \in {"off", "prepare", "activate", "swap", "except", "say"}
      /\ pLoader.say \in Playback!Phases
  BY <1>2 DEF PlaybackLoader
<1>4. pShown \in SUBSET (Playback!Epochs \X Playback!Runners)
  OBVIOUS
<1>5. pImporter \in [Importers -> [pc : {"off", "import"}, gen : Nat, runner : {0} \cup Playback!Runners]]
  OBVIOUS
<1>6. pReader \in [PlaybackReaders -> [pc : {"off", "reading", "answered"}, epoch : Playback!Epochs,
                             runner : {0} \cup Playback!Runners]]
  BY <1>1
<1>7. PlaybackType
  BY <1>1, <1>2, <1>3, <1>4, <1>5, <1>6 DEF PlaybackType, Playback!TypeOK,
     Playback!NoLoader
<1>8. PlaybackSpent
  <2>1. PlaybackImporting = {}
    BY DEF PlaybackImporting
  <2> QED
    BY <2>1, FS_EmptySet DEF PlaybackSpent, PlaybackSwapping, Playback!NoLoader
<1>9. PlaybackShowing /\ PlaybackOwned
  BY DEF PlaybackShowing, PlaybackOwned
<1> QED
  BY <1>7, <1>8, <1>9 DEF PlaybackInv

(* The imports under way can be counted.                                   *)
LEMMA ImportersAreFinite ==
  ASSUME Playback!PlaybackAssumption
  PROVE  IsFiniteSet(PlaybackImporting) /\ Cardinality(PlaybackImporting) \in Nat
<1>1. IsFiniteSet(Importers)
  BY DEF Playback!PlaybackAssumption, Playback!IsFiniteSet, IsFiniteSet
<1> QED
  BY <1>1, FS_Subset, FS_CardinalityType DEF PlaybackImporting

(* An import that begins is one more.                                      *)
LEMMA ImporterEnters ==
  ASSUME Playback!PlaybackAssumption, PlaybackType, NEW i \in Importers, NEW x,
         pImporter[i].pc = "off", x.pc = "import",
         pImporter' = [pImporter EXCEPT ![i] = x]
  PROVE  PlaybackImporting' = PlaybackImporting \cup {i}
         /\ Cardinality(PlaybackImporting') = Cardinality(PlaybackImporting) + 1
<1>1. PlaybackImporting' = PlaybackImporting \cup {i} /\ i \notin PlaybackImporting
  BY DEF PlaybackImporting, PlaybackType, Playback!TypeOK
<1> QED
  BY <1>1, ImportersAreFinite, FS_AddElement

(* An import that ends is one less.                                        *)
LEMMA ImporterLeaves ==
  ASSUME Playback!PlaybackAssumption, PlaybackType, NEW i \in Importers,
         pImporter[i].pc = "import", Playback!ImportOver(i)
  PROVE  PlaybackImporting' = PlaybackImporting \ {i}
         /\ Cardinality(PlaybackImporting') = Cardinality(PlaybackImporting) - 1
<1>1. PlaybackImporting' = PlaybackImporting \ {i} /\ i \in PlaybackImporting
  BY DEF PlaybackImporting, PlaybackType, Playback!TypeOK, Playback!ImportOver
<1> QED
  BY <1>1, ImportersAreFinite, FS_RemoveElement

(* A runner that is built and not swapped in has an epoch left.            *)
LEMMA PlaybackBounds ==
  ASSUME Playback!PlaybackAssumption, PlaybackType, PlaybackSpent
  PROVE  /\ pEpoch \in Nat /\ pBuilt \in Nat /\ pEpoch <= pBuilt /\ pBuilt <= MaxRunners
              /\ MaxRunners \in Nat
         /\ (pLoader.pc = "swap" \/ PlaybackImporting # {}) => pEpoch + 1 <= pBuilt
<1>1. pEpoch \in Nat /\ pBuilt \in Nat /\ MaxRunners \in Nat /\ pBuilt <= MaxRunners
  BY DEF PlaybackType, Playback!TypeOK, Playback!Epochs, Playback!Runners,
     Playback!PlaybackAssumption
<1>2. PlaybackImporting # {} => Cardinality(PlaybackImporting) # 0
  BY ImportersAreFinite, FS_EmptySet
<1> QED
  BY <1>1, <1>2, ImportersAreFinite DEF PlaybackSpent, PlaybackSwapping

(* A swap, or a start that failed, spends an epoch no read was made in.    *)
LEMMA PlaybackReplaceEffect ==
  ASSUME Playback!PlaybackAssumption, PlaybackType, PlaybackSpent, PlaybackShowing,
         NEW n \in {0} \cup Playback!Runners, n # 0,
         \/ Playback!Replace(n)
         \/ Playback!NotReplaced,
         pReader' = pReader, pEpoch + 1 <= pBuilt, pBuilt' = pBuilt
  PROVE  /\ pEpoch' = pEpoch + 1 /\ pEpoch' \in Playback!Epochs
              /\ pActive' \in {0} \cup Playback!Runners /\ pPhase' \in Playback!Phases
         /\ pShown' \in SUBSET (Playback!Epochs \X Playback!Runners)
         /\ PlaybackShowing'
<1>1. pEpoch' = pEpoch + 1 /\ pEpoch' \in Playback!Epochs
  BY PlaybackBounds DEF Playback!Replace, Playback!NotReplaced, Playback!Epochs
<1>2. pActive' \in {0} \cup Playback!Runners /\ pPhase' \in Playback!Phases
  BY DEF Playback!Replace, Playback!NotReplaced, PlaybackType, Playback!TypeOK,
     Playback!Phases
<1>3. pShown' = pShown \cup {<<pEpoch', m>> : m \in {pActive'} \ {0}}
  BY <1>1 DEF Playback!Replace, Playback!NotReplaced
<1>4. pShown' \in SUBSET (Playback!Epochs \X Playback!Runners)
  BY <1>1, <1>2, <1>3 DEF PlaybackType, Playback!TypeOK
<1>5. \A s \in pShown : s[1] \in Nat /\ s[1] < pEpoch'
  BY <1>1, PlaybackBounds DEF PlaybackShowing, PlaybackType, Playback!TypeOK,
     Playback!Epochs
<1>6. PlaybackShowing'
  <2>1. \A s \in pShown' : s[1] <= pEpoch'
    BY <1>1, <1>3, <1>5, PlaybackBounds
  <2>2. \A s, t \in pShown' : s[1] = t[1] => s[2] = t[2]
    BY <1>1, <1>3, <1>5, PlaybackBounds DEF PlaybackShowing
  <2>3. pActive' # 0 => <<pEpoch', pActive'>> \in pShown'
    BY <1>3
  <2>4. pShown \subseteq pShown'
    BY <1>3
  <2> QED
    BY <2>1, <2>2, <2>3, <2>4 DEF PlaybackShowing
<1> QED
  BY <1>1, <1>2, <1>4, <1>6

(* The steps that build no runner and begin no session.                    *)
PlaybackQuiet ==
  \/ Playback!Select \/ Playback!Browse \/ Playback!Cancel \/ Playback!Stop
  \/ Playback!Progress \/ Playback!SetState \/ Playback!Prepared \/ Playback!PrepareFails
       \/ Playback!ActivateFails \/ Playback!ActivateExcept
  \/ \E r \in PlaybackReaders : Playback!ReadBegins(r) \/ Playback!ReadEnds(r)

(* The steps that build no runner and begin no session keep the invariant. *)
LEMMA PlaybackQuietStep ==
  ASSUME Playback!PlaybackAssumption, PlaybackInv, PlaybackQuiet
  PROVE  PlaybackInv'
<1> USE DEF PlaybackInv
<1>1. UNCHANGED <<pEpoch, pBuilt, pShown, pImporter>> /\ pOpen' \subseteq pOpen
      /\ pActive' \in {pActive, 0}
      /\ (pActive' # pActive => pOpen' = pOpen \ {pActive}) /\ (pStopped'
           => (pStopped \/ pActive' = 0))
      /\ pStopped' \in BOOLEAN
  <2>1. UNCHANGED <<pEpoch, pBuilt, pShown, pImporter>>
    BY DEF PlaybackQuiet, Playback!Select, Playback!Browse, Playback!Cancel,
       Playback!Stop, Playback!Progress, Playback!SetState, Playback!Prepared,
       Playback!PrepareFails, Playback!ActivateFails, Playback!ActivateExcept,
       Playback!ReadBegins, Playback!ReadEnds, Playback!session, Playback!threads,
       Playback!LoaderOnly
  <2>2. \/ UNCHANGED <<pOpen, pActive>>
        \/ pOpen' = pOpen \ {pActive} /\ pActive' = 0
    BY DEF PlaybackQuiet, Playback!Select, Playback!Browse, Playback!Cancel,
       Playback!Stop, Playback!Progress, Playback!SetState, Playback!Prepared,
       Playback!PrepareFails, Playback!ActivateFails, Playback!ActivateExcept,
       Playback!ReadBegins, Playback!ReadEnds, Playback!session, Playback!threads,
       Playback!LoaderOnly
  <2>3. \/ UNCHANGED pStopped
        \/ pStopped' = TRUE /\ pActive' = 0
    BY DEF PlaybackQuiet, Playback!Select, Playback!Browse, Playback!Cancel,
       Playback!Stop, Playback!Progress, Playback!SetState, Playback!Prepared,
       Playback!PrepareFails, Playback!ActivateFails, Playback!ActivateExcept,
       Playback!ReadBegins, Playback!ReadEnds, Playback!session, Playback!threads,
       Playback!LoaderOnly
  <2>4. (pStopped' => (pStopped \/ pActive' = 0)) /\ pStopped' \in BOOLEAN
    <3>1. CASE UNCHANGED pStopped
      BY <3>1, Zenon DEF PlaybackType, Playback!TypeOK
    <3>2. CASE pStopped' = TRUE /\ pActive' = 0
      BY <3>2, Zenon
    <3> QED
      BY <2>3, <3>1, <3>2
  <2> QED
    BY <2>1, <2>2, <2>4
<1>2. pGeneration' \in Nat /\ pPhase' \in Playback!Phases /\ pCommands' \in 0..MaxCommands
      /\ pFaults' \in 0..PlaybackFaults /\ (pFaults' = 0 => pFaults = 0)
  BY DEF PlaybackQuiet, Playback!Select, Playback!Browse, Playback!Cancel,
     Playback!Stop, Playback!Progress, Playback!SetState, Playback!Prepared,
     Playback!PrepareFails, Playback!ActivateFails, Playback!ActivateExcept,
     Playback!ReadBegins, Playback!ReadEnds, Playback!session, Playback!threads,
     Playback!LoaderOnly, PlaybackType, Playback!TypeOK, Playback!Command,
     Playback!Fault, Playback!Phases, PlaybackLoader, Playback!PlaybackAssumption
<1>3. (pLoader' \in PlaybackLoader /\ pLoader'.pc # "swap") \/ pLoader' = pLoader
  <2>1. CASE pLoader' = pLoader
    BY <2>1
  <2>2. CASE Playback!Select
    <3>1. Playback!NoLoader \in PlaybackLoader
      BY DEF Playback!NoLoader, PlaybackLoader, Playback!Phases
    <3>2. pLoader' = [Playback!NoLoader EXCEPT !.pc = "prepare", !.gen = pGeneration + 1]
          /\ pGeneration + 1 \in Nat
      BY <2>2 DEF Playback!Select, PlaybackType, Playback!TypeOK
    <3> QED
      BY <3>1, <3>2 DEF PlaybackLoader
  <2>3. ASSUME NEW what \in Playback!Phases, NEW then \in {"off", "prepare", "activate"},
               Playback!LoaderSays(what, then)
        PROVE  pLoader' \in PlaybackLoader /\ pLoader'.pc # "swap"
    BY <2>3 DEF Playback!LoaderSays, PlaybackLoader, PlaybackType
  <2>4. ASSUME NEW step \in {"off", "prepare", "activate", "except"}, Playback!LoaderGoTo(step)
        PROVE  pLoader' \in PlaybackLoader /\ pLoader'.pc # "swap"
    BY <2>4 DEF Playback!LoaderGoTo, PlaybackLoader, PlaybackType
  <2>5. CASE Playback!Progress
    BY <2>5, <2>3 DEF Playback!Progress, Playback!Phases
  <2>6. CASE Playback!SetState
    BY <2>6, <2>4 DEF Playback!SetState, PlaybackType, PlaybackLoader
  <2>7. CASE Playback!Prepared \/ Playback!ActivateFails
    BY <2>7, <2>4 DEF Playback!Prepared, Playback!ActivateFails
  <2>8. CASE Playback!PrepareFails \/ Playback!ActivateExcept
    BY <2>8, <2>3, <2>4 DEF Playback!PrepareFails, Playback!ActivateExcept,
       Playback!Phases
  <2> QED
    BY <2>1, <2>2, <2>5, <2>6, <2>7, <2>8 DEF PlaybackQuiet, Playback!Browse,
       Playback!Cancel, Playback!Stop, Playback!ReadBegins, Playback!ReadEnds,
       Playback!threads
<1>3a. pLoader.pc = "swap" => pLoader' = pLoader
  BY DEF PlaybackQuiet, Playback!Select, Playback!Browse, Playback!Cancel,
     Playback!Stop, Playback!Progress, Playback!SetState, Playback!Prepared,
     Playback!PrepareFails, Playback!ActivateFails, Playback!ActivateExcept,
     Playback!ReadBegins, Playback!ReadEnds, Playback!session, Playback!threads,
     Playback!LoaderOnly, Playback!LoaderAt
<1>4. /\ pReader' \in [PlaybackReaders -> [pc : {"off", "reading", "answered"}, epoch : Playback!Epochs,
                             runner : {0} \cup Playback!Runners]]
      /\ \A r \in PlaybackReaders : pReader'[r].pc # "off" =>
           \/ pReader'[r].epoch = pReader[r].epoch /\ pReader'[r].runner = pReader[r].runner
                /\ pReader[r].pc # "off"
           \/ pReader'[r].epoch = pEpoch /\ pReader'[r].runner = pActive /\ pActive # 0
  <2>1. CASE pReader' = pReader
    BY <2>1 DEF PlaybackType, Playback!TypeOK
  <2>2. ASSUME NEW r \in PlaybackReaders,
               pReader' = [pReader EXCEPT ![r] = [pc |-> "reading", epoch |-> pEpoch, runner |-> pActive]], pActive # 0
        PROVE  (/\ pReader' \in [PlaybackReaders -> [pc : {"off", "reading", "answered"}, epoch : Playback!Epochs,
                             runner : {0} \cup Playback!Runners]]
      /\ \A q \in PlaybackReaders : pReader'[q].pc # "off" =>
           \/ pReader'[q].epoch = pReader[q].epoch /\ pReader'[q].runner = pReader[q].runner
                /\ pReader[q].pc # "off"
           \/ pReader'[q].epoch = pEpoch /\ pReader'[q].runner = pActive /\ pActive # 0)
    BY <2>2 DEF PlaybackType, Playback!TypeOK
  <2>3. ASSUME NEW r \in PlaybackReaders, NEW s \in {"answered", "off"},
               pReader' = [pReader EXCEPT ![r].pc = s], pReader[r].pc = "reading"
        PROVE  (/\ pReader' \in [PlaybackReaders -> [pc : {"off", "reading", "answered"}, epoch : Playback!Epochs,
                             runner : {0} \cup Playback!Runners]]
      /\ \A q \in PlaybackReaders : pReader'[q].pc # "off" =>
           \/ pReader'[q].epoch = pReader[q].epoch /\ pReader'[q].runner = pReader[q].runner
                /\ pReader[q].pc # "off"
           \/ pReader'[q].epoch = pEpoch /\ pReader'[q].runner = pActive /\ pActive # 0)
    BY <2>3 DEF PlaybackType, Playback!TypeOK
  <2>4. PlaybackQuiet =>
          \/ pReader' = pReader
          \/ \E r \in PlaybackReaders :
               pActive # 0 /\ pReader' = [pReader EXCEPT ![r] = [pc |-> "reading", epoch |-> pEpoch, runner |-> pActive]]
          \/ \E r \in PlaybackReaders :
               pReader[r].pc = "reading"
                   /\ \E s \in {"answered", "off"} : pReader' = [pReader EXCEPT ![r].pc = s]
    BY DEF PlaybackQuiet, Playback!Select, Playback!Browse, Playback!Cancel,
       Playback!Stop, Playback!Progress, Playback!SetState, Playback!Prepared,
       Playback!PrepareFails, Playback!ActivateFails, Playback!ActivateExcept,
       Playback!ReadBegins, Playback!ReadEnds, Playback!threads, Playback!LoaderOnly
  <2> QED
    BY <2>1, <2>2, <2>3, <2>4
<1>5. PlaybackType'
  <2>1. pLoader' \in PlaybackLoader
    BY <1>3 DEF PlaybackType
  <2>2. /\ pLoader'.pc \in {"off", "prepare", "activate", "swap", "except", "say"}
        /\ pLoader'.say \in Playback!Phases
    BY <2>1 DEF PlaybackLoader
  <2>3. pActive' \in {0} \cup Playback!Runners /\ pOpen' \in SUBSET Playback!Runners
    BY <1>1 DEF PlaybackType, Playback!TypeOK
  <2>4. Playback!TypeOK'
    BY <1>1, <1>2, <1>4, <2>2, <2>3 DEF PlaybackType, Playback!TypeOK
  <2>5. pLoader'.pc = "swap" => pLoader'.runner # 0
    BY <1>3 DEF PlaybackType
  <2> QED
    BY <1>1, <2>1, <2>4, <2>5 DEF PlaybackType
<1>6. PlaybackImporting' = PlaybackImporting
  BY <1>1 DEF PlaybackImporting
<1>7. PlaybackSpent'
  BY <1>1, <1>3, <1>3a, <1>6, PlaybackBounds, ImportersAreFinite DEF PlaybackSpent,
     PlaybackSwapping
<1>8. PlaybackShowing'
  BY <1>1, <1>4 DEF PlaybackShowing
<1>9. PlaybackOwned'
  BY <1>1, <1>2, <1>3a, <1>6 DEF PlaybackOwned
<1> QED
  BY <1>5, <1>7, <1>8, <1>9

(* The loader holds the runner it built.                                   *)
LEMMA PlaybackActivatedStep ==
  ASSUME Playback!PlaybackAssumption, PlaybackInv, Playback!Activated
  PROVE  PlaybackInv'
<1> USE DEF PlaybackInv
<1>1. /\ UNCHANGED <<pGeneration, pStopped, pImporter, pReader, pCommands, pPhase, pEpoch, pActive, pShown, pFaults>>
      /\ pBuilt' = pBuilt + 1 /\ pOpen' = pOpen \cup {pBuilt + 1}
      /\ pLoader' = [pLoader EXCEPT !.pc = "swap", !.runner = pBuilt + 1]
      /\ pLoader.pc # "swap"
  BY DEF Playback!Activated, Playback!LoaderAt, Playback!LoaderOnly
<1>2. pBuilt \in Nat /\ pEpoch \in Nat /\ pBuilt' \in Playback!Runners
  BY <1>1, PlaybackBounds DEF Playback!Activated, Playback!Runners
<1>3. pLoader' \in PlaybackLoader /\ pLoader'.pc = "swap" /\ pLoader'.runner = pBuilt'
  BY <1>1, <1>2 DEF PlaybackType, PlaybackLoader
<1>4. PlaybackImporting' = PlaybackImporting
  BY <1>1 DEF PlaybackImporting
<1>5. PlaybackType'
  <2>1. /\ pLoader'.pc \in {"off", "prepare", "activate", "swap", "except", "say"}
        /\ pLoader'.say \in Playback!Phases
    BY <1>3 DEF PlaybackLoader
  <2> QED
    BY <1>1, <1>2, <1>3, <2>1 DEF PlaybackType, Playback!TypeOK, Playback!Runners
<1>6. PlaybackSpent'
  BY <1>1, <1>2, <1>3, <1>4, ImportersAreFinite DEF PlaybackSpent, PlaybackSwapping
<1>7. PlaybackShowing'
  BY <1>1 DEF PlaybackShowing
<1>8. PlaybackOwned'
  BY <1>1, <1>3, <1>4 DEF PlaybackOwned
<1> QED
  BY <1>5, <1>6, <1>7, <1>8

(* The loader gives its runner to the session, or closes it.               *)
LEMMA PlaybackSwapStep ==
  ASSUME Playback!PlaybackAssumption, PlaybackInv, Playback!Swap \/ Playback!StartFails
  PROVE  PlaybackInv'
<1> USE DEF PlaybackInv
<1>1. /\ UNCHANGED <<pGeneration, pStopped, pImporter, pReader, pCommands, pBuilt>>
      /\ pLoader.pc = "swap" /\ (pLoader' = Playback!NoLoader
           \/ pLoader' = [pLoader EXCEPT !.pc = "except"])
  BY DEF Playback!Swap, Playback!StartFails, Playback!LoaderAt, Playback!LoaderOnly,
     Playback!LoaderGoTo
<1>2. pLoader' \in PlaybackLoader /\ pLoader'.pc # "swap"
  BY <1>1 DEF PlaybackType, PlaybackLoader, Playback!NoLoader, Playback!Phases
<1>3. pLoader.runner \in {0} \cup Playback!Runners /\ pLoader.runner # 0
  BY <1>1 DEF PlaybackType, PlaybackLoader
<1>4. PlaybackImporting' = PlaybackImporting
  BY <1>1 DEF PlaybackImporting
<1>5. pEpoch + 1 <= pBuilt /\ pEpoch \in Nat /\ pBuilt \in Nat
  BY <1>1, PlaybackBounds
<1>6. /\ pEpoch' \in {pEpoch, pEpoch + 1} /\ pEpoch' \in Playback!Epochs
           /\ pActive' \in {0} \cup Playback!Runners /\ pPhase' \in Playback!Phases
      /\ pShown' \in SUBSET (Playback!Epochs \X Playback!Runners)
      /\ PlaybackShowing'
  <2>1. CASE UNCHANGED <<pEpoch, pActive, pShown, pPhase>>
    BY <1>1, <2>1 DEF PlaybackType, Playback!TypeOK, PlaybackShowing
  <2>2. CASE Playback!Replace(pLoader.runner) \/ Playback!NotReplaced
    BY <1>1, <1>3, <1>5, <2>2, PlaybackReplaceEffect
  <2> QED
    BY <2>1, <2>2 DEF Playback!Swap, Playback!StartFails
<1>7. pFaults' \in 0..PlaybackFaults /\ (pFaults' = 0 => pFaults = 0 /\ Playback!Swap)
  <2>1. CASE Playback!Swap
    BY <2>1 DEF Playback!Swap, PlaybackType, Playback!TypeOK
  <2>2. CASE Playback!StartFails
    BY <2>2 DEF Playback!StartFails, Playback!Fault, PlaybackType, Playback!TypeOK,
       Playback!PlaybackAssumption
  <2> QED
    BY <2>1, <2>2
<1>8. PlaybackType'
  <2>1. /\ pLoader'.pc \in {"off", "prepare", "activate", "swap", "except", "say"}
        /\ pLoader'.say \in Playback!Phases
    BY <1>2 DEF PlaybackLoader
  <2>2. pOpen' \in SUBSET Playback!Runners
    BY DEF Playback!Swap, Playback!StartFails, Playback!Replace, PlaybackType,
       Playback!TypeOK
  <2> QED
    BY <1>1, <1>2, <1>6, <1>7, <2>1, <2>2 DEF PlaybackType, Playback!TypeOK
<1>9. PlaybackSpent'
  BY <1>1, <1>2, <1>4, <1>5, <1>6, ImportersAreFinite DEF PlaybackSpent, PlaybackSwapping
<1>10. PlaybackOwned'
  <2>1. pStopped' => pActive' = 0
    BY <1>1 DEF Playback!Swap, Playback!StartFails, Playback!Replace,
       Playback!NotReplaced, Playback!Current, PlaybackOwned
  <2>2. ASSUME pFaults' = 0, NEW n \in pOpen'
        PROVE  n = pActive' \/ \E i \in PlaybackImporting' : n = pImporter'[i].runner
    BY <1>1, <1>4, <1>7, <2>2 DEF PlaybackOwned, Playback!Swap, Playback!Replace
  <2> QED
    BY <2>1, <2>2 DEF PlaybackOwned
<1> QED
  BY <1>6, <1>8, <1>9, <1>10

(* An import holds the runner it built.                                    *)
LEMMA PlaybackImportBeginsStep ==
  ASSUME Playback!PlaybackAssumption, PlaybackInv, NEW i \in Importers, Playback!ImportBegins(i)
  PROVE  PlaybackInv'
<1> USE DEF PlaybackInv
<1>1. /\ UNCHANGED <<pGeneration, pPhase, pStopped, pEpoch, pActive, pShown, pLoader, pReader, pCommands, pFaults>>
      /\ pImporter[i].pc = "off" /\ pBuilt' = pBuilt + 1 /\ pOpen' = pOpen \cup {pBuilt + 1}
      /\ pImporter' = [pImporter EXCEPT ![i] = [pc |-> "import", gen |-> pGeneration, runner |-> pBuilt + 1]]
  BY DEF Playback!ImportBegins
<1>2. pBuilt \in Nat /\ pEpoch \in Nat /\ pBuilt' \in Playback!Runners
  BY <1>1, PlaybackBounds DEF Playback!ImportBegins, Playback!Runners
<1>3. PlaybackImporting' = PlaybackImporting \cup {i}
      /\ Cardinality(PlaybackImporting') = Cardinality(PlaybackImporting) + 1
  BY <1>1, ImporterEnters
<1>4. PlaybackType'
  <2>1. pImporter' \in [Importers -> [pc : {"off", "import"}, gen : Nat, runner : {0} \cup Playback!Runners]]
    BY <1>1, <1>2 DEF PlaybackType, Playback!TypeOK
  <2> QED
    BY <1>1, <1>2, <2>1 DEF PlaybackType, Playback!TypeOK
<1>5. PlaybackSpent'
  BY <1>1, <1>2, <1>3, ImportersAreFinite DEF PlaybackSpent, PlaybackSwapping
<1>6. PlaybackShowing'
  BY <1>1 DEF PlaybackShowing
<1>7. PlaybackOwned'
  <2>1. pImporter'[i].runner = pBuilt + 1
        /\ \A j \in PlaybackImporting : pImporter'[j] = pImporter[j]
    BY <1>1 DEF PlaybackImporting, PlaybackType, Playback!TypeOK
  <2> QED
    BY <1>1, <1>3, <2>1 DEF PlaybackOwned
<1> QED
  BY <1>4, <1>5, <1>6, <1>7

(* An import gives its runner to the session, or closes it.                *)
LEMMA PlaybackImportEndsStep ==
  ASSUME Playback!PlaybackAssumption, PlaybackInv, NEW i \in Importers,
         Playback!ImportRefused(i) \/ Playback!ImportSwap(i) \/ Playback!ImportStartFails(i)
  PROVE  PlaybackInv'
<1> USE DEF PlaybackInv
<1>1. /\ UNCHANGED <<pStopped, pBuilt, pLoader, pReader, pCommands>>
      /\ pImporter[i].pc = "import" /\ Playback!ImportOver(i)
  BY DEF Playback!ImportRefused, Playback!ImportSwap, Playback!ImportStartFails
<1>2. PlaybackImporting' = PlaybackImporting \ {i}
      /\ Cardinality(PlaybackImporting') = Cardinality(PlaybackImporting) - 1
  BY <1>1, ImporterLeaves
<1>3. pImporter[i].runner \in {0} \cup Playback!Runners /\ pImporter[i].runner # 0
      /\ pGeneration \in Nat /\ i \in PlaybackImporting
  BY <1>1 DEF PlaybackType, Playback!TypeOK, PlaybackImporting
<1>4. pEpoch + 1 <= pBuilt /\ pEpoch \in Nat /\ pBuilt \in Nat
  BY <1>3, PlaybackBounds
<1>5. /\ pEpoch' \in {pEpoch, pEpoch + 1} /\ pEpoch' \in Playback!Epochs
           /\ pActive' \in {0} \cup Playback!Runners /\ pPhase' \in Playback!Phases
      /\ pShown' \in SUBSET (Playback!Epochs \X Playback!Runners)
      /\ PlaybackShowing'
  <2>1. CASE Playback!ImportRefused(i)
    BY <2>1 DEF Playback!ImportRefused, PlaybackType, Playback!TypeOK, PlaybackShowing
  <2>2. CASE Playback!ImportSwap(i)
    BY <1>1, <1>3, <1>4, <2>2, PlaybackReplaceEffect DEF Playback!ImportSwap
  <2>3. CASE Playback!ImportStartFails(i)
    BY <1>1, <1>3, <1>4, <2>3, PlaybackReplaceEffect DEF Playback!ImportStartFails
  <2> QED
    BY <2>1, <2>2, <2>3
<1>6. pFaults' \in 0..PlaybackFaults /\ (pFaults' = 0 => pFaults = 0
      /\ ~Playback!ImportStartFails(i))
  <2>1. CASE Playback!ImportRefused(i) \/ Playback!ImportSwap(i)
    BY <2>1 DEF Playback!ImportRefused, Playback!ImportSwap, Playback!ImportStartFails,
       Playback!Fault, PlaybackType, Playback!TypeOK
  <2>2. CASE Playback!ImportStartFails(i)
    BY <2>2 DEF Playback!ImportStartFails, Playback!Fault, PlaybackType,
       Playback!TypeOK, Playback!PlaybackAssumption
  <2> QED
    BY <2>1, <2>2
<1>7. PlaybackType'
  <2>1. pImporter' \in [Importers -> [pc : {"off", "import"}, gen : Nat, runner : {0} \cup Playback!Runners]]
    BY <1>1 DEF Playback!ImportOver, PlaybackType, Playback!TypeOK
  <2>2. pOpen' \in SUBSET Playback!Runners
    BY DEF Playback!ImportRefused, Playback!ImportSwap, Playback!ImportStartFails,
       Playback!Replace, PlaybackType, Playback!TypeOK
  <2>3. pGeneration' \in Nat
    BY <1>3 DEF Playback!ImportRefused, Playback!ImportSwap, Playback!ImportStartFails
  <2>4. Playback!TypeOK'
    BY <1>1, <1>5, <1>6, <2>1, <2>2, <2>3 DEF PlaybackType, Playback!TypeOK
  <2>5. \A j \in Importers : pImporter'[j].pc = "import" => pImporter'[j].runner # 0
    BY <1>1 DEF Playback!ImportOver, PlaybackType, Playback!TypeOK
  <2> QED
    BY <1>1, <2>4, <2>5 DEF PlaybackType
<1>8. PlaybackSpent'
  BY <1>1, <1>2, <1>4, <1>5, ImportersAreFinite DEF PlaybackSpent, PlaybackSwapping
<1>9. PlaybackOwned'
  <2>1. pStopped' => pActive' = 0
    BY <1>1 DEF Playback!ImportRefused, Playback!ImportSwap, Playback!ImportStartFails,
       Playback!Replace, Playback!NotReplaced, Playback!Current, PlaybackOwned
  <2>2. \A j \in PlaybackImporting' : pImporter'[j] = pImporter[j]
    BY <1>1, <1>2 DEF PlaybackImporting, PlaybackType, Playback!TypeOK,
       Playback!ImportOver
  <2>3. ASSUME pFaults' = 0, NEW n \in pOpen'
        PROVE  \/ n = pActive'
               \/ pLoader'.pc = "swap" /\ n = pLoader'.runner
               \/ \E j \in PlaybackImporting' : n = pImporter'[j].runner
    <3>1. CASE Playback!ImportRefused(i)
      BY <1>1, <1>2, <1>6, <2>2, <2>3, <3>1 DEF PlaybackOwned, Playback!ImportRefused
    <3>2. CASE Playback!ImportSwap(i)
      BY <1>1, <1>2, <1>6, <2>2, <2>3, <3>2 DEF PlaybackOwned, Playback!ImportSwap,
         Playback!Replace
    <3> QED
      BY <1>6, <2>3, <3>1, <3>2
  <2> QED
    BY <2>1, <2>3 DEF PlaybackOwned
<1> QED
  BY <1>5, <1>7, <1>8, <1>9

(* The invariant holds in every state.                                     *)
LEMMA PlaybackInductive ==
  ASSUME Playback!PlaybackAssumption
  PROVE  Playback!Spec => []PlaybackInv
<1>1. Playback!Init => PlaybackInv
  BY PlaybackInit
<1>2. PlaybackInv /\ [Playback!Next]_Playback!vars => PlaybackInv'
  <2> SUFFICES ASSUME PlaybackInv, [Playback!Next]_Playback!vars PROVE PlaybackInv'
    OBVIOUS
  <2>1. CASE UNCHANGED Playback!vars
    BY <2>1 DEF PlaybackInv, PlaybackType, Playback!TypeOK, PlaybackSpent,
       PlaybackSwapping, PlaybackImporting, PlaybackShowing, PlaybackOwned,
       Playback!vars, Playback!session, Playback!threads
  <2>2. CASE Playback!Next
    <3>1. \/ PlaybackQuiet \/ Playback!Activated \/ Playback!Swap \/ Playback!StartFails
          \/ \E i \in Importers : Playback!ImportBegins(i) \/ Playback!ImportRefused(i)
               \/ Playback!ImportSwap(i) \/ Playback!ImportStartFails(i)
      BY <2>2 DEF Playback!Next, Playback!Load, PlaybackQuiet
    <3> QED
      BY <3>1, PlaybackQuietStep, PlaybackActivatedStep, PlaybackSwapStep,
         PlaybackImportBeginsStep, PlaybackImportEndsStep
  <2> QED
    BY <2>1, <2>2
<1> QED
  BY <1>1, <1>2, PTL DEF Playback!Spec

(* Every answered read is about the session it was asked of, and no runner *)
(* stays open but that of the session.                                     *)
THEOREM SessionsAreKept ==
  ASSUME Playback!PlaybackAssumption
  PROVE  Playback!Spec => [](Playback!TypeOK /\ Playback!ReadsSeeOneSession
         /\ Playback!NoRunnerIsLeft)
<1>1. PlaybackInv => Playback!TypeOK /\ Playback!ReadsSeeOneSession
  <2> SUFFICES ASSUME PlaybackInv, NEW r \in PlaybackReaders, NEW s \in pShown,
                      pReader[r].pc = "answered", s[1] = pReader[r].epoch
               PROVE  s[2] = pReader[r].runner
    BY DEF PlaybackInv, PlaybackType, Playback!ReadsSeeOneSession
  <2>1. <<pReader[r].epoch, pReader[r].runner>> \in pShown
    BY DEF PlaybackInv, PlaybackShowing
  <2> QED
    BY <2>1 DEF PlaybackInv, PlaybackShowing
<1>2. PlaybackInv => Playback!NoRunnerIsLeft
  <2> SUFFICES ASSUME PlaybackInv, pFaults = 0, pLoader.pc = "off",
                      \A i \in Importers : pImporter[i].pc = "off"
               PROVE  pOpen \subseteq {pActive} \ {0} /\ (pStopped => pOpen = {})
    BY DEF Playback!NoRunnerIsLeft
  <2>1. 0 \notin pOpen
    BY DEF PlaybackInv, PlaybackType, Playback!TypeOK, Playback!Runners
  <2>2. PlaybackImporting = {}
    BY DEF PlaybackImporting
  <2> QED
    BY <2>1, <2>2 DEF PlaybackInv, PlaybackOwned
<1> QED
  BY <1>1, <1>2, PlaybackInductive, PTL

-----------------------------------------------------------------------------
(* EpisodeRecording.                                                       *)

(* A sequence that is cut off keeps its beginning.                         *)
LEMMA SequenceCut ==
  ASSUME NEW S, NEW s \in Seq(S), NEW n \in 0..Len(s)
  PROVE  /\ SubSeq(s, 1, n) \in Seq(S) /\ Len(SubSeq(s, 1, n)) = n
         /\ \A i \in 1..n : SubSeq(s, 1, n)[i] = s[i]
<1>1. Len(SubSeq(s, 1, n)) = n
  OBVIOUS
<1>2. \A i \in 1..n : SubSeq(s, 1, n)[i] = s[i]
  OBVIOUS
<1>3. SubSeq(s, 1, n) \in Seq(S)
  OBVIOUS
<1> QED BY <1>1, <1>2, <1>3

(* A sequence that grows keeps what it had.                                *)
LEMMA SequenceGrows ==
  ASSUME NEW S, NEW s \in Seq(S), NEW x \in S
  PROVE  /\ Append(s, x) \in Seq(S) /\ Len(Append(s, x)) = Len(s) + 1
         /\ \A i \in 1..Len(s) : Append(s, x)[i] = s[i]
         /\ Append(s, x)[Len(s) + 1] = x
  OBVIOUS

(* An element of a sequence is of its kind.                                *)
LEMMA SequenceElement ==
  ASSUME NEW S, NEW s \in Seq(S), NEW i \in 1..Len(s)
  PROVE  s[i] \in S
  OBVIOUS

(* Where a download or a read can be; while it is at work it pins the      *)
(* recording.                                                              *)
RecordingSteps == {"start", "reading", "waiting", "link", "index", "data", "tail", "failed", "done"}
RecordingPinned == {p \in Recording!Pinners : eAt[p] \in {"reading", "waiting", "link", "index", "data", "tail"}}

(* The kinds of the variables, with those TypeOK leaves out.               *)
RecordingType ==
  /\ eStep \in 0..MaxSteps /\ eEngine \in {"idle", "checked", "stepped", "closing", "closed"}
  /\ eEnabled \in BOOLEAN /\ eError \in BOOLEAN /\ eCaptureError \in BOOLEAN
  /\ eClosed \in BOOLEAN /\ eRetired \in BOOLEAN /\ eRemoved \in BOOLEAN
  /\ eRows \in Seq(1..MaxSteps) /\ eWritten \in 0..Len(eRows)
  /\ eWriter \in {"wait", "bin", "idx", "stored", "raised", "exit"}
  /\ eBin \in Seq(0..MaxSteps) /\ eIdx \in Seq(Nat)
  /\ \A i \in 1..Len(eIdx) : eIdx[i] <= Len(eBin)
  /\ eAt \in [Recording!Pinners -> RecordingSteps] /\ eCutoff \in [Recording!Pinners -> Nat]
       /\ eHeld \in [Recording!Pinners -> Nat]
  /\ eCopyBin \in [Recording!Pinners -> Seq(0..MaxSteps)]
       /\ eCopyIdx \in [Recording!Pinners -> Seq(Nat)]
  /\ eLinked \in [Recording!Pinners -> BOOLEAN]

(* The accepted decisions are all that were made, until one is refused or  *)
(* recording is turned off.                                                *)
RecordingAccepted ==
  /\ \A i \in 1..Len(eRows) : eRows[i] = i
  /\ eEngine = "checked" => eStep < MaxSteps
  /\ eEnabled /\ ~eCaptureError =>
       eStep = IF eEngine = "stepped" THEN Len(eRows) + 1 ELSE Len(eRows)
  /\ eEnabled /\ eEngine \in {"checked", "stepped"} => ~eCaptureError
  /\ eEngine = "stepped" => eStep # 0

(* The records the writer has finished can be found, one after the other.  *)
RecordingFound(n) ==
  /\ n <= Len(eIdx)
  /\ \A i \in 1..n : eIdx[i] \in 1..Len(eBin) /\ eBin[eIdx[i]] = i
  /\ \A i, j \in 1..n : i <= j => eIdx[i] <= eIdx[j]

(* Where the writer is with the next one.                                  *)
RecordingStored ==
  /\ RecordingFound(eWritten)
  /\ eError => eWriter \in {"wait", "exit"}
  /\ ~eError /\ eWriter # "raised" =>
       Len(eIdx) = IF eWriter = "stored" THEN eWritten + 1 ELSE eWritten
  /\ eWriter \in {"bin", "idx", "stored"} => eWritten < Len(eRows)
  /\ eWriter = "idx" => Len(eBin) > 0 /\ eBin[Len(eBin)] = eWritten + 1
  /\ eWriter = "stored" => RecordingFound(eWritten + 1)

(* Who keeps the directory.                                                *)
RecordingKept ==
  /\ ePins = Cardinality(RecordingPinned)
  /\ eRemoved => eRetired /\ RecordingPinned = {}
  /\ eRetired => eEngine = "closed"

(* What a download has taken: its part of the index, and the data it is    *)
(* for, in the recording as long as the file is linked.                    *)
RecordingTaken(d) ==
  /\ eAt[d] \in {"link", "index", "data", "tail", "done"} => eHeld[d] <= eWritten
  /\ eAt[d] \in {"index", "data"} => eLinked[d]
  /\ eAt[d] \in {"data", "tail", "done"} /\ eLinked[d] =>
       /\ Len(eCopyIdx[d]) = eHeld[d]
       /\ \A i \in 1..eHeld[d] : eCopyIdx[d][i] = eIdx[i]
       /\ eAt[d] # "data" => eHeld[d] = eCutoff[d]
  /\ eAt[d] \in {"tail", "done"} /\ ~eLinked[d] =>
       /\ Len(eCopyIdx[d]) <= eCutoff[d]
       /\ \A i \in 1..Len(eCopyIdx[d]) :
            eCopyIdx[d][i] \in 1..Len(eCopyBin[d]) /\ eCopyBin[d][eCopyIdx[d][i]] = i
  /\ eAt[d] = "done" => Len(eCopyIdx[d]) = eCutoff[d]

(* Nobody takes what was not reserved, or reserves what was not accepted.  *)
RecordingTransfers ==
  /\ \A p \in Recording!Pinners : eHeld[p] <= eCutoff[p] /\ eCutoff[p] <= Len(eRows)
  /\ \A d \in Downloads : eAt[d] # "reading" /\ RecordingTaken(d)
  /\ \A r \in RecordingReaders : eAt[r] \in {"start", "reading", "done"} /\ (eAt[r] = "reading"
       => eHeld[r] <= eWritten)

(* The inductive invariant.                                                *)
RecordingInv == RecordingType /\ RecordingAccepted /\ RecordingStored /\ RecordingKept
    /\ RecordingTransfers

(* The steps of the engine thread and of the writer thread.                *)
RecordingEngine == Recording!CheckCapacity \/ Recording!Decide \/ Recording!RecordTransition
    \/ Recording!StopRecording \/ Recording!Close \/ Recording!Joined
RecordingWrite == Recording!WriterWakes \/ Recording!WriteBin \/ Recording!WriteIdx
    \/ Recording!Account

(* A new recording is empty.                                               *)
LEMMA RecordingInit == ASSUME Recording!RecordingAssumption, Recording!Init PROVE RecordingInv
<1> USE DEF Recording!Init, Recording!RecordingAssumption
<1>1. RecordingType
  <2>1. eStep \in 0..MaxSteps /\ eWritten \in 0..Len(eRows)
    OBVIOUS
  <2>2. eRows \in Seq(1..MaxSteps) /\ eBin \in Seq(0..MaxSteps) /\ eIdx \in Seq(Nat)
        /\ Len(eIdx) = 0
    OBVIOUS
  <2>3. /\ eAt \in [Recording!Pinners -> RecordingSteps]
             /\ eCutoff \in [Recording!Pinners -> Nat] /\ eHeld \in [Recording!Pinners -> Nat]
        /\ eLinked \in [Recording!Pinners -> BOOLEAN]
    BY DEF RecordingSteps
  <2>4. eCopyBin \in [Recording!Pinners -> Seq(0..MaxSteps)]
        /\ eCopyIdx \in [Recording!Pinners -> Seq(Nat)]
    OBVIOUS
  <2>5. \A i \in 1..Len(eIdx) : eIdx[i] <= Len(eBin)
    BY <2>2
  <2>6. eEngine = "idle" /\ eEnabled = TRUE /\ eError = FALSE /\ eCaptureError = FALSE
        /\ eClosed = FALSE
        /\ eRetired = FALSE /\ eRemoved = FALSE /\ eWriter = "wait"
    OBVIOUS
  <2> HIDE DEF Recording!Init
  <2> QED
    BY <2>1, <2>2, <2>3, <2>4, <2>5, <2>6 DEF RecordingType
<1>2. RecordingAccepted /\ RecordingStored
  BY DEF RecordingAccepted, RecordingStored, RecordingFound
<1>3. RecordingKept
  <2>1. RecordingPinned = {}
    BY DEF RecordingPinned
  <2> QED
    BY <2>1, FS_EmptySet DEF RecordingKept
<1>4. RecordingTransfers
  BY DEF RecordingTransfers, RecordingTaken, Recording!Pinners
<1> QED
  BY <1>1, <1>2, <1>3, <1>4 DEF RecordingInv

(* The pins can be counted.                                                *)
LEMMA PinnedAreFinite ==
  ASSUME Recording!RecordingAssumption
  PROVE  IsFiniteSet(RecordingPinned) /\ Cardinality(RecordingPinned) \in Nat
<1>1. IsFiniteSet(Recording!Pinners)
  BY DEF Recording!RecordingAssumption, Recording!Pinners,
     Recording!IsFiniteSet, IsFiniteSet
<1> QED
  BY <1>1, FS_Subset, FS_CardinalityType DEF RecordingPinned

(* The engine changes neither the files nor what others took.              *)
LEMMA RecordingEngineStep ==
  ASSUME Recording!RecordingAssumption, RecordingInv, RecordingEngine
  PROVE  RecordingInv'
<1> USE DEF RecordingInv
<1>1. UNCHANGED <<eWritten, eWriter, eBin, eIdx, eError, eAt, Recording!transfers, ePins>>
  BY DEF RecordingEngine, Recording!CheckCapacity, Recording!Decide,
     Recording!RecordTransition, Recording!StopRecording, Recording!Close,
     Recording!Joined, Recording!Recording, Recording!files
<1>2. \/ eRows' = eRows
      \/ Recording!RecordTransition /\ eEnabled /\ eRows' = Append(eRows, eStep)
  BY DEF RecordingEngine, Recording!CheckCapacity, Recording!Decide,
     Recording!RecordTransition, Recording!StopRecording, Recording!Close,
     Recording!Joined, Recording!queue
<1>2a. ASSUME Recording!RecordTransition, eEnabled
       PROVE  eStep \in 1..MaxSteps /\ eStep = Len(eRows) + 1
  BY <1>2a, Zenon, SMT DEF RecordingType, Recording!RecordTransition, RecordingAccepted
<1>3. eRows' \in Seq(1..MaxSteps) /\ Len(eRows') \in Nat /\ Len(eRows') >= Len(eRows)
  <2>1. eRows \in Seq(1..MaxSteps)
    BY DEF RecordingType
  <2>2. CASE eRows' = eRows
    BY <2>1, <2>2
  <2>3. CASE Recording!RecordTransition /\ eEnabled /\ eRows' = Append(eRows, eStep)
    BY <1>2a, <2>1, <2>3
  <2> QED
    BY <1>2, <2>2, <2>3
<1>4. \A i \in 1..Len(eRows') : eRows'[i] = i
  <2>1. eRows \in Seq(1..MaxSteps)
    BY DEF RecordingType
  <2> QED
    BY <1>2, <1>2a, <2>1 DEF RecordingAccepted
<1>5. RecordingType'
  <2>1. eStep' \in 0..MaxSteps
        /\ eEngine' \in {"idle", "checked", "stepped", "closing", "closed"}
    BY DEF RecordingEngine, Recording!CheckCapacity, Recording!Decide,
       Recording!RecordTransition, Recording!StopRecording, Recording!Close,
       Recording!Joined, RecordingType, RecordingAccepted, Recording!RecordingAssumption
  <2>2. eEnabled' \in BOOLEAN /\ eCaptureError' \in BOOLEAN
    BY DEF RecordingEngine, Recording!CheckCapacity, Recording!Decide,
       Recording!RecordTransition, Recording!StopRecording, Recording!Close,
       Recording!Joined, RecordingType, Recording!queue
  <2>3. eClosed' \in BOOLEAN /\ eRetired' \in BOOLEAN /\ eRemoved' \in BOOLEAN
    BY DEF RecordingEngine, Recording!CheckCapacity, Recording!Decide,
       Recording!RecordTransition, Recording!StopRecording, Recording!Close,
       Recording!Joined, RecordingType, Recording!Recording
  <2>4. eWritten' \in 0..Len(eRows')
    BY <1>1, <1>3 DEF RecordingType
  <2> QED
    BY <1>1, <1>3, <2>1, <2>2, <2>3, <2>4 DEF RecordingType, Recording!transfers
<1>6. RecordingAccepted'
  <2>1. CASE Recording!RecordTransition
    BY <1>4, <2>1 DEF Recording!RecordTransition, RecordingAccepted, RecordingType
  <2>2. CASE Recording!CheckCapacity \/ Recording!Decide \/ Recording!StopRecording
             \/ Recording!Close \/ Recording!Joined
    BY <1>4, <2>2 DEF Recording!CheckCapacity, Recording!Decide,
       Recording!StopRecording, Recording!Close, Recording!Joined, RecordingAccepted,
       RecordingType, Recording!queue
  <2> QED
    BY <2>1, <2>2 DEF RecordingEngine
<1>7. RecordingStored'
  BY <1>1, <1>3 DEF RecordingStored, RecordingFound, RecordingType
<1>8. RecordingKept'
  <2>1. RecordingPinned' = RecordingPinned
    BY <1>1 DEF RecordingPinned
  <2>2. UNCHANGED <<eRetired, eRemoved>> \/ (Recording!Joined /\ eRetired' = TRUE
        /\ eRemoved' = (ePins = 0))
    BY DEF RecordingEngine, Recording!CheckCapacity, Recording!Decide,
       Recording!RecordTransition, Recording!StopRecording, Recording!Close,
       Recording!Joined, Recording!Recording
  <2>3. ASSUME Recording!Joined PROVE RecordingKept'
    <3>1. ePins = 0 => RecordingPinned = {}
      BY PinnedAreFinite, FS_EmptySet DEF RecordingKept
    <3> QED
      BY <1>1, <2>1, <2>3, <3>1 DEF Recording!Joined, RecordingKept
  <2>4. ASSUME UNCHANGED <<eRetired, eRemoved>>, ~Recording!Joined PROVE RecordingKept'
    BY <1>1, <2>1, <2>4 DEF RecordingKept, RecordingEngine, Recording!CheckCapacity,
       Recording!Decide, Recording!RecordTransition, Recording!StopRecording,
       Recording!Close
  <2> QED
    BY <2>2, <2>3, <2>4
<1>9. RecordingTransfers'
  <2>1. \A d \in Downloads : RecordingTaken(d)'
    BY <1>1 DEF RecordingTransfers, RecordingTaken, Recording!transfers
  <2> QED
    BY <1>1, <1>3, <2>1 DEF RecordingTransfers, Recording!transfers, RecordingType
<1> QED
  BY <1>5, <1>6, <1>7, <1>8, <1>9

(* A retry cuts both files back to the records that are finished, which no *)
(* download can have taken more than.                                      *)
LEMMA RecordingRetryStep ==
  ASSUME Recording!RecordingAssumption, RecordingInv, Recording!Retry
  PROVE  RecordingInv'
<1> USE DEF RecordingInv
<1>1. UNCHANGED <<Recording!capture, Recording!queue, eWritten, eClosed, eRetired, ePins, eWriter, eRemoved, eAt, Recording!transfers>>
      /\ eError /\ eError' = FALSE
  BY DEF Recording!Retry, Recording!Recording
<1> DEFINE m == IF eWritten = 0 THEN 0 ELSE eIdx[eWritten]
<1>2. /\ eWritten \in Nat /\ eWritten <= Len(eIdx) /\ eBin \in Seq(0..MaxSteps)
           /\ eIdx \in Seq(Nat)
      /\ m \in Nat /\ m <= Len(eBin)
      /\ \A i \in 1..eWritten : eIdx[i] \in 1..m
  BY DEF RecordingType, RecordingStored, RecordingFound
<1>3. /\ eIdx' \in Seq(Nat) /\ Len(eIdx') = eWritten
           /\ \A i \in 1..eWritten : eIdx'[i] = eIdx[i]
  <2>1. eIdx' = SubSeq(eIdx, 1, eWritten)
    BY DEF Recording!Retry
  <2> QED
    BY <1>2, <2>1
<1>4. /\ eBin' \in Seq(0..MaxSteps) /\ Len(eBin') = m /\ \A i \in 1..m : eBin'[i] = eBin[i]
  <2>1. eBin' = SubSeq(eBin, 1, m)
    BY DEF Recording!Retry
  <2> HIDE DEF m
  <2>2. eBin \in Seq(0..MaxSteps) /\ m \in 0..Len(eBin)
    BY <1>2
  <2> QED
    BY <2>1, <2>2, SequenceCut
<1>5. RecordingFound(eWritten)'
  <2> HIDE DEF m
  <2>1. \A i \in 1..eWritten : eIdx[i] \in 1..Len(eBin') /\ eBin'[eIdx[i]] = i
    BY <1>2, <1>4 DEF RecordingStored, RecordingFound
  <2>2. \A i, j \in 1..eWritten : i <= j => eIdx[i] <= eIdx[j]
    BY DEF RecordingStored, RecordingFound
  <2>3. eWritten' = eWritten /\ eWritten \in Nat
    BY <1>1, <1>2
  <2>4. \A i, j \in 1..eWritten : i <= j => eIdx'[i] <= eIdx'[j]
    BY <1>3, <2>2
  <2>5. \A i \in 1..eWritten : eIdx'[i] \in 1..Len(eBin') /\ eBin'[eIdx'[i]] = i
    BY <1>3, <2>1
  <2>6. eWritten <= Len(eIdx')
    BY <1>2, <1>3
  <2> QED
    BY <2>3, <2>4, <2>5, <2>6 DEF RecordingFound
<1>6. RecordingType'
  <2>1. \A i \in 1..Len(eIdx') : eIdx'[i] <= Len(eBin')
    <3> HIDE DEF m, RecordingInv
    <3>1. Len(eIdx') = eWritten /\ Len(eBin') = m
      BY <1>3, <1>4
    <3>2. SUFFICES ASSUME NEW i \in 1..eWritten PROVE eIdx'[i] <= m
      BY <3>1
    <3>3. eIdx'[i] = eIdx[i] /\ eIdx[i] \in 1..m
      BY <1>2, <1>3
    <3> QED
      BY <1>2, <3>3
  <2> QED
    BY <1>1, <1>3, <1>4, <2>1 DEF RecordingType, Recording!capture, Recording!queue,
       Recording!transfers
<1>7. RecordingAccepted' /\ RecordingKept'
  BY <1>1 DEF RecordingAccepted, RecordingKept, RecordingPinned, Recording!capture,
     Recording!queue
<1>8. RecordingStored'
  BY <1>1, <1>3, <1>5 DEF RecordingStored, Recording!queue, RecordingType
<1>9. RecordingTransfers'
  <2>1. \A d \in Downloads : RecordingTaken(d)'
    <3> SUFFICES ASSUME NEW d \in Downloads PROVE RecordingTaken(d)'
      OBVIOUS
    <3>1. eHeld[d] \in Nat /\ RecordingTaken(d)
      BY DEF RecordingType, Recording!Pinners, RecordingTransfers
    <3>2. eHeld[d] <= eWritten => \A i \in 1..eHeld[d] : eIdx'[i] = eIdx[i]
      BY <1>2, <1>3, <3>1
    <3>3. UNCHANGED <<eAt, eCutoff, eHeld, eCopyBin, eCopyIdx, eLinked, eWritten>>
      BY <1>1 DEF Recording!transfers
    <3> QED
      BY <3>1, <3>2, <3>3 DEF RecordingTaken
  <2> QED
    BY <1>1, <2>1 DEF RecordingTransfers, Recording!transfers, Recording!queue
<1> QED
  BY <1>6, <1>7, <1>8, <1>9

(* The writer only adds, so what was found before is found after it.       *)
LEMMA RecordingPrefix ==
  ASSUME RecordingType, NEW n \in Nat, RecordingFound(n), eIdx' \in Seq(Nat),
         eBin' \in Seq(0..MaxSteps),
         Len(eIdx) <= Len(eIdx'), Len(eBin) <= Len(eBin'),
         \A i \in 1..Len(eIdx) : eIdx'[i] = eIdx[i], \A i \in 1..Len(eBin) : eBin'[i] = eBin[i]
  PROVE  RecordingFound(n)'
<1>1. n <= Len(eIdx')
  BY DEF RecordingFound, RecordingType
<1>2. \A i \in 1..n : eIdx'[i] = eIdx[i] /\ eIdx[i] \in 1..Len(eBin)
  BY DEF RecordingFound, RecordingType
<1>3. \A i \in 1..n : eIdx'[i] \in 1..Len(eBin') /\ eBin'[eIdx'[i]] = i
  <2> SUFFICES ASSUME NEW i \in 1..n PROVE eIdx'[i] \in 1..Len(eBin') /\ eBin'[eIdx'[i]] = i
    OBVIOUS
  <2>1. eIdx'[i] = eIdx[i] /\ eIdx[i] \in 1..Len(eBin) /\ eBin[eIdx[i]] = i
    BY <1>2 DEF RecordingFound
  <2>2. eBin'[eIdx[i]] = eBin[eIdx[i]]
    BY <2>1
  <2>3. Len(eBin) \in Nat /\ Len(eBin') \in Nat
    BY DEF RecordingType
  <2> QED
    BY <2>1, <2>2, <2>3
<1> QED
  BY <1>1, <1>2, <1>3 DEF RecordingFound

(* The writer appends one record after the other.                          *)
LEMMA RecordingWriteStep ==
  ASSUME Recording!RecordingAssumption, RecordingInv, RecordingWrite
  PROVE  RecordingInv'
<1> USE DEF RecordingInv
<1>1. UNCHANGED <<Recording!capture, Recording!queue, eClosed, eRetired, ePins, eRemoved, eAt, Recording!transfers>>
  BY DEF RecordingWrite, Recording!WriterWakes, Recording!WriteBin, Recording!WriteIdx,
     Recording!Account, Recording!Writing
<1>2. eRows \in Seq(1..MaxSteps) /\ eBin \in Seq(0..MaxSteps) /\ eIdx \in Seq(Nat)
  BY DEF RecordingType
<1>3. eWritten < Len(eRows) => eWritten + 1 \in 1..Len(eRows)
      /\ eRows[eWritten + 1] = eWritten + 1
                             /\ eWritten + 1 \in 0..MaxSteps
  <2> SUFFICES ASSUME eWritten < Len(eRows)
               PROVE  /\ eWritten + 1 \in 1..Len(eRows) /\ eRows[eWritten + 1] = eWritten + 1
                      /\ eWritten + 1 \in 0..MaxSteps
    OBVIOUS
  <2>1. eWritten + 1 \in 1..Len(eRows) /\ eWritten \in Nat
    BY <1>2 DEF RecordingType
  <2>2. eRows[eWritten + 1] = eWritten + 1
    BY <2>1 DEF RecordingAccepted
  <2>3. eRows[eWritten + 1] \in 1..MaxSteps
    BY <1>2, <2>1, SequenceElement
  <2> QED
    BY <2>1, <2>2, <2>3 DEF Recording!RecordingAssumption
<1>4. \/ eBin' = eBin
      \/ eWriter = "bin" /\ \E x \in 0..MaxSteps : eBin' = Append(eBin, x)
  <2>1. CASE Recording!WriteBin
    <3>1. eWritten < Len(eRows)
      BY <2>1 DEF Recording!WriteBin, RecordingStored
    <3>2. 0 \in 0..MaxSteps
      BY DEF Recording!RecordingAssumption
    <3> QED
      BY <1>3, <2>1, <3>1, <3>2 DEF Recording!WriteBin
  <2> QED
    BY <2>1 DEF RecordingWrite, Recording!WriterWakes, Recording!WriteIdx,
       Recording!Account, Recording!files
<1>5. eBin' \in Seq(0..MaxSteps) /\ Len(eBin) <= Len(eBin')
      /\ \A i \in 1..Len(eBin) : eBin'[i] = eBin[i]
  <2>1. CASE eBin' = eBin
    BY <1>2, <2>1
  <2>2. ASSUME NEW x \in 0..MaxSteps, eBin' = Append(eBin, x)
        PROVE  eBin' \in Seq(0..MaxSteps) /\ Len(eBin) <= Len(eBin')
               /\ \A i \in 1..Len(eBin) : eBin'[i] = eBin[i]
    <3>1. Len(eBin) \in Nat
      BY <1>2
    <3> QED
      BY <1>2, <2>2, <3>1, SequenceGrows
  <2> QED
    BY <1>4, <2>1, <2>2
<1>6. \/ eIdx' = eIdx
      \/ eWriter = "idx" /\ \E x \in 0..Len(eBin) : eIdx' = Append(eIdx, x)
  BY <1>2 DEF RecordingWrite, Recording!WriterWakes, Recording!WriteBin,
     Recording!WriteIdx, Recording!Account, Recording!files
<1>7. eIdx' \in Seq(Nat) /\ Len(eIdx) <= Len(eIdx')
      /\ \A i \in 1..Len(eIdx) : eIdx'[i] = eIdx[i]
  <2>1. CASE eIdx' = eIdx
    BY <1>2, <2>1
  <2>2. ASSUME NEW x \in 0..Len(eBin), eIdx' = Append(eIdx, x)
        PROVE  eIdx' \in Seq(Nat) /\ Len(eIdx) <= Len(eIdx')
               /\ \A i \in 1..Len(eIdx) : eIdx'[i] = eIdx[i]
    <3>1. x \in Nat /\ Len(eIdx) \in Nat
      BY <1>2
    <3> QED
      BY <1>2, <2>2, <3>1, SequenceGrows
  <2> QED
    BY <1>6, <2>1, <2>2
<1>8. \A i \in 1..Len(eIdx') : eIdx'[i] <= Len(eBin')
  <2>1. \A i \in 1..Len(eIdx) : eIdx'[i] = eIdx[i] /\ eIdx[i] \in Nat /\ eIdx[i] <= Len(eBin)
    BY <1>2, <1>7 DEF RecordingType
  <2>2. CASE eIdx' = eIdx
    BY <1>2, <1>5, <2>1, <2>2
  <2>3. ASSUME NEW x \in 0..Len(eBin), eIdx' = Append(eIdx, x)
        PROVE  \A i \in 1..Len(eIdx') : eIdx'[i] <= Len(eBin')
    <3>1. x \in Nat /\ Len(eIdx) \in Nat /\ Len(eBin) \in Nat /\ Len(eBin') \in Nat
          /\ x <= Len(eBin)
      BY <1>2, <1>5
    <3>2. Len(eIdx') = Len(eIdx) + 1 /\ eIdx'[Len(eIdx) + 1] = x
      BY <1>2, <2>3, <3>1, SequenceGrows
    <3>3. \A i \in 1..Len(eIdx') : i \in 1..Len(eIdx) \/ i = Len(eIdx) + 1
      BY <3>1, <3>2
    <3> QED
      BY <1>5, <2>1, <3>1, <3>2, <3>3
  <2> QED
    BY <1>6, <2>2, <2>3
<1>9. RecordingFound(eWritten)'  \/ Recording!Account
  <2>1. eWritten \in Nat /\ RecordingFound(eWritten)
    BY DEF RecordingType, RecordingStored
  <2>2. (eWritten' = eWritten => RecordingFound(eWritten)') \/ Recording!Account
    BY <1>5, <1>7, <2>1, RecordingPrefix DEF RecordingFound
  <2> QED
    BY <2>2 DEF RecordingWrite, Recording!WriterWakes, Recording!WriteBin,
       Recording!WriteIdx
<1>10. RecordingStored' /\ eWritten' \in 0..Len(eRows') /\ eWritten <= eWritten'
  <2>1. CASE Recording!WriterWakes
    BY <1>1, <1>9, <2>1 DEF Recording!WriterWakes, RecordingStored, Recording!Pending,
       Recording!Account, RecordingType, Recording!files, Recording!queue
  <2>2. CASE Recording!WriteBin
    <3>1. eBin' = Append(eBin, eWritten + 1) => Len(eBin') > 0
          /\ eBin'[Len(eBin')] = eWritten + 1
      BY <1>2
    <3> QED
      BY <1>1, <1>3, <1>9, <2>2, <3>1 DEF Recording!WriteBin, RecordingStored,
         Recording!Account, RecordingType, Recording!queue
  <2>3. CASE Recording!WriteIdx
    <3>1. eWriter = "idx" /\ eWritten' = eWritten /\ eBin' = eBin /\ eError' = eError
          /\ Len(eIdx) = eWritten
          /\ eWritten < Len(eRows) /\ Len(eBin) > 0 /\ eBin[Len(eBin)] = eWritten + 1 /\ ~eError
      BY <2>3 DEF Recording!WriteIdx, RecordingStored
    <3>2. CASE eWriter' = "stored"
      <4>1. eIdx' = Append(eIdx, Len(eBin))
        BY <2>3, <3>2 DEF Recording!WriteIdx
      <4>2. Len(eIdx') = eWritten + 1 /\ eIdx'[eWritten + 1] = Len(eBin)
        BY <1>2, <3>1, <4>1
      <4>3. RecordingFound(eWritten)'
        BY <1>9, <3>1, <2>3 DEF Recording!WriteIdx, Recording!Account
      <4>4. \A i \in 1..(eWritten + 1) : i \in 1..eWritten \/ i = eWritten + 1
        BY DEF RecordingType
      <4>5. RecordingFound(eWritten + 1)'
        BY <1>2, <1>8, <3>1, <4>2, <4>3, <4>4 DEF RecordingFound, RecordingType
      <4> QED
        BY <1>1, <3>1, <3>2, <4>2, <4>3, <4>5 DEF RecordingStored, Recording!queue,
           RecordingType
    <3>3. CASE eWriter' = "raised"
      BY <1>1, <1>9, <2>3, <3>1, <3>3 DEF Recording!WriteIdx, RecordingStored,
         Recording!Account, Recording!queue, RecordingType
    <3> QED
      BY <2>3, <3>2, <3>3 DEF Recording!WriteIdx
  <2>4. CASE Recording!Account
    <3>1. UNCHANGED <<eBin, eIdx>> /\ eWriter \in {"stored", "raised"} /\ eWriter' = "wait"
          /\ eWritten' = (IF eWriter = "stored" THEN eWritten + 1 ELSE eWritten)
               /\ eError' = (eWriter = "raised")
      BY <2>4 DEF Recording!Account, Recording!files
    <3>2. RecordingFound(eWritten)'
      BY <3>1 DEF RecordingStored, RecordingFound
    <3>3. eWritten' \in 0..Len(eRows') /\ eWritten <= eWritten'
      BY <1>1, <3>1 DEF RecordingStored, RecordingType, Recording!queue
    <3>4. eError' \/ Len(eIdx') = eWritten'
      BY <3>1 DEF RecordingStored
    <3> QED
      BY <3>1, <3>2, <3>3, <3>4 DEF RecordingStored
  <2> QED
    BY <2>1, <2>2, <2>3, <2>4 DEF RecordingWrite
<1>11. eWriter' \in {"wait", "bin", "idx", "stored", "raised", "exit"} /\ eError' \in BOOLEAN
  BY DEF RecordingWrite, Recording!WriterWakes, Recording!WriteBin, Recording!WriteIdx,
     Recording!Account, RecordingType
<1>12. RecordingType'
  BY <1>1, <1>5, <1>7, <1>8, <1>10, <1>11 DEF RecordingType, Recording!capture,
     Recording!queue, Recording!transfers
<1>13. RecordingAccepted' /\ RecordingKept'
  BY <1>1 DEF RecordingAccepted, RecordingKept, RecordingPinned, Recording!capture,
     Recording!queue
<1>14. RecordingTransfers'
  <2>1. \A d \in Downloads : RecordingTaken(d)'
    <3> SUFFICES ASSUME NEW d \in Downloads PROVE RecordingTaken(d)'
      OBVIOUS
    <3>1. eHeld[d] \in Nat /\ eWritten \in Nat /\ eWritten' \in Nat /\ Len(eIdx) \in Nat
          /\ eWritten <= Len(eIdx)
      BY <1>10 DEF RecordingType, Recording!Pinners, RecordingStored, RecordingFound
    <3> QED
      BY <1>1, <1>7, <1>10, <3>1 DEF RecordingTransfers, RecordingTaken,
         Recording!transfers
  <2>2. \A r \in RecordingReaders : eHeld[r] \in Nat
    BY DEF RecordingType, Recording!Pinners
  <2> QED
    BY <1>1, <1>10, <1>12, <2>1, <2>2 DEF RecordingTransfers, Recording!transfers,
       Recording!queue, RecordingType
<1> QED
  BY <1>10, <1>12, <1>13, <1>14

(* One more pin.                                                           *)
LEMMA PinTaken ==
  ASSUME Recording!RecordingAssumption, RecordingKept, NEW p \in Recording!Pinners,
         p \notin RecordingPinned, RecordingPinned' = RecordingPinned \cup {p},
         ePins' = ePins + 1, eRetired' = eRetired, eRemoved' = eRemoved, eEngine' = eEngine,
             eEngine # "closed"
  PROVE  RecordingKept'
<1>1. ePins' = Cardinality(RecordingPinned')
  BY PinnedAreFinite, FS_AddElement DEF RecordingKept
<1> QED
  BY <1>1 DEF RecordingKept

(* One less, and with the last one the directory of a retired recording.   *)
LEMMA PinReleased ==
  ASSUME Recording!RecordingAssumption, RecordingType, RecordingKept,
         NEW p \in Recording!Pinners, p \in RecordingPinned,
             RecordingPinned' = RecordingPinned \ {p},
         ePins' = ePins - 1, eRetired' = eRetired, eRemoved' = (eRemoved
             \/ (eRetired /\ ePins = 1)),
         eEngine' = eEngine
  PROVE  RecordingKept' /\ eRemoved' \in BOOLEAN
<1>1. ePins' = Cardinality(RecordingPinned') /\ IsFiniteSet(RecordingPinned') /\ ePins \in Nat
  BY PinnedAreFinite, FS_RemoveElement, FS_Subset DEF RecordingKept
<1>2. ePins = 1 => RecordingPinned' = {}
  BY <1>1, FS_EmptySet
<1>3. eRemoved' => eRetired /\ ePins = 1
  <2>1. ~eRemoved
    BY DEF RecordingKept
  <2> QED
    BY <2>1, Zenon
<1>4. eRemoved' \in BOOLEAN
  BY Zenon
<1> QED
  BY <1>1, <1>2, <1>3, <1>4 DEF RecordingKept

(* What a step of one download or read leaves to the others.               *)
LEMMA RecordingOneMoves ==
  ASSUME RecordingInv, Recording!Others, NEW p \in Recording!Pinners,
         \A q \in Recording!Pinners \ {p} :
           /\ eAt'[q] = eAt[q] /\ eCutoff'[q] = eCutoff[q] /\ eHeld'[q] = eHeld[q]
           /\ eCopyBin'[q] = eCopyBin[q] /\ eCopyIdx'[q] = eCopyIdx[q]
                /\ eLinked'[q] = eLinked[q],
         eHeld'[p] <= eCutoff'[p], eCutoff'[p] <= Len(eRows),
         p \in Downloads => eAt'[p] # "reading" /\ RecordingTaken(p)',
         p \in RecordingReaders =>
           eAt'[p] \in {"start", "reading", "done"} /\ (eAt'[p] = "reading"
               => eHeld'[p] <= eWritten)
  PROVE  RecordingAccepted' /\ RecordingStored' /\ RecordingTransfers'
<1>1. UNCHANGED <<eStep, eEngine, eEnabled, eRows, eCaptureError, eWritten, eError, eClosed, eRetired,
                  eWriter, eBin, eIdx>>
  BY DEF Recording!Others, Recording!capture, Recording!queue, Recording!files
<1>2. RecordingAccepted'
  BY <1>1 DEF RecordingInv, RecordingAccepted
<1>3. RecordingStored'
  BY <1>1 DEF RecordingInv, RecordingStored, RecordingFound
<1>4. \A d \in Downloads : eAt'[d] # "reading" /\ RecordingTaken(d)'
  <2> SUFFICES ASSUME NEW d \in Downloads, d # p PROVE eAt'[d] # "reading" /\ RecordingTaken(d)'
    OBVIOUS
  <2>1. d \in Recording!Pinners \ {p}
    BY DEF Recording!Pinners
  <2>2. eAt[d] # "reading" /\ RecordingTaken(d)
    BY DEF RecordingInv, RecordingTransfers
  <2> QED
    BY <1>1, <2>1, <2>2 DEF RecordingTaken
<1>5. \A q \in Recording!Pinners : eHeld'[q] <= eCutoff'[q] /\ eCutoff'[q] <= Len(eRows')
  BY <1>1 DEF RecordingInv, RecordingTransfers
<1>6. \A r \in RecordingReaders :
        eAt'[r] \in {"start", "reading", "done"} /\ (eAt'[r] = "reading"
            => eHeld'[r] <= eWritten')
  <2> SUFFICES ASSUME NEW r \in RecordingReaders, r # p
               PROVE  eAt'[r] \in {"start", "reading", "done"} /\ (eAt'[r] = "reading"
                      => eHeld'[r] <= eWritten')
    BY <1>1
  <2>1. r \in Recording!Pinners \ {p}
    BY DEF Recording!Pinners
  <2> QED
    BY <1>1, <2>1 DEF RecordingInv, RecordingTransfers
<1>7. RecordingTransfers'
  BY <1>4, <1>5, <1>6 DEF RecordingTransfers
<1> QED
  BY <1>2, <1>3, <1>7

(* The kinds of what is not a download's.                                  *)
LEMMA RecordingOthersType ==
  ASSUME RecordingType, Recording!Others, eRemoved' \in BOOLEAN,
         eAt' \in [Recording!Pinners -> RecordingSteps],
             eCutoff' \in [Recording!Pinners -> Nat], eHeld' \in [Recording!Pinners -> Nat],
         eCopyBin' \in [Recording!Pinners -> Seq(0..MaxSteps)],
             eCopyIdx' \in [Recording!Pinners -> Seq(Nat)],
         eLinked' \in [Recording!Pinners -> BOOLEAN]
  PROVE  RecordingType'
  BY DEF RecordingType, Recording!Others, Recording!capture, Recording!queue,
     Recording!files

(* A read pins the recording while it can be begun, and releases it.       *)
LEMMA RecordingReadStep ==
  ASSUME Recording!RecordingAssumption, RecordingInv, NEW r \in RecordingReaders,
         Recording!ReserveRead(r) \/ Recording!ReleaseRead(r)
  PROVE  RecordingInv'
<1> USE DEF RecordingInv
<1>1. /\ Recording!Others /\ UNCHANGED <<eCopyBin, eCopyIdx, eLinked, eFaults>>
           /\ r \in Recording!Pinners /\ r \notin Downloads
      /\ UNCHANGED <<eRetired, eEngine>>
  BY DEF Recording!ReserveRead, Recording!ReleaseRead, Recording!Unpin,
     Recording!Others, Recording!Pinners, Recording!RecordingAssumption,
     Recording!capture
<1>2. eAt \in [Recording!Pinners -> RecordingSteps] /\ eCutoff \in [Recording!Pinners -> Nat]
      /\ eHeld \in [Recording!Pinners -> Nat]
      /\ eWritten \in 0..Len(eRows) /\ Len(eRows) \in Nat
  BY DEF RecordingType
<1>3. CASE Recording!ReserveRead(r)
  <2>1. /\ eAt[r] = "start" /\ eEngine # "closed" /\ ePins' = ePins + 1 /\ eRemoved' = eRemoved
        /\ eAt' = [eAt EXCEPT ![r] = "reading"] /\ eCutoff' = [eCutoff EXCEPT ![r] = Len(eRows)]
        /\ eHeld' = [eHeld EXCEPT ![r] = eWritten]
    BY <1>3 DEF Recording!ReserveRead
  <2>2. RecordingPinned' = RecordingPinned \cup {r} /\ r \notin RecordingPinned
    BY <1>1, <1>2, <2>1 DEF RecordingPinned
  <2>3. RecordingKept'
    BY <1>1, <2>1, <2>2, PinTaken
  <2>a. eWritten \in Nat
    BY <1>2
  <2>b. eAt' \in [Recording!Pinners -> RecordingSteps]
    BY <1>2, <2>1 DEF RecordingSteps
  <2>4. /\ eAt' \in [Recording!Pinners -> RecordingSteps]
             /\ eCutoff' \in [Recording!Pinners -> Nat] /\ eHeld' \in [Recording!Pinners -> Nat]
    BY <1>2, <2>1, <2>a, <2>b
  <2>5. RecordingType'
    BY <1>1, <2>1, <2>4, RecordingOthersType DEF RecordingType
  <2>6. RecordingAccepted' /\ RecordingStored' /\ RecordingTransfers'
    BY <1>1, <1>2, <2>1, RecordingOneMoves
  <2> QED
    BY <2>3, <2>5, <2>6
<1>4. CASE Recording!ReleaseRead(r)
  <2>1. /\ eAt[r] = "reading" /\ eAt' = [eAt EXCEPT ![r] = "done"] /\ ePins' = ePins - 1
        /\ eRemoved' = (eRemoved \/ (eRetired /\ ePins = 1)) /\ UNCHANGED <<eCutoff, eHeld>>
    BY <1>4 DEF Recording!ReleaseRead, Recording!Unpin
  <2>2. RecordingPinned' = RecordingPinned \ {r} /\ r \in RecordingPinned
    BY <1>1, <1>2, <2>1 DEF RecordingPinned
  <2>3. RecordingKept' /\ eRemoved' \in BOOLEAN
    BY <1>1, <2>1, <2>2, PinReleased
  <2>4. eAt' \in [Recording!Pinners -> RecordingSteps]
    BY <1>2, <2>1 DEF RecordingSteps
  <2>5. RecordingType'
    BY <1>1, <2>1, <2>3, <2>4, RecordingOthersType DEF RecordingType
  <2>6. eHeld[r] <= eCutoff[r] /\ eCutoff[r] <= Len(eRows)
    BY <1>1 DEF RecordingTransfers
  <2>7. RecordingAccepted' /\ RecordingStored' /\ RecordingTransfers'
    BY <1>1, <1>2, <2>1, <2>6, RecordingOneMoves
  <2> QED
    BY <2>3, <2>5, <2>7
<1> QED
  BY <1>3, <1>4

(* A download fixes its cutoff, then how much of it is on disk.            *)
LEMMA RecordingReserveStep ==
  ASSUME Recording!RecordingAssumption, RecordingInv, NEW d \in Downloads,
         Recording!ReservePrefix(d) \/ Recording!TakePrefix(d)
  PROVE  RecordingInv'
<1> USE DEF RecordingInv
<1>1. /\ Recording!Others /\ UNCHANGED <<eCopyBin, eCopyIdx, eLinked, eFaults, eRemoved>>
           /\ d \in Recording!Pinners /\ d \notin RecordingReaders
      /\ UNCHANGED <<eRetired, eEngine>>
  BY DEF Recording!ReservePrefix, Recording!TakePrefix, Recording!Others,
     Recording!Pinners, Recording!RecordingAssumption, Recording!capture
<1>2. eAt \in [Recording!Pinners -> RecordingSteps] /\ eCutoff \in [Recording!Pinners -> Nat]
      /\ eHeld \in [Recording!Pinners -> Nat]
      /\ eWritten \in 0..Len(eRows) /\ Len(eRows) \in Nat
  BY DEF RecordingType
<1>3. eHeld[d] <= eCutoff[d] /\ eCutoff[d] <= Len(eRows)
  BY <1>1 DEF RecordingTransfers
<1>4. CASE Recording!ReservePrefix(d)
  <2>1. /\ eAt[d] = "start" /\ eEngine # "closed" /\ ePins' = ePins + 1 /\ eHeld' = eHeld
        /\ eAt' = [eAt EXCEPT ![d] = "waiting"] /\ eCutoff' = [eCutoff EXCEPT ![d] = Len(eRows)]
    BY <1>4 DEF Recording!ReservePrefix
  <2>2. RecordingPinned' = RecordingPinned \cup {d} /\ d \notin RecordingPinned
    BY <1>1, <1>2, <2>1 DEF RecordingPinned
  <2>3. RecordingKept'
    BY <1>1, <2>1, <2>2, PinTaken
  <2>4. eAt' \in [Recording!Pinners -> RecordingSteps]
        /\ eCutoff' \in [Recording!Pinners -> Nat]
    BY <1>2, <2>1 DEF RecordingSteps
  <2>5. RecordingType'
    BY <1>1, <2>1, <2>4, RecordingOthersType DEF RecordingType
  <2>6. RecordingTaken(d)' /\ eAt'[d] # "reading"
    BY <1>1, <1>2, <2>1 DEF RecordingTaken
  <2>7. RecordingAccepted' /\ RecordingStored' /\ RecordingTransfers'
    BY <1>1, <1>2, <1>3, <2>1, <2>6, RecordingOneMoves
  <2> QED
    BY <2>3, <2>5, <2>7
<1>5. CASE Recording!TakePrefix(d)
  <2>1. /\ eAt[d] = "waiting" /\ UNCHANGED <<ePins, eCutoff>>
             /\ eAt' = [eAt EXCEPT ![d] = "link"]
        /\ eHeld' = [eHeld EXCEPT ![d] = IF eWritten < eCutoff[d] THEN eWritten ELSE eCutoff[d]]
    BY <1>5 DEF Recording!TakePrefix
  <2>2. RecordingPinned' = RecordingPinned
    BY <1>1, <1>2, <2>1 DEF RecordingPinned
  <2>3. RecordingKept'
    BY <1>1, <2>1, <2>2 DEF RecordingKept
  <2>4. eAt' \in [Recording!Pinners -> RecordingSteps] /\ eHeld' \in [Recording!Pinners -> Nat]
    BY <1>1, <1>2, <2>1 DEF RecordingSteps
  <2>5. RecordingType'
    BY <1>1, <2>1, <2>4, RecordingOthersType DEF RecordingType
  <2>6. eHeld'[d] <= eWritten /\ eHeld'[d] <= eCutoff[d] /\ eWritten' = eWritten
    BY <1>1, <1>2, <2>1 DEF Recording!Others
  <2>7. RecordingTaken(d)' /\ eAt'[d] # "reading"
    BY <1>1, <1>2, <2>1, <2>6 DEF RecordingTaken
  <2>8. RecordingAccepted' /\ RecordingStored' /\ RecordingTransfers'
    BY <1>1, <1>2, <1>3, <2>1, <2>6, <2>7, RecordingOneMoves
  <2> QED
    BY <2>3, <2>5, <2>8
<1> QED
  BY <1>4, <1>5

(* A download ends, or gives up.                                           *)
LEMMA RecordingEndStep ==
  ASSUME Recording!RecordingAssumption, RecordingInv, NEW d \in Downloads,
         Recording!DownloadFails(d) \/ Recording!DownloadEnds(d)
  PROVE  RecordingInv'
<1> USE DEF RecordingInv
<1>1. /\ Recording!Others /\ UNCHANGED <<eCopyBin, eCopyIdx, eCutoff, eHeld>>
           /\ d \in Recording!Pinners /\ d \notin RecordingReaders
      /\ UNCHANGED <<eRetired, eEngine>>
  BY DEF Recording!DownloadFails, Recording!DownloadEnds, Recording!Unpin,
     Recording!Others, Recording!Pinners, Recording!RecordingAssumption,
     Recording!capture
<1>2. eAt \in [Recording!Pinners -> RecordingSteps]
      /\ eLinked \in [Recording!Pinners -> BOOLEAN]
  BY DEF RecordingType
<1>3. eHeld[d] <= eCutoff[d] /\ eCutoff[d] <= Len(eRows) /\ RecordingTaken(d)
  BY <1>1 DEF RecordingTransfers
<1>4. /\ eAt[d] \in {"waiting", "link", "index", "data", "tail"} /\ ePins' = ePins - 1
      /\ eRemoved' = (eRemoved \/ (eRetired /\ ePins = 1))
      /\ \/ eAt' = [eAt EXCEPT ![d] = "failed"] /\ eLinked' = [eLinked EXCEPT ![d] = FALSE]
         \/ /\ eAt[d] = "tail" /\ Len(eCopyIdx[d]) = eCutoff[d]
            /\ eAt' = [eAt EXCEPT ![d] = "done"] /\ eLinked' = eLinked
  BY DEF Recording!DownloadFails, Recording!DownloadEnds, Recording!Unpin
<1>5. RecordingPinned' = RecordingPinned \ {d} /\ d \in RecordingPinned
  BY <1>1, <1>2, <1>4 DEF RecordingPinned
<1>6. RecordingKept' /\ eRemoved' \in BOOLEAN
  BY <1>1, <1>4, <1>5, PinReleased
<1>7. eAt' \in [Recording!Pinners -> RecordingSteps]
      /\ eLinked' \in [Recording!Pinners -> BOOLEAN]
  BY <1>2, <1>4 DEF RecordingSteps
<1>8. RecordingType'
  BY <1>1, <1>6, <1>7, RecordingOthersType DEF RecordingType
<1>9. RecordingTaken(d)' /\ eAt'[d] # "reading"
  <2>1. eIdx' = eIdx /\ eWritten' = eWritten
    BY <1>1 DEF Recording!Others, Recording!files
  <2>2. CASE eAt'[d] = "failed"
    BY <2>2 DEF RecordingTaken
  <2>3. CASE eAt'[d] = "done" /\ eAt[d] = "tail" /\ eLinked' = eLinked
             /\ Len(eCopyIdx[d]) = eCutoff[d]
    BY <1>1, <1>3, <2>1, <2>3 DEF RecordingTaken
  <2> QED
    BY <1>1, <1>2, <1>4, <2>2, <2>3
<1>10. RecordingAccepted' /\ RecordingStored' /\ RecordingTransfers'
  BY <1>1, <1>2, <1>3, <1>4, <1>9, RecordingOneMoves
<1> QED
  BY <1>6, <1>8, <1>10

(* A download links the data and copies the index, and then, when a part   *)
(* of its prefix was not on disk, copies the data and appends the rest.    *)
LEMMA RecordingCopyStep ==
  ASSUME Recording!RecordingAssumption, RecordingInv, NEW d \in Downloads,
         Recording!LinkBin(d) \/ Recording!CopyIdx(d) \/ Recording!CopyBin(d)
             \/ Recording!AppendTail(d)
  PROVE  RecordingInv'
<1> USE DEF RecordingInv
<1>1. /\ Recording!Others /\ UNCHANGED <<ePins, eRemoved, eCutoff, eHeld>>
           /\ d \in Recording!Pinners /\ d \notin RecordingReaders
      /\ UNCHANGED <<eRetired, eEngine, eRows, eWritten, eIdx, eBin>>
  BY DEF Recording!LinkBin, Recording!CopyIdx, Recording!CopyBin, Recording!AppendTail,
     Recording!Downloading, Recording!Others, Recording!Pinners,
     Recording!RecordingAssumption, Recording!capture, Recording!queue, Recording!files
<1>2. /\ eAt \in [Recording!Pinners -> RecordingSteps]
           /\ eLinked \in [Recording!Pinners -> BOOLEAN]
      /\ eCopyBin \in [Recording!Pinners -> Seq(0..MaxSteps)]
           /\ eCopyIdx \in [Recording!Pinners -> Seq(Nat)]
      /\ eRows \in Seq(1..MaxSteps) /\ eBin \in Seq(0..MaxSteps) /\ eIdx \in Seq(Nat)
      /\ eHeld[d] \in Nat /\ eCutoff[d] \in Nat /\ eWritten \in Nat
  BY <1>1 DEF RecordingType
<1>3. eHeld[d] <= eCutoff[d] /\ eCutoff[d] <= Len(eRows) /\ RecordingTaken(d)
      /\ RecordingFound(eWritten)
  BY <1>1 DEF RecordingTransfers, RecordingStored
<1>4. /\ eAt' \in [Recording!Pinners -> RecordingSteps]
           /\ eLinked' \in [Recording!Pinners -> BOOLEAN]
      /\ eCopyBin' \in [Recording!Pinners -> Seq(0..MaxSteps)]
           /\ eCopyIdx' \in [Recording!Pinners -> Seq(Nat)]
      /\ \A q \in Recording!Pinners \ {d} :
           /\ eAt'[q] = eAt[q] /\ eCopyBin'[q] = eCopyBin[q] /\ eCopyIdx'[q] = eCopyIdx[q]
           /\ eLinked'[q] = eLinked[q]
      /\ eAt[d] \in {"link", "index", "data", "tail"} /\ eAt'[d] \in {"index", "data", "tail"}
      /\ RecordingTaken(d)'
  <2>1. CASE Recording!LinkBin(d)
    <3>1. /\ eAt[d] = "link" /\ eAt' = [eAt EXCEPT ![d] = "index"]
               /\ eLinked' = [eLinked EXCEPT ![d] = TRUE]
          /\ UNCHANGED <<eCopyBin, eCopyIdx>>
      BY <2>1 DEF Recording!LinkBin, Recording!Step
    <3>2. eAt'[d] = "index" /\ eLinked'[d] = TRUE
          /\ eAt' \in [Recording!Pinners -> RecordingSteps]
      BY <1>1, <1>2, <3>1 DEF RecordingSteps
    <3>3. RecordingTaken(d)'
      BY <1>1, <1>3, <3>1, <3>2 DEF RecordingTaken
    <3> QED
      BY <1>1, <1>2, <3>1, <3>2, <3>3
  <2>2. CASE Recording!CopyIdx(d)
    <3>1. /\ eAt[d] = "index"
               /\ eAt' = [eAt EXCEPT ![d] = IF eHeld[d] < eCutoff[d] THEN "data" ELSE "tail"]
          /\ Len(eIdx) >= eHeld[d] /\ UNCHANGED <<eCopyBin, eLinked>>
          /\ eCopyIdx' = [eCopyIdx EXCEPT ![d] = SubSeq(eIdx, 1, eHeld[d])]
      BY <2>2 DEF Recording!CopyIdx, Recording!Step
    <3>2. eHeld[d] \in 0..Len(eIdx)
      BY <1>2, <3>1
    <3>3. /\ eCopyIdx'[d] = SubSeq(eIdx, 1, eHeld[d]) /\ eCopyIdx'[d] \in Seq(Nat)
          /\ Len(eCopyIdx'[d]) = eHeld[d] /\ \A i \in 1..eHeld[d] : eCopyIdx'[d][i] = eIdx[i]
      <4>1. eCopyIdx'[d] = SubSeq(eIdx, 1, eHeld[d])
        BY <1>1, <1>2, <3>1
      <4>2. eIdx \in Seq(Nat)
        BY <1>2
      <4>3. /\ SubSeq(eIdx, 1, eHeld[d]) \in Seq(Nat)
            /\ Len(SubSeq(eIdx, 1, eHeld[d])) = eHeld[d]
            /\ \A i \in 1..eHeld[d] : SubSeq(eIdx, 1, eHeld[d])[i] = eIdx[i]
        BY <3>2, <4>2, SequenceCut
      <4> QED
        BY <4>1, <4>3
    <3>4. eCopyIdx' \in [Recording!Pinners -> Seq(Nat)]
      BY <1>2, <3>1, <3>3
    <3>5. eAt' \in [Recording!Pinners -> RecordingSteps]
          /\ eAt'[d] = IF eHeld[d] < eCutoff[d] THEN "data" ELSE "tail"
      BY <1>1, <1>2, <3>1 DEF RecordingSteps
    <3>6. RecordingTaken(d)'
      BY <1>1, <1>2, <1>3, <3>1, <3>3, <3>5 DEF RecordingTaken
    <3>7. \A q \in Recording!Pinners \ {d} : eAt'[q] = eAt[q] /\ eCopyIdx'[q] = eCopyIdx[q]
      BY <1>2, <3>1
    <3> QED
      BY <1>2, <3>1, <3>4, <3>5, <3>6, <3>7
  <2>3. CASE Recording!CopyBin(d)
    <3>1. /\ eAt[d] = "data" /\ eAt' = [eAt EXCEPT ![d] = "tail"]
               /\ eCopyBin' = [eCopyBin EXCEPT ![d] = eBin]
          /\ eLinked' = [eLinked EXCEPT ![d] = FALSE] /\ UNCHANGED eCopyIdx
      BY <2>3 DEF Recording!CopyBin, Recording!Step
    <3>2. /\ eAt'[d] = "tail" /\ eLinked'[d] = FALSE /\ eCopyBin'[d] = eBin
          /\ eAt' \in [Recording!Pinners -> RecordingSteps]
               /\ eLinked' \in [Recording!Pinners -> BOOLEAN]
          /\ eCopyBin' \in [Recording!Pinners -> Seq(0..MaxSteps)]
      BY <1>1, <1>2, <3>1 DEF RecordingSteps
    <3>3. eHeld[d] <= eWritten /\ Len(eCopyIdx[d]) = eHeld[d]
          /\ \A i \in 1..eHeld[d] : eCopyIdx[d][i] = eIdx[i]
      BY <1>3, <3>1 DEF RecordingTaken
    <3>4. \A i \in 1..eHeld[d] : eIdx[i] \in 1..Len(eBin) /\ eBin[eIdx[i]] = i
      <4>1. \A i \in 1..eHeld[d] : i \in 1..eWritten
        BY <1>2, <3>3
      <4> QED
        BY <1>3, <4>1 DEF RecordingFound
    <3>5. RecordingTaken(d)'
      BY <1>1, <1>2, <1>3, <3>1, <3>2, <3>3, <3>4 DEF RecordingTaken
    <3> QED
      BY <1>2, <3>1, <3>2, <3>5
  <2>4. CASE Recording!AppendTail(d)
    <3> DEFINE n == Len(eCopyIdx[d])
    <3>1. /\ eAt[d] = "tail" /\ n < eCutoff[d] /\ UNCHANGED <<eAt, eLinked>>
          /\ eCopyBin' = [eCopyBin EXCEPT ![d] = Append(eCopyBin[d], eRows[n + 1])]
          /\ eCopyIdx' = [eCopyIdx EXCEPT ![d] = Append(eCopyIdx[d], Len(eCopyBin[d]) + 1)]
      BY <2>4 DEF Recording!AppendTail
    <3>2. eCopyIdx[d] \in Seq(Nat) /\ eCopyBin[d] \in Seq(0..MaxSteps) /\ n \in Nat
          /\ Len(eCopyBin[d]) \in Nat
      BY <1>1, <1>2
    <3>3. ~eLinked[d]
      BY <1>3, <3>1 DEF RecordingTaken
    <3>4. n + 1 \in 1..Len(eRows)
      BY <1>2, <1>3, <3>1, <3>2
    <3>5. eRows[n + 1] = n + 1 /\ eRows[n + 1] \in 1..MaxSteps
      BY <1>2, <3>4, SequenceElement DEF RecordingAccepted
    <3>6. n + 1 \in 0..MaxSteps
      BY <3>2, <3>5 DEF Recording!RecordingAssumption
    <3>7. /\ eCopyBin'[d] = Append(eCopyBin[d], n + 1)
               /\ eCopyIdx'[d] = Append(eCopyIdx[d], Len(eCopyBin[d]) + 1)
      BY <1>1, <1>2, <3>1, <3>5
    <3>8. /\ eCopyBin'[d] \in Seq(0..MaxSteps) /\ Len(eCopyBin'[d]) = Len(eCopyBin[d]) + 1
          /\ \A i \in 1..Len(eCopyBin[d]) : eCopyBin'[d][i] = eCopyBin[d][i]
          /\ eCopyBin'[d][Len(eCopyBin[d]) + 1] = n + 1
      BY <3>2, <3>6, <3>7, SequenceGrows
    <3>9. /\ eCopyIdx'[d] \in Seq(Nat) /\ Len(eCopyIdx'[d]) = n + 1
          /\ \A i \in 1..n : eCopyIdx'[d][i] = eCopyIdx[d][i]
          /\ eCopyIdx'[d][n + 1] = Len(eCopyBin[d]) + 1
      <4>1. Len(eCopyBin[d]) + 1 \in Nat
        BY <3>2
      <4> QED
        BY <3>2, <3>7, <4>1, SequenceGrows
    <3>10. \A i \in 1..n : eCopyIdx[d][i] \in 1..Len(eCopyBin[d])
           /\ eCopyBin[d][eCopyIdx[d][i]] = i
      BY <1>3, <3>1, <3>3 DEF RecordingTaken
    <3>11. \A i \in 1..(n + 1) :
             eCopyIdx'[d][i] \in 1..Len(eCopyBin'[d]) /\ eCopyBin'[d][eCopyIdx'[d][i]] = i
      <4> HIDE DEF n
      <4>1. \A i \in 1..n : eCopyIdx'[d][i] \in 1..Len(eCopyBin'[d])
            /\ eCopyBin'[d][eCopyIdx'[d][i]] = i
        <5> SUFFICES ASSUME NEW i \in 1..n
                     PROVE  eCopyIdx'[d][i] \in 1..Len(eCopyBin'[d])
                            /\ eCopyBin'[d][eCopyIdx'[d][i]] = i
          OBVIOUS
        <5>1. eCopyIdx'[d][i] = eCopyIdx[d][i]
          BY <3>9
        <5>2. eCopyIdx[d][i] \in 1..Len(eCopyBin[d]) /\ eCopyBin[d][eCopyIdx[d][i]] = i
          BY <3>10
        <5>3. eCopyBin'[d][eCopyIdx[d][i]] = eCopyBin[d][eCopyIdx[d][i]]
              /\ Len(eCopyBin'[d]) = Len(eCopyBin[d]) + 1
          BY <3>8, <5>2
        <5> QED
          BY <3>2, <5>1, <5>2, <5>3
      <4>2. eCopyIdx'[d][n + 1] \in 1..Len(eCopyBin'[d])
            /\ eCopyBin'[d][eCopyIdx'[d][n + 1]] = n + 1
        BY <3>2, <3>8, <3>9
      <4>3. \A i \in 1..(n + 1) : i \in 1..n \/ i = n + 1
        BY <3>2
      <4> QED
        BY <4>1, <4>2, <4>3
    <3>12. RecordingTaken(d)'
      <4> HIDE DEF n
      <4>1. n + 1 <= eCutoff[d]
        BY <1>2, <3>1, <3>2
      <4>2. eAt'[d] = "tail" /\ eLinked'[d] = eLinked[d] /\ eCutoff' = eCutoff /\ eHeld' = eHeld
            /\ eWritten' = eWritten
        BY <1>1, <3>1
      <4>3. eHeld[d] <= eWritten
        BY <1>3, <3>1 DEF RecordingTaken
      <4> QED
        BY <3>3, <3>9, <3>11, <4>1, <4>2, <4>3 DEF RecordingTaken
    <3>13. eCopyBin' \in [Recording!Pinners -> Seq(0..MaxSteps)]
           /\ eCopyIdx' \in [Recording!Pinners -> Seq(Nat)]
      <4>1. eCopyBin' = [eCopyBin EXCEPT ![d] = eCopyBin'[d]]
            /\ eCopyIdx' = [eCopyIdx EXCEPT ![d] = eCopyIdx'[d]]
        BY <3>1, <3>5, <3>7
      <4> QED
        BY <1>2, <3>8, <3>9, <4>1
    <3>14. \A q \in Recording!Pinners \ {d} : eCopyBin'[q] = eCopyBin[q]
           /\ eCopyIdx'[q] = eCopyIdx[q]
      BY <1>2, <3>1
    <3> QED
      BY <1>2, <3>1, <3>12, <3>13, <3>14
  <2> QED
    BY <2>1, <2>2, <2>3, <2>4
<1>5. RecordingPinned' = RecordingPinned
  BY <1>1, <1>2, <1>4 DEF RecordingPinned
<1>6. RecordingKept'
  BY <1>1, <1>5 DEF RecordingKept
<1>7. RecordingType'
  BY <1>1, <1>4, RecordingOthersType DEF RecordingType
<1>8. eAt'[d] # "reading"
  BY <1>4
<1>9. RecordingAccepted' /\ RecordingStored' /\ RecordingTransfers'
  BY <1>1, <1>3, <1>4, <1>8, RecordingOneMoves
<1> QED
  BY <1>6, <1>7, <1>9

(* The invariant holds in every state.                                     *)
LEMMA RecordingInductive ==
  ASSUME Recording!RecordingAssumption
  PROVE  Recording!Spec => []RecordingInv
<1>1. Recording!Init => RecordingInv
  BY RecordingInit
<1>2. RecordingInv /\ [Recording!Next]_Recording!vars => RecordingInv'
  <2> SUFFICES ASSUME RecordingInv, [Recording!Next]_Recording!vars PROVE RecordingInv'
    OBVIOUS
  <2>1. CASE UNCHANGED Recording!vars
    <3>1. /\ UNCHANGED <<eStep, eEngine, eEnabled, eRows, eCaptureError, eWritten, eError, eClosed, eRetired>>
          /\ UNCHANGED <<ePins, eWriter, eBin, eIdx, eRemoved, eAt, eCutoff, eHeld, eCopyBin, eCopyIdx, eLinked>>
      BY <2>1 DEF Recording!vars, Recording!capture, Recording!queue, Recording!files,
         Recording!transfers
    <3>2. RecordingType' /\ RecordingAccepted'
      BY <3>1 DEF RecordingInv, RecordingType, RecordingAccepted
    <3>3. RecordingStored' /\ RecordingKept'
      BY <3>1 DEF RecordingInv, RecordingStored, RecordingFound, RecordingKept,
         RecordingPinned
    <3>4. RecordingTransfers'
      BY <3>1 DEF RecordingInv, RecordingTransfers, RecordingTaken
    <3> QED
      BY <3>2, <3>3, <3>4 DEF RecordingInv
  <2>2. CASE Recording!Next
    <3>1. \/ RecordingEngine \/ Recording!Retry \/ RecordingWrite
          \/ \E r \in RecordingReaders : Recording!ReserveRead(r) \/ Recording!ReleaseRead(r)
          \/ \E d \in Downloads :
               \/ Recording!ReservePrefix(d) \/ Recording!TakePrefix(d)
                    \/ Recording!DownloadFails(d) \/ Recording!DownloadEnds(d)
               \/ Recording!LinkBin(d) \/ Recording!CopyIdx(d) \/ Recording!CopyBin(d)
                    \/ Recording!AppendTail(d)
      BY <2>2 DEF Recording!Next, RecordingEngine, RecordingWrite
    <3> QED
      BY <3>1, RecordingEngineStep, RecordingRetryStep, RecordingWriteStep,
         RecordingReadStep, RecordingReserveStep, RecordingEndStep, RecordingCopyStep
  <2> QED
    BY <2>1, <2>2
<1> QED
  BY <1>1, <1>2, PTL DEF Recording!Spec

(* The prefix that was pinned is found in the files, or in the copies of   *)
(* the download that has ended.                                            *)
THEOREM RecordingIsExact ==
  ASSUME Recording!RecordingAssumption PROVE Recording!Spec => [](Recording!TypeOK
         /\ Recording!DownloadsAreExact)
<1>1. RecordingInv => Recording!DownloadsAreExact
  <2> SUFFICES ASSUME RecordingInv PROVE Recording!DownloadsAreExact
    OBVIOUS
  <2> USE DEF RecordingInv
  <2>1. eWritten \in Nat /\ eBin \in Seq(0..MaxSteps) /\ eIdx \in Seq(Nat)
        /\ RecordingFound(eWritten)
    BY DEF RecordingType, RecordingStored
  <2>2. ASSUME NEW d \in Downloads, eAt[d] = "done"
        PROVE  Recording!Read(IF eLinked[d] THEN eBin ELSE eCopyBin[d], eCopyIdx[d]) = Recording!Decisions(eCutoff[d])
    <3>1. /\ RecordingTaken(d) /\ eHeld[d] \in Nat /\ eCutoff[d] \in Nat
               /\ eCopyIdx[d] \in Seq(Nat)
          /\ eCopyBin[d] \in Seq(0..MaxSteps)
      BY DEF RecordingTransfers, RecordingType, Recording!Pinners
    <3>2. Len(eCopyIdx[d]) = eCutoff[d] /\ DOMAIN eCopyIdx[d] = 1..eCutoff[d]
      BY <2>2, <3>1 DEF RecordingTaken
    <3> DEFINE data == IF eLinked[d] THEN eBin ELSE eCopyBin[d]
    <3>3. DOMAIN data = 1..Len(data)
      BY <2>1, <3>1
    <3>4. \A i \in 1..eCutoff[d] : eCopyIdx[d][i] \in 1..Len(data) /\ data[eCopyIdx[d][i]] = i
      <4>1. CASE eLinked[d]
        <5>1. eHeld[d] = eCutoff[d] /\ eHeld[d] <= eWritten
              /\ \A i \in 1..eHeld[d] : eCopyIdx[d][i] = eIdx[i]
          BY <2>2, <3>1, <4>1 DEF RecordingTaken
        <5>2. \A i \in 1..eHeld[d] : eIdx[i] \in 1..Len(eBin) /\ eBin[eIdx[i]] = i
          BY <2>1, <3>1, <5>1 DEF RecordingFound
        <5> QED
          BY <4>1, <5>1, <5>2
      <4>2. CASE ~eLinked[d]
        BY <2>2, <3>1, <3>2, <4>2 DEF RecordingTaken
      <4> QED
        BY <4>1, <4>2
    <3> HIDE DEF data
    <3>5. Recording!Read(data, eCopyIdx[d]) = Recording!Decisions(eCutoff[d])
      BY <3>2, <3>3, <3>4 DEF Recording!Read, Recording!Decisions
    <3> QED
      BY <3>5 DEF data
  <2>3. ASSUME NEW r \in RecordingReaders, eAt[r] = "reading"
        PROVE  ~eRemoved /\ Recording!Read(eBin, SubSeq(eIdx, 1, eHeld[r])) = Recording!Decisions(eHeld[r])
    <3>1. eHeld[r] \in Nat /\ eHeld[r] <= eWritten /\ eWritten <= Len(eIdx) /\ Len(eIdx) \in Nat
      BY <2>1, <2>3 DEF RecordingTransfers, RecordingType, Recording!Pinners,
         RecordingFound
    <3>2. r \in RecordingPinned
      BY <2>3 DEF RecordingPinned, Recording!Pinners
    <3>3. eHeld[r] \in 0..Len(eIdx)
      BY <2>1, <3>1
    <3> DEFINE prefix == SubSeq(eIdx, 1, eHeld[r])
    <3>4. prefix \in Seq(Nat) /\ Len(prefix) = eHeld[r]
          /\ \A i \in 1..eHeld[r] : prefix[i] = eIdx[i]
      BY <2>1, <3>3, SequenceCut
    <3> HIDE DEF prefix
    <3>5. DOMAIN prefix = 1..eHeld[r] /\ DOMAIN eBin = 1..Len(eBin)
      BY <2>1, <3>4
    <3>6. \A i \in 1..eHeld[r] : prefix[i] \in 1..Len(eBin) /\ eBin[prefix[i]] = i
      <4>1. \A i \in 1..eHeld[r] : i \in 1..eWritten
        BY <2>1, <3>1
      <4> QED
        BY <2>1, <3>4, <4>1 DEF RecordingFound
    <3>7. Recording!Read(eBin, prefix) = Recording!Decisions(eHeld[r])
      BY <3>5, <3>6 DEF Recording!Read, Recording!Decisions
    <3> QED
      BY <3>2, <3>7 DEF RecordingKept, prefix
  <2> QED
    BY <2>2, <2>3 DEF Recording!DownloadsAreExact
<1>2. RecordingInv => Recording!TypeOK
  <2> SUFFICES ASSUME RecordingInv PROVE Recording!TypeOK
    OBVIOUS
  <2> USE DEF RecordingInv
  <2>1. eIdx \in Seq(0..Len(eBin))
    <3>1. eIdx \in Seq(Nat) /\ Len(eBin) \in Nat /\ \A i \in 1..Len(eIdx) : eIdx[i] <= Len(eBin)
      BY DEF RecordingType
    <3>2. \A i \in 1..Len(eIdx) : eIdx[i] \in 0..Len(eBin)
      BY <3>1, SequenceElement
    <3>3. DOMAIN eIdx = 1..Len(eIdx) /\ Len(eIdx) \in Nat
          /\ eIdx = [i \in 1..Len(eIdx) |-> eIdx[i]]
      BY <3>1
    <3> QED
      BY <3>2, <3>3
  <2>2. \A p \in Recording!Pinners : eCutoff[p] \in 0..Len(eRows) /\ eHeld[p] \in 0..eCutoff[p]
    <3> SUFFICES ASSUME NEW p \in Recording!Pinners PROVE eCutoff[p] \in 0..Len(eRows)
                        /\ eHeld[p] \in 0..eCutoff[p]
      OBVIOUS
    <3>1. eCutoff[p] \in Nat /\ eHeld[p] \in Nat /\ Len(eRows) \in Nat
      BY DEF RecordingType
    <3>2. eHeld[p] <= eCutoff[p] /\ eCutoff[p] <= Len(eRows)
      BY DEF RecordingTransfers
    <3> QED
      BY <3>1, <3>2
  <2>3. ePins \in Nat
    BY PinnedAreFinite DEF RecordingKept
  <2>4. {eError, eCaptureError, eClosed, eRetired, eRemoved, eEnabled} \subseteq BOOLEAN
    BY DEF RecordingType
  <2> QED
    BY <2>1, <2>2, <2>3, <2>4 DEF Recording!TypeOK, RecordingType, RecordingSteps
<1> QED
  BY <1>1, <1>2, RecordingInductive, PTL

-----------------------------------------------------------------------------
(* CheckpointMonitoring.                                                   *)


(* The cardinality of the instance is the one the theorems are about.      *)
LEMMA MonitoringCounts == \A S : Monitoring!Cardinality(S) = Cardinality(S)
BY Zenon DEF Monitoring!Cardinality, Cardinality, Monitoring!IsFiniteSet, IsFiniteSet

(* The worker processes that run.                                          *)
MonitoringAlive == {p \in Monitoring!Processes : Monitoring!Running(p)}

(* Two executions at most, and one from the first submission on.           *)
MonitoringSound(row) ==
  /\ row.status = "pending" => row.attempts < 2
  /\ row.status \in {"submitting", "running"} => row.attempts \in 1..2

(* The rows the supervisor holds are those of the store, and the one it is *)
(* about to submit has been saved as such.                                 *)
MonitoringCopies ==
  /\ \A c \in Monitored : MonitoringSound(mState[c]) /\ (Monitoring!Held(c)
       => mRows[c] = mState[c])
  /\ mTurn # None => mRows[mTurn] = mState[mTurn] /\ mState[mTurn].status = "submitting"

(* A process that runs is one of the execution the store knows of, and a   *)
(* helper is only started for a row that is known to run.                  *)
MonitoringAlone ==
  \A c \in Monitored, k \in Monitoring!Executions, role \in Monitoring!Parts :
    <<c, k, role>> \in MonitoringAlive =>
      /\ mState[c].attempts = k /\ mState[c].status \in {"submitting", "running"}
      /\ role = "helper" => mState[c].status = "running"

(* Processes fit in the limit, with a place for the one to be submitted.   *)
MonitoringFits ==
  /\ IsFiniteSet(MonitoringAlive) /\ Cardinality(MonitoringAlive) <= Monitoring!Limit
  /\ mTurn # None => Cardinality(MonitoringAlive) < Monitoring!Limit

(* What the directories and the verdicts say is in the store.              *)
MonitoringBacked ==
  /\ \A c \in Monitored :
       /\ c \in mResult => mCommitted[c] = Episodes
       /\ mState[c].status \in {"verified", "complete"} => c \in mResult
       /\ \A k \in Monitoring!Executions : mLocal[<<c, k>>] \subseteq mCommitted[c]
  /\ \A p \in Monitoring!Processes : mProc[p] = "episode" => mDoing[p] \in Episodes

(* The inductive invariant.                                                *)
MonitoringInv == Monitoring!TypeOK /\ MonitoringCopies /\ MonitoringAlone /\ MonitoringFits
    /\ MonitoringBacked

MonitoringNoneOf(c) == \A k \in Monitoring!Executions,
    role \in Monitoring!Parts : <<c, k, role>> \notin MonitoringAlive

(* The limit is a number, and only grows.                                  *)
LEMMA MonitoringLimitType ==
  ASSUME Monitoring!MonitoringAssumption, Monitoring!TypeOK
  PROVE  Monitoring!Limit \in Nat /\ Monitoring!Limit <= Cpus
BY DEF Monitoring!MonitoringAssumption, Monitoring!TypeOK, Monitoring!Limit

(* Fewer processes fit as well.                                            *)
LEMMA MonitoringFewerFit ==
  ASSUME Monitoring!MonitoringAssumption, Monitoring!TypeOK, MonitoringFits,
         MonitoringAlive' \subseteq MonitoringAlive, Monitoring!Limit' \in Nat,
             Monitoring!Limit <= Monitoring!Limit',
         mTurn' = None \/ Cardinality(MonitoringAlive) < Monitoring!Limit
  PROVE  MonitoringFits'
<1>1. IsFiniteSet(MonitoringAlive')
      /\ Cardinality(MonitoringAlive') <= Cardinality(MonitoringAlive)
           /\ Cardinality(MonitoringAlive') \in Nat
      /\ Cardinality(MonitoringAlive) \in Nat
  BY FS_Subset, FS_CardinalityType DEF MonitoringFits
<1>2. Cardinality(MonitoringAlive) <= Monitoring!Limit /\ Monitoring!Limit \in Nat
  BY MonitoringLimitType DEF MonitoringFits
<1> QED
  BY <1>1, <1>2 DEF MonitoringFits

(* One process more.                                                       *)
LEMMA OneMore ==
  ASSUME NEW S, IsFiniteSet(S), NEW x
  PROVE  /\ IsFiniteSet(S \cup {x}) /\ Cardinality(S \cup {x}) \in Nat
         /\ Cardinality(S \cup {x}) <= Cardinality(S) + 1 /\ Cardinality(S) \in Nat
<1>1. Cardinality(S) \in Nat /\ IsFiniteSet(S \cup {x})
  BY FS_CardinalityType, FS_AddElement
<1>2. Cardinality(S \cup {x}) = Cardinality(S) \/ Cardinality(S \cup {x}) = Cardinality(S) + 1
  BY FS_AddElement
<1> QED
  BY <1>1, <1>2

(* A process that is alive when others have changed nothing else.          *)
LEMMA MonitoringAloneStep ==
  ASSUME MonitoringAlone, NEW c \in Monitored, MonitoringAlive' \subseteq MonitoringAlive,
         MonitoringNoneOf(c)',
         \A d \in Monitored \ {c} : mState'[d] = mState[d]
  PROVE  MonitoringAlone'
BY DEF MonitoringAlone, MonitoringNoneOf

(* An execution that has not begun, or is over, has no process.            *)
LEMMA MonitoringNoneLeft ==
  ASSUME MonitoringAlone, NEW c \in Monitored, mState[c].status \notin {"submitting", "running"}
  PROVE  MonitoringNoneOf(c)
BY DEF MonitoringAlone, MonitoringNoneOf

(* A row is saved, or the supervisor forgets all of them.                  *)
LEMMA MonitoringRowStep ==
  ASSUME Monitoring!MonitoringAssumption, Monitoring!TypeOK, MonitoringCopies,
         NEW c \in Monitored, NEW row \in Monitoring!Row, MonitoringSound(row),
         \/ mState' = [mState EXCEPT ![c] = row] /\ mRows' = [mRows EXCEPT ![c] = row]
         \/ mState' \in {mState, [mState EXCEPT ![c] = row]} /\ mRows' = Monitoring!Forgotten,
         \/ mTurn' = None
         \/ /\ mTurn' = c /\ row.status = "submitting"
            /\ mState' = [mState EXCEPT ![c] = row] /\ mRows' = [mRows EXCEPT ![c] = row]
  PROVE  /\ MonitoringCopies' /\ mState' \in [Monitored -> Monitoring!Row]
         /\ mRows' \in [Monitored -> Monitoring!Row \cup {None}]
              /\ mTurn' \in Monitored \cup {None}
         /\ \A d \in Monitored \ {c} : mState'[d] = mState[d]
         /\ mState'[c] = mState[c] \/ mState'[c] = row
<1>1. /\ mState \in [Monitored -> Monitoring!Row]
           /\ mRows \in [Monitored -> Monitoring!Row \cup {None}]
      /\ None \notin Monitored
  BY DEF Monitoring!TypeOK, Monitoring!MonitoringAssumption
<1>2. /\ mState' \in [Monitored -> Monitoring!Row]
      /\ \A d \in Monitored \ {c} : mState'[d] = mState[d]
      /\ mState'[c] = mState[c] \/ mState'[c] = row
  BY <1>1
<1>3. /\ mRows' \in [Monitored -> Monitoring!Row \cup {None}]
      /\ \/ \A d \in Monitored : mRows'[d] = None
         \/ /\ mRows'[c] = row /\ mState'[c] = row
            /\ \A d \in Monitored \ {c} : mRows'[d] = mRows[d]
  BY <1>1 DEF Monitoring!Forgotten
<1>4. \A d \in Monitored : MonitoringSound(mState'[d])
  BY <1>2 DEF MonitoringCopies
<1>5. \A d \in Monitored : Monitoring!Held(d)' => mRows'[d] = mState'[d]
  BY <1>2, <1>3 DEF MonitoringCopies, Monitoring!Held
<1>6. mTurn' # None => mRows'[mTurn'] = mState'[mTurn'] /\ mState'[mTurn'].status = "submitting"
  BY <1>1
<1> QED
  BY <1>2, <1>3, <1>4, <1>5, <1>6 DEF MonitoringCopies, MonitoringSound

(* Nothing runs in the beginning.                                          *)
LEMMA MonitoringInit ==
  ASSUME Monitoring!MonitoringAssumption, Monitoring!Init
  PROVE  MonitoringInv
<1> USE DEF Monitoring!Init
<1>1. MonitoringAlive = {}
  BY DEF MonitoringAlive, Monitoring!Running, Monitoring!Idle
<1>2. Monitoring!TypeOK
  <2>1. mState \in [Monitored -> Monitoring!Row]
        /\ \A c \in Monitored : mState[c].status = "pending" /\ mState[c].attempts = 0
    BY DEF Monitoring!Row, Monitoring!Statuses
  <2>2. /\ mCommitted \in [Monitored -> SUBSET Episodes]
        /\ mRows \in [Monitored -> Monitoring!Row \cup {None}]
    OBVIOUS
  <2>3. mProc \in [Monitoring!Processes -> {"none", "claim", "episode", "wait", "ok", "failed", "dead"}]
    BY DEF Monitoring!Idle
  <2>4. mDoing \in [Monitoring!Processes -> Episodes \cup {None}]
    BY DEF Monitoring!NoEpisode
  <2>5. mClaimed \in [Monitored \X Monitoring!Executions -> SUBSET Episodes]
        /\ mLocal \in [Monitored \X Monitoring!Executions -> SUBSET Episodes]
    BY DEF Monitoring!Empty
  <2> QED
    BY <2>1, <2>2, <2>3, <2>4, <2>5 DEF Monitoring!TypeOK, Monitoring!MonitoringAssumption
<1>3. MonitoringCopies
  BY DEF MonitoringCopies, MonitoringSound, Monitoring!Held
<1>4. MonitoringAlone
  BY <1>1 DEF MonitoringAlone
<1>5. MonitoringFits
  BY <1>1, <1>2, MonitoringLimitType, FS_EmptySet DEF MonitoringFits
<1>6. MonitoringBacked
  BY DEF MonitoringBacked, Monitoring!Empty, Monitoring!Idle
<1> QED
  BY <1>2, <1>3, <1>4, <1>5, <1>6 DEF MonitoringInv

(* A worker writes to the store and to its directory only.                 *)
LEMMA MonitoringWorkerStep ==
  ASSUME Monitoring!MonitoringAssumption, MonitoringInv,
         \/ \E c \in Monitored, k \in Monitoring!Executions,
              role \in Monitoring!Parts : Monitoring!Worker(c, k, role)
         \/ \E c \in Monitored, k \in Monitoring!Executions : Monitoring!Finalize(c, k)
         \/ \E p \in Monitoring!Processes : Monitoring!WorkerFails(p)
  PROVE  MonitoringInv'
<1> USE DEF MonitoringInv
<1>1. UNCHANGED <<mState, mPublished, mRows, mTurn, mPhase>>
  <2>1. ASSUME NEW c \in Monitored, NEW k \in Monitoring!Executions,
               NEW role \in Monitoring!Parts, Monitoring!Worker(c, k, role)
        PROVE  UNCHANGED <<mState, mPublished, mRows, mTurn, mPhase>>
    BY <2>1 DEF Monitoring!Worker, Monitoring!Claim, Monitoring!CommitEpisode,
       Monitoring!CompleteEpisode, Monitoring!store
  <2>2. ASSUME NEW c \in Monitored, NEW k \in Monitoring!Executions, Monitoring!Finalize(c, k)
        PROVE  UNCHANGED <<mState, mPublished, mRows, mTurn, mPhase>>
    BY <2>2 DEF Monitoring!Finalize
  <2>3. ASSUME NEW p \in Monitoring!Processes, Monitoring!WorkerFails(p)
        PROVE  UNCHANGED <<mState, mPublished, mRows, mTurn, mPhase>>
    BY <2>3 DEF Monitoring!WorkerFails, Monitoring!store
  <2> QED
    BY <2>1, <2>2, <2>3
<1> DEFINE Places == {"none", "claim", "episode", "wait", "ok", "failed", "dead"}
<1>2. /\ mProc \in [Monitoring!Processes -> Places]
           /\ mDoing \in [Monitoring!Processes -> Episodes \cup {None}]
      /\ mClaimed \in [Monitored \X Monitoring!Executions -> SUBSET Episodes]
      /\ mLocal \in [Monitored \X Monitoring!Executions -> SUBSET Episodes]
      /\ mCommitted \in [Monitored -> SUBSET Episodes] /\ mResult \in SUBSET Monitored
      /\ mFaults \in 0..MonitoringFaults /\ MonitoringFaults \in Nat
  BY DEF Monitoring!TypeOK, Monitoring!MonitoringAssumption
<1>3. /\ mProc' \in [Monitoring!Processes -> Places]
           /\ mDoing' \in [Monitoring!Processes -> Episodes \cup {None}]
      /\ mClaimed' \in [Monitored \X Monitoring!Executions -> SUBSET Episodes]
      /\ mLocal' \in [Monitored \X Monitoring!Executions -> SUBSET Episodes]
      /\ mCommitted' \in [Monitored -> SUBSET Episodes] /\ mResult' \in SUBSET Monitored
      /\ mFaults' \in 0..MonitoringFaults
      /\ MonitoringAlive' \subseteq MonitoringAlive
      /\ \A p \in Monitoring!Processes : mProc'[p] = "episode" => mDoing'[p] \in Episodes
      /\ \A c \in Monitored :
           /\ mCommitted[c] \subseteq mCommitted'[c]
           /\ \A k \in Monitoring!Executions : mLocal'[<<c, k>>] \subseteq mCommitted'[c]
           /\ c \in mResult => c \in mResult'
           /\ c \in mResult' => mCommitted'[c] = Episodes
  <2>1. ASSUME NEW c \in Monitored, NEW k \in Monitoring!Executions,
               NEW role \in Monitoring!Parts, Monitoring!Claim(c, k, role)
        PROVE  <1>3!:
    <3> DEFINE p == <<c, k, role>>
    <3>1. p \in Monitoring!Processes /\ <<c, k>> \in Monitored \X Monitoring!Executions
          /\ mProc[p] = "claim"
      BY <2>1 DEF Monitoring!Processes, Monitoring!Claim
    <3>2. UNCHANGED <<mCommitted, mResult, mLocal, mFaults>>
      BY <2>1 DEF Monitoring!Claim, Monitoring!store
    <3>3. \/ /\ mProc' = [mProc EXCEPT ![p] = IF role = "main" THEN "wait" ELSE "ok"]
             /\ UNCHANGED <<mDoing, mClaimed>>
          \/ \E e \in Episodes :
               /\ mClaimed' = [mClaimed EXCEPT ![<<c, k>>] = @ \cup {e}]
               /\ mDoing' = [mDoing EXCEPT ![p] = e]
               /\ mProc' = [mProc EXCEPT ![p] = "episode"]
      BY <2>1 DEF Monitoring!Claim
    <3> HIDE DEF p
    <3>4. mProc' \in [Monitoring!Processes -> Places]
          /\ mDoing' \in [Monitoring!Processes -> Episodes \cup {None}]
      <4>1. mProc' \in [Monitoring!Processes -> Places]
        BY <1>2, <3>1, <3>3
      <4>2. mDoing' \in [Monitoring!Processes -> Episodes \cup {None}]
        <5>1. ASSUME NEW e \in Episodes, mDoing' = [mDoing EXCEPT ![p] = e]
              PROVE  mDoing' \in [Monitoring!Processes -> Episodes \cup {None}]
          BY <1>2, <3>1, <5>1
        <5> QED
          BY <1>2, <3>3, <5>1
      <4> QED
        BY <4>1, <4>2
    <3>5. mClaimed' \in [Monitored \X Monitoring!Executions -> SUBSET Episodes]
      BY <1>2, <3>1, <3>3
    <3>6. MonitoringAlive' \subseteq MonitoringAlive
      BY <1>2, <3>1, <3>3 DEF MonitoringAlive, Monitoring!Running
    <3>7. \A q \in Monitoring!Processes : mProc'[q] = "episode" => mDoing'[q] \in Episodes
      BY <1>2, <3>1, <3>3 DEF MonitoringBacked
    <3> QED
      BY <1>2, <3>2, <3>4, <3>5, <3>6, <3>7 DEF MonitoringBacked
  <2>2. ASSUME NEW c \in Monitored, NEW k \in Monitoring!Executions,
               NEW role \in Monitoring!Parts, Monitoring!CommitEpisode(c, k, role)
        PROVE  <1>3!:
    <3> DEFINE e == mDoing[<<c, k, role>>]
    <3>1. e \in Episodes
      BY <2>2 DEF Monitoring!CommitEpisode, MonitoringBacked, Monitoring!Processes
    <3>2. mCommitted' = [mCommitted EXCEPT ![c] = @ \cup {e}]
          /\ UNCHANGED <<mResult, mProc, mDoing, mClaimed, mLocal, mFaults>>
      BY <2>2 DEF Monitoring!CommitEpisode, Monitoring!host
    <3> HIDE DEF e
    <3>3. mCommitted' \in [Monitored -> SUBSET Episodes]
          /\ \A d \in Monitored : mCommitted[d] \subseteq mCommitted'[d]
      BY <1>2, <3>1, <3>2
    <3>4. MonitoringAlive' \subseteq MonitoringAlive
      BY <3>2 DEF MonitoringAlive, Monitoring!Running
    <3> QED
      BY <1>2, <3>2, <3>3, <3>4 DEF MonitoringBacked
  <2>3. ASSUME NEW c \in Monitored, NEW k \in Monitoring!Executions,
               NEW role \in Monitoring!Parts, Monitoring!CompleteEpisode(c, k, role)
        PROVE  <1>3!:
    <3> DEFINE p == <<c, k, role>>
    <3>1. p \in Monitoring!Processes /\ <<c, k>> \in Monitored \X Monitoring!Executions
          /\ mDoing[p] \in mCommitted[c]
      BY <2>3 DEF Monitoring!Processes, Monitoring!CompleteEpisode
    <3>2. UNCHANGED <<mCommitted, mResult, mClaimed, mFaults>>
      BY <2>3 DEF Monitoring!CompleteEpisode, Monitoring!store
    <3>3. /\ mLocal' = [mLocal EXCEPT ![<<c, k>>] = @ \cup {mDoing[p]}]
          /\ mProc' = [mProc EXCEPT ![p] = "claim"] /\ mDoing' = [mDoing EXCEPT ![p] = None]
          /\ mProc[p] = "episode"
      BY <2>3 DEF Monitoring!CompleteEpisode
    <3> HIDE DEF p
    <3>4. /\ mProc' \in [Monitoring!Processes -> Places]
               /\ mDoing' \in [Monitoring!Processes -> Episodes \cup {None}]
          /\ mLocal' \in [Monitored \X Monitoring!Executions -> SUBSET Episodes]
      BY <1>2, <3>1, <3>3
    <3>5. \A d \in Monitored,
          n \in Monitoring!Executions : mLocal'[<<d, n>>] \subseteq mCommitted'[d]
      <4> SUFFICES ASSUME NEW d \in Monitored,
                          NEW n \in Monitoring!Executions PROVE mLocal'[<<d, n>>] \subseteq mCommitted[d]
        BY <3>2
      <4>1. <<d, n>> \in Monitored \X Monitoring!Executions
            /\ mLocal[<<d, n>>] \subseteq mCommitted[d]
        BY DEF MonitoringBacked
      <4> QED
        BY <1>2, <3>1, <3>3, <4>1
    <3>6. MonitoringAlive' \subseteq MonitoringAlive
      BY <1>2, <3>1, <3>3 DEF MonitoringAlive, Monitoring!Running
    <3>7. \A q \in Monitoring!Processes : mProc'[q] = "episode" => mDoing'[q] \in Episodes
      BY <1>2, <3>1, <3>3 DEF MonitoringBacked
    <3> QED
      BY <1>2, <3>2, <3>4, <3>5, <3>6, <3>7 DEF MonitoringBacked
  <2>4. ASSUME NEW c \in Monitored, NEW k \in Monitoring!Executions, Monitoring!Finalize(c, k)
        PROVE  <1>3!:
    <3> DEFINE p == <<c, k, "main">>
    <3>1. p \in Monitoring!Processes /\ mProc[p] \in {"wait", "claim"}
          /\ mProc' = [mProc EXCEPT ![p] = "ok"]
      BY <2>4 DEF Monitoring!Processes, Monitoring!Finalize, Monitoring!Parts
    <3>2. UNCHANGED <<mCommitted, mDoing, mClaimed, mLocal, mFaults>>
          /\ mResult' = mResult \cup {c}
      BY <2>4 DEF Monitoring!Finalize
    <3>3. c \in mResult \/ mLocal[<<c, k>>] = Episodes
      BY <2>4 DEF Monitoring!Finalize
    <3> HIDE DEF p
    <3>4. mCommitted[c] = Episodes
      BY <1>2, <3>3 DEF MonitoringBacked
    <3>5. mProc' \in [Monitoring!Processes -> Places]
          /\ MonitoringAlive' \subseteq MonitoringAlive
      BY <1>2, <3>1 DEF MonitoringAlive, Monitoring!Running
    <3>6. \A q \in Monitoring!Processes : mProc'[q] = "episode" => mDoing'[q] \in Episodes
      BY <1>2, <3>1, <3>2 DEF MonitoringBacked
    <3> QED
      BY <1>2, <3>2, <3>4, <3>5, <3>6 DEF MonitoringBacked
  <2>5. ASSUME NEW p \in Monitoring!Processes, Monitoring!WorkerFails(p)
        PROVE  <1>3!:
    <3>1. /\ mProc' \in {[mProc EXCEPT ![p] = "failed"], [mProc EXCEPT ![p] = "dead"]}
          /\ mDoing' = [mDoing EXCEPT ![p] = None]
               /\ UNCHANGED <<mCommitted, mResult, mClaimed, mLocal>>
          /\ mFaults' = mFaults + 1 /\ mFaults < MonitoringFaults
      BY <2>5 DEF Monitoring!WorkerFails, Monitoring!Fault, Monitoring!store
    <3>2. mProc' \in [Monitoring!Processes -> Places]
          /\ mDoing' \in [Monitoring!Processes -> Episodes \cup {None}]
      BY <1>2, <3>1
    <3>3. MonitoringAlive' \subseteq MonitoringAlive
          /\ \A q \in Monitoring!Processes : mProc'[q] = "episode" => mDoing'[q] \in Episodes
      BY <1>2, <3>1 DEF MonitoringAlive, Monitoring!Running, MonitoringBacked
    <3> QED
      BY <1>2, <3>1, <3>2, <3>3 DEF MonitoringBacked
  <2> QED
    BY <2>1, <2>2, <2>3, <2>4, <2>5 DEF Monitoring!Worker
<1>4. Monitoring!TypeOK'
  BY <1>1, <1>3 DEF Monitoring!TypeOK
<1>5. MonitoringCopies' /\ MonitoringAlone'
  BY <1>1, <1>3 DEF MonitoringCopies, Monitoring!Held, MonitoringAlone
<1>6. MonitoringFits'
  BY <1>1, <1>3, MonitoringLimitType, MonitoringFewerFit DEF MonitoringFits,
     Monitoring!Limit
<1>7. MonitoringBacked'
  BY <1>1, <1>3 DEF MonitoringBacked
<1> QED
  BY <1>4, <1>5, <1>6, <1>7

(* What is left of the host when processes end and directories are         *)
(* removed.                                                                *)
MonitoringHostShrinks ==
  /\ mProc' \in [Monitoring!Processes -> {"none", "claim", "episode", "wait", "ok", "failed", "dead"}]
  /\ mDoing' \in [Monitoring!Processes -> Episodes \cup {None}]
  /\ mClaimed' \in [Monitored \X Monitoring!Executions -> SUBSET Episodes]
  /\ mLocal' \in [Monitored \X Monitoring!Executions -> SUBSET Episodes]
  /\ MonitoringAlive' \subseteq MonitoringAlive
  /\ \A p \in Monitoring!Processes : mProc'[p] = "episode" => mDoing'[p] \in Episodes
  /\ \A c \in Monitored,
       k \in Monitoring!Executions : mLocal'[<<c, k>>] \subseteq mLocal[<<c, k>>]

LEMMA MonitoringHostStays ==
  ASSUME Monitoring!TypeOK, MonitoringBacked, UNCHANGED Monitoring!host
  PROVE  MonitoringHostShrinks /\ MonitoringAlive' = MonitoringAlive
BY DEF Monitoring!TypeOK, MonitoringBacked, Monitoring!host, MonitoringHostShrinks,
   MonitoringAlive, Monitoring!Running

(* The processes of an execution that is canceled are gone.                *)
LEMMA MonitoringFreed ==
  ASSUME Monitoring!TypeOK, MonitoringBacked, NEW c \in Monitored,
         NEW k \in Monitoring!Executions, Monitoring!Reclaim(c, k) \/ Monitoring!Killed(c, k)
  PROVE  MonitoringHostShrinks
         /\ \A role \in Monitoring!Parts : <<c, k, role>> \notin MonitoringAlive'
<1>1. /\ mProc \in [Monitoring!Processes -> {"none", "claim", "episode", "wait", "ok", "failed", "dead"}]
      /\ mDoing \in [Monitoring!Processes -> Episodes \cup {None}]
      /\ mClaimed \in [Monitored \X Monitoring!Executions -> SUBSET Episodes]
      /\ mLocal \in [Monitored \X Monitoring!Executions -> SUBSET Episodes]
  BY DEF Monitoring!TypeOK
<1>2. <<c, k>> \in Monitored \X Monitoring!Executions
      /\ \A role \in Monitoring!Parts : <<c, k, role>> \in Monitoring!Processes
  BY DEF Monitoring!Processes
<1>3. CASE Monitoring!Reclaim(c, k)
  <2>1. /\ mProc' \in [Monitoring!Processes -> {"none", "claim", "episode", "wait", "ok", "failed", "dead"}]
        /\ \A p \in Monitoring!Processes : mProc'[p] = IF p[1] = c
             /\ p[2] = k THEN "none" ELSE mProc[p]
    BY <1>1, <1>3 DEF Monitoring!Reclaim
  <2>2. /\ mDoing' \in [Monitoring!Processes -> Episodes \cup {None}]
        /\ \A p \in Monitoring!Processes : mDoing'[p] = IF p[1] = c
             /\ p[2] = k THEN None ELSE mDoing[p]
    BY <1>1, <1>3 DEF Monitoring!Reclaim
  <2>3. /\ mClaimed' \in [Monitored \X Monitoring!Executions -> SUBSET Episodes]
        /\ mLocal' \in [Monitored \X Monitoring!Executions -> SUBSET Episodes]
    BY <1>1, <1>2, <1>3 DEF Monitoring!Reclaim
  <2>4. \A d \in Monitored,
        n \in Monitoring!Executions : mLocal'[<<d, n>>] \subseteq mLocal[<<d, n>>]
    <3> SUFFICES ASSUME NEW d \in Monitored, NEW n \in Monitoring!Executions
                 PROVE  mLocal'[<<d, n>>] \subseteq mLocal[<<d, n>>]
      OBVIOUS
    <3>1. <<d, n>> \in Monitored \X Monitoring!Executions
      OBVIOUS
    <3> QED
      BY <1>1, <1>2, <1>3, <3>1 DEF Monitoring!Reclaim
  <2>5. MonitoringAlive' \subseteq MonitoringAlive
        /\ \A role \in Monitoring!Parts : <<c, k, role>> \notin MonitoringAlive'
    BY <1>2, <2>1 DEF MonitoringAlive, Monitoring!Running
  <2>6. \A p \in Monitoring!Processes : mProc'[p] = "episode" => mDoing'[p] \in Episodes
    BY <2>1, <2>2 DEF MonitoringBacked
  <2> QED
    BY <2>1, <2>2, <2>3, <2>4, <2>5, <2>6 DEF MonitoringHostShrinks
<1>4. CASE Monitoring!Killed(c, k)
  <2>1. /\ mProc' \in [Monitoring!Processes -> {"none", "claim", "episode", "wait", "ok", "failed", "dead"}]
        /\ \A p \in Monitoring!Processes :
             mProc'[p] = IF p[1] = c /\ p[2] = k
                 /\ Monitoring!Running(p) THEN "dead" ELSE mProc[p]
    BY <1>1, <1>4 DEF Monitoring!Killed
  <2>2. /\ mDoing' \in [Monitoring!Processes -> Episodes \cup {None}]
        /\ \A p \in Monitoring!Processes : mDoing'[p] = IF p[1] = c
             /\ p[2] = k THEN None ELSE mDoing[p]
    BY <1>1, <1>4 DEF Monitoring!Killed
  <2>3. UNCHANGED <<mClaimed, mLocal>>
    BY <1>4 DEF Monitoring!Killed
  <2>4. MonitoringAlive' \subseteq MonitoringAlive
        /\ \A role \in Monitoring!Parts : <<c, k, role>> \notin MonitoringAlive'
    BY <1>2, <2>1 DEF MonitoringAlive, Monitoring!Running
  <2>5. \A p \in Monitoring!Processes : mProc'[p] = "episode" => mDoing'[p] \in Episodes
    BY <2>1, <2>2 DEF MonitoringBacked, Monitoring!Running
  <2> QED
    BY <1>1, <2>1, <2>2, <2>3, <2>4, <2>5 DEF MonitoringHostShrinks
<1> QED
  BY <1>3, <1>4

(* What a step that saves a row, or fails to, has to show.                 *)
LEMMA MonitoringSaveStep ==
  ASSUME Monitoring!MonitoringAssumption, MonitoringInv, NEW c \in Monitored,
         NEW row \in Monitoring!Row, MonitoringSound(row),
         \/ mState' = [mState EXCEPT ![c] = row] /\ mRows' = [mRows EXCEPT ![c] = row]
         \/ mState' \in {mState, [mState EXCEPT ![c] = row]} /\ mRows' = Monitoring!Forgotten,
         \/ mTurn' = None
         \/ /\ mTurn' = c /\ row.status = "submitting"
            /\ mState' = [mState EXCEPT ![c] = row] /\ mRows' = [mRows EXCEPT ![c] = row],
         mTurn' = None \/ Cardinality(MonitoringAlive) < Monitoring!Limit,
         row.status \in {"verified", "complete"} => c \in mResult,
         UNCHANGED <<mCommitted, mResult, mPublished, mPhase>>,
         mFaults' = mFaults \/ Monitoring!Fault,
         MonitoringHostShrinks, MonitoringNoneOf(c)'
  PROVE  MonitoringInv'
<1> USE DEF MonitoringInv
<1>1. /\ MonitoringCopies' /\ mState' \in [Monitored -> Monitoring!Row]
      /\ mRows' \in [Monitored -> Monitoring!Row \cup {None}]
           /\ mTurn' \in Monitored \cup {None}
      /\ \A d \in Monitored \ {c} : mState'[d] = mState[d]
      /\ mState'[c] = mState[c] \/ mState'[c] = row
  BY MonitoringRowStep
<1>2. Monitoring!TypeOK'
  <2>1. mFaults' \in 0..MonitoringFaults
    BY DEF Monitoring!TypeOK, Monitoring!Fault, Monitoring!MonitoringAssumption
  <2> QED
    BY <1>1, <2>1 DEF Monitoring!TypeOK, MonitoringHostShrinks
<1>3. MonitoringAlone'
  BY <1>1, MonitoringAloneStep DEF MonitoringHostShrinks
<1>4. MonitoringFits'
  BY MonitoringLimitType, MonitoringFewerFit DEF MonitoringHostShrinks, Monitoring!Limit
<1>5. MonitoringBacked'
  <2>1. \A d \in Monitored : mState'[d].status \in {"verified", "complete"} => d \in mResult'
    BY <1>1 DEF MonitoringBacked
  <2> QED
    BY <2>1 DEF MonitoringBacked, MonitoringHostShrinks
<1> QED
  BY <1>1, <1>2, <1>3, <1>4, <1>5

LEMMA MonitoringRows ==
  ASSUME Monitoring!TypeOK, MonitoringCopies, NEW c \in Monitored, Monitoring!Held(c),
         NEW status \in Monitoring!Statuses
  PROVE  /\ mRows[c] \in Monitoring!Row /\ mRows[c] = mState[c]
              /\ Monitoring!Becomes(c, status) \in Monitoring!Row
         /\ Monitoring!Becomes(c, status).status = status
              /\ Monitoring!Becomes(c, status).attempts = mRows[c].attempts
<1>1. mRows[c] = mState[c] /\ mState[c] \in Monitoring!Row
  BY DEF Monitoring!TypeOK, MonitoringCopies
<1> QED
  BY <1>1 DEF Monitoring!Row, Monitoring!Becomes

(* An execution that has ended is collected.                               *)
LEMMA MonitoringCollectStep ==
  ASSUME Monitoring!MonitoringAssumption, MonitoringInv, NEW c \in Monitored,
         Monitoring!Collect(c)
  PROVE  MonitoringInv'
<1> USE DEF MonitoringInv
<1> DEFINE k == mRows[c].attempts
<1> DEFINE collected == IF Monitoring!Poll(c, k) = "succeeded"
   /\ c \in mResult THEN Monitoring!Becomes(c, "verified") ELSE Monitoring!AfterFailure(c)
<1>1. Monitoring!Held(c) /\ mRows[c].status = "running" /\ mTurn = None
  BY DEF Monitoring!Collect, Monitoring!Ended
<1>2. /\ mRows[c] \in Monitoring!Row /\ mRows[c] = mState[c] /\ k \in Monitoring!Executions
      /\ \A row \in {collected, Monitoring!AfterFailure(c)} :
           /\ row \in Monitoring!Row /\ row.attempts = k
           /\ row.status \in {"verified", "pending", "failed"}
           /\ row.status = "verified" => c \in mResult
           /\ row.status = "pending" => k < 2
  <2>1. mRows[c] \in Monitoring!Row /\ mRows[c] = mState[c]
    BY <1>1, MonitoringRows DEF Monitoring!Statuses
  <2>2. k \in Monitoring!Executions
    BY <1>1, <2>1 DEF MonitoringCopies, MonitoringSound, Monitoring!Executions
  <2>3. \A status \in {"verified", "pending", "failed"} :
          /\ Monitoring!Becomes(c, status) \in Monitoring!Row
               /\ Monitoring!Becomes(c, status).status = status
          /\ Monitoring!Becomes(c, status).attempts = k
    BY <1>1, MonitoringRows DEF Monitoring!Statuses, Monitoring!Settled
  <2> HIDE DEF k
  <2>4. Monitoring!AfterFailure(c) = Monitoring!Becomes(c, IF k < 2 THEN "pending" ELSE "failed")
    BY DEF Monitoring!AfterFailure, k
  <2> QED
    BY <2>1, <2>2, <2>3, <2>4
<1>3. PICK row \in {collected, Monitoring!AfterFailure(c)} :
        \/ mState' = [mState EXCEPT ![c] = row] /\ mRows' = [mRows EXCEPT ![c] = row]
        \/ mState' \in {mState, [mState EXCEPT ![c] = row]} /\ mRows' = Monitoring!Forgotten
  BY DEF Monitoring!Collect, Monitoring!Save, Monitoring!Put, Monitoring!SaveFails
<1>4. /\ mTurn' = None /\ UNCHANGED <<mCommitted, mResult, mPublished, mPhase>>
      /\ mFaults' = mFaults \/ Monitoring!Fault
  BY <1>1 DEF Monitoring!Collect, Monitoring!Save, Monitoring!Put, Monitoring!SaveFails
<1>5. Monitoring!Reclaim(c, k) \/ Monitoring!Killed(c, k)
  BY DEF Monitoring!Collect
<1> HIDE DEF k, collected
<1>6. MonitoringHostShrinks
      /\ \A role \in Monitoring!Parts : <<c, k, role>> \notin MonitoringAlive'
  BY <1>2, <1>5, MonitoringFreed
<1>7. MonitoringNoneOf(c)'
  BY <1>2, <1>6 DEF MonitoringNoneOf, MonitoringHostShrinks, MonitoringAlone, k
<1>8. MonitoringSound(row)
  BY <1>2, <1>3 DEF MonitoringSound
<1> QED
  BY <1>2, <1>3, <1>4, <1>6, <1>7, <1>8, MonitoringSaveStep

(* A result reaches the tracking service, or a row is ended by a cancel or *)
(* the deadline.                                                           *)
LEMMA MonitoringEndsStep ==
  ASSUME Monitoring!MonitoringAssumption, MonitoringInv, NEW c \in Monitored,
         Monitoring!Deliver(c) \/ Monitoring!Stop(c) PROVE MonitoringInv'
<1> USE DEF MonitoringInv
<1>1. Monitoring!Held(c) /\ mTurn = None
  BY DEF Monitoring!Deliver, Monitoring!Stop
<1>2. \A status \in {"complete", "canceled", "failed"} :
        /\ Monitoring!Becomes(c, status) \in Monitoring!Row
             /\ Monitoring!Becomes(c, status).status = status
        /\ MonitoringSound(Monitoring!Becomes(c, status))
  BY <1>1, MonitoringRows DEF Monitoring!Statuses, Monitoring!Settled, MonitoringSound
<1>3. mRows[c] = mState[c]
  BY <1>1 DEF MonitoringCopies
<1>4. CASE Monitoring!Deliver(c)
  <2> DEFINE row == Monitoring!Becomes(c, "complete")
  <2>1. \/ mState' = [mState EXCEPT ![c] = row] /\ mRows' = [mRows EXCEPT ![c] = row]
        \/ mState' \in {mState, [mState EXCEPT ![c] = row]} /\ mRows' = Monitoring!Forgotten
    BY <1>4 DEF Monitoring!Deliver, Monitoring!Save, Monitoring!Put, Monitoring!SaveFails
  <2>2. /\ mTurn' = None /\ UNCHANGED <<mCommitted, mResult, mPublished, mPhase>>
        /\ mFaults' = mFaults \/ Monitoring!Fault
    BY <1>1, <1>4 DEF Monitoring!Deliver, Monitoring!Save, Monitoring!Put, Monitoring!SaveFails
  <2>3. mRows[c].status = "verified" /\ UNCHANGED Monitoring!host
    BY <1>4 DEF Monitoring!Deliver
  <2>4. MonitoringNoneOf(c) /\ c \in mResult
    BY <1>3, <2>3, MonitoringNoneLeft DEF MonitoringBacked
  <2>5. MonitoringHostShrinks /\ MonitoringNoneOf(c)'
    BY <2>3, <2>4, MonitoringHostStays DEF MonitoringNoneOf
  <2> HIDE DEF row
  <2>6. row \in Monitoring!Row /\ row.status = "complete" /\ MonitoringSound(row)
    BY <1>2 DEF row
  <2> QED
    BY <2>1, <2>2, <2>4, <2>5, <2>6, MonitoringSaveStep
<1>5. CASE Monitoring!Stop(c)
  <2> DEFINE row == Monitoring!Becomes(c, IF mPhase = "canceled" THEN "canceled" ELSE "failed")
  <2>1. /\ mState' = [mState EXCEPT ![c] = row] /\ mRows' = [mRows EXCEPT ![c] = row]
        /\ mTurn' = None /\ UNCHANGED <<mCommitted, mResult, mPublished, mPhase, mFaults>>
    BY <1>1, <1>5 DEF Monitoring!Stop, Monitoring!Save, Monitoring!Put
  <2>2. row \in Monitoring!Row /\ row.status \in {"canceled", "failed"} /\ MonitoringSound(row)
    BY <1>2
  <2> HIDE DEF row
  <2>3. MonitoringHostShrinks /\ MonitoringNoneOf(c)'
    <3>1. CASE mState[c].status \in {"submitting", "running"}
      <4>1. mState[c].attempts \in Monitoring!Executions
        BY <3>1 DEF MonitoringCopies, MonitoringSound, Monitoring!Executions
      <4>2. Monitoring!Reclaim(c, mState[c].attempts)
        BY <1>3, <1>5, <4>1 DEF Monitoring!Stop, Monitoring!Executions
      <4> HIDE DEF MonitoringInv
      <4>3. MonitoringHostShrinks
            /\ \A role \in Monitoring!Parts : <<c, mState[c].attempts, role>> \notin MonitoringAlive'
        BY <4>1, <4>2, MonitoringFreed DEF MonitoringInv
      <4> QED
        BY <4>3 DEF MonitoringInv, MonitoringNoneOf, MonitoringHostShrinks,
           MonitoringAlone
    <3>2. CASE mState[c].status \notin {"submitting", "running"}
      <4>1. MonitoringNoneOf(c)
        BY <3>2, MonitoringNoneLeft
      <4>2. MonitoringHostShrinks
        <5>1. CASE mRows[c].attempts > 0
          <6>1. mState[c].attempts \in 0..2 /\ mState[c].attempts > 0
            BY <1>3, <5>1 DEF Monitoring!TypeOK, Monitoring!Row
          <6>2. mState[c].attempts \in Monitoring!Executions
            BY <6>1 DEF Monitoring!Executions
          <6>3. Monitoring!Reclaim(c, mState[c].attempts)
            BY <1>3, <1>5, <5>1 DEF Monitoring!Stop
          <6> QED
            BY <6>2, <6>3, MonitoringFreed
        <5>2. CASE ~(mRows[c].attempts > 0)
          BY <1>5, <5>2, MonitoringHostStays DEF Monitoring!Stop
        <5> QED
          BY <5>1, <5>2
      <4> QED
        BY <4>1, <4>2 DEF MonitoringNoneOf, MonitoringHostShrinks
    <3> QED
      BY <3>1, <3>2
  <2> QED
    BY <2>1, <2>2, <2>3, MonitoringSaveStep
<1> QED
  BY <1>4, <1>5

(* A row is chosen for submission when a slot is free.                     *)
LEMMA MonitoringIntendStep ==
  ASSUME Monitoring!MonitoringAssumption, MonitoringInv, NEW c \in Monitored,
         Monitoring!Intend(c)
  PROVE  MonitoringInv'
<1> USE DEF MonitoringInv
<1> DEFINE row == [status |-> "submitting", attempts |-> mRows[c].attempts + 1]
<1>1. Monitoring!Held(c) /\ mTurn = None /\ Monitoring!Slots > 0 /\ UNCHANGED Monitoring!host
      /\ mRows[c] = mState[c]
  BY DEF Monitoring!Intend, Monitoring!Admissible, MonitoringCopies
<1>2. Cardinality(MonitoringAlive) < Monitoring!Limit
  <2>1. Monitoring!Slots = Monitoring!Limit - Cardinality(MonitoringAlive)
    BY MonitoringCounts DEF Monitoring!Slots, MonitoringAlive
  <2>2. Monitoring!Limit \in Nat /\ Cardinality(MonitoringAlive) \in Nat
    BY MonitoringLimitType, FS_CardinalityType DEF MonitoringFits
  <2> QED
    BY <1>1, <2>1, <2>2
<1>3. MonitoringHostShrinks /\ MonitoringAlive' = MonitoringAlive
  BY <1>1, MonitoringHostStays
<1>4. CASE mRows[c].status = "pending"
  <2>1. row \in Monitoring!Row /\ row.status = "submitting" /\ MonitoringSound(row)
    <3>1. mRows[c].attempts \in 0..2 /\ mRows[c].attempts < 2
      BY <1>1, <1>4 DEF Monitoring!TypeOK, Monitoring!Row, MonitoringCopies,
         MonitoringSound
    <3> QED
      BY <3>1 DEF Monitoring!Row, Monitoring!Statuses, MonitoringSound
  <2>2. \/ /\ mState' = [mState EXCEPT ![c] = row] /\ mRows' = [mRows EXCEPT ![c] = row]
                /\ mTurn' = c
           /\ mFaults' = mFaults
        \/ /\ mState' \in {mState, [mState EXCEPT ![c] = row]} /\ mRows' = Monitoring!Forgotten
                /\ mTurn' = None
           /\ Monitoring!Fault
    BY <1>4 DEF Monitoring!Intend, Monitoring!Save, Monitoring!Put, Monitoring!SaveFails
  <2>3. UNCHANGED <<mCommitted, mResult, mPublished, mPhase>>
    BY <1>4 DEF Monitoring!Intend, Monitoring!Save, Monitoring!Put, Monitoring!SaveFails
  <2> HIDE DEF row
  <2>4. MonitoringNoneOf(c)'
    BY <1>1, <1>3, <1>4, MonitoringNoneLeft DEF MonitoringNoneOf
  <2> QED
    BY <1>2, <1>3, <2>1, <2>2, <2>3, <2>4, MonitoringSaveStep
<1>5. CASE mRows[c].status # "pending"
  <2>1. /\ mRows[c].status = "submitting" /\ mTurn' = c
        /\ UNCHANGED <<mState, mCommitted, mResult, mPublished, mRows, mPhase, mFaults>>
    BY <1>5 DEF Monitoring!Intend, Monitoring!Save, Monitoring!Put, Monitoring!SaveFails, Monitoring!store
  <2>2. Monitoring!TypeOK'
    BY <1>3, <2>1 DEF Monitoring!TypeOK, MonitoringHostShrinks
  <2>3. MonitoringCopies' /\ MonitoringAlone'
    BY <1>1, <1>3, <2>1 DEF MonitoringCopies, Monitoring!Held, MonitoringAlone
  <2>4. MonitoringFits'
    BY <1>2, <1>3, <2>1, MonitoringLimitType, MonitoringFewerFit DEF Monitoring!Limit
  <2>5. MonitoringBacked'
    BY <1>3, <2>1 DEF MonitoringBacked, MonitoringHostShrinks
  <2> QED
    BY <2>2, <2>3, <2>4, <2>5
<1> QED
  BY <1>4, <1>5

(* A submission that has failed started nothing.                           *)
LEMMA MonitoringSubmitFailsStep ==
  ASSUME Monitoring!MonitoringAssumption, MonitoringInv, NEW c \in Monitored,
         Monitoring!SubmitFails(c) PROVE MonitoringInv'
<1> USE DEF MonitoringInv
<1> DEFINE row == Monitoring!AfterFailure(c)
<1>1. mTurn = c /\ c # None /\ mTurn' = None /\ Monitoring!Fault /\ UNCHANGED Monitoring!host
  BY DEF Monitoring!SubmitFails, Monitoring!MonitoringAssumption
<1>2. /\ mRows[c] = mState[c] /\ mState[c].status = "submitting" /\ mState[c] \in Monitoring!Row
      /\ mState[c].attempts \in Monitoring!Executions
  BY <1>1 DEF MonitoringCopies, MonitoringSound, Monitoring!Executions, Monitoring!TypeOK
<1>3. row \in Monitoring!Row /\ row.status \in {"pending", "failed"} /\ MonitoringSound(row)
  BY <1>2 DEF Monitoring!AfterFailure, Monitoring!Becomes, Monitoring!Row,
     Monitoring!Statuses, Monitoring!Settled, MonitoringSound
<1>4. \/ mState' = [mState EXCEPT ![c] = row] /\ mRows' = [mRows EXCEPT ![c] = row]
      \/ mState' \in {mState, [mState EXCEPT ![c] = row]} /\ mRows' = Monitoring!Forgotten
  BY DEF Monitoring!SubmitFails
<1>5. UNCHANGED <<mCommitted, mResult, mPublished, mPhase>>
  BY DEF Monitoring!SubmitFails
<1>6. <<c, mState[c].attempts, "main">> \notin MonitoringAlive
  BY <1>2 DEF Monitoring!SubmitFails, MonitoringAlive, Monitoring!Running
<1>7. MonitoringNoneOf(c)
  BY <1>2, <1>6 DEF MonitoringNoneOf, MonitoringAlone, Monitoring!Parts
<1>8. MonitoringHostShrinks /\ MonitoringNoneOf(c)'
  BY <1>1, <1>7, MonitoringHostStays DEF MonitoringNoneOf
<1> HIDE DEF row
<1> QED
  BY <1>1, <1>3, <1>4, <1>5, <1>8, MonitoringSaveStep

(* A submission starts the main worker, where none runs or has run.        *)
LEMMA MonitoringSubmitStep ==
  ASSUME Monitoring!MonitoringAssumption, MonitoringInv, NEW c \in Monitored,
         Monitoring!Submit(c)
  PROVE  MonitoringInv'
<1> USE DEF MonitoringInv
<1> DEFINE k == mRows[c].attempts
<1> DEFINE row == Monitoring!Becomes(c, "running")
<1> DEFINE p == <<c, k, "main">>
<1>1. mTurn = c /\ c # None /\ mTurn' = None /\ UNCHANGED <<mDoing, mClaimed, mLocal>>
  BY DEF Monitoring!Submit, Monitoring!MonitoringAssumption
<1>2. /\ mRows[c] = mState[c] /\ mState[c].status = "submitting" /\ mState[c] \in Monitoring!Row
      /\ k \in Monitoring!Executions
  BY <1>1 DEF MonitoringCopies, MonitoringSound, Monitoring!Executions, Monitoring!TypeOK
<1>3. row \in Monitoring!Row /\ row.status = "running" /\ row.attempts = k
      /\ MonitoringSound(row)
  BY <1>2 DEF Monitoring!Becomes, Monitoring!Row, Monitoring!Statuses, MonitoringSound,
     Monitoring!Executions
<1>4. /\ \/ mState' = [mState EXCEPT ![c] = row] /\ mRows' = [mRows EXCEPT ![c] = row]
         \/ mState' \in {mState, [mState EXCEPT ![c] = row]} /\ mRows' = Monitoring!Forgotten
      /\ UNCHANGED <<mCommitted, mResult, mPublished, mPhase>>
      /\ mFaults' = mFaults \/ Monitoring!Fault
  BY DEF Monitoring!Submit, Monitoring!Save, Monitoring!Put, Monitoring!SaveFails
<1>5. mProc' = mProc \/ mProc' = [mProc EXCEPT ![p] = "claim"]
  BY DEF Monitoring!Submit
<1> HIDE DEF k, row
<1>6. /\ MonitoringCopies' /\ mState' \in [Monitored -> Monitoring!Row]
      /\ mRows' \in [Monitored -> Monitoring!Row \cup {None}]
           /\ mTurn' \in Monitored \cup {None}
      /\ \A d \in Monitored \ {c} : mState'[d] = mState[d]
      /\ mState'[c] = mState[c] \/ mState'[c] = row
  BY <1>1, <1>3, <1>4, MonitoringRowStep
<1>7. p \in Monitoring!Processes
  BY <1>2 DEF Monitoring!Processes, Monitoring!Parts
<1> HIDE DEF p
<1>8. /\ mProc' \in [Monitoring!Processes -> {"none", "claim", "episode", "wait", "ok", "failed", "dead"}]
      /\ \A q \in Monitoring!Processes : q # p => mProc'[q] = mProc[q]
      /\ mProc'[p] \in {mProc[p], "claim"}
      /\ MonitoringAlive' \subseteq MonitoringAlive \cup {p}
  <2>1. mProc \in [Monitoring!Processes -> {"none", "claim", "episode", "wait", "ok", "failed", "dead"}]
    BY DEF Monitoring!TypeOK
  <2>2. /\ mProc' \in [Monitoring!Processes -> {"none", "claim", "episode", "wait", "ok", "failed", "dead"}]
        /\ \A q \in Monitoring!Processes : q # p => mProc'[q] = mProc[q]
        /\ mProc'[p] \in {mProc[p], "claim"}
    BY <1>5, <1>7, <2>1
  <2> QED
    BY <2>2 DEF MonitoringAlive, Monitoring!Running
<1>9. Monitoring!TypeOK'
  <2>1. mFaults' \in 0..MonitoringFaults
    BY <1>4 DEF Monitoring!TypeOK, Monitoring!Fault, Monitoring!MonitoringAssumption
  <2> QED
    BY <1>1, <1>4, <1>6, <1>8, <2>1 DEF Monitoring!TypeOK
<1>10. MonitoringAlone'
  <2> SUFFICES ASSUME NEW d \in Monitored, NEW n \in Monitoring!Executions,
                      NEW role \in Monitoring!Parts,
                      <<d, n, role>> \in MonitoringAlive'
               PROVE  /\ mState'[d].attempts = n
                           /\ mState'[d].status \in {"submitting", "running"}
                      /\ role = "helper" => mState'[d].status = "running"
    BY DEF MonitoringAlone
  <2>1. CASE <<d, n, role>> = p
    <3>1. d = c /\ n = k /\ role = "main"
      BY <2>1 DEF p
    <3> QED
      BY <1>2, <1>3, <1>6, <3>1 DEF k
  <2>2. CASE <<d, n, role>> \in MonitoringAlive
    <3>1. /\ mState[d].attempts = n /\ mState[d].status \in {"submitting", "running"}
          /\ role = "helper" => mState[d].status = "running"
      BY <2>2 DEF MonitoringAlone
    <3> QED
      BY <1>2, <1>3, <1>6, <3>1 DEF k
  <2> QED
    BY <1>8, <2>1, <2>2
<1>11. MonitoringFits'
  <2>1. Cardinality(MonitoringAlive) < Monitoring!Limit /\ IsFiniteSet(MonitoringAlive)
        /\ Monitoring!Limit' = Monitoring!Limit
    BY <1>1, <1>4 DEF MonitoringFits, Monitoring!Limit
  <2>2. IsFiniteSet(MonitoringAlive \cup {p}) /\ Cardinality(MonitoringAlive \cup {p}) \in Nat
        /\ Cardinality(MonitoringAlive \cup {p}) <= Cardinality(MonitoringAlive) + 1
             /\ Cardinality(MonitoringAlive) \in Nat
    BY <2>1, OneMore
  <2>3. IsFiniteSet(MonitoringAlive')
        /\ Cardinality(MonitoringAlive') <= Cardinality(MonitoringAlive \cup {p})
        /\ Cardinality(MonitoringAlive') \in Nat
    BY <1>8, <2>2, FS_Subset, FS_CardinalityType
  <2>4. Monitoring!Limit \in Nat
    BY MonitoringLimitType
  <2> QED
    BY <1>1, <2>1, <2>2, <2>3, <2>4 DEF MonitoringFits
<1>12. MonitoringBacked'
  <2>1. \A d \in Monitored : mState'[d].status \in {"verified", "complete"} => d \in mResult'
    BY <1>3, <1>4, <1>6 DEF MonitoringBacked
  <2>2. \A q \in Monitoring!Processes : mProc'[q] = "episode" => mDoing'[q] \in Episodes
    BY <1>1, <1>7, <1>8 DEF MonitoringBacked
  <2> QED
    BY <1>1, <1>4, <2>1, <2>2 DEF MonitoringBacked
<1> QED
  BY <1>6, <1>9, <1>10, <1>11, <1>12

(* A helper takes a free slot during the final drain.                      *)
LEMMA MonitoringExpandStep ==
  ASSUME Monitoring!MonitoringAssumption, MonitoringInv, NEW c \in Monitored,
         NEW k \in Monitoring!Executions, Monitoring!Expand(c, k)
  PROVE  MonitoringInv'
<1> USE DEF MonitoringInv
<1> DEFINE p == <<c, k, "helper">>
<1>1. /\ mTurn = None /\ Monitoring!Held(c) /\ mRows[c].status = "running"
           /\ k = mRows[c].attempts /\ Monitoring!Slots > 0
      /\ mProc' = [mProc EXCEPT ![p] = "claim"]
      /\ UNCHANGED <<mState, mCommitted, mResult, mPublished, mRows, mTurn, mPhase, mDoing, mClaimed, mLocal, mFaults>>
  BY DEF Monitoring!Expand, Monitoring!Expandable, Monitoring!store
<1>2. p \in Monitoring!Processes /\ mRows[c] = mState[c]
  BY <1>1 DEF Monitoring!Processes, Monitoring!Parts, MonitoringCopies
<1>3. /\ mProc' \in [Monitoring!Processes -> {"none", "claim", "episode", "wait", "ok", "failed", "dead"}]
      /\ \A q \in Monitoring!Processes : mProc'[q] = IF q = p THEN "claim" ELSE mProc[q]
  BY <1>1, <1>2 DEF Monitoring!TypeOK
<1>4. MonitoringAlive' \subseteq MonitoringAlive \cup {p}
  BY <1>3 DEF MonitoringAlive, Monitoring!Running
<1>5. Monitoring!TypeOK'
  BY <1>1, <1>3 DEF Monitoring!TypeOK
<1>6. MonitoringCopies'
  BY <1>1 DEF MonitoringCopies, Monitoring!Held
<1>7. MonitoringAlone'
  <2> SUFFICES ASSUME NEW d \in Monitored, NEW n \in Monitoring!Executions,
                      NEW role \in Monitoring!Parts,
                      <<d, n, role>> \in MonitoringAlive'
               PROVE  /\ mState[d].attempts = n
                           /\ mState[d].status \in {"submitting", "running"}
                      /\ role = "helper" => mState[d].status = "running"
    BY <1>1 DEF MonitoringAlone
  <2>1. CASE <<d, n, role>> = p
    BY <1>1, <1>2, <2>1
  <2>2. CASE <<d, n, role>> \in MonitoringAlive
    BY <2>2 DEF MonitoringAlone
  <2> QED
    BY <1>4, <2>1, <2>2
<1>8. MonitoringFits'
  <2>1. Cardinality(MonitoringAlive) < Monitoring!Limit /\ IsFiniteSet(MonitoringAlive)
        /\ Monitoring!Limit \in Nat /\ Monitoring!Limit' = Monitoring!Limit
    <3>1. Monitoring!Slots = Monitoring!Limit - Cardinality(MonitoringAlive)
      BY MonitoringCounts DEF Monitoring!Slots, MonitoringAlive
    <3>2. Monitoring!Limit \in Nat /\ Cardinality(MonitoringAlive) \in Nat
      BY MonitoringLimitType, FS_CardinalityType DEF MonitoringFits
    <3> QED
      BY <1>1, <3>1, <3>2 DEF MonitoringFits, Monitoring!Limit
  <2> HIDE DEF p
  <2>2. IsFiniteSet(MonitoringAlive \cup {p}) /\ Cardinality(MonitoringAlive \cup {p}) \in Nat
        /\ Cardinality(MonitoringAlive \cup {p}) <= Cardinality(MonitoringAlive) + 1
             /\ Cardinality(MonitoringAlive) \in Nat
    BY <2>1, OneMore
  <2>3. IsFiniteSet(MonitoringAlive')
        /\ Cardinality(MonitoringAlive') <= Cardinality(MonitoringAlive \cup {p})
        /\ Cardinality(MonitoringAlive') \in Nat
    BY <1>4, <2>2, FS_Subset, FS_CardinalityType
  <2> QED
    BY <1>1, <2>1, <2>2, <2>3 DEF MonitoringFits
<1>9. MonitoringBacked'
  BY <1>1, <1>3 DEF MonitoringBacked
<1> QED
  BY <1>5, <1>6, <1>7, <1>8, <1>9

(* The supervisor dies, and the next one finds an empty host.              *)
LEMMA MonitoringRestartStep ==
  ASSUME Monitoring!MonitoringAssumption, MonitoringInv, Monitoring!Restart
  PROVE  MonitoringInv'
<1> USE DEF MonitoringInv
<1>1. /\ mRows' = Monitoring!Forgotten /\ mTurn' = None /\ mProc' = Monitoring!Idle
           /\ mDoing' = Monitoring!NoEpisode /\ mClaimed' = Monitoring!Empty
      /\ mLocal' = Monitoring!Empty /\ UNCHANGED <<mState, mCommitted, mResult, mPublished>>
      /\ mFaults < MonitoringFaults /\ mFaults' = mFaults + 1
      /\ mPhase' = IF mPhase = "final" THEN "active" ELSE mPhase
  BY DEF Monitoring!Restart, Monitoring!Fault, Monitoring!store
<1>2. MonitoringAlive' = {}
  BY <1>1 DEF MonitoringAlive, Monitoring!Running, Monitoring!Idle
<1>3. Monitoring!TypeOK'
  <2>1. mRows' \in [Monitored -> Monitoring!Row \cup {None}]
    BY <1>1 DEF Monitoring!Forgotten
  <2>2. mProc' \in [Monitoring!Processes -> {"none", "claim", "episode", "wait", "ok", "failed", "dead"}]
        /\ mDoing' \in [Monitoring!Processes -> Episodes \cup {None}]
    BY <1>1 DEF Monitoring!Idle, Monitoring!NoEpisode
  <2>3. mClaimed' \in [Monitored \X Monitoring!Executions -> SUBSET Episodes]
        /\ mLocal' \in [Monitored \X Monitoring!Executions -> SUBSET Episodes]
    BY <1>1 DEF Monitoring!Empty
  <2>4. mPhase' \in {"active", "final", "canceled", "expired"}
        /\ mFaults' \in 0..MonitoringFaults
    BY <1>1 DEF Monitoring!TypeOK, Monitoring!MonitoringAssumption
  <2> QED
    BY <1>1, <2>1, <2>2, <2>3, <2>4 DEF Monitoring!TypeOK
<1>4. MonitoringCopies'
  BY <1>1 DEF MonitoringCopies, Monitoring!Held, Monitoring!Forgotten
<1>5. MonitoringAlone'
  BY <1>2 DEF MonitoringAlone
<1>6. MonitoringFits'
  <2>1. IsFiniteSet(MonitoringAlive') /\ Cardinality(MonitoringAlive') = 0
    BY <1>2, FS_EmptySet
  <2>2. Monitoring!Limit' \in Nat
    BY DEF Monitoring!Limit, Monitoring!MonitoringAssumption
  <2> QED
    BY <1>1, <2>1, <2>2 DEF MonitoringFits
<1>7. MonitoringBacked'
  BY <1>1 DEF MonitoringBacked, Monitoring!Empty, Monitoring!Idle
<1> QED
  BY <1>3, <1>4, <1>5, <1>6, <1>7

(* A Checkpoint is published, a row is read, another phase begins.         *)
LEMMA MonitoringQuietStep ==
  ASSUME Monitoring!MonitoringAssumption, MonitoringInv,
         \/ \E c \in Monitored : Monitoring!Publish(c) \/ Monitoring!Read(c)
         \/ \E next \in {"final", "canceled", "expired"} : Monitoring!Enter(next)
         \/ UNCHANGED Monitoring!vars
  PROVE  MonitoringInv'
<1> USE DEF MonitoringInv
<1>1. UNCHANGED <<mState, mCommitted, mResult, mTurn, mProc, mDoing, mClaimed, mLocal, mFaults>>
  BY DEF Monitoring!Publish, Monitoring!Read, Monitoring!Enter, Monitoring!vars,
     Monitoring!store, Monitoring!host
<1>2. /\ mPublished' \in SUBSET Monitored
      /\ mRows' = mRows \/ \E c \in Monitored : mRows' = [mRows EXCEPT ![c] = mState[c]]
      /\ mPhase' = mPhase \/ (mTurn = None /\ mPhase' \in {"final", "canceled", "expired"})
  <2>1. ASSUME NEW c \in Monitored, Monitoring!Publish(c) \/ Monitoring!Read(c) PROVE <1>2!:
    BY <2>1 DEF Monitoring!Publish, Monitoring!Read, Monitoring!TypeOK
  <2>2. ASSUME NEW next \in {"final", "canceled", "expired"},
               Monitoring!Enter(next) PROVE <1>2!:
    BY <2>2 DEF Monitoring!Enter, Monitoring!TypeOK
  <2>3. ASSUME UNCHANGED Monitoring!vars PROVE <1>2!:
    BY <2>3 DEF Monitoring!vars, Monitoring!TypeOK
  <2> QED
    BY <2>1, <2>2, <2>3
<1>3. /\ mRows' \in [Monitored -> Monitoring!Row \cup {None}]
      /\ \A d \in Monitored : mRows'[d] = mRows[d] \/ mRows'[d] = mState[d]
  BY <1>2 DEF Monitoring!TypeOK
<1>4. Monitoring!TypeOK'
  BY <1>1, <1>2, <1>3 DEF Monitoring!TypeOK
<1>5. MonitoringCopies'
  BY <1>1, <1>2, <1>3 DEF MonitoringCopies, Monitoring!Held, Monitoring!TypeOK
<1>6. MonitoringAlive' = MonitoringAlive
  BY <1>1 DEF MonitoringAlive, Monitoring!Running
<1>7. MonitoringAlone' /\ MonitoringBacked'
  BY <1>1, <1>6 DEF MonitoringAlone, MonitoringBacked
<1>8. MonitoringFits'
  <2>1. Monitoring!Limit' \in Nat /\ Monitoring!Limit <= Monitoring!Limit'
    BY <1>2 DEF Monitoring!Limit, Monitoring!MonitoringAssumption
  <2> QED
    BY <1>1, <1>2, <1>6, <2>1, MonitoringFewerFit DEF MonitoringFits, Monitoring!Limit
<1> QED
  BY <1>4, <1>5, <1>7, <1>8

(* The invariant holds in every state.                                     *)
LEMMA MonitoringInductive ==
  ASSUME Monitoring!MonitoringAssumption
  PROVE  Monitoring!Spec => []MonitoringInv
<1>1. Monitoring!Init => MonitoringInv
  BY MonitoringInit
<1>2. MonitoringInv /\ [Monitoring!Next]_Monitoring!vars => MonitoringInv'
  <2> SUFFICES ASSUME MonitoringInv, [Monitoring!Next]_Monitoring!vars PROVE MonitoringInv'
    OBVIOUS
  <2>1. CASE UNCHANGED Monitoring!vars
    BY <2>1, MonitoringQuietStep
  <2>2. CASE Monitoring!Next
    <3>1. \/ \E c \in Monitored : Monitoring!Publish(c) \/ Monitoring!Read(c)
          \/ \E next \in {"final", "canceled", "expired"} : Monitoring!Enter(next)
          \/ \E c \in Monitored :
               \/ Monitoring!Collect(c) \/ Monitoring!Deliver(c) \/ Monitoring!Intend(c)
                    \/ Monitoring!Submit(c) \/ Monitoring!SubmitFails(c) \/ Monitoring!Stop(c)
          \/ \E c \in Monitored, k \in Monitoring!Executions : Monitoring!Finalize(c, k)
               \/ Monitoring!Expand(c, k)
          \/ \E c \in Monitored, k \in Monitoring!Executions,
               role \in Monitoring!Parts : Monitoring!Worker(c, k, role)
          \/ \E p \in Monitoring!Processes : Monitoring!WorkerFails(p)
          \/ Monitoring!Restart
      BY <2>2 DEF Monitoring!Next, Monitoring!Advance
    <3> QED
      BY <3>1, MonitoringQuietStep, MonitoringCollectStep, MonitoringEndsStep,
         MonitoringIntendStep, MonitoringSubmitStep, MonitoringSubmitFailsStep,
         MonitoringWorkerStep,
         MonitoringExpandStep, MonitoringRestartStep
  <2> QED
    BY <2>1, <2>2
<1> QED
  BY <1>1, <1>2, PTL DEF Monitoring!Spec

(* Worker processes stay within the CPUs and a Checkpoint has one          *)
(* execution at a time; verdicts rest on what is stored.                   *)
THEOREM MonitoringIsSafe ==
  ASSUME Monitoring!MonitoringAssumption PROVE Monitoring!Spec => [](Monitoring!TypeOK
         /\ Monitoring!WorkersAreBounded /\ Monitoring!VerdictsAreDurable)
<1>1. MonitoringInv => Monitoring!TypeOK /\ Monitoring!VerdictsAreDurable
  BY DEF MonitoringInv, MonitoringBacked, Monitoring!VerdictsAreDurable
<1>2. MonitoringInv => Monitoring!WorkersAreBounded
  <2> SUFFICES ASSUME MonitoringInv PROVE Monitoring!WorkersAreBounded
    OBVIOUS
  <2> USE DEF MonitoringInv
  <2>1. Cardinality(MonitoringAlive) <= Cpus
    <3>1. Monitoring!Limit \in Nat /\ Monitoring!Limit <= Cpus /\ Cpus \in Nat
      BY MonitoringLimitType DEF Monitoring!MonitoringAssumption
    <3>2. Cardinality(MonitoringAlive) \in Nat
          /\ Cardinality(MonitoringAlive) <= Monitoring!Limit
      BY FS_CardinalityType DEF MonitoringFits
    <3> QED
      BY <3>1, <3>2
  <2>2. ASSUME NEW p \in Monitoring!Processes, NEW q \in Monitoring!Processes,
               Monitoring!Running(p), Monitoring!Running(q), p[1] = q[1]
        PROVE  p[2] = q[2]
    <3>1. p \in MonitoringAlive /\ q \in MonitoringAlive
      BY <2>2 DEF MonitoringAlive
    <3>2. \A x \in MonitoringAlive : x[1] \in Monitored /\ mState[x[1]].attempts = x[2]
      <4> SUFFICES ASSUME NEW x \in MonitoringAlive PROVE x[1] \in Monitored
                          /\ mState[x[1]].attempts = x[2]
        OBVIOUS
      <4>1. x[1] \in Monitored /\ x[2] \in Monitoring!Executions /\ x[3] \in Monitoring!Parts
            /\ x = <<x[1], x[2], x[3]>>
        BY DEF MonitoringAlive, Monitoring!Processes
      <4> QED
        BY <4>1 DEF MonitoringAlone
    <3> QED
      BY <2>2, <3>1, <3>2
  <2> QED
    BY <2>1, <2>2, MonitoringCounts DEF Monitoring!WorkersAreBounded, MonitoringAlive
<1> QED
  BY <1>1, <1>2, MonitoringInductive, PTL

-----------------------------------------------------------------------------
(* ReleasePublication.                                                     *)

(* The phases after the video was read as processed, and after the tag.    *)
ReleaseVerified == {"youtube_verified", "youtube_complete", "release_built",
  "huggingface_committed", "huggingface_tagged", "huggingface_verified",
  "containers_complete", "succeeded"}
ReleaseTagged == {"huggingface_tagged", "huggingface_verified", "containers_complete", "succeeded"}

(* What a phase says of YouTube (p: processed, f: final) and of the        *)
(* repository (m: main, t: tag).                                           *)
ReleaseSoundIn(copy, p, f, m, t) ==
  /\ copy \in Release!States
  /\ copy.phase \in {"admitted", "validated"} => copy.session = None
  /\ copy.phase \notin {"admitted", "validated", "canceled"}
       => copy.session \in Release!Sessions
  /\ copy.phase \in ReleaseVerified => copy.video \in p
  /\ copy.phase = "huggingface_committed" => copy.commit \in 1..Len(m)
  /\ copy.phase \in ReleaseTagged => t \in 1..Len(m)
  /\ copy.phase \in ReleaseTagged \ {"huggingface_tagged"} => m[t] \in Release!Valid
  /\ copy.phase = "succeeded" => m[t] \in Release!Exact
  /\ copy.phase \in {"containers_complete", "succeeded"} => f # {}

ReleaseSound(copy) == ReleaseSoundIn(copy, rProcessed, rFinal, rMain, rTag)

ReleaseCopies ==
  /\ ReleaseSound(rMem)
  /\ rSaved # None => ReleaseSound(rSaved)
  /\ rOp.kind = "resolve" => ReleaseSound(rOp.state) /\ rOp.state.session \in Release!Sessions

(* Where the handler is, and in which phase.                               *)
ReleasePlaced ==
  /\ rPc \in {"commit", "ask"} => rMem.phase = "release_built"
  /\ rPc \in {"upload", "sent"} => rMem.phase \in {"youtube_session", "youtube_uncertain"}
  /\ rPc = "upload" => ~Release!Video(rMem.session)

(* All copies have the same upload session; only a session that was just   *)
(* started is not saved yet.                                               *)
ReleaseLinked ==
  /\ rPc # "off" /\ rSaved # None =>
       rSaved.session = rMem.session \/ (rPc = "save" /\ rSaved.session = None)
  /\ rOp.kind = "resolve" => rSaved # None /\ rSaved.session = rOp.state.session
  /\ rOp.kind = "work" => ~rSnapshot
  /\ rSaved = None /\ rSnapshot => rPc \in {"off", "save"} /\ rMem.session = None

(* Bytes are only ever sent in the session that every copy has.            *)
ReleaseUploading ==
  /\ \A s \in Release!Sessions : rSent[s] # 0 =>
       /\ rSaved = None => ~rSnapshot
       /\ rSaved # None => rSaved.session = s
       /\ rPc # "off" => rMem.session = s
  /\ \A r, s \in Release!Sessions : rSent[r] # 0 /\ rSent[s] # 0 => r = s

(* A session that nobody has was lost by a fault.                          *)
ReleaseStarted ==
  /\ rStarted <= rFaults + 1
  /\ rSnapshot /\ (rSaved = None \/ rSaved.session = None)
              /\ (rPc = "off" \/ rMem.session = None) => rStarted <= rFaults

(* The commit is added to a history that does not have it.                 *)
ReleaseHistory ==
  /\ rMain \in Seq(Release!Commits) /\ rParent \in 0..Len(rMain)
  /\ \A i \in 1..Len(rMain) : rMain[i] = "init" => i = 1
  /\ \A i \in 1..Len(rMain) : rMain[i] = "ours" => i > rParent
  /\ rPc = "commit" => \A i \in 1..rHead : rMain[i] # "ours"
  /\ rTag # None => rTag \in 1..Len(rMain)

(* The inductive invariant.                                                *)
ReleaseInv ==
  /\ Release!TypeOK /\ ReleaseCopies /\ ReleasePlaced /\ ReleaseLinked /\ ReleaseUploading
       /\ ReleaseStarted /\ ReleaseHistory
  /\ Release!PublishedOnce /\ Release!PublicIsComplete

(* What is uploaded, processed, public or committed stays so.              *)
ReleaseGrows ==
  /\ rProcessed \subseteq rProcessed' /\ rFinal \subseteq rFinal'
  /\ rMain' \in Seq(Release!Commits) /\ Len(rMain) <= Len(rMain')
  /\ \A i \in 1..Len(rMain) : rMain'[i] = rMain[i]
  /\ rTag # None => rTag' = rTag

(* A step of the handler that begins no session: the state is learned,     *)
(* learned and saved, saved at a stop, or forgotten.                       *)
ReleaseCarried(copy) ==
  ReleaseSoundIn(copy, rProcessed', rFinal', rMain', rTag') /\ copy.session = rMem.session

ReleaseHandlerMoves ==
  /\ rPc # "off" /\ UNCHANGED <<rStarted, rSnapshot, rOp>>
  /\ \A s \in Release!Sessions : rSent'[s] = rSent[s] \/ (rPc = "upload" /\ s = rMem.session)
  /\ rFaults' \in Nat /\ rFaults <= rFaults'
  /\ \/ rPc' # "off" /\ ReleaseCarried(rMem') /\ rSaved' = rMem'
     \/ rPc' # "off" /\ ReleaseCarried(rMem') /\ rSaved' = rSaved /\ rPc # "save"
     \/ Release!Off /\ ReleaseCarried(rSaved')
     \/ Release!Off /\ rSaved' = rSaved /\ (rPc = "save" => rFaults' = rFaults + 1)

(* A step of the handler that changes nothing elsewhere.                   *)
ReleaseLocalStep ==
  /\ ReleaseHandlerMoves
  /\ UNCHANGED <<rCancel, rCalls>>
  /\ UNCHANGED <<rSent, rExpired, rProcessed, rFinal, rParent, rMain, rTag, rPlaces>>
  /\ rFaults' \in 0..ReleaseFaults
  /\ rJob' \in Release!Ended \cup {"queued", "running", "retry_wait"}
  /\ rJob' = "succeeded" =>
       rJob = "succeeded" \/ (rFinal # {} /\ rMain[rTag] \in Release!Exact)
  /\ rPc' \in {"off", "save", "check", "go", "upload", "sent", "commit", "ask"}
  /\ rHead' \in 0..Len(rMain)
  /\ ReleasePlaced'
  /\ rPc' = "commit" => \A i \in 1..rHead' : rMain[i] # "ours"

-----------------------------------------------------------------------------
(* What a copy says stays so while only things are added.                  *)
LEMMA ReleaseSoundStays ==
  ASSUME Release!PublicationAssumption, NEW copy, NEW p, NEW f, NEW m \in Seq(Release!Commits),
         NEW t,
         NEW q, NEW g, NEW n \in Seq(Release!Commits), NEW u,
         ReleaseSoundIn(copy, p, f, m, t), p \subseteq q, f \subseteq g, Len(m) <= Len(n),
         \A i \in 1..Len(m) : n[i] = m[i], t # None => u = t
  PROVE  ReleaseSoundIn(copy, q, g, n, u)
<1>1. copy.phase \in ReleaseTagged => t \in 1..Len(m) /\ u = t
  BY DEF ReleaseSoundIn, Release!PublicationAssumption
<1> QED
  BY <1>1 DEF ReleaseSoundIn, ReleaseTagged

(* A state that knows nothing says nothing.                                *)
LEMMA ReleaseFreshIsSound ==
  ASSUME NEW p, NEW f, NEW m, NEW t
  PROVE  ReleaseSoundIn(Release!Fresh, p, f, m, t)
BY DEF ReleaseSoundIn, Release!Fresh, Release!States, Release!Phases, ReleaseVerified,
   ReleaseTagged

(* A bound that only rises.                                                *)
LEMMA ReleaseWithin ==
  ASSUME NEW a \in Nat, NEW b \in Nat, NEW c \in Nat, b <= c, a <= b + 1
  PROVE  a <= c + 1
OBVIOUS

(* The copies of the state over a step of the handler.                     *)
LEMMA ReleaseHandlerKeeps ==
  ASSUME Release!PublicationAssumption, ReleaseInv, ReleaseGrows, ReleaseHandlerMoves
  PROVE  ReleaseCopies' /\ ReleaseLinked' /\ ReleaseUploading' /\ ReleaseStarted'
<1> USE DEF ReleaseInv
<1>1. rSaved # None => ReleaseSoundIn(rSaved, rProcessed', rFinal', rMain', rTag')
  BY ReleaseSoundStays DEF ReleaseCopies, ReleaseSound, ReleaseGrows, ReleaseHistory
<1>2. rOp.kind = "resolve" => ReleaseSoundIn(rOp.state, rProcessed', rFinal', rMain', rTag')
  BY ReleaseSoundStays DEF ReleaseCopies, ReleaseSound, ReleaseGrows, ReleaseHistory
<1>3. ReleaseSoundIn(Release!Fresh, rProcessed', rFinal', rMain', rTag')
      /\ Release!Fresh.session = None
  BY ReleaseFreshIsSound DEF Release!Fresh
<1>4. \A copy : ReleaseSoundIn(copy, rProcessed', rFinal', rMain', rTag') => copy # None
  BY DEF ReleaseSoundIn, Release!PublicationAssumption
<1>5. None \notin Release!Sessions
  BY DEF Release!Sessions, Release!PublicationAssumption
<1>6. rStarted \in Nat /\ rFaults \in Nat /\ rFaults' \in Nat
  BY DEF Release!TypeOK, ReleaseHandlerMoves, Release!PublicationAssumption
<1>7. ReleaseCopies'
  BY <1>1, <1>2, <1>3 DEF ReleaseCopies, ReleaseSound, ReleaseHandlerMoves,
     ReleaseCarried, Release!Off
<1>8. ReleaseLinked'
  BY <1>3, <1>4, <1>5 DEF ReleaseLinked, ReleaseHandlerMoves, ReleaseCarried,
     Release!Off, ReleaseCopies
<1>9. ReleaseUploading'
  <2>1. ASSUME NEW s \in Release!Sessions, rSent'[s] # 0
        PROVE  /\ rSaved = None => ~rSnapshot
               /\ rSaved # None => rSaved.session = s
               /\ rMem.session = s
    BY <2>1 DEF ReleaseUploading, ReleaseHandlerMoves, ReleaseLinked
  <2>2. ASSUME NEW s \in Release!Sessions, rSent'[s] # 0
        PROVE  /\ rSaved' = None => ~rSnapshot'
               /\ rSaved' # None => rSaved'.session = s
               /\ rPc' # "off" => rMem'.session = s
    BY <1>4, <2>1, <2>2 DEF ReleaseHandlerMoves, ReleaseCarried, Release!Off
  <2> QED
    BY <2>1, <2>2 DEF ReleaseUploading
<1>10. ReleaseStarted'
  <2>1. rStarted \in Nat /\ rStarted' = rStarted /\ rFaults <= rFaults'
    BY <1>6 DEF ReleaseHandlerMoves
  <2>2. rStarted <= rFaults + 1
    BY DEF ReleaseStarted
  <2>3. ASSUME rSnapshot', rSaved' = None \/ rSaved'.session = None,
               rPc' = "off" \/ rMem'.session = None
        PROVE  rStarted <= rFaults \/ rFaults' = rFaults + 1
    <3>1. SUFFICES ASSUME ~(rPc = "save" /\ rFaults' = rFaults + 1)
                   PROVE  /\ rSnapshot /\ (rSaved = None \/ rSaved.session = None)
                          /\ rMem.session = None
      BY DEF ReleaseStarted
    <3>2. CASE rPc' # "off" /\ ReleaseCarried(rMem') /\ rSaved' = rMem'
      BY <1>4, <2>3, <3>2 DEF ReleaseHandlerMoves, ReleaseCarried, ReleaseLinked
    <3>3. CASE rPc' # "off" /\ ReleaseCarried(rMem') /\ rSaved' = rSaved /\ rPc # "save"
      BY <2>3, <3>3 DEF ReleaseHandlerMoves, ReleaseCarried, ReleaseLinked
    <3>4. CASE Release!Off /\ ReleaseCarried(rSaved')
      BY <1>4, <2>3, <3>4 DEF ReleaseHandlerMoves, ReleaseCarried, ReleaseLinked,
         Release!Off
    <3>5. CASE Release!Off /\ rSaved' = rSaved /\ (rPc = "save" => rFaults' = rFaults + 1)
      BY <2>3, <3>1, <3>5 DEF ReleaseHandlerMoves, ReleaseLinked, Release!Off
    <3> QED
      BY <3>2, <3>3, <3>4, <3>5 DEF ReleaseHandlerMoves
  <2>4. rStarted' <= rFaults' + 1
    BY <1>6, <2>1, <2>2, ReleaseWithin
  <2>5. ASSUME rSnapshot', rSaved' = None \/ rSaved'.session = None,
               rPc' = "off" \/ rMem'.session = None
        PROVE  rStarted' <= rFaults'
    <3>1. rStarted <= rFaults \/ rFaults' = rFaults + 1
      BY <2>3, <2>5
    <3> QED
      BY <1>6, <2>1, <2>2, <3>1
  <2> QED
    BY <2>4, <2>5 DEF ReleaseStarted
<1> QED
  BY <1>7, <1>8, <1>9, <1>10

(* Such a step keeps the invariant.                                        *)
LEMMA ReleaseLocalKeeps ==
  ASSUME Release!PublicationAssumption, ReleaseInv, ReleaseLocalStep
  PROVE  ReleaseInv'
<1> USE DEF ReleaseInv
<1>1. ReleaseGrows
  BY DEF ReleaseGrows, ReleaseLocalStep, ReleaseHistory
<1>2. ReleaseHandlerMoves
  BY DEF ReleaseLocalStep
<1>3. ReleaseCopies' /\ ReleaseLinked' /\ ReleaseUploading' /\ ReleaseStarted'
  BY <1>1, <1>2, ReleaseHandlerKeeps
<1>4. ReleasePlaced'
  BY DEF ReleaseLocalStep
<1>5. rMem' \in Release!States /\ rSaved' \in Release!States \cup {None}
  BY <1>3 DEF ReleaseCopies, ReleaseSound, ReleaseSoundIn
<1>6. Release!TypeOK'
  BY <1>2, <1>5 DEF Release!TypeOK, ReleaseLocalStep, ReleaseHandlerMoves
<1>7. ReleaseHistory'
  BY DEF ReleaseHistory, ReleaseLocalStep
<1>8. Release!PublishedOnce'
  BY <1>2 DEF Release!PublishedOnce, ReleaseLocalStep, ReleaseHandlerMoves, Release!Video
<1>9. Release!PublicIsComplete'
  BY DEF Release!PublicIsComplete, ReleaseLocalStep, Release!Listed
<1> QED
  BY <1>3, <1>4, <1>6, <1>7, <1>8, <1>9

(* The steps of the handler that change nothing elsewhere.                 *)
LEMMA ReleaseLocalSteps ==
  ASSUME Release!PublicationAssumption, ReleaseInv,
         \/ Release!RequestFails \/ Release!FilesAreGone \/ Release!Died \/ Release!Save
              \/ Release!Checkpoint \/ Release!Unsupported \/ Release!UseResolved
         \/ Release!Query \/ Release!ChunkSent \/ Release!ReadVideo \/ Release!Thumbnail
              \/ Release!BuildRelease \/ Release!ReadMain
         \/ Release!AskMain \/ Release!VerifyTag \/ Release!Audit \/ Release!Succeed
  PROVE  ReleaseLocalStep
<1> USE DEF ReleaseInv
<1> DEFINE Good(copy) == ReleaseSoundIn(copy, rProcessed, rFinal, rMain, rTag)
   /\ copy.session = rMem.session
<1>a. Good(rMem) /\ rMem \in Release!States
  BY DEF ReleaseCopies, ReleaseSound, ReleaseSoundIn
<1>b. Good([rMem EXCEPT !.phase = "canceled"])
  BY <1>a DEF ReleaseSoundIn, Release!States, Release!Phases, ReleaseVerified,
     ReleaseTagged
<1>c. /\ UNCHANGED <<rSent, rStarted, rExpired, rProcessed, rFinal, rParent, rMain, rTag, rPlaces>>
      /\ UNCHANGED <<rCancel, rCalls, rSnapshot, rOp>> /\ rPc # "off"
  BY DEF Release!RequestFails, Release!FilesAreGone, Release!Died, Release!Save,
     Release!Checkpoint, Release!Unsupported, Release!UseResolved, Release!Query,
     Release!ChunkSent, Release!ReadVideo, Release!Thumbnail, Release!BuildRelease,
     Release!ReadMain, Release!AskMain, Release!VerifyTag, Release!Audit,
     Release!Succeed, Release!Stop, Release!Off, Release!Keep, Release!Learn,
     Release!Fails, Release!Fault, Release!Refuse, Release!Canceled, Release!Uncertain,
     Release!GoCommit, Release!At, Release!AtRelease, Release!AtContainers,
     Release!InSession, Release!queue, Release!files, Release!handler, Release!bounds,
     Release!youtube, Release!hub
<1>d. rFaults' \in 0..ReleaseFaults /\ rFaults <= rFaults'
  <2>1. rFaults' = rFaults \/ (rFaults < ReleaseFaults /\ rFaults' = rFaults + 1)
    BY DEF Release!RequestFails, Release!FilesAreGone, Release!Died, Release!Save,
       Release!Checkpoint, Release!Unsupported, Release!UseResolved, Release!Query,
       Release!ChunkSent, Release!ReadVideo, Release!Thumbnail, Release!BuildRelease,
       Release!ReadMain, Release!AskMain, Release!VerifyTag, Release!Audit,
       Release!Succeed, Release!Stop, Release!Off, Release!Keep, Release!Learn,
       Release!Fails, Release!Fault, Release!Refuse, Release!Canceled,
       Release!Uncertain, Release!GoCommit, Release!At, Release!AtRelease,
       Release!AtContainers, Release!InSession, Release!queue, Release!files,
       Release!handler, Release!bounds
  <2> QED
    BY <2>1 DEF Release!TypeOK, Release!PublicationAssumption
<1>e. /\ rJob' \in Release!Ended \cup {"queued", "running", "retry_wait"}
      /\ rPc' \in {"off", "save", "check", "go", "upload", "sent", "commit", "ask"}
      /\ rJob' = "succeeded" =>
       rJob = "succeeded" \/ (rFinal # {} /\ rMain[rTag] \in Release!Exact)
  BY <1>a DEF Release!RequestFails, Release!FilesAreGone, Release!Died, Release!Save,
     Release!Checkpoint, Release!Unsupported, Release!UseResolved, Release!Query,
     Release!ChunkSent, Release!ReadVideo, Release!Thumbnail, Release!BuildRelease,
     Release!ReadMain, Release!AskMain, Release!VerifyTag, Release!Audit,
     Release!Succeed, Release!Stop, Release!Off, Release!Keep, Release!Learn,
     Release!Fails, Release!Fault, Release!Refuse, Release!Canceled, Release!Uncertain,
     Release!GoCommit, Release!At, Release!AtRelease, Release!AtContainers,
     Release!InSession, Release!queue, Release!files, Release!handler, Release!bounds,
     Release!Ended, Release!TypeOK, ReleaseSoundIn
<1>f. rHead' \in 0..Len(rMain) /\ (rPc' = "commit" => \A i \in 1..rHead' : rMain[i] # "ours")
  <2>1. \/ rHead' \in {0, rHead} /\ rPc' # "commit"
        \/ Release!ReadMain /\ rHead' = rParent /\ Len(rMain) = rParent
        \/ Release!ReadMain /\ rHead' = Len(rMain) /\ Release!Last = "init" /\ rMain # <<>>
    BY DEF Release!RequestFails, Release!FilesAreGone, Release!Died, Release!Save,
       Release!Checkpoint, Release!Unsupported, Release!UseResolved, Release!Query,
       Release!ChunkSent, Release!ReadVideo, Release!Thumbnail, Release!BuildRelease,
       Release!ReadMain, Release!AskMain, Release!VerifyTag, Release!Audit,
       Release!Succeed, Release!Stop, Release!Off, Release!Keep, Release!Learn,
       Release!Fails, Release!Fault, Release!Refuse, Release!Canceled,
       Release!Uncertain, Release!GoCommit, Release!At, Release!AtRelease,
       Release!AtContainers, Release!InSession, Release!queue, Release!files,
       Release!handler, Release!bounds
  <2>2. Len(rMain) \in Nat /\ rHead \in 0..Len(rMain)
    BY DEF Release!TypeOK, ReleaseHistory
  <2>3. CASE rHead' = rParent /\ Len(rMain) = rParent
    BY <2>2, <2>3 DEF ReleaseHistory
  <2>4. CASE rHead' = Len(rMain) /\ Release!Last = "init" /\ rMain # <<>>
    BY <2>2, <2>4 DEF ReleaseHistory, Release!Last
  <2> QED
    BY <2>1, <2>2, <2>3, <2>4
<1>g. ReleasePlaced'
  <2>1. /\ rPc' # "commit" \/ (Release!AtRelease /\ rMem' = rMem)
        /\ rPc' \notin {"ask", "sent"}
        /\ rPc' # "upload" \/ (rMem' = rMem /\ ~Release!Video(rMem.session)
             /\ (Release!InSession \/ rPc = "sent"))
    BY DEF Release!RequestFails, Release!FilesAreGone, Release!Died, Release!Save,
       Release!Checkpoint, Release!Unsupported, Release!UseResolved, Release!Query,
       Release!ChunkSent, Release!ReadVideo, Release!Thumbnail, Release!BuildRelease,
       Release!ReadMain, Release!AskMain, Release!VerifyTag, Release!Audit,
       Release!Succeed, Release!Stop, Release!Off, Release!Keep, Release!Learn,
       Release!Fails, Release!Fault, Release!Refuse, Release!Canceled,
       Release!Uncertain, Release!GoCommit, Release!At, Release!AtRelease,
       Release!AtContainers, Release!InSession, Release!queue, Release!files,
       Release!handler, Release!bounds
  <2> QED
    BY <1>c, <2>1 DEF ReleasePlaced, Release!AtRelease, Release!InSession, Release!At,
       Release!Video
<1>h. rFaults' \in Nat /\ rFaults <= rFaults'
  BY <1>d DEF Release!PublicationAssumption
<1>1. Release!RequestFails => ReleaseHandlerMoves
  <2> HIDE DEF ReleaseInv
  <2> QED
    BY <1>a, <1>b, <1>c, <1>h DEF Release!RequestFails, Release!Stop, Release!Off,
       Release!Keep, Release!Learn, Release!Fails, Release!Fault, Release!Refuse,
       Release!Canceled, Release!At, Release!queue, Release!files, Release!handler,
       Release!bounds, ReleaseHandlerMoves, ReleaseCarried
<1>2. Release!FilesAreGone => ReleaseHandlerMoves
  <2> HIDE DEF ReleaseInv
  <2> QED
    BY <1>a, <1>b, <1>c, <1>h DEF Release!FilesAreGone, Release!Stop, Release!Off,
       Release!Keep, Release!Learn, Release!Fails, Release!Fault, Release!Refuse,
       Release!Canceled, Release!At, Release!queue, Release!files, Release!handler,
       Release!bounds, ReleaseHandlerMoves, ReleaseCarried
<1>3. Release!Died => ReleaseHandlerMoves
  <2> HIDE DEF ReleaseInv
  <2> QED
    BY <1>a, <1>b, <1>c, <1>h DEF Release!Died, Release!Stop, Release!Off, Release!Keep,
       Release!Learn, Release!Fails, Release!Fault, Release!Refuse, Release!Canceled,
       Release!At, Release!queue, Release!files, Release!handler, Release!bounds,
       ReleaseHandlerMoves, ReleaseCarried
<1>4. Release!Save => ReleaseHandlerMoves
  <2> SUFFICES ASSUME Release!Save PROVE ReleaseHandlerMoves
    OBVIOUS
  <2>1. rMem.phase = "admitted" => Good(Release!Enter("validated"))
    BY <1>a DEF Release!Enter, ReleaseSoundIn, Release!States, Release!Phases,
       ReleaseVerified, ReleaseTagged
  <2> HIDE DEF ReleaseInv
  <2> QED
    BY <1>a, <1>b, <1>c, <1>h, <2>1 DEF Release!Save, Release!Stop, Release!Off,
       Release!Keep, Release!Learn, Release!Fails, Release!Fault, Release!Refuse,
       Release!Canceled, Release!At, Release!queue, Release!files, Release!handler,
       Release!bounds, ReleaseHandlerMoves, ReleaseCarried
<1>5. Release!Checkpoint => ReleaseHandlerMoves
  <2> HIDE DEF ReleaseInv
  <2> QED
    BY <1>a, <1>b, <1>c, <1>h DEF Release!Checkpoint, Release!Stop, Release!Off,
       Release!Keep, Release!Learn, Release!Fails, Release!Fault, Release!Refuse,
       Release!Canceled, Release!At, Release!queue, Release!files, Release!handler,
       Release!bounds, ReleaseHandlerMoves, ReleaseCarried
<1>6. Release!Unsupported => ReleaseHandlerMoves
  <2> HIDE DEF ReleaseInv
  <2> QED
    BY <1>a, <1>b, <1>c, <1>h DEF Release!Unsupported, Release!Stop, Release!Off,
       Release!Keep, Release!Learn, Release!Fails, Release!Fault, Release!Refuse,
       Release!Canceled, Release!At, Release!queue, Release!files, Release!handler,
       Release!bounds, ReleaseHandlerMoves, ReleaseCarried
<1>7. Release!UseResolved => ReleaseHandlerMoves
  <2> SUFFICES ASSUME Release!UseResolved PROVE ReleaseHandlerMoves
    OBVIOUS
  <2>1. Good([rMem EXCEPT !.phase = "youtube_uploaded", !.video = rMem.resolved])
    BY <1>a DEF Release!UseResolved, Release!Resolved, ReleaseSoundIn, Release!States,
       Release!Phases, ReleaseVerified, ReleaseTagged
  <2> HIDE DEF ReleaseInv
  <2> QED
    BY <1>a, <1>b, <1>c, <1>h, <2>1 DEF Release!UseResolved, Release!Stop, Release!Off,
       Release!Keep, Release!Learn, Release!Fails, Release!Fault, Release!Refuse,
       Release!Canceled, Release!At, Release!queue, Release!files, Release!handler,
       Release!bounds, Release!Resolved, ReleaseHandlerMoves, ReleaseCarried
<1>8. Release!Query => ReleaseHandlerMoves
  <2> SUFFICES ASSUME Release!Query PROVE ReleaseHandlerMoves
    OBVIOUS
  <2>1. Good([rMem EXCEPT !.phase = "youtube_uploaded", !.video = rMem.session])
    BY <1>a DEF Release!Query, Release!InSession, Release!At, ReleaseSoundIn,
       Release!States, Release!Phases, ReleaseVerified, ReleaseTagged
  <2> HIDE DEF ReleaseInv
  <2> QED
    BY <1>a, <1>b, <1>c, <1>h, <2>1 DEF Release!Query, Release!Stop, Release!Off,
       Release!Keep, Release!Learn, Release!Fails, Release!Fault, Release!Refuse,
       Release!Canceled, Release!At, Release!queue, Release!files, Release!handler,
       Release!bounds, Release!InSession, Release!Resolved, ReleaseHandlerMoves,
       ReleaseCarried
<1>9. Release!ChunkSent => ReleaseHandlerMoves
  <2> SUFFICES ASSUME Release!ChunkSent PROVE ReleaseHandlerMoves
    OBVIOUS
  <2>1. Good([rMem EXCEPT !.phase = "youtube_uploaded", !.video = rMem.session])
    BY <1>a DEF Release!ChunkSent, ReleasePlaced, ReleaseSoundIn, Release!States,
       Release!Phases, ReleaseVerified, ReleaseTagged
  <2> HIDE DEF ReleaseInv
  <2> QED
    BY <1>a, <1>b, <1>c, <1>h, <2>1 DEF Release!ChunkSent, Release!Stop, Release!Off,
       Release!Keep, Release!Learn, Release!Fails, Release!Fault, Release!Refuse,
       Release!Canceled, Release!At, Release!queue, Release!files, Release!handler,
       Release!bounds, ReleaseHandlerMoves, ReleaseCarried
<1>10. Release!ReadVideo => ReleaseHandlerMoves
  <2> SUFFICES ASSUME Release!ReadVideo PROVE ReleaseHandlerMoves
    OBVIOUS
  <2>1. Good(Release!Enter("youtube_processing")) /\ (rMem.video \in rProcessed
        => Good(Release!Enter("youtube_verified")))
    BY <1>a DEF Release!ReadVideo, Release!At, Release!Enter, ReleaseSoundIn,
       Release!States, Release!Phases, ReleaseVerified, ReleaseTagged
  <2> HIDE DEF ReleaseInv
  <2> QED
    BY <1>a, <1>b, <1>c, <1>h, <2>1 DEF Release!ReadVideo, Release!Stop, Release!Off,
       Release!Keep, Release!Learn, Release!Fails, Release!Fault, Release!Refuse,
       Release!Canceled, Release!At, Release!queue, Release!files, Release!handler,
       Release!bounds, ReleaseHandlerMoves, ReleaseCarried
<1>11. Release!Thumbnail => ReleaseHandlerMoves
  <2> SUFFICES ASSUME Release!Thumbnail PROVE ReleaseHandlerMoves
    OBVIOUS
  <2>1. Good(Release!Enter("youtube_complete"))
    BY <1>a DEF Release!Thumbnail, Release!At, Release!Enter, ReleaseSoundIn,
       Release!States, Release!Phases, ReleaseVerified, ReleaseTagged
  <2> HIDE DEF ReleaseInv
  <2> QED
    BY <1>a, <1>b, <1>c, <1>h, <2>1 DEF Release!Thumbnail, Release!Stop, Release!Off,
       Release!Keep, Release!Learn, Release!Fails, Release!Fault, Release!Refuse,
       Release!Canceled, Release!At, Release!queue, Release!files, Release!handler,
       Release!bounds, ReleaseHandlerMoves, ReleaseCarried
<1>12. Release!BuildRelease => ReleaseHandlerMoves
  <2> SUFFICES ASSUME Release!BuildRelease PROVE ReleaseHandlerMoves
    OBVIOUS
  <2>1. Good(Release!Enter("release_built"))
    BY <1>a DEF Release!BuildRelease, Release!At, Release!Enter, ReleaseSoundIn,
       Release!States, Release!Phases, ReleaseVerified, ReleaseTagged
  <2> HIDE DEF ReleaseInv
  <2> QED
    BY <1>a, <1>b, <1>c, <1>h, <2>1 DEF Release!BuildRelease, Release!Stop, Release!Off,
       Release!Keep, Release!Learn, Release!Fails, Release!Fault, Release!Refuse,
       Release!Canceled, Release!At, Release!queue, Release!files, Release!handler,
       Release!bounds, ReleaseHandlerMoves, ReleaseCarried
<1>13. Release!ReadMain => ReleaseHandlerMoves
  <2> SUFFICES ASSUME Release!ReadMain PROVE ReleaseHandlerMoves
    OBVIOUS
  <2>1. Release!Last \in Release!HasManifest => Good(Release!Committed)
    <3>1. rMem.phase = "release_built" /\ rMem.video \in rProcessed
          /\ rMem.session \in Release!Sessions
      BY <1>a DEF Release!ReadMain, Release!AtRelease, Release!At, ReleasePlaced,
         ReleaseSoundIn, ReleaseVerified
    <3>2. Release!Last \in Release!HasManifest => Len(rMain) \in Nat
          /\ Len(rMain) \in 1..Len(rMain)
      BY DEF Release!Last, Release!HasManifest, Release!Edited, ReleaseHistory
    <3> QED
      BY <1>a, <3>1, <3>2 DEF Release!Committed, ReleaseSoundIn, Release!States,
         Release!Phases, ReleaseVerified, ReleaseTagged
  <2> HIDE DEF ReleaseInv
  <2> QED
    BY <1>a, <1>b, <1>c, <1>h, <2>1 DEF Release!ReadMain, Release!Stop, Release!Off,
       Release!Keep, Release!Learn, Release!Fails, Release!Fault, Release!Refuse,
       Release!Canceled, Release!At, Release!queue, Release!files, Release!handler,
       Release!bounds, Release!AtRelease, Release!GoCommit, Release!Last,
       Release!HasManifest, Release!Edited, Release!Commits, ReleaseHandlerMoves, ReleaseCarried
<1>14. Release!AskMain => ReleaseHandlerMoves
  <2> SUFFICES ASSUME Release!AskMain PROVE ReleaseHandlerMoves
    OBVIOUS
  <2>1. Release!Last \in Release!HasManifest => Good(Release!Committed)
    <3>1. rMem.phase = "release_built" /\ rMem.video \in rProcessed
          /\ rMem.session \in Release!Sessions
      BY <1>a DEF Release!AskMain, Release!AtRelease, Release!At, ReleasePlaced,
         ReleaseSoundIn, ReleaseVerified
    <3>2. Release!Last \in Release!HasManifest => Len(rMain) \in Nat
          /\ Len(rMain) \in 1..Len(rMain)
      BY DEF Release!Last, Release!HasManifest, Release!Edited, ReleaseHistory
    <3> QED
      BY <1>a, <3>1, <3>2 DEF Release!Committed, ReleaseSoundIn, Release!States,
         Release!Phases, ReleaseVerified, ReleaseTagged
  <2> HIDE DEF ReleaseInv
  <2> QED
    BY <1>a, <1>b, <1>c, <1>h, <2>1 DEF Release!AskMain, Release!Stop, Release!Off,
       Release!Keep, Release!Learn, Release!Fails, Release!Fault, Release!Refuse,
       Release!Canceled, Release!At, Release!queue, Release!files, Release!handler,
       Release!bounds, Release!Last, Release!HasManifest, Release!Edited, Release!Commits,
       ReleaseHandlerMoves, ReleaseCarried
<1>15. Release!VerifyTag => ReleaseHandlerMoves
  <2> SUFFICES ASSUME Release!VerifyTag PROVE ReleaseHandlerMoves
    OBVIOUS
  <2>1. rMain[rTag] \in Release!Valid => Good(Release!Enter("huggingface_verified"))
    BY <1>a DEF Release!VerifyTag, Release!At, Release!Enter, ReleaseSoundIn,
       Release!States, Release!Phases, ReleaseVerified, ReleaseTagged
  <2> HIDE DEF ReleaseInv
  <2> QED
    BY <1>a, <1>b, <1>c, <1>h, <2>1 DEF Release!VerifyTag, Release!Stop, Release!Off,
       Release!Keep, Release!Learn, Release!Fails, Release!Fault, Release!Refuse,
       Release!Canceled, Release!At, Release!queue, Release!files, Release!handler,
       Release!bounds, ReleaseHandlerMoves, ReleaseCarried
<1>16. Release!Audit => ReleaseHandlerMoves
  <2> SUFFICES ASSUME Release!Audit PROVE ReleaseHandlerMoves
    OBVIOUS
  <2>1. (rMem.video \in rProcessed \cap rFinal /\ rTag = rMem.commit /\ rMain[rTag] \in Release!Exact)
        => Good(Release!Enter("succeeded"))
    BY <1>a DEF Release!Audit, Release!At, Release!Enter, ReleaseSoundIn,
       Release!States, Release!Phases, ReleaseVerified, ReleaseTagged,
       Release!Exact, Release!Valid
  <2> HIDE DEF ReleaseInv
  <2> QED
    BY <1>a, <1>b, <1>c, <1>h, <2>1 DEF Release!Audit, Release!Stop, Release!Off,
       Release!Keep, Release!Learn, Release!Fails, Release!Fault, Release!Refuse,
       Release!Canceled, Release!At, Release!queue, Release!files, Release!handler,
       Release!bounds, ReleaseHandlerMoves, ReleaseCarried
<1>17. Release!Succeed => ReleaseHandlerMoves
  <2> HIDE DEF ReleaseInv
  <2> QED
    BY <1>a, <1>b, <1>c, <1>h DEF Release!Succeed, Release!Stop, Release!Off,
       Release!Keep, Release!Learn, Release!Fails, Release!Fault, Release!Refuse,
       Release!Canceled, Release!At, Release!queue, Release!files, Release!handler,
       Release!bounds, ReleaseHandlerMoves, ReleaseCarried
<1> QED
  BY <1>c, <1>d, <1>e, <1>f, <1>g, <1>1, <1>2, <1>3, <1>4, <1>5, <1>6, <1>7, <1>8, <1>9,
     <1>10, <1>11, <1>12, <1>13, <1>14, <1>15, <1>16, <1>17 DEF ReleaseLocalStep

(* The handler rests.                                                      *)
ReleaseHandlerRests ==
  /\ UNCHANGED <<rSent, rStarted, rSnapshot, rOp, rSaved, rMem, rPc>>
  /\ rFaults' \in Nat /\ rFaults <= rFaults'

(* What the handler has stays so while others add.                         *)
LEMMA ReleaseRestKeeps ==
  ASSUME Release!PublicationAssumption, ReleaseInv, ReleaseGrows, ReleaseHandlerRests
  PROVE  ReleaseCopies' /\ ReleaseLinked' /\ ReleaseUploading' /\ ReleaseStarted'
         /\ ReleasePlaced'
<1> USE DEF ReleaseInv
<1>1. /\ ReleaseSoundIn(rMem, rProcessed', rFinal', rMain', rTag')
      /\ rSaved # None => ReleaseSoundIn(rSaved, rProcessed', rFinal', rMain', rTag')
      /\ rOp.kind = "resolve" => ReleaseSoundIn(rOp.state, rProcessed', rFinal', rMain', rTag')
  BY ReleaseSoundStays DEF ReleaseCopies, ReleaseSound, ReleaseGrows, ReleaseHistory
<1>2. ReleaseCopies'
  BY <1>1 DEF ReleaseCopies, ReleaseSound, ReleaseHandlerRests
<1>3. ReleaseLinked' /\ ReleaseUploading' /\ ReleasePlaced'
  BY DEF ReleaseLinked, ReleaseUploading, ReleasePlaced, ReleaseHandlerRests,
     Release!Video
<1>4. rStarted \in Nat /\ rFaults \in Nat /\ rFaults' \in Nat
  BY DEF Release!TypeOK, ReleaseHandlerRests, Release!PublicationAssumption
<1>5. ReleaseStarted'
  <2>1. UNCHANGED rStarted /\ rFaults <= rFaults' /\ UNCHANGED <<rSnapshot, rSaved, rMem, rPc>>
    BY DEF ReleaseHandlerRests
  <2>2. rStarted' <= rFaults' + 1
    <3>1. rStarted <= rFaults + 1
      BY DEF ReleaseStarted
    <3> QED
      BY <1>4, <2>1, <3>1, ReleaseWithin
  <2>3. rStarted <= rFaults => rStarted' <= rFaults'
    BY <1>4, <2>1
  <2> QED
    BY <2>1, <2>2, <2>3 DEF ReleaseStarted
<1> QED
  BY <1>2, <1>3, <1>5

(* What the world outside does.                                            *)
LEMMA ReleaseOutsideSteps ==
  ASSUME Release!PublicationAssumption, ReleaseInv,
         (\E s \in Release!Sessions : Release!ExpireSession(s) \/ Release!ProcessVideo(s))
             \/ Release!CommitOfOthers
  PROVE  ReleaseInv'
<1> USE DEF ReleaseInv
<1>1. ASSUME NEW s \in Release!Sessions, Release!ExpireSession(s)
             \/ Release!ProcessVideo(s) PROVE ReleaseInv'
  <2>1. /\ UNCHANGED <<rJob, rCancel, rSnapshot, rSaved, rPc, rMem, rHead, rOp, rCalls>>
        /\ UNCHANGED <<rStarted, rSent, rFinal, rParent, rMain, rTag, rPlaces>>
        /\ rExpired' \subseteq Release!Sessions
        /\ rProcessed \subseteq rProcessed' /\ rProcessed' \subseteq Release!Sessions
        /\ rFaults' \in 0..ReleaseFaults /\ rFaults <= rFaults'
    BY <1>1 DEF Release!ExpireSession, Release!ProcessVideo, Release!Program,
       Release!queue, Release!files, Release!handler, Release!hub, Release!Fault,
       Release!TypeOK, Release!PublicationAssumption
  <2>2. ReleaseGrows
    BY <2>1 DEF ReleaseGrows, ReleaseHistory
  <2>3. ReleaseHandlerRests
    BY <2>1 DEF ReleaseHandlerRests, Release!PublicationAssumption
  <2>4. Release!TypeOK'
    BY <2>1 DEF Release!TypeOK
  <2>5. ReleaseHistory' /\ Release!PublishedOnce'
    BY <2>1 DEF ReleaseHistory, Release!PublishedOnce, Release!Video
  <2>6. Release!PublicIsComplete'
    BY <2>1 DEF Release!PublicIsComplete, Release!Listed
  <2> QED
    BY <2>2, <2>3, <2>4, <2>5, <2>6, ReleaseRestKeeps
<1>2. CASE Release!CommitOfOthers
  <2>1. /\ UNCHANGED <<rJob, rCancel, rSnapshot, rSaved, rPc, rMem, rHead, rOp, rCalls>>
        /\ UNCHANGED <<rStarted, rSent, rExpired, rProcessed, rFinal, rParent, rTag, rPlaces>>
        /\ rFaults' \in 0..ReleaseFaults /\ rFaults <= rFaults'
    BY <1>2 DEF Release!CommitOfOthers, Release!Program, Release!queue, Release!files,
       Release!handler, Release!youtube, Release!Fault, Release!TypeOK,
       Release!PublicationAssumption
  <2>2. PICK kind \in {"other"} \cup Release!Edited : rMain' = Append(rMain, kind)
    BY <1>2 DEF Release!CommitOfOthers
  <2>3. /\ rMain' \in Seq(Release!Commits) /\ Len(rMain') = Len(rMain) + 1
        /\ \A i \in 1..Len(rMain) : rMain'[i] = rMain[i]
        /\ rMain'[Len(rMain) + 1] = kind
    BY <2>2 DEF ReleaseHistory, Release!Commits, Release!Edited
  <2>4. ReleaseGrows
    BY <2>1, <2>3 DEF ReleaseGrows, ReleaseHistory
  <2>5. ReleaseHandlerRests
    BY <2>1 DEF ReleaseHandlerRests, Release!PublicationAssumption
  <2>6. Release!TypeOK'
    <3>1. \A i \in 1..Len(rMain') : rMain'[i] \in Release!Commits
      BY <2>3
    <3>2. rHead' \in 0..Len(rMain')
      BY <2>1, <2>3 DEF Release!TypeOK, ReleaseHistory
    <3> QED
      BY <2>1, <3>1, <3>2 DEF Release!TypeOK
  <2>7. \A i \in 1..Len(rMain') : i \in 1..Len(rMain) \/ rMain'[i] \notin {"ours", "init"}
    BY <2>2, <2>3 DEF ReleaseHistory, Release!Edited
  <2>8. ReleaseHistory'
    <3>1. \A i \in 1..Len(rMain') : (rMain'[i] = "init" => i = 1) /\ (rMain'[i] = "ours"
          => i > rParent)
      BY <2>3, <2>7 DEF ReleaseHistory
    <3>2. rParent' \in 0..Len(rMain') /\ (rTag' # None => rTag' \in 1..Len(rMain'))
      BY <2>1, <2>3 DEF ReleaseHistory
    <3>3. rPc' = "commit" => \A i \in 1..rHead' : rMain'[i] # "ours"
      <4>1. rHead \in 0..Len(rMain) /\ Len(rMain) \in Nat
        BY DEF ReleaseHistory, Release!TypeOK
      <4>2. \A i \in 1..rHead : i \in 1..Len(rMain)
        BY <4>1
      <4>3. rPc = "commit" => \A i \in 1..rHead : rMain[i] # "ours"
        BY DEF ReleaseHistory
      <4> QED
        BY <2>1, <2>3, <4>2, <4>3
    <3> QED
      BY <2>1, <2>3, <3>1, <3>2, <3>3 DEF ReleaseHistory
  <2>9. Release!PublishedOnce'
    BY <2>1, <2>3, <2>7 DEF Release!PublishedOnce, Release!Video
  <2>10. Release!PublicIsComplete'
    BY <2>1, <2>3, <2>7 DEF Release!PublicIsComplete, Release!Listed, ReleaseHistory
  <2> QED
    BY <2>4, <2>5, <2>6, <2>8, <2>9, <2>10, ReleaseRestKeeps
<1> QED
  BY <1>1, <1>2

(* The repository and the containers.                                      *)
LEMMA ReleaseCreateRepoStep ==
  ASSUME Release!PublicationAssumption, ReleaseInv, Release!CreateRepo
  PROVE  ReleaseInv'
<1> USE DEF ReleaseInv
<1>1. /\ UNCHANGED <<rJob, rCancel, rSnapshot, rSaved, rMem, rOp, rCalls, rFaults>>
      /\ UNCHANGED <<rStarted, rSent, rExpired, rProcessed, rFinal, rParent, rTag, rPlaces>>
      /\ rPc = "go" /\ rPc' = "commit" /\ rHead' = 1 /\ rMain = <<>> /\ rMain' = <<"init">>
  BY DEF Release!CreateRepo, Release!GoCommit, Release!AtRelease, Release!At,
     Release!queue, Release!files, Release!bounds, Release!youtube
<1>2. /\ rMain' \in Seq(Release!Commits) /\ Len(rMain') = 1 /\ rMain'[1] = "init"
           /\ Len(rMain) = 0
  BY <1>1 DEF Release!Commits, Release!Edited
<1>3. ReleaseGrows
  BY <1>1, <1>2 DEF ReleaseGrows
<1>4. ReleaseSoundIn(rMem, rProcessed', rFinal', rMain', rTag') /\ rMem.phase = "release_built"
  BY <1>3, ReleaseSoundStays DEF ReleaseCopies, ReleaseSound, ReleaseGrows,
     ReleaseHistory, Release!CreateRepo, Release!AtRelease, Release!At
<1>5. ReleaseHandlerMoves
  BY <1>1, <1>4 DEF ReleaseHandlerMoves, ReleaseCarried, Release!TypeOK,
     Release!PublicationAssumption
<1>6. Release!TypeOK' /\ ReleasePlaced'
  BY <1>1, <1>2, <1>4 DEF Release!TypeOK, ReleasePlaced, Release!Commits, Release!Edited
<1>7. rTag = None /\ rParent = 0
  BY <1>2 DEF ReleaseHistory
<1>8. ReleaseHistory' /\ Release!PublishedOnce'
  BY <1>1, <1>2, <1>7 DEF ReleaseHistory, Release!PublishedOnce, Release!Video
<1>9. Release!PublicIsComplete'
  BY <1>1, <1>2, <1>7 DEF Release!PublicIsComplete
<1> QED
  BY <1>3, <1>5, <1>6, <1>8, <1>9, ReleaseHandlerKeeps

(* The commit, which may take effect although the call raised.             *)
LEMMA ReleaseCreateCommitStep ==
  ASSUME Release!PublicationAssumption, ReleaseInv, Release!CreateCommit
  PROVE  ReleaseInv'
<1> USE DEF ReleaseInv
<1>1. /\ UNCHANGED <<rJob, rCancel, rSnapshot, rSaved, rOp, rCalls, rHead>>
      /\ UNCHANGED <<rStarted, rSent, rExpired, rProcessed, rFinal, rParent, rTag, rPlaces>>
      /\ rPc = "commit" /\ rPc' \in {"save", "ask"} /\ rFaults' \in 0..ReleaseFaults
           /\ rFaults <= rFaults'
  BY DEF Release!CreateCommit, Release!Learn, Release!Fault, Release!queue,
     Release!files, Release!bounds, Release!youtube, Release!TypeOK,
     Release!PublicationAssumption
<1>2. /\ rMem.phase = "release_built" /\ rMem.video \in rProcessed
           /\ rMem.session \in Release!Sessions
      /\ ReleaseSoundIn(rMem, rProcessed, rFinal, rMain, rTag)
  BY <1>1 DEF ReleasePlaced, ReleaseCopies, ReleaseSound, ReleaseSoundIn, ReleaseVerified
<1>3. CASE rMain' = Append(rMain, "ours") /\ Len(rMain) = rHead
  <2>1. /\ rMain' \in Seq(Release!Commits) /\ Len(rMain') = Len(rMain) + 1 /\ Len(rMain) \in Nat
        /\ \A i \in 1..Len(rMain) : rMain'[i] = rMain[i]
        /\ rMain'[Len(rMain) + 1] = "ours"
    BY <1>3 DEF ReleaseHistory, Release!Commits, Release!Edited
  <2>2. \A i \in 1..Len(rMain) : rMain[i] # "ours"
    BY <1>1, <1>3 DEF ReleaseHistory
  <2>3. ReleaseGrows
    BY <1>1, <2>1 DEF ReleaseGrows, ReleaseHistory
  <2>4. ReleaseSoundIn(rMem, rProcessed', rFinal', rMain', rTag')
    BY <1>2, <2>3, ReleaseSoundStays DEF ReleaseGrows, ReleaseHistory
  <2>5. rMem' = rMem
        \/ (rMem' = [[rMem EXCEPT !.phase = "huggingface_committed", !.commit = Len(rMain)]
                                     EXCEPT !.commit = Len(rMain) + 1] /\ rPc' = "save")
    BY <1>1, <1>3 DEF Release!CreateCommit, Release!Learn, Release!Committed
  <2>6. ReleaseCarried(rMem')
    <3> HIDE DEF ReleaseInv
    <3>1. Len(rMain) + 1 \in 1..Len(rMain')
      BY <2>1
    <3>2. CASE rMem' = rMem
      BY <2>4, <3>2 DEF ReleaseCarried
    <3>3. CASE rMem' = [[rMem EXCEPT !.phase = "huggingface_committed", !.commit = Len(rMain)]
                                     EXCEPT !.commit = Len(rMain) + 1]
      <4>1. rMem \in Release!States /\ Len(rMain) \in Nat /\ Len(rMain) + 1 \in Nat
        BY <1>2, <2>1 DEF ReleaseSoundIn
      <4>2. rMem' \in Release!States
        BY <3>3, <4>1 DEF Release!States, Release!Phases
      <4>3. /\ rMem'.phase = "huggingface_committed" /\ rMem'.commit = Len(rMain) + 1
            /\ rMem'.session = rMem.session /\ rMem'.video = rMem.video
        BY <3>3, <4>1 DEF Release!States
      <4> QED
        BY <1>1, <1>2, <3>1, <4>2, <4>3 DEF ReleaseCarried, ReleaseSoundIn,
           ReleaseVerified, ReleaseTagged
    <3> QED
      BY <2>5, <3>2, <3>3
  <2>7. ReleaseHandlerMoves
    BY <1>1, <2>6 DEF ReleaseHandlerMoves, Release!PublicationAssumption
  <2>8. rMem' \in Release!States /\ (rPc' = "ask" => rMem'.phase = "release_built")
    BY <1>2, <2>5, <2>6 DEF ReleaseCarried, ReleaseSoundIn
  <2>9. Release!TypeOK' /\ ReleasePlaced'
    <3>1. \A i \in 1..Len(rMain') : rMain'[i] \in Release!Commits
      BY <2>1
    <3>2. rHead' \in 0..Len(rMain')
      BY <1>1, <2>1 DEF Release!TypeOK
    <3> QED
      BY <1>1, <2>8, <3>1, <3>2 DEF Release!TypeOK, ReleasePlaced
  <2>10. ReleaseHistory'
    <3>1. \A i \in 1..Len(rMain') : (rMain'[i] = "init" => i = 1) /\ (rMain'[i] = "ours"
          => i > rParent)
      BY <2>1 DEF ReleaseHistory
    <3>2. rParent' \in 0..Len(rMain') /\ (rTag' # None => rTag' \in 1..Len(rMain'))
      BY <1>1, <2>1 DEF ReleaseHistory
    <3> QED
      BY <1>1, <2>1, <3>1, <3>2 DEF ReleaseHistory
  <2>11. Release!PublishedOnce'
    BY <1>1, <2>1, <2>2 DEF Release!PublishedOnce, Release!Video
  <2>12. Release!PublicIsComplete'
    <3>1. rProcessed' # {}
      BY <1>1, <1>2
    <3> QED
      BY <1>1, <2>1, <3>1 DEF Release!PublicIsComplete, Release!Listed, ReleaseHistory
  <2> QED
    BY <2>3, <2>7, <2>9, <2>10, <2>11, <2>12, ReleaseHandlerKeeps
<1>4. CASE rMain' = rMain
  <2>1. rMem' = rMem /\ rPc' = "ask"
    BY <1>1, <1>4 DEF Release!CreateCommit, Release!Learn, ReleaseHistory
  <2>2. ReleaseLocalStep
    BY <1>1, <1>2, <1>4, <2>1 DEF ReleaseLocalStep, ReleaseHandlerMoves, ReleaseCarried,
       ReleasePlaced, Release!TypeOK, Release!PublicationAssumption
  <2> QED
    BY <2>2, ReleaseLocalKeeps
<1> QED
  BY <1>3, <1>4 DEF Release!CreateCommit

(* The tag is put on the commit that was recorded, and never moved.        *)
LEMMA ReleaseCreateTagStep ==
  ASSUME Release!PublicationAssumption, ReleaseInv, Release!CreateTag
  PROVE  ReleaseInv'
<1> USE DEF ReleaseInv
<1>1. /\ UNCHANGED <<rCancel, rSnapshot, rOp, rCalls>>
      /\ UNCHANGED <<rStarted, rSent, rExpired, rProcessed, rFinal, rParent, rMain, rPlaces>>
      /\ rPc = "go" /\ rPc' \in {"save", "check", "off"} /\ rFaults' \in 0..ReleaseFaults
           /\ rFaults <= rFaults'
      /\ rHead' \in {rHead, 0} /\ rJob' \in {rJob, "retry_wait", "blocked"}
  BY DEF Release!CreateTag, Release!At, Release!Effect, Release!Fails, Release!Learn,
     Release!Keep, Release!Stop, Release!Refuse, Release!Off, Release!Fault,
     Release!queue, Release!files, Release!bounds, Release!youtube,
         Release!TypeOK, Release!PublicationAssumption
<1>2. /\ rMem.phase = "huggingface_committed" /\ rMem.commit \in 1..Len(rMain)
           /\ rMem.session \in Release!Sessions
      /\ rMem.video \in rProcessed /\ ReleaseSoundIn(rMem, rProcessed, rFinal, rMain, rTag)
  BY DEF Release!CreateTag, Release!At, ReleaseCopies, ReleaseSound, ReleaseSoundIn,
     ReleaseVerified
<1>3. rTag' \in 1..Len(rMain) \cup {None} /\ (rTag # None => rTag' = rTag)
  BY <1>2 DEF Release!CreateTag, ReleaseHistory
<1>4. ReleaseGrows
  BY <1>1, <1>3 DEF ReleaseGrows, ReleaseHistory
<1>5. ReleaseSoundIn(rMem, rProcessed', rFinal', rMain', rTag')
  BY <1>2, <1>4, ReleaseSoundStays DEF ReleaseGrows, ReleaseHistory
<1>6. rTag' # None
      => ReleaseSoundIn(Release!Enter("huggingface_tagged"), rProcessed', rFinal', rMain', rTag')
                        /\ Release!Enter("huggingface_tagged").session = rMem.session
  BY <1>1, <1>2, <1>3, <1>5 DEF Release!Enter, ReleaseSoundIn, Release!States,
     Release!Phases, ReleaseVerified, ReleaseTagged
<1>7. rTag' = rMem.commit => rTag' # None
  BY <1>2, <1>5 DEF Release!PublicationAssumption, ReleaseHistory
<1>8. ReleaseHandlerMoves
  <2>1. rFaults' \in Nat
    BY <1>1 DEF Release!PublicationAssumption
  <2>2. \/ rSaved' = rMem /\ Release!Off
        \/ rTag' = rMem.commit /\ rMem' = Release!Enter("huggingface_tagged") /\ rPc' = "save"
             /\ rSaved' = rSaved
        \/ rTag' = rMem.commit /\ rMem' = Release!Enter("huggingface_tagged") /\ rPc' = "check"
             /\ rSaved' = rMem'
    BY DEF Release!CreateTag, Release!Effect, Release!Fails, Release!Learn,
       Release!Keep, Release!Stop, Release!Refuse, Release!files
  <2> QED
    BY <1>1, <1>5, <1>6, <1>7, <2>1, <2>2 DEF ReleaseHandlerMoves, ReleaseCarried
<1>9. ReleaseCopies' /\ ReleaseLinked' /\ ReleaseUploading' /\ ReleaseStarted'
  BY <1>4, <1>8, ReleaseHandlerKeeps
<1>10. ReleasePlaced' /\ Release!TypeOK'
  <2>1. rMem' \in Release!States /\ rSaved' \in Release!States \cup {None}
    BY <1>9 DEF ReleaseCopies, ReleaseSound, ReleaseSoundIn
  <2>2. rTag' \in Nat \cup {None} /\ rHead' \in 0..Len(rMain)
    BY <1>1, <1>3 DEF Release!TypeOK, ReleaseHistory
  <2> QED
    BY <1>1, <2>1, <2>2 DEF ReleasePlaced, Release!TypeOK, Release!Ended
<1>11. ReleaseHistory' /\ Release!PublishedOnce'
  BY <1>1, <1>3 DEF ReleaseHistory, Release!PublishedOnce, Release!Video
<1>12. Release!PublicIsComplete'
  BY <1>1, <1>3 DEF Release!PublicIsComplete, Release!Listed
<1> QED
  BY <1>9, <1>10, <1>11, <1>12

(* A container is added, or the video is made public.                      *)
LEMMA ReleaseListingStep ==
  ASSUME Release!PublicationAssumption, ReleaseInv,
         (\E i \in 1..Len(Release!Places) : Release!AddPlace(i)) \/ Release!UpdateVideo
  PROVE  ReleaseInv'
<1> USE DEF ReleaseInv
<1>1. /\ UNCHANGED <<rCancel, rSnapshot, rOp, rCalls>>
      /\ UNCHANGED <<rStarted, rSent, rExpired, rProcessed, rParent, rMain, rTag>>
      /\ rPc = "go" /\ rPc' \in {"go", "save", "off"} /\ rFaults' \in 0..ReleaseFaults
           /\ rFaults <= rFaults'
      /\ rHead' \in {rHead, 0} /\ rJob' \in {rJob, "retry_wait", "blocked"}
      /\ rPlaces \subseteq rPlaces'
           /\ rPlaces' \subseteq {Release!Places[i] : i \in 1..Len(Release!Places)}
  BY DEF Release!AddPlace, Release!UpdateVideo, Release!AtContainers, Release!At,
     Release!Effect, Release!Fails, Release!Learn, Release!Stop, Release!Off,
     Release!Fault, Release!queue, Release!files, Release!handler, Release!bounds,
     Release!hub,
         Release!youtube, Release!TypeOK, Release!PublicationAssumption
<1>2. /\ rMem.phase = "huggingface_verified" /\ rMem.session \in Release!Sessions
           /\ rMem.video \in rProcessed
      /\ rTag \in 1..Len(rMain) /\ rMain[rTag] \in Release!Valid
           /\ ReleaseSoundIn(rMem, rProcessed, rFinal, rMain, rTag)
  BY DEF Release!AddPlace, Release!UpdateVideo, Release!AtContainers, Release!At,
     ReleaseCopies, ReleaseSound, ReleaseSoundIn, ReleaseVerified, ReleaseTagged
<1>3. \/ rFinal' = rFinal
      \/ rFinal' = rFinal \cup {rMem.video} /\ Release!Listed(Len(Release!Places))
           /\ Release!UpdateVideo
  BY DEF Release!AddPlace, Release!UpdateVideo, Release!youtube
<1>4. ReleaseGrows
  BY <1>1, <1>3 DEF ReleaseGrows, ReleaseHistory
<1>5. ReleaseSoundIn(rMem, rProcessed', rFinal', rMain', rTag')
  BY <1>2, <1>4, ReleaseSoundStays DEF ReleaseGrows, ReleaseHistory
<1>6. Release!UpdateVideo
      => ReleaseSoundIn(Release!Enter("containers_complete"), rProcessed', rFinal', rMain', rTag')
                     /\ Release!Enter("containers_complete").session = rMem.session
  <2>1. Release!UpdateVideo => rFinal' # {}
    BY DEF Release!UpdateVideo
  <2> QED
    BY <1>1, <1>2, <1>5, <2>1 DEF Release!Enter, ReleaseSoundIn, Release!States,
       Release!Phases, ReleaseVerified, ReleaseTagged
<1>7. rFaults' \in Nat
  BY <1>1 DEF Release!PublicationAssumption
<1>8. \/ rSaved' = rMem /\ Release!Off
      \/ Release!UpdateVideo /\ rMem' = Release!Enter("containers_complete") /\ rPc' = "save"
           /\ rSaved' = rSaved
      \/ UNCHANGED <<rSaved, rMem, rPc>>
  BY DEF Release!AddPlace, Release!UpdateVideo, Release!Effect, Release!Fails,
     Release!Learn, Release!Stop, Release!files, Release!handler
<1>9. ReleaseHandlerMoves
  BY <1>1, <1>5, <1>6, <1>7, <1>8 DEF ReleaseHandlerMoves, ReleaseCarried
<1>10. ReleaseCopies' /\ ReleaseLinked' /\ ReleaseUploading' /\ ReleaseStarted'
  BY <1>4, <1>9, ReleaseHandlerKeeps
<1>11. ReleasePlaced' /\ Release!TypeOK'
  <2>1. rMem' \in Release!States /\ rSaved' \in Release!States \cup {None}
    BY <1>10 DEF ReleaseCopies, ReleaseSound, ReleaseSoundIn
  <2>2. rHead' \in 0..Len(rMain) /\ rFinal' \subseteq Release!Sessions
    BY <1>1, <1>2, <1>3 DEF Release!TypeOK, ReleaseHistory
  <2> QED
    BY <1>1, <2>1, <2>2 DEF ReleasePlaced, Release!TypeOK, Release!Ended
<1>12. ReleaseHistory' /\ Release!PublishedOnce'
  BY <1>1 DEF ReleaseHistory, Release!PublishedOnce, Release!Video
<1>13. Release!PublicIsComplete'
  <2>1. rFinal' # {} => rTag # None /\ rMain[rTag] \in Release!Valid
        /\ Release!Listed(Len(Release!Places))
    BY <1>2, <1>3 DEF Release!PublicIsComplete, Release!PublicationAssumption
  <2>2. Release!Listed(Len(Release!Places)) => Release!Listed(Len(Release!Places))'
    BY <1>1 DEF Release!Listed
  <2>3. rJob' = "succeeded" => rFinal' # {} /\ rMain[rTag] \in Release!Exact
    BY <1>1, <1>3 DEF Release!PublicIsComplete
  <2>4. (\E i \in 1..Len(rMain) : rMain[i] = "ours") => rProcessed # {}
    BY DEF Release!PublicIsComplete
  <2> QED
    BY <1>1, <2>1, <2>2, <2>3, <2>4 DEF Release!PublicIsComplete
<1> QED
  BY <1>10, <1>11, <1>12, <1>13

(* The upload.                                                             *)
LEMMA ReleaseSendChunkStep ==
  ASSUME Release!PublicationAssumption, ReleaseInv, Release!SendChunk
  PROVE  ReleaseInv'
<1> USE DEF ReleaseInv
<1>1. /\ UNCHANGED <<rCancel, rSnapshot, rOp, rCalls>>
      /\ UNCHANGED <<rStarted, rExpired, rProcessed, rFinal, rParent, rMain, rTag, rPlaces>>
      /\ rPc = "upload" /\ rPc' \in {"sent", "off"} /\ rFaults' \in 0..ReleaseFaults
           /\ rFaults <= rFaults'
      /\ rHead' \in {rHead, 0} /\ rJob' \in {rJob, "retry_wait", "blocked"}
  BY DEF Release!SendChunk, Release!Fails, Release!Uncertain, Release!Learn,
     Release!Stop, Release!Refuse, Release!Off, Release!Fault, Release!queue,
     Release!files, Release!bounds, Release!hub, Release!youtube,
         Release!TypeOK, Release!PublicationAssumption
<1>2. /\ rMem.session \in Release!Sessions
           /\ ReleaseSoundIn(rMem, rProcessed, rFinal, rMain, rTag) /\ rMem \in Release!States
      /\ rMem.phase \in {"youtube_session", "youtube_uncertain"}
  BY <1>1 DEF ReleasePlaced, ReleaseCopies, ReleaseSound, ReleaseSoundIn
<1>3. rSent' \in {rSent, [rSent EXCEPT ![rMem.session] = @ + 1]}
  BY DEF Release!SendChunk, Release!youtube
<1>4. rSent' \in [Release!Sessions -> 0..Chunks]
      /\ \A s \in Release!Sessions : rSent'[s] = rSent[s] \/ s = rMem.session
  <2>1. rSent \in [Release!Sessions -> 0..Chunks] /\ rSent[rMem.session] # Chunks
    BY <1>1 DEF Release!TypeOK, ReleasePlaced, Release!Video
  <2>2. rSent[rMem.session] + 1 \in 0..Chunks
    BY <1>2, <2>1 DEF Release!PublicationAssumption
  <2> QED
    BY <1>2, <1>3, <2>1, <2>2
<1>5. ReleaseGrows
  BY <1>1 DEF ReleaseGrows, ReleaseHistory
<1>6. ReleaseSoundIn(Release!Enter("youtube_uncertain"), rProcessed, rFinal, rMain, rTag)
      /\ Release!Enter("youtube_uncertain").session = rMem.session
  BY <1>2 DEF Release!Enter, ReleaseSoundIn, Release!States, Release!Phases,
     ReleaseVerified, ReleaseTagged
<1>7. rFaults' \in Nat
  BY <1>1 DEF Release!PublicationAssumption
<1>8. \/ Release!Off /\ rSaved' \in {rMem, Release!Enter("youtube_uncertain")}
      \/ rPc' = "sent" /\ rMem' = rMem /\ rSaved' = rSaved
  BY DEF Release!SendChunk, Release!Fails, Release!Uncertain, Release!Learn,
     Release!Stop, Release!Refuse, Release!files
<1>9. ReleaseHandlerMoves
  BY <1>1, <1>2, <1>4, <1>6, <1>7, <1>8 DEF ReleaseHandlerMoves, ReleaseCarried
<1>10. ReleaseCopies' /\ ReleaseLinked' /\ ReleaseUploading' /\ ReleaseStarted'
  BY <1>5, <1>9, ReleaseHandlerKeeps
<1>11. ReleasePlaced' /\ Release!TypeOK'
  <2>1. rMem' \in Release!States /\ rSaved' \in Release!States \cup {None}
    BY <1>10 DEF ReleaseCopies, ReleaseSound, ReleaseSoundIn
  <2>2. rHead' \in 0..Len(rMain)
    BY <1>1 DEF Release!TypeOK, ReleaseHistory
  <2>3. rPc' = "sent" => rMem' = rMem
    BY <1>8 DEF Release!Off
  <2> QED
    BY <1>1, <1>2, <1>4, <2>1, <2>2, <2>3 DEF ReleasePlaced, Release!TypeOK, Release!Ended
<1>12. ReleaseHistory'
  BY <1>1 DEF ReleaseHistory
<1>13. Release!PublishedOnce'
  <2>1. \A r, s \in Release!Sessions : Release!Video(r)' /\ Release!Video(s)' => r = s
    BY <1>4, <1>10 DEF ReleaseUploading, Release!Video, Release!PublicationAssumption
  <2> QED
    BY <1>1, <2>1 DEF Release!PublishedOnce
<1>14. Release!PublicIsComplete'
  BY <1>1 DEF Release!PublicIsComplete, Release!Listed
<1> QED
  BY <1>10, <1>11, <1>12, <1>13, <1>14

(* A session begins only while nobody has one.                             *)
LEMMA ReleaseStartUploadStep ==
  ASSUME Release!PublicationAssumption, ReleaseInv, Release!StartUpload
  PROVE  ReleaseInv'
<1> USE DEF ReleaseInv
<1>1. /\ UNCHANGED <<rCancel, rSnapshot, rOp, rCalls>> /\ rSnapshot
      /\ UNCHANGED <<rSent, rExpired, rProcessed, rFinal, rParent, rMain, rTag, rPlaces>>
      /\ rStarted' = rStarted + 1
      /\ rPc = "go" /\ rPc' \in {"save", "off"} /\ rFaults' \in 0..ReleaseFaults
      /\ rHead' \in {rHead, 0} /\ rJob' \in {rJob, "retry_wait", "blocked"}
  <2>1. UNCHANGED <<rSent, rExpired, rProcessed, rFinal, rParent, rMain, rTag, rPlaces>>
        /\ rSnapshot /\ rStarted' = rStarted + 1 /\ rPc = "go"
    BY DEF Release!StartUpload, Release!At, Release!hub
  <2>2. \/ UNCHANGED <<rCancel, rSnapshot, rOp, rCalls, rFaults, rHead, rJob>> /\ rPc' = "save"
        \/ /\ UNCHANGED <<rCancel, rSnapshot, rOp, rCalls>> /\ Release!Fault /\ rPc' = "off"
                /\ rHead' = 0
           /\ rJob' \in {"retry_wait", "blocked"}
    BY DEF Release!StartUpload, Release!Effect, Release!Fails, Release!Learn,
       Release!Stop, Release!Off, Release!queue, Release!files
  <2>3. rFaults \in 0..ReleaseFaults /\ (Release!Fault => rFaults' \in 0..ReleaseFaults)
    BY DEF Release!Fault, Release!TypeOK, Release!PublicationAssumption
  <2> QED
    BY <2>1, <2>2, <2>3
<1>2. /\ rMem.phase = "validated" /\ rMem.session = None
      /\ ReleaseSoundIn(rMem, rProcessed, rFinal, rMain, rTag) /\ rMem \in Release!States
  BY DEF Release!StartUpload, Release!At, ReleaseCopies, ReleaseSound, ReleaseSoundIn
<1>3. rSaved # None /\ rSaved.session = None
  BY <1>1, <1>2 DEF ReleaseLinked
<1>4. rStarted <= rFaults /\ rStarted \in Nat /\ rFaults \in 0..ReleaseFaults
  BY <1>1, <1>2, <1>3 DEF ReleaseStarted, Release!TypeOK, Release!PublicationAssumption
<1>5. rStarted + 1 \in Release!Sessions /\ None \notin Release!Sessions
  BY <1>4 DEF Release!Sessions, Release!PublicationAssumption
<1>6. rOp.kind # "resolve" /\ \A s \in Release!Sessions : rSent[s] = 0
  BY <1>3, <1>5 DEF ReleaseLinked, ReleaseCopies, ReleaseUploading
<1>7. \/ /\ rPc' = "save" /\ rSaved' = rSaved /\ rFaults' = rFaults
         /\ rMem' = [rMem EXCEPT !.phase = "youtube_session", !.session = rStarted + 1]
      \/ Release!Off /\ rSaved' = rMem /\ rFaults' = rFaults + 1
  BY DEF Release!StartUpload, Release!Effect, Release!Fails, Release!Fault,
     Release!Learn, Release!Stop, Release!files
<1>8. rMem' = [rMem EXCEPT !.phase = "youtube_session", !.session = rStarted + 1] =>
        ReleaseSoundIn(rMem', rProcessed, rFinal, rMain, rTag) /\ rMem'.session = rStarted + 1
  <2> SUFFICES ASSUME rMem' = [rMem EXCEPT !.phase = "youtube_session", !.session = rStarted + 1]
               PROVE  ReleaseSoundIn(rMem', rProcessed, rFinal, rMain, rTag)
                      /\ rMem'.session = rStarted + 1
    OBVIOUS
  <2>1. rMem' \in Release!States /\ rMem'.phase = "youtube_session"
        /\ rMem'.session = rStarted + 1
    BY <1>2, <1>5 DEF Release!States, Release!Phases
  <2> QED
    BY <1>5, <2>1 DEF ReleaseSoundIn, ReleaseVerified, ReleaseTagged
<1>9. ReleaseSoundIn(Release!Fresh, rProcessed, rFinal, rMain, rTag)
  BY ReleaseFreshIsSound
<1>10. rMem \in Release!States => rMem # None
  BY DEF Release!PublicationAssumption
<1>11. ReleaseCopies'
  BY <1>1, <1>2, <1>6, <1>7, <1>8, <1>9 DEF ReleaseCopies, ReleaseSound, Release!Off
<1>12. ReleaseLinked'
  BY <1>1, <1>2, <1>3, <1>5, <1>6, <1>7, <1>8, <1>10 DEF ReleaseLinked, Release!Off
<1>13. ReleaseUploading'
  BY <1>1, <1>6 DEF ReleaseUploading
<1>14. ReleaseStarted'
  <2>1. rStarted' <= rFaults' + 1
    BY <1>1, <1>4, <1>7
  <2>2. CASE rPc' = "save"
    BY <1>5, <1>7, <1>8, <2>1, <2>2 DEF ReleaseStarted, Release!Off
  <2>3. CASE rPc' = "off"
    <3>1. rFaults' = rFaults + 1
      BY <1>7, <2>3
    <3>2. rStarted' <= rFaults'
      BY <1>1, <1>4, <3>1
    <3> QED
      BY <2>1, <3>2 DEF ReleaseStarted
  <2> QED
    BY <1>1, <2>2, <2>3
<1>15. Release!TypeOK' /\ ReleasePlaced'
  <2>1. rMem' \in Release!States /\ rSaved' \in Release!States \cup {None}
    BY <1>11 DEF ReleaseCopies, ReleaseSound, ReleaseSoundIn
  <2>2. rHead' \in 0..Len(rMain) /\ rStarted' \in 0..(ReleaseFaults + 1)
    BY <1>1, <1>4 DEF Release!TypeOK, ReleaseHistory, Release!PublicationAssumption
  <2> QED
    BY <1>1, <2>1, <2>2 DEF ReleasePlaced, Release!TypeOK, Release!Ended
<1>16. ReleaseHistory' /\ Release!PublishedOnce' /\ Release!PublicIsComplete'
  BY <1>1 DEF ReleaseHistory, Release!PublishedOnce, Release!Video,
     Release!PublicIsComplete, Release!Listed
<1> QED
  BY <1>11, <1>12, <1>13, <1>14, <1>15, <1>16

(* A step that leaves YouTube, the hub and the faults alone.               *)
ReleaseElsewhere ==
  /\ UNCHANGED <<rStarted, rSent, rExpired, rProcessed, rFinal, rParent, rMain, rTag, rPlaces, rFaults>>
  /\ rCancel' \in BOOLEAN /\ rSnapshot' \in BOOLEAN /\ rCalls' \in 0..OperatorCalls
  /\ rJob' \in Release!Ended \cup {"queued", "running", "retry_wait"}
  /\ rJob' = "succeeded" => rJob = "succeeded"
  /\ rOp'.kind \in {"none", "resolve", "resolved", "request", "work"}
  /\ (rPc' = rPc /\ rHead' = rHead) \/ (rPc = "off" /\ rPc' \in {"off", "save", "check", "go"}
       /\ rHead' \in {0, rHead})

(* Only the copies of the state and the queue have to be looked at.        *)
LEMMA ReleaseElsewhereKeeps ==
  ASSUME Release!PublicationAssumption, ReleaseInv, ReleaseElsewhere, ReleaseCopies',
         ReleasePlaced', ReleaseLinked', ReleaseUploading', ReleaseStarted'
  PROVE  ReleaseInv'
<1> USE DEF ReleaseInv
<1>1. rMem' \in Release!States /\ rSaved' \in Release!States \cup {None}
  BY DEF ReleaseCopies, ReleaseSound, ReleaseSoundIn
<1>2. Release!TypeOK'
  <2>1. rHead' \in 0..Len(rMain)
    BY DEF ReleaseElsewhere, Release!TypeOK, ReleaseHistory
  <2> QED
    BY <1>1, <2>1 DEF ReleaseElsewhere, Release!TypeOK
<1>3. ReleaseHistory' /\ Release!PublishedOnce' /\ Release!PublicIsComplete'
  BY DEF ReleaseElsewhere, ReleaseHistory, Release!PublishedOnce, Release!Video,
     Release!PublicIsComplete, Release!Listed
<1> QED
  BY <1>2, <1>3

(* The next advancement begins with the state that was saved.              *)
LEMMA ReleaseClaimStep ==
  ASSUME Release!PublicationAssumption, ReleaseInv, Release!Claim
  PROVE  ReleaseInv'
<1> USE DEF ReleaseInv
<1>1. /\ UNCHANGED <<rCancel, rSnapshot, rOp, rCalls, rFaults>> /\ rPc = "off"
      /\ UNCHANGED <<rStarted, rSent, rExpired, rProcessed, rFinal, rParent, rMain, rTag, rPlaces>>
  BY DEF Release!Claim, Release!Stop, Release!queue, Release!files, Release!handler,
     Release!bounds, Release!hub, Release!youtube
<1>2. PICK copy : copy = IF rSaved = None THEN Release!Fresh ELSE rSaved
  OBVIOUS
<1>3. ReleaseSoundIn(Release!Fresh, rProcessed, rFinal, rMain, rTag)
      /\ Release!Fresh.session = None /\ Release!Fresh.phase = "admitted"
  BY ReleaseFreshIsSound DEF Release!Fresh
<1>4. ReleaseSoundIn(copy, rProcessed, rFinal, rMain, rTag) /\ copy \in Release!States
  BY <1>2, <1>3 DEF ReleaseCopies, ReleaseSound, ReleaseSoundIn
<1>5. \/ ~rSnapshot /\ rJob' = "failed" /\ UNCHANGED <<rSaved, rPc, rMem, rHead>>
      \/ /\ rSnapshot /\ rJob' = "canceled" /\ rPc' = "off" /\ rHead' = 0
              /\ rMem' = Release!Fresh
         /\ rSaved' = [copy EXCEPT !.phase = "canceled"]
      \/ /\ rSnapshot /\ rJob' = "running" /\ rMem' = copy /\ UNCHANGED <<rSaved, rHead>>
         /\ rPc' \in {"save", "check", "go"} /\ (copy.phase = "admitted" => rPc' = "save")
  BY <1>2 DEF Release!Claim, Release!Stop, Release!Off, Release!files, Release!handler
<1>6. ReleaseElsewhere
  BY <1>1, <1>5 DEF ReleaseElsewhere, Release!TypeOK, Release!Ended
<1>7. ReleaseSoundIn([copy EXCEPT !.phase = "canceled"], rProcessed, rFinal, rMain, rTag)
      /\ [copy EXCEPT !.phase = "canceled"].session = copy.session
  BY <1>4 DEF ReleaseSoundIn, Release!States, Release!Phases, ReleaseVerified,
     ReleaseTagged
<1>8. \A st : ReleaseSoundIn(st, rProcessed, rFinal, rMain, rTag) => st # None
  BY DEF ReleaseSoundIn, Release!PublicationAssumption
<1>9. ReleaseCopies'
  BY <1>1, <1>3, <1>4, <1>5, <1>7 DEF ReleaseCopies, ReleaseSound
<1>10. ReleasePlaced'
  BY <1>1, <1>5 DEF ReleasePlaced
<1>11. ReleaseLinked'
  BY <1>1, <1>2, <1>3, <1>5, <1>7, <1>8 DEF ReleaseLinked, ReleaseCopies
<1>12. ReleaseUploading'
  BY <1>1, <1>2, <1>3, <1>5, <1>7, <1>8 DEF ReleaseUploading
<1>13. ReleaseStarted'
  BY <1>1, <1>2, <1>3, <1>5, <1>7, <1>8 DEF ReleaseStarted
<1> QED
  BY <1>6, <1>9, <1>10, <1>11, <1>12, <1>13, ReleaseElsewhereKeeps

(* The operator, and the queue after a death.                              *)
LEMMA ReleaseOperatorSteps ==
  ASSUME Release!PublicationAssumption, ReleaseInv,
         \/ Release!Recover \/ Release!Retry \/ Release!RequestCancel \/ Release!ResolveReads
              \/ Release!ResolveWrites
         \/ Release!ResolveRetries \/ Release!CleanupReads \/ Release!RemoveRequest
              \/ Release!RemoveWork
  PROVE  ReleaseInv'
<1> USE DEF ReleaseInv
<1>1. /\ UNCHANGED <<rPc, rMem, rHead, rFaults>>
      /\ UNCHANGED <<rStarted, rSent, rExpired, rProcessed, rFinal, rParent, rMain, rTag, rPlaces>>
  BY DEF Release!Recover, Release!Retry, Release!RequestCancel, Release!ResolveReads,
     Release!ResolveWrites, Release!ResolveRetries, Release!CleanupReads,
         Release!RemoveRequest, Release!RemoveWork, Release!Outside, Release!handler,
             Release!youtube, Release!hub, Release!bounds
<1>2. ReleaseElsewhere
  <2>1. rCalls' \in 0..OperatorCalls
    BY DEF Release!Recover, Release!Retry, Release!RequestCancel, Release!ResolveReads,
       Release!ResolveWrites, Release!ResolveRetries, Release!CleanupReads,
           Release!RemoveRequest, Release!RemoveWork, Release!Called, Release!bounds,
               Release!TypeOK, Release!PublicationAssumption
  <2>a. rCancel' \in BOOLEAN /\ rSnapshot' \in BOOLEAN
    BY DEF Release!Recover, Release!Retry, Release!RequestCancel, Release!ResolveReads,
       Release!ResolveWrites, Release!ResolveRetries, Release!CleanupReads,
           Release!RemoveRequest, Release!RemoveWork, Release!Again, Release!queue,
               Release!files, Release!TypeOK
  <2>b. Release!ResolveReads => rOp'.kind = "resolve"
    BY DEF Release!ResolveReads
  <2>c. ~Release!ResolveReads
        => rOp'.kind \in {"none", "resolve", "resolved", "request", "work"}
    BY DEF Release!Recover, Release!Retry, Release!RequestCancel, Release!ResolveWrites,
       Release!ResolveRetries, Release!CleanupReads,
           Release!RemoveRequest, Release!RemoveWork, Release!TypeOK
  <2>2. /\ rCancel' \in BOOLEAN /\ rSnapshot' \in BOOLEAN
        /\ rOp'.kind \in {"none", "resolve", "resolved", "request", "work"}
    BY <2>a, <2>b, <2>c
  <2>3. /\ rJob' \in Release!Ended \cup {"queued", "running", "retry_wait"}
        /\ rJob' = "succeeded" => rJob = "succeeded"
    BY DEF Release!Recover, Release!Retry, Release!RequestCancel, Release!ResolveReads,
       Release!ResolveWrites, Release!ResolveRetries, Release!CleanupReads,
           Release!RemoveRequest, Release!RemoveWork, Release!Again, Release!queue,
               Release!TypeOK, Release!Ended
  <2> QED
    BY <1>1, <2>1, <2>2, <2>3 DEF ReleaseElsewhere
<1>3. ReleasePlaced'
  BY <1>1 DEF ReleasePlaced, Release!Video
<1>4. CASE Release!Recover \/ Release!Retry \/ Release!RequestCancel \/ Release!ResolveRetries
           \/ Release!CleanupReads
  <2>1. UNCHANGED <<rSnapshot, rSaved>> /\ (rOp' = rOp \/ rOp'.kind \in {"none", "request"})
    BY <1>4 DEF Release!Recover, Release!Retry, Release!RequestCancel,
       Release!ResolveRetries, Release!CleanupReads, Release!files
  <2>2. ReleaseCopies' /\ ReleaseLinked' /\ ReleaseUploading' /\ ReleaseStarted'
    BY <1>1, <2>1 DEF ReleaseCopies, ReleaseSound, ReleaseLinked, ReleaseUploading,
       ReleaseStarted
  <2> QED
    BY <1>2, <1>3, <2>2, ReleaseElsewhereKeeps
<1>5. CASE Release!ResolveReads
  <2>1. /\ UNCHANGED <<rSnapshot, rSaved>> /\ rSaved # None
             /\ rSaved.phase = "youtube_uncertain"
        /\ \E v \in Release!Sessions \cup {Release!Foreign} :
             rOp' = [kind |-> "resolve", state |-> [rSaved EXCEPT !.resolved = v]]
    BY <1>5 DEF Release!ResolveReads, Release!files
  <2>2. PICK v \in Release!Sessions \cup {Release!Foreign} : rOp' = [kind |-> "resolve", state |-> [rSaved EXCEPT !.resolved = v]]
    BY <2>1
  <2>3. rOp'.kind = "resolve" /\ rOp'.state = [rSaved EXCEPT !.resolved = v]
    BY <2>2
  <2>4. /\ ReleaseSoundIn(rOp'.state, rProcessed, rFinal, rMain, rTag)
        /\ rOp'.state.session = rSaved.session /\ rSaved.session \in Release!Sessions
    BY <2>1, <2>3 DEF ReleaseCopies, ReleaseSound, ReleaseSoundIn, Release!States,
       ReleaseVerified, ReleaseTagged
  <2>5. ReleaseCopies' /\ ReleaseLinked' /\ ReleaseUploading' /\ ReleaseStarted'
    BY <1>1, <2>1, <2>3, <2>4 DEF ReleaseCopies, ReleaseSound, ReleaseLinked,
       ReleaseUploading, ReleaseStarted
  <2> QED
    BY <1>2, <1>3, <2>5, ReleaseElsewhereKeeps
<1>6. CASE Release!ResolveWrites
  <2>1. /\ UNCHANGED rSnapshot /\ rSaved' = rOp.state /\ rOp'.kind = "resolved"
             /\ rOp.kind = "resolve"
    BY <1>6 DEF Release!ResolveWrites
  <2>2. rSaved # None /\ rSaved.session = rOp.state.session /\ ReleaseSound(rOp.state)
        /\ rOp.state # None
    BY <2>1 DEF ReleaseLinked, ReleaseCopies, ReleaseSound, ReleaseSoundIn,
       Release!PublicationAssumption
  <2>3. ReleaseCopies' /\ ReleaseLinked' /\ ReleaseUploading' /\ ReleaseStarted'
    BY <1>1, <2>1, <2>2 DEF ReleaseCopies, ReleaseSound, ReleaseLinked,
       ReleaseUploading, ReleaseStarted
  <2> QED
    BY <1>2, <1>3, <2>3, ReleaseElsewhereKeeps
<1>7. CASE Release!RemoveRequest \/ Release!RemoveWork
  <2>1. \/ rSnapshot' = FALSE /\ rSaved' = rSaved /\ rOp'.kind = "work"
        \/ UNCHANGED rSnapshot /\ ~rSnapshot /\ rSaved' = None /\ rOp'.kind = "none"
    BY <1>7 DEF Release!RemoveRequest, Release!RemoveWork, ReleaseLinked
  <2>2. ReleaseCopies' /\ ReleaseLinked' /\ ReleaseUploading' /\ ReleaseStarted'
    BY <1>1, <2>1 DEF ReleaseCopies, ReleaseSound, ReleaseLinked, ReleaseUploading,
       ReleaseStarted
  <2> QED
    BY <1>2, <1>3, <2>2, ReleaseElsewhereKeeps
<1> QED
  BY <1>4, <1>5, <1>6, <1>7

(* A request begins with nothing public.                                   *)
LEMMA ReleaseInit == ASSUME Release!PublicationAssumption, Release!Init PROVE ReleaseInv
<1>1. ReleaseSoundIn(Release!Fresh, rProcessed, rFinal, rMain, rTag)
      /\ Release!Fresh.session = None /\ Release!Fresh \in Release!States
  BY ReleaseFreshIsSound DEF ReleaseSoundIn, Release!Fresh
<1>2. ReleaseCopies /\ ReleasePlaced /\ ReleaseLinked /\ ReleaseUploading /\ ReleaseStarted
  BY <1>1 DEF Release!Init, ReleaseCopies, ReleaseSound, ReleasePlaced, ReleaseLinked,
     ReleaseUploading, ReleaseStarted, Release!PublicationAssumption
<1>3. /\ rMain \in Seq(Release!Commits) /\ Len(rMain) \in Nat /\ rParent = Len(rMain)
      /\ \A i \in 1..Len(rMain) : rMain[i] = "other"
  <2>1. CASE rMain = <<>>
    BY <2>1 DEF Release!Init
  <2>2. CASE rMain = <<"other">>
    BY <2>2 DEF Release!Init, Release!Commits, Release!Edited
  <2> QED
    BY <2>1, <2>2 DEF Release!Init
<1>4. Release!TypeOK
  <2>1. /\ rSent \in [Release!Sessions -> 0..Chunks] /\ 0 \in 0..ReleaseFaults
             /\ 0 \in 0..OperatorCalls
        /\ 0 \in 0..(ReleaseFaults + 1) /\ 0 \in 0..Len(rMain)
    BY <1>3 DEF Release!Init, Release!PublicationAssumption
  <2>2. \A i \in 1..Len(rMain) : rMain[i] \in Release!Commits
    BY <1>3 DEF Release!Commits, Release!Edited
  <2> QED
    BY <1>1, <2>1, <2>2 DEF Release!Init, Release!TypeOK
<1>5. ReleaseHistory
  BY <1>3 DEF Release!Init, ReleaseHistory
<1>6. Release!PublishedOnce /\ Release!PublicIsComplete
  BY <1>3 DEF Release!Init, Release!PublishedOnce, Release!PublicIsComplete,
     Release!Video, Release!PublicationAssumption
<1> QED
  BY <1>2, <1>4, <1>5, <1>6 DEF ReleaseInv

(* The invariant holds in every state.                                     *)
LEMMA ReleaseInductive ==
  ASSUME Release!PublicationAssumption
  PROVE  Release!Spec => []ReleaseInv
<1>1. Release!Init => ReleaseInv
  BY ReleaseInit
<1>2. ReleaseInv /\ [Release!Next]_Release!vars => ReleaseInv'
  <2> SUFFICES ASSUME ReleaseInv, [Release!Next]_Release!vars PROVE ReleaseInv'
    OBVIOUS
  <2>1. CASE UNCHANGED Release!vars
    <3>1. /\ UNCHANGED <<rJob, rCancel, rSnapshot, rSaved, rPc, rMem, rHead>>
          /\ UNCHANGED <<rStarted, rSent, rExpired, rProcessed, rFinal>>
          /\ UNCHANGED <<rParent, rMain, rTag, rPlaces, rOp, rCalls, rFaults>>
      BY <2>1 DEF Release!vars, Release!queue, Release!files, Release!handler,
         Release!youtube, Release!hub, Release!bounds
    <3>2. Release!TypeOK' /\ ReleaseCopies' /\ ReleasePlaced' /\ ReleaseLinked'
          /\ ReleaseUploading' /\ ReleaseStarted'
      BY <3>1 DEF ReleaseInv, Release!TypeOK, ReleaseCopies, ReleaseSound,
         ReleasePlaced, Release!Video, ReleaseLinked, ReleaseUploading, ReleaseStarted
    <3>3. ReleaseHistory' /\ Release!PublishedOnce' /\ Release!PublicIsComplete'
      BY <3>1 DEF ReleaseInv, ReleaseHistory, Release!PublishedOnce, Release!Video,
         Release!PublicIsComplete, Release!Listed
    <3> QED
      BY <3>2, <3>3 DEF ReleaseInv
  <2>2. CASE Release!Next
    BY <2>2, ReleaseClaimStep, ReleaseLocalSteps, ReleaseLocalKeeps,
       ReleaseOutsideSteps, ReleaseCreateRepoStep, ReleaseCreateCommitStep,
       ReleaseCreateTagStep, ReleaseListingStep, ReleaseSendChunkStep, ReleaseStartUploadStep,
           ReleaseOperatorSteps DEF Release!Next
  <2> QED
    BY <2>1, <2>2
<1> QED
  BY <1>1, <1>2, PTL DEF Release!Spec

(* Whatever dies, is lost, retried, resolved, canceled or cleaned up, a    *)
(* request makes one video and one commit, and nothing of it is public     *)
(* before it is complete.                                                  *)
THEOREM ReleaseIsSafe ==
  ASSUME Release!PublicationAssumption PROVE Release!Spec => [](Release!TypeOK
         /\ Release!PublishedOnce /\ Release!PublicIsComplete)
<1>1. ReleaseInv => Release!TypeOK /\ Release!PublishedOnce /\ Release!PublicIsComplete
  BY DEF ReleaseInv
<1> QED
  BY <1>1, ReleaseInductive, PTL

-----------------------------------------------------------------------------
(* ManualEvaluation.                                                       *)

(* The steps at which the worker looks at one Checkpoint, those at which   *)
(* it projects its verdict, and those of a batch that is settled.          *)
ManualProjecting == {"append", "seal", "record", "publish", "project"}
ManualLooking == {"look", "verify", "prepare", "submit", "dispatch", "terminal"} \cup ManualProjecting
ManualPromoted == {"promote", "summary", "receipt", "finish"}

ManualInJournal(c) == \E e \in uJournal : e.event = c
ManualShown(c) == c \in uPublished /\ ManualInJournal(c)

(* Where the worker is, and what it has found there.                       *)
ManualPlaced ==
  /\ uDoing = None <=> uStep = "idle"
  /\ uDoing # None => uTodo \subseteq RequestBatch[uDoing]
  /\ uStep \in ManualLooking \cup {"admit", "lease"} => uTodo # {}
  /\ uStep = "verify" => uVerified[Manual!at] = None /\ uResult[Manual!at] # None
  /\ uStep \in ManualProjecting \cup {"terminal"} => uVerified[Manual!at] # None
  /\ uStep = "prepare" => Manual!Latest(Manual!at) < EvaluationAttempts
  /\ uStep \in {"submit", "dispatch"}
       => \E a \in Manual!Attempts : uDeadline[Manual!at][a] # "none"

(* The ledger of a job counts on, and what is below its high-water mark,   *)
(* or about to be, is in the journal.                                      *)
ManualCounted ==
  /\ \A j \in Requests : uHigh[j] < uNext[j]
  /\ \A j \in Requests : \A c \in RequestBatch[j] :
       /\ uFrame[c] < uNext[j]
       /\ uFrame[c] # 0 /\ uFrame[c] <= uHigh[j] => ManualInJournal(c)
  /\ uStep \in ManualProjecting \ {"append"} => uFrame[Manual!at] # 0
  /\ uStep \in {"record", "publish", "project"} => \A c \in Manual!Frames : ManualInJournal(c)
  /\ uStep = "project" => Manual!Frames \subseteq uPublished

(* What was projected can be read, and a verdict that was reported is the  *)
(* verified one and was projected.                                         *)
ManualBacked ==
  /\ \A c \in Manual!Checkpoints : uProjection[c] # 0 => ManualShown(c)
  /\ \A c \in Manual!Checkpoints : uStatus[c] \in {"accepted", "rejected", "failed"} =>
       uVerified[c] = uStatus[c] /\ ManualShown(c)
  /\ \E n \in Nat : \A c \in Manual!Checkpoints : uProjection[c] <= n

(* The candidate is not above any accepted Checkpoint, and is what was     *)
(* promoted.                                                               *)
ManualChosen ==
  /\ uStep \in ManualPromoted \cup {"candidate"} /\ ~uSeen.cancel =>
       \A c \in RequestBatch[uDoing] : uStatus[c] \in Manual!Settled
  /\ uStep \notin ManualPromoted => uCandidate = None
  /\ uStep \in ManualPromoted => \A c \in Manual!Checkpoints :
       uVerified[c] = "accepted" => uCandidate # None /\ uCandidate.checkpoint <= c
  /\ uStep \in {"promote", "summary"} => uCandidate # None
  /\ uStep \in {"summary", "receipt", "finish"} /\ uCandidate # None => uPromotion = uCandidate
  /\ uStep = "finish" => uReceipt[uDoing] = Manual!Terminal

(* The inductive invariant.                                                *)
ManualInv == Manual!TypeOK /\ ManualPlaced /\ ManualCounted /\ ManualBacked /\ ManualChosen
    /\ Manual!SuccessIsBacked

-----------------------------------------------------------------------------
(* Sets of numbers.                                                        *)
LEMMA LeastIs ==
  ASSUME NEW S \in SUBSET Nat, S # {}
  PROVE  Manual!Min(S) \in S /\ \A x \in S : Manual!Min(S) <= x
<1>1. PICK m \in S : \A x \in S : ~(<<x, m>> \in OpToRel(<, Nat))
  BY NatLessThanWellFounded, WFMin
<1>2. \A x \in S : ~(x < m)
  BY <1>1, Zenon DEF OpToRel
<1>3. \E x \in S : \A y \in S : x <= y
  BY <1>2
<1> QED
  BY <1>3, Zenon DEF Manual!Min

LEMMA GreatestIs ==
  ASSUME NEW S \in SUBSET Nat, S # {}, NEW b \in Nat, \A x \in S : x <= b
  PROVE  Manual!Max(S) \in S /\ \A x \in S : x <= Manual!Max(S)
<1> DEFINE Bounds == {n \in Nat : \A x \in S : x <= n}
<1>1. PICK m \in Bounds : \A n \in Bounds : m <= n
  <2>1. b \in Bounds
    OBVIOUS
  <2> QED
    BY LeastIs
<1>2. m \in S
  <2>1. SUFFICES ASSUME m \notin S PROVE FALSE
    OBVIOUS
  <2>2. m # 0
    <3>1. PICK x \in S : TRUE
      OBVIOUS
    <3>2. x \in Nat /\ x <= m /\ x # m
      BY <2>1
    <3> QED
      BY <3>2
  <2>3. m - 1 \in Bounds
    BY <2>1, <2>2
  <2> QED
    BY <1>1, <2>3
<1>3. \E x \in S : \A y \in S : x >= y
  BY <1>2
<1>4. Manual!Max(S) \in S /\ \A y \in S : Manual!Max(S) >= y
  BY <1>3, Zenon DEF Manual!Max
<1> QED
  BY <1>4

(* The Checkpoint the worker looks at.                                     *)
LEMMA ManualAt ==
  ASSUME Manual!BatchAssumption, Manual!TypeOK, ManualPlaced,
         uStep \in ManualLooking \cup {"admit", "lease"}
  PROVE  uDoing \in Requests /\ Manual!at \in uTodo /\ Manual!at \in RequestBatch[uDoing]
         /\ Manual!at \in Manual!Checkpoints
<1>1. uDoing \in Requests /\ uTodo \subseteq RequestBatch[uDoing] /\ uTodo # {}
  BY DEF ManualPlaced, Manual!TypeOK, ManualLooking, ManualProjecting
<1>2. uTodo \subseteq Nat
  BY <1>1 DEF Manual!BatchAssumption
<1>3. Manual!at \in uTodo
  BY <1>1, <1>2, LeastIs DEF Manual!at
<1> QED
  BY <1>1, <1>3 DEF Manual!Checkpoints

(* The number of the latest attempt.                                       *)
LEMMA ManualLatest ==
  ASSUME Manual!BatchAssumption, NEW c
  PROVE  /\ Manual!Latest(c) \in 0..EvaluationAttempts
         /\ \A a \in Manual!Attempts : uDeadline[c][a] # "none" => a <= Manual!Latest(c)
<1> DEFINE S == {0} \cup {a \in Manual!Attempts : uDeadline[c][a] # "none"}
<1>1. S \in SUBSET Nat /\ S # {} /\ EvaluationAttempts \in Nat
      /\ \A x \in S : x <= EvaluationAttempts
  BY DEF Manual!Attempts, Manual!BatchAssumption
<1>2. Manual!Max(S) \in S /\ \A x \in S : x <= Manual!Max(S)
  BY <1>1, GreatestIs
<1>3. Manual!Latest(c) = Manual!Max(S)
  BY DEF Manual!Latest
<1> QED
  BY <1>1, <1>2, <1>3 DEF Manual!Attempts

-----------------------------------------------------------------------------
(* Evidence, events and receipts stay.                                     *)
ManualStays ==
  /\ uJournal \subseteq uJournal' /\ uPublished \subseteq uPublished'
  /\ \A c \in Manual!Checkpoints : uVerified[c] # None => uVerified'[c] = uVerified[c]
  /\ uPromotion # None => uPromotion' = uPromotion
  /\ \A j \in Requests : uReceipt[j] # None => uReceipt'[j] = uReceipt[j]

(* A job that has succeeded stays backed.                                  *)
LEMMA ManualSuccessStays ==
  ASSUME Manual!BatchAssumption, ManualInv, ManualStays,
         \A j \in Requests : uJob'[j] = "succeeded" => uJob[j] = "succeeded"
  PROVE  Manual!SuccessIsBacked'
<1>1. SUFFICES ASSUME NEW j \in Requests, uJob'[j] = "succeeded"
      PROVE  /\ uReceipt'[j] # None /\ uReceipt'[j].state = "succeeded"
             /\ \A c \in RequestBatch[j] :
                  /\ uVerified'[c] \in {"accepted", "rejected"}
                  /\ c \in uPublished' /\ \E e \in uJournal' : e.event = c
                  /\ uVerified'[c] = "accepted" => uPromotion' # None
                       /\ uPromotion'.checkpoint <= c
  BY DEF Manual!SuccessIsBacked
<1>2. /\ uReceipt[j] # None /\ uReceipt[j].state = "succeeded"
      /\ \A c \in RequestBatch[j] :
           /\ uVerified[c] \in {"accepted", "rejected"}
           /\ c \in uPublished /\ \E e \in uJournal : e.event = c
           /\ uVerified[c] = "accepted" => uPromotion # None /\ uPromotion.checkpoint <= c
  BY <1>1 DEF ManualInv, Manual!SuccessIsBacked
<1>3. \A c \in RequestBatch[j] : c \in Manual!Checkpoints
      /\ uVerified[c] \in {None} \cup WorkerVerdicts
  BY DEF Manual!Checkpoints, ManualInv, Manual!TypeOK
<1>4. \A c \in RequestBatch[j] : uVerified'[c] = uVerified[c]
  <2> SUFFICES ASSUME NEW c \in RequestBatch[j], uVerified'[c] # uVerified[c] PROVE FALSE
    OBVIOUS
  <2>1. uVerified[c] = None
    BY <1>3 DEF ManualStays
  <2> QED
    BY <1>2, <2>1 DEF Manual!BatchAssumption, Manual!Statuses, Manual!Settled
<1> QED
  BY <1>2, <1>4 DEF ManualStays

(* Events and verdicts that were reported stay.                            *)
LEMMA ManualBackedStays ==
  ASSUME Manual!BatchAssumption, ManualInv, ManualStays, UNCHANGED uProjection,
         \A c \in Manual!Checkpoints : uStatus'[c] \in {"accepted", "rejected", "failed"} =>
           uStatus'[c] = uStatus[c] \/ (uVerified[c] = uStatus'[c] /\ ManualShown(c))
  PROVE  ManualBacked'
<1>1. \A c \in Manual!Checkpoints : ManualShown(c) => ManualShown(c)'
  BY DEF ManualStays, ManualShown, ManualInJournal
<1>2. \A c \in Manual!Checkpoints : uVerified[c] \in {"accepted", "rejected", "failed"}
      => uVerified'[c] = uVerified[c]
  BY DEF ManualStays, Manual!BatchAssumption, Manual!Statuses, Manual!Settled
<1> QED
  BY <1>1, <1>2 DEF ManualBacked, ManualInv

(* The ledger at rest.                                                     *)
LEMMA ManualCountedStays ==
  ASSUME ManualInv, UNCHANGED <<Manual!ledger, uJournal, uPublished>>,
         uStep' \notin ManualProjecting \ {"append"}
  PROVE  ManualCounted'
BY DEF ManualInv, ManualCounted, Manual!ledger, ManualInJournal, ManualProjecting,
   Manual!Frames

-----------------------------------------------------------------------------
LEMMA ManualUpsetIs ==
  ASSUME Manual!BatchAssumption, Manual!TypeOK, Manual!Upset \/ UNCHANGED uUpsets
  PROVE  uUpsets' \in 0..MaxUpsets
<1>1. uUpsets \in 0..MaxUpsets /\ MaxUpsets \in Nat
  BY DEF Manual!BatchAssumption, Manual!TypeOK
<1> QED
  BY <1>1 DEF Manual!Upset

(* The worker rests: the operator, training, calls.                        *)
ManualWorld ==
  /\ UNCHANGED <<uVerified, Manual!projected, uReceipt, Manual!ledger>>
  /\ UNCHANGED <<uDoing, uStep, uTodo, uStatus, uCandidate>> /\ uSeen'.cancel = uSeen.cancel
  /\ uPromotion # None => uPromotion' = uPromotion
  /\ \A j \in Requests : uJob'[j] = "succeeded" => uJob[j] = "succeeded"
  /\ \A c \in Manual!Checkpoints : uResult[c] # None => uResult'[c] # None
  /\ \A c \in Manual!Checkpoints, a \in Manual!Attempts :
       uDeadline'[c][a] # "none" <=> uDeadline[c][a] # "none"

LEMMA ManualWorldKeeps ==
  ASSUME Manual!BatchAssumption, ManualInv, ManualWorld, Manual!TypeOK'
  PROVE  ManualInv'
<1>1. /\ UNCHANGED <<uJournal, uProjection, uPublished, uFrame, uNext, uHigh>>
      /\ UNCHANGED <<uDoing, uStep, uTodo, uStatus, uCandidate>>
      /\ uSeen'.cancel = uSeen.cancel
  BY DEF ManualWorld, Manual!projected, Manual!ledger
<1>2. ManualStays
  BY <1>1 DEF ManualWorld, ManualStays
<1>3. Manual!SuccessIsBacked'
  BY <1>2, ManualSuccessStays DEF ManualWorld
<1>4. ManualBacked'
  BY <1>1, <1>2, ManualBackedStays
<1>5. ManualCounted'
  BY <1>1 DEF ManualCounted, ManualInv, ManualInJournal, Manual!Frames, Manual!at
<1>6. ManualPlaced'
  <2>1. Manual!at' = Manual!at /\ (uStep \in ManualLooking => Manual!at \in Manual!Checkpoints)
    BY <1>1, ManualAt DEF Manual!at, ManualInv
  <2>2. uStep = "prepare" => Manual!Latest(Manual!at)' = Manual!Latest(Manual!at)
    <3>1. SUFFICES ASSUME Manual!at \in Manual!Checkpoints PROVE Manual!Latest(Manual!at)' = Manual!Latest(Manual!at)
      BY <2>1 DEF ManualLooking
    <3>2. {a \in Manual!Attempts : uDeadline'[Manual!at][a] # "none"} = {a \in Manual!Attempts : uDeadline[Manual!at][a] # "none"}
      BY <3>1 DEF ManualWorld
    <3> QED
      BY <2>1, <3>2 DEF Manual!Latest
  <2>3. uStep \in {"submit", "dispatch"}
        => \E a \in Manual!Attempts : uDeadline'[Manual!at][a] # "none"
    BY <2>1 DEF ManualWorld, ManualPlaced, ManualInv, ManualLooking
  <2>4. uStep = "verify" => uResult'[Manual!at] # None
    BY <2>1 DEF ManualWorld, ManualPlaced, ManualInv, ManualLooking
  <2> QED
    BY <1>1, <2>1, <2>2, <2>3, <2>4 DEF ManualWorld, ManualPlaced, ManualInv
<1>7. ManualChosen'
  BY <1>1 DEF ManualWorld, ManualChosen, ManualInv, Manual!Terminal, Manual!Outcome
<1> QED
  BY <1>3, <1>4, <1>5, <1>6, <1>7 DEF ManualInv

(* What training and its operator do.                                      *)
ManualTrains ==
  \/ \E c \in Manual!Checkpoints : Manual!TrainingAccepts(c)
  \/ Manual!TrainingStarts \/ Manual!TrainingPromotes \/ Manual!TrainingEnds
  \/ Manual!TrainingIsInterrupted \/ Manual!RetryTraining \/ Manual!PutManifest

LEMMA ManualWorldSteps ==
  ASSUME Manual!BatchAssumption, ManualInv,
         \/ \E j \in Requests : Manual!Enqueue(j) \/ Manual!RequestCancel(j) \/ Manual!Retry(j)
         \/ ManualTrains \/ Manual!LeaseExpires
         \/ \E c \in Manual!Checkpoints, a \in Manual!Attempts :
              Manual!AttemptExpires(c, a) \/ \E v \in WorkerVerdicts : Manual!Upload(c, a, v)
  PROVE  ManualInv'
<1> USE DEF ManualInv
<1>1. ASSUME NEW j \in Requests, Manual!Enqueue(j) \/ Manual!RequestCancel(j)
             \/ Manual!Retry(j) PROVE ManualInv'
  <2>1. /\ UNCHANGED <<uTraining, uRetries, uLease, uTrained, uPromotion, uDeadline, uDispatched, uCall, uResult, uVerified>>
        /\ UNCHANGED <<Manual!projected, uReceipt, Manual!ledger, Manual!worker>>
    BY <1>1 DEF Manual!Enqueue, Manual!RequestCancel, Manual!Retry, Manual!Request,
       Manual!run, Manual!evidence
  <2>2. /\ uJob' = uJob \/ (uJob[j] # "running"
             /\ \E s \in {"queued", "canceled"} : uJob' = [uJob EXCEPT ![j] = s])
        /\ uCancel' \in [Requests -> BOOLEAN] /\ uUpsets' \in 0..MaxUpsets
    <3>1. uJob' = uJob \/ (uJob[j] # "running"
          /\ \E s \in {"queued", "canceled"} : uJob' = [uJob EXCEPT ![j] = s])
      BY <1>1, Zenon DEF Manual!Enqueue, Manual!RequestCancel, Manual!Retry,
         Manual!Waiting, Manual!TypeOK
    <3>2. uCancel' = uCancel \/ uCancel' = [uCancel EXCEPT ![j] = TRUE]
          \/ uCancel' = [uCancel EXCEPT ![j] = FALSE]
      BY <1>1 DEF Manual!Enqueue, Manual!RequestCancel, Manual!Retry
    <3>3. uUpsets' = uUpsets \/ (uUpsets < MaxUpsets /\ uUpsets' = uUpsets + 1)
      BY <1>1 DEF Manual!Enqueue, Manual!RequestCancel, Manual!Retry, Manual!Request,
         Manual!Upset
    <3>4. uUpsets \in 0..MaxUpsets /\ MaxUpsets \in Nat /\ uCancel \in [Requests -> BOOLEAN]
      BY DEF Manual!TypeOK, Manual!BatchAssumption
    <3>5. uUpsets' \in 0..MaxUpsets
      BY <3>3, <3>4
    <3> QED
      BY <3>1, <3>2, <3>4, <3>5
  <2>3. ManualWorld
    BY <2>1, <2>2 DEF ManualWorld, Manual!TypeOK, Manual!worker
  <2>4. Manual!TypeOK'
    BY <2>1, <2>2 DEF Manual!TypeOK, Manual!projected, Manual!ledger, Manual!worker
  <2> QED
    BY <2>3, <2>4, ManualWorldKeeps
<1>2. ASSUME ManualTrains PROVE ManualInv'
  <2>1. /\ UNCHANGED <<uJob, uCancel, uDeadline, uDispatched, uCall, uResult, uVerified>>
        /\ UNCHANGED <<Manual!projected, uReceipt, Manual!ledger, Manual!worker>>
        /\ Manual!Upset \/ UNCHANGED uUpsets
    BY <1>2 DEF ManualTrains, Manual!TrainingAccepts, Manual!TrainingStarts,
       Manual!TrainingPromotes, Manual!TrainingEnds, Manual!TrainingIsInterrupted,
       Manual!RetryTraining, Manual!PutManifest, Manual!Trains, Manual!queue, Manual!evidence
  <2>2. /\ uTraining' \in {"active", "ended", "retried"} /\ uRetries' \in Nat
        /\ uLease' \in {"none", "training", "job"}
        /\ uTrained' \subseteq Manual!Checkpoints
        /\ uPromotion' = uPromotion \/ (uPromotion = None /\ uPromotion' \in Manual!Promotions)
    <3>1. uTrained # {} => Manual!Min(uTrained) \in Manual!Checkpoints
      <4>1. uTrained \in SUBSET Nat
        BY DEF Manual!TypeOK, Manual!Checkpoints, Manual!BatchAssumption
      <4> QED
        BY <4>1, LeastIs DEF Manual!TypeOK
    <3> QED
      BY <1>2, <3>1 DEF ManualTrains, Manual!TrainingAccepts, Manual!TrainingStarts,
         Manual!TrainingPromotes, Manual!TrainingEnds, Manual!TrainingIsInterrupted,
         Manual!RetryTraining, Manual!PutManifest, Manual!Trains, Manual!TypeOK,
         Manual!Promotions
  <2>3. ManualWorld
    BY <2>1, <2>2 DEF ManualWorld, Manual!worker
  <2>4. uUpsets' \in 0..MaxUpsets
    BY <2>1, ManualUpsetIs
  <2>5. Manual!TypeOK'
    BY <2>1, <2>2, <2>4 DEF Manual!TypeOK, Manual!projected, Manual!ledger, Manual!worker
  <2> QED
    BY <2>3, <2>5, ManualWorldKeeps
<1>3. ASSUME NEW c \in Manual!Checkpoints, NEW a \in Manual!Attempts,
             Manual!AttemptExpires(c, a) \/ \E v \in WorkerVerdicts : Manual!Upload(c, a, v)
      PROVE  ManualInv'
  <2>1. /\ UNCHANGED <<uJob, uCancel, uTraining, uRetries, uLease, uTrained, uPromotion, uDispatched, uVerified>>
        /\ UNCHANGED <<Manual!projected, uReceipt, Manual!ledger, Manual!worker, uUpsets>>
    BY <1>3 DEF Manual!AttemptExpires, Manual!Upload, Manual!queue, Manual!run
  <2>2. uDeadline' = uDeadline \/ (uDeadline[c][a] = "live"
        /\ uDeadline' = [uDeadline EXCEPT ![c][a] = "late"])
    BY <1>3 DEF Manual!AttemptExpires, Manual!Upload
  <2>3. /\ uCall' = uCall \/ uCall' = [uCall EXCEPT ![c][a] = "ended"]
        /\ \/ uResult' = uResult
           \/ \E v \in WorkerVerdicts : uResult' = [uResult EXCEPT ![c] = [attempt |-> a, verdict |-> v]]
    BY <1>3 DEF Manual!AttemptExpires, Manual!Upload
  <2>4. /\ uDeadline' \in [Manual!Checkpoints -> [Manual!Attempts -> {"none", "live", "late"}]]
        /\ \A d \in Manual!Checkpoints,
             b \in Manual!Attempts : uDeadline'[d][b] # "none" <=> uDeadline[d][b] # "none"
    <3>1. uDeadline \in [Manual!Checkpoints -> [Manual!Attempts -> {"none", "live", "late"}]]
      BY DEF Manual!TypeOK
    <3>2. CASE uDeadline' = uDeadline
      BY <3>1, <3>2
    <3>3. CASE uDeadline[c][a] = "live" /\ uDeadline' = [uDeadline EXCEPT ![c][a] = "late"]
      <4>1. uDeadline' \in [Manual!Checkpoints -> [Manual!Attempts -> {"none", "live", "late"}]]
        BY <3>1, <3>3
      <4>2. \A d \in Manual!Checkpoints, b \in Manual!Attempts :
              uDeadline'[d][b] = IF d = c /\ b = a THEN "late" ELSE uDeadline[d][b]
        BY <3>1, <3>3
      <4> QED
        BY <3>3, <4>1, <4>2
    <3> QED
      BY <2>2, <3>2, <3>3
  <2>5. /\ uCall' \in [Manual!Checkpoints -> [Manual!Attempts -> {"none", "called", "ended"}]]
        /\ uResult' \in [Manual!Checkpoints -> {None} \cup [attempt : Manual!Attempts, verdict : WorkerVerdicts]]
        /\ \A d \in Manual!Checkpoints : uResult[d] # None => uResult'[d] # None
    <3>1. uCall' \in [Manual!Checkpoints -> [Manual!Attempts -> {"none", "called", "ended"}]]
      <4>1. uCall \in [Manual!Checkpoints -> [Manual!Attempts -> {"none", "called", "ended"}]]
        BY DEF Manual!TypeOK
      <4> QED
        BY <2>3, <4>1
    <3>2. uResult \in [Manual!Checkpoints -> {None} \cup [attempt : Manual!Attempts, verdict : WorkerVerdicts]]
      BY DEF Manual!TypeOK
    <3>3. ASSUME NEW v \in WorkerVerdicts,
                 uResult' = [uResult EXCEPT ![c] = [attempt |-> a, verdict |-> v]]
          PROVE  /\ uResult' \in [Manual!Checkpoints -> {None} \cup [attempt : Manual!Attempts, verdict : WorkerVerdicts]]
                 /\ \A d \in Manual!Checkpoints : uResult[d] # None => uResult'[d] # None
      <4> DEFINE R == [attempt : Manual!Attempts, verdict : WorkerVerdicts]
                 r == [attempt |-> a, verdict |-> v]
      <4>1. r \in R /\ r # None
        BY DEF Manual!BatchAssumption
      <4>2. uResult \in [Manual!Checkpoints -> {None} \cup R]
            /\ uResult' = [uResult EXCEPT ![c] = r]
        BY <3>2, <3>3
      <4> HIDE DEF R, r
      <4>3. /\ uResult' \in [Manual!Checkpoints -> {None} \cup R]
            /\ \A d \in Manual!Checkpoints : uResult[d] # None => uResult'[d] # None
        BY <4>1, <4>2
      <4> QED
        BY <4>3 DEF R
    <3> QED
      BY <2>3, <3>1, <3>2, <3>3
  <2>6. ManualWorld
    BY <2>1, <2>4, <2>5 DEF ManualWorld, Manual!worker
  <2>7. Manual!TypeOK'
    BY <2>1, <2>4, <2>5 DEF Manual!TypeOK, Manual!projected, Manual!ledger, Manual!worker
  <2> QED
    BY <2>6, <2>7, ManualWorldKeeps
<1>4. ASSUME Manual!LeaseExpires PROVE ManualInv'
  <2>1. /\ UNCHANGED <<uJob, uCancel, uUpsets, uTraining, uRetries, uTrained, uPromotion>>
        /\ UNCHANGED <<uDeadline, uDispatched, uCall, uResult, uVerified>>
        /\ UNCHANGED <<Manual!projected, uReceipt, Manual!ledger>> /\ uLease' = "none"
        /\ UNCHANGED <<uDoing, uStep, uTodo, uStatus, uCandidate>>
    BY <1>4 DEF Manual!LeaseExpires, Manual!queue, Manual!evidence
  <2>2. /\ uSeen'.cancel = uSeen.cancel
        /\ uSeen' \in [terminal : BOOLEAN, cancel : BOOLEAN, offset : Nat,
                       own : {"none", "live", "expired"}]
    BY <1>4 DEF Manual!LeaseExpires, Manual!TypeOK
  <2>3. ManualWorld
    BY <2>1, <2>2 DEF ManualWorld
  <2>4. Manual!TypeOK'
    BY <2>1, <2>2 DEF Manual!TypeOK, Manual!projected, Manual!ledger
  <2> QED
    BY <2>3, <2>4, ManualWorldKeeps
<1> QED
  BY <1>1, <1>2, <1>3, <1>4

-----------------------------------------------------------------------------
(* The advance ends.                                                       *)
LEMMA ManualEndKeeps ==
  ASSUME Manual!BatchAssumption, ManualInv,
         NEW outcome \in {"queued", "retry_wait", "blocked", "failed", "canceled", "succeeded"},
         uDoing # None, Manual!Finish(outcome), uUpsets' \in 0..MaxUpsets,
         UNCHANGED <<Manual!run, uPromotion, Manual!evidence, Manual!projected, uReceipt, Manual!ledger>>,
         outcome = "succeeded" => uStep = "finish" /\ Manual!Outcome = "succeeded"
  PROVE  ManualInv'
<1> USE DEF ManualInv
<1>1. /\ UNCHANGED <<uTraining, uRetries, uLease, uTrained, uPromotion, uDeadline, uDispatched, uCall, uResult, uVerified>>
      /\ UNCHANGED <<uJournal, uProjection, uPublished, uReceipt, uFrame, uNext, uHigh, uCancel>>
      /\ uDoing' = None /\ uStep' = "idle" /\ uTodo' = {} /\ uSeen' = Manual!Nobody
      /\ uStatus' = Manual!NoStatus /\ uCandidate' = None
           /\ uJob' = [uJob EXCEPT ![uDoing] = outcome]
  BY DEF Manual!Finish, Manual!run, Manual!evidence, Manual!projected, Manual!ledger
<1>2. uDoing \in Requests /\ uJob[uDoing] = "running"
  BY DEF Manual!TypeOK
<1>3. Manual!TypeOK'
  BY <1>1, <1>2 DEF Manual!TypeOK, Manual!Nobody, Manual!NoStatus, Manual!Statuses,
     Manual!Steps
<1>4. ManualStays
  BY <1>1 DEF ManualStays
<1>5. ManualBacked'
  BY <1>1, <1>4, ManualBackedStays DEF Manual!NoStatus
<1>6. ManualCounted'
  BY <1>1, ManualCountedStays DEF ManualProjecting, Manual!ledger
<1>7. ManualPlaced'
  BY <1>1 DEF ManualPlaced, ManualLooking, ManualProjecting
<1>8. ManualChosen'
  BY <1>1 DEF ManualChosen, ManualPromoted
<1>9. Manual!SuccessIsBacked'
  <2>1. CASE outcome # "succeeded"
    BY <1>1, <1>2, <1>4, <2>1, ManualSuccessStays DEF Manual!TypeOK
  <2>2. CASE outcome = "succeeded"
    <3>1. uStep = "finish" /\ Manual!Outcome = "succeeded"
      BY <2>2
    <3>2. /\ uReceipt[uDoing] # None /\ uReceipt[uDoing].state = "succeeded"
          /\ ~uSeen.cancel
               /\ \A c \in RequestBatch[uDoing] : uStatus[c] \in {"accepted", "rejected"}
      <4>1. uReceipt[uDoing] = Manual!Terminal /\ (~uSeen.cancel
            => \A c \in RequestBatch[uDoing] : uStatus[c] \in Manual!Settled)
        BY <3>1 DEF ManualChosen, ManualPromoted
      <4>2. ~uSeen.cancel
            /\ ~\E c \in RequestBatch[uDoing] : uStatus[c] \in {"failed", "expired"}
        BY <3>1 DEF Manual!Outcome
      <4>3. Manual!Terminal \in Manual!Receipts
        BY <3>1 DEF Manual!Terminal, Manual!Receipts, Manual!TypeOK
      <4> QED
        BY <3>1, <4>1, <4>2, <4>3 DEF Manual!Terminal, Manual!Settled,
           Manual!BatchAssumption
    <3>3. \A c \in RequestBatch[uDoing] :
            /\ uVerified[c] \in {"accepted", "rejected"}
            /\ c \in uPublished /\ \E e \in uJournal : e.event = c
      BY <1>2, <3>2 DEF ManualBacked, ManualShown, ManualInJournal, Manual!Checkpoints
    <3>4. \A c \in RequestBatch[uDoing] : uVerified[c] = "accepted" => uPromotion # None
          /\ uPromotion.checkpoint <= c
      BY <1>2, <3>1 DEF ManualChosen, ManualPromoted, Manual!Checkpoints
    <3>5. \A j \in Requests : uJob'[j] = "succeeded" => j = uDoing \/ uJob[j] = "succeeded"
      BY <1>1, <1>2 DEF Manual!TypeOK
    <3> QED
      BY <1>1, <3>2, <3>3, <3>4, <3>5 DEF Manual!SuccessIsBacked
  <2> QED
    BY <2>1, <2>2
<1> QED
  BY <1>3, <1>5, <1>6, <1>7, <1>8, <1>9

-----------------------------------------------------------------------------
(* The worker reports the status of the Checkpoint it looks at.            *)
LEMMA ManualReportKeeps ==
  ASSUME Manual!BatchAssumption, ManualInv, uStep \in ManualLooking, NEW s \in Manual!Statuses,
         Manual!Report(s), NEW n \in Nat,
         s \in {"accepted", "rejected", "failed"} => uVerified[Manual!at] = s
             /\ ManualShown(Manual!at),
         uProjection' = uProjection \/ (ManualShown(Manual!at)
             /\ uProjection' = [uProjection EXCEPT ![Manual!at] = n]),
         UNCHANGED <<Manual!queue, Manual!run, uPromotion, uDeadline, uResult, uVerified, uJournal, uPublished, uReceipt, Manual!ledger>>,
         uUpsets' \in 0..MaxUpsets,
             uDispatched' \subseteq Manual!Checkpoints \X Manual!Attempts,
         uCall' \in [Manual!Checkpoints -> [Manual!Attempts -> {"none", "called", "ended"}]]
  PROVE  ManualInv'
<1> USE DEF ManualInv
<1>1. uDoing \in Requests /\ Manual!at \in uTodo /\ Manual!at \in RequestBatch[uDoing]
      /\ Manual!at \in Manual!Checkpoints
  BY ManualAt
<1>2. /\ UNCHANGED <<uJob, uCancel, uTraining, uRetries, uLease, uTrained, uPromotion, uDeadline, uResult, uVerified, uJournal>>
      /\ UNCHANGED <<uPublished, uReceipt, uFrame, uNext, uHigh, uDoing, uSeen, uCandidate>>
      /\ uStatus' = [uStatus EXCEPT ![Manual!at] = s] /\ uTodo' = uTodo \ {Manual!at}
      /\ uStep' = IF uTodo = {Manual!at} THEN "settle" ELSE "look"
  BY DEF Manual!Report, Manual!queue, Manual!run, Manual!ledger
<1>3. uStatus' \in [Manual!Checkpoints -> Manual!Statuses]
      /\ \A c \in Manual!Checkpoints : uStatus'[c] = IF c = Manual!at THEN s ELSE uStatus[c]
  BY <1>1, <1>2 DEF Manual!TypeOK
<1>4. uProjection \in [Manual!Checkpoints -> Nat]
  BY DEF Manual!TypeOK
<1>5. /\ uProjection' \in [Manual!Checkpoints -> Nat]
      /\ \A c \in Manual!Checkpoints : uProjection'[c] = uProjection[c] \/ (uProjection'[c] = n
           /\ ManualShown(c))
  BY <1>1, <1>4
<1>6. Manual!TypeOK'
  BY <1>2, <1>3, <1>5 DEF Manual!TypeOK, Manual!Steps
<1>7. ManualBacked'
  <2>1. \A c \in Manual!Checkpoints : ManualShown(c)' <=> ManualShown(c)
    BY <1>2 DEF ManualShown, ManualInJournal
  <2>2. \A c \in Manual!Checkpoints : uProjection'[c] # 0 => ManualShown(c)'
    BY <1>5, <2>1 DEF ManualBacked
  <2>3. \A c \in Manual!Checkpoints : uStatus'[c] \in {"accepted", "rejected", "failed"} =>
          uVerified'[c] = uStatus'[c] /\ ManualShown(c)'
    BY <1>2, <1>3, <2>1 DEF ManualBacked
  <2>4. PICK m \in Nat : \A c \in Manual!Checkpoints : uProjection[c] <= m
    BY DEF ManualBacked
  <2>5. m + n \in Nat /\ \A c \in Manual!Checkpoints : uProjection'[c] <= m + n
    BY <1>4, <1>5, <2>4
  <2> QED
    BY <2>2, <2>3, <2>5 DEF ManualBacked
<1>8. ManualCounted'
  BY <1>2, ManualCountedStays DEF ManualProjecting
<1>9. ManualPlaced'
  BY <1>1, <1>2 DEF ManualPlaced, ManualLooking, ManualProjecting
<1>10. ManualChosen'
  BY <1>2 DEF ManualChosen, ManualPromoted, ManualLooking, ManualProjecting
<1>11. Manual!SuccessIsBacked'
  BY <1>2, ManualSuccessStays DEF ManualStays
<1> QED
  BY <1>6, <1>7, <1>8, <1>9, <1>10, <1>11

(* The worker moves on with the Checkpoint.                                *)
LEMMA ManualMoveKeeps ==
  ASSUME Manual!BatchAssumption, ManualInv,
         uStep \in ManualLooking \cup {"admit", "lease"},
         uStep' \in ManualLooking \cup {"lease"},
         UNCHANGED <<uJob, uDoing, uTodo, uStatus, uCandidate, uProjection>>,
         ManualStays, Manual!TypeOK', ManualCounted',
         uStep' = "verify" => uVerified'[Manual!at] = None /\ uResult'[Manual!at] # None,
         uStep' \in ManualProjecting \cup {"terminal"} => uVerified'[Manual!at] # None,
         uStep' = "prepare" => Manual!Latest(Manual!at)' < EvaluationAttempts,
         uStep' \in {"submit", "dispatch"}
             => \E a \in Manual!Attempts : uDeadline'[Manual!at][a] # "none"
  PROVE  ManualInv'
<1> USE DEF ManualInv
<1>1. Manual!at' = Manual!at
  BY DEF Manual!at
<1>2. ManualBacked'
  BY ManualBackedStays
<1>3. ManualPlaced'
  BY <1>1 DEF ManualPlaced, ManualLooking, ManualProjecting
<1>4. ManualChosen'
  BY DEF ManualChosen, ManualPromoted, ManualLooking, ManualProjecting
<1>5. Manual!SuccessIsBacked'
  BY ManualSuccessStays
<1> QED
  BY <1>2, <1>3, <1>4, <1>5

LEMMA ManualClaims ==
  ASSUME Manual!BatchAssumption, ManualInv, NEW j \in Requests, Manual!Claim(j)
  PROVE  ManualInv'
<1> USE DEF ManualInv
<1>1. /\ UNCHANGED <<uTraining, uRetries, uLease, uTrained, uPromotion, uDeadline, uDispatched, uCall, uResult, uVerified, uCancel>>
      /\ UNCHANGED <<uJournal, uProjection, uPublished, uReceipt, uFrame, uNext, uHigh, uStatus, uCandidate, uUpsets>>
      /\ uDoing = None /\ uDoing' = j /\ uStep' = "admit" /\ uTodo' = RequestBatch[j]
      /\ uSeen' = [Manual!Nobody EXCEPT !.cancel = uCancel[j]]
      /\ uJob' = [uJob EXCEPT ![j] = "running"]
  BY DEF Manual!Claim, Manual!run, Manual!evidence, Manual!projected, Manual!ledger
<1>2. uTodo' # {} /\ uTodo' \subseteq Manual!Checkpoints /\ j # None
  BY <1>1 DEF Manual!BatchAssumption, Manual!Checkpoints
<1>3. uSeen' \in [terminal : BOOLEAN, cancel : BOOLEAN, offset : Nat,
                  own : {"none", "live", "expired"}]
  BY <1>1 DEF Manual!Nobody, Manual!TypeOK
<1>4. Manual!TypeOK'
  BY <1>1, <1>2, <1>3 DEF Manual!TypeOK, Manual!Steps
<1>5. uStep = "idle" /\ uCandidate = None
  BY <1>1 DEF ManualPlaced, ManualChosen, ManualPromoted
<1>6. ManualStays
  BY <1>1 DEF ManualStays
<1>7. ManualBacked'
  BY <1>1, <1>6, ManualBackedStays
<1>8. ManualCounted'
  BY <1>1, ManualCountedStays DEF ManualProjecting, Manual!ledger
<1>9. ManualPlaced'
  BY <1>1, <1>2 DEF ManualPlaced, ManualLooking, ManualProjecting
<1>10. ManualChosen'
  BY <1>1, <1>5 DEF ManualChosen, ManualPromoted
<1>11. Manual!SuccessIsBacked'
  <2>1. \A k \in Requests : uJob'[k] = "succeeded" => uJob[k] = "succeeded"
    BY <1>1 DEF Manual!TypeOK
  <2> QED
    BY <1>6, <2>1, ManualSuccessStays
<1> QED
  BY <1>4, <1>7, <1>8, <1>9, <1>10, <1>11

LEMMA ManualAdmits == ASSUME Manual!BatchAssumption, ManualInv, Manual!Admit PROVE ManualInv'
<1> USE DEF ManualInv
<1>1. /\ UNCHANGED <<uTraining, uRetries, uLease, uTrained, uPromotion, uDeadline, uDispatched, uCall, uResult, uVerified, uCancel>>
      /\ UNCHANGED <<uJournal, uProjection, uPublished, uReceipt, uFrame, uNext, uHigh, uStatus, uCandidate, uUpsets>>
      /\ UNCHANGED <<uJob, uDoing, uTodo>> /\ uStep = "admit" /\ uStep' \in {"look", "lease"}
      /\ uSeen' = [uSeen EXCEPT !.terminal = uTraining # "active"]
  BY DEF Manual!Admit, Manual!At, Manual!KeepQueue, Manual!queue, Manual!run, Manual!evidence,
     Manual!projected, Manual!ledger
<1>2. Manual!TypeOK'
  BY <1>1 DEF Manual!TypeOK, Manual!Steps
<1>3. ManualStays
  BY <1>1 DEF ManualStays
<1>4. ManualCounted'
  BY <1>1, ManualCountedStays DEF ManualProjecting, Manual!ledger
<1> QED
  BY <1>1, <1>2, <1>3, <1>4, ManualMoveKeeps DEF ManualLooking, ManualProjecting

LEMMA ManualLeases ==
  ASSUME Manual!BatchAssumption, ManualInv, Manual!TakeLease PROVE ManualInv'
<1> USE DEF ManualInv
<1> DEFINE Marks == {uProjection[c] : c \in Manual!Checkpoints}
           offset == Manual!Max(Marks)
<1>1. /\ UNCHANGED <<uTraining, uRetries, uTrained, uPromotion, uDeadline, uDispatched, uCall, uResult, uVerified, uCancel>>
      /\ UNCHANGED <<uJournal, uProjection, uPublished, uReceipt, uFrame, uNext, uHigh, uStatus, uCandidate, uUpsets>>
      /\ UNCHANGED <<uJob, uDoing, uTodo>> /\ uStep = "lease" /\ uStep' = "look"
      /\ uLease' = "job"
      /\ uSeen' = [[uSeen EXCEPT !.offset = offset] EXCEPT !.own = "live"]
  BY DEF Manual!TakeLease, Manual!Leases, Manual!At, Manual!KeepQueue, Manual!queue,
     Manual!evidence, Manual!projected, Manual!ledger
<1>2. offset \in Nat
  <2>1. PICK n \in Nat : \A c \in Manual!Checkpoints : uProjection[c] <= n
    BY DEF ManualBacked
  <2>2. Marks \in SUBSET Nat /\ \A x \in Marks : x <= n
    BY <2>1 DEF Manual!TypeOK
  <2>3. Marks # {}
    BY <1>1, ManualAt
  <2> QED
    BY <2>2, <2>3, GreatestIs
<1> HIDE DEF offset
<1>3. uSeen' \in [terminal : BOOLEAN, cancel : BOOLEAN, offset : Nat,
                  own : {"none", "live", "expired"}] /\ uSeen'.cancel = uSeen.cancel
  BY <1>1, <1>2 DEF Manual!TypeOK
<1>4. Manual!TypeOK'
  BY <1>1, <1>3 DEF Manual!TypeOK, Manual!Steps
<1>5. ManualStays
  BY <1>1 DEF ManualStays
<1>6. ManualCounted'
  BY <1>1, ManualCountedStays DEF ManualProjecting, Manual!ledger
<1> QED
  BY <1>1, <1>4, <1>5, <1>6, ManualMoveKeeps DEF ManualLooking, ManualProjecting

LEMMA ManualWaits ==
  ASSUME Manual!BatchAssumption, ManualInv, Manual!LeaseIsTaken PROVE ManualInv'
<1> USE DEF ManualInv
<1>1. CASE Manual!At("lease") /\ Manual!Finish("retry_wait")
  <2>1. uDoing # None /\ UNCHANGED uUpsets
        /\ UNCHANGED <<Manual!run, uPromotion, Manual!evidence, Manual!projected, uReceipt, Manual!ledger>>
    BY <1>1 DEF Manual!LeaseIsTaken, Manual!At, ManualPlaced
  <2> QED
    BY <1>1, <2>1, ManualUpsetIs, ManualEndKeeps
<1>2. CASE Manual!At("append") /\ Manual!Report("awaiting") /\ UNCHANGED Manual!queue
  <2>1. /\ UNCHANGED <<Manual!queue, Manual!run, uPromotion, uDeadline, uResult, uVerified, uJournal, uPublished, uReceipt, Manual!ledger>>
        /\ UNCHANGED <<uDispatched, uCall, uProjection, uUpsets>> /\ uStep \in ManualLooking
    BY <1>2 DEF Manual!LeaseIsTaken, Manual!At, Manual!evidence, Manual!projected,
       ManualLooking, ManualProjecting
  <2>2. uDispatched' \subseteq Manual!Checkpoints \X Manual!Attempts /\ uUpsets' \in 0..MaxUpsets
        /\ uCall' \in [Manual!Checkpoints -> [Manual!Attempts -> {"none", "called", "ended"}]]
    BY <2>1 DEF Manual!TypeOK
  <2>3. "awaiting" \in Manual!Statuses /\ 0 \in Nat
    BY DEF Manual!Statuses
  <2> QED
    BY <1>2, <2>1, <2>2, <2>3, ManualReportKeeps
<1> QED
  BY <1>1, <1>2 DEF Manual!LeaseIsTaken

LEMMA ManualLooks == ASSUME Manual!BatchAssumption, ManualInv, Manual!Look PROVE ManualInv'
<1> USE DEF ManualInv
<1>1. /\ UNCHANGED <<Manual!queue, Manual!run, uPromotion, uDeadline, uResult, uVerified, uJournal, uPublished, uReceipt, Manual!ledger>>
      /\ UNCHANGED <<uDispatched, uCall, uProjection, uUpsets>>
      /\ uStep = "look"
  BY DEF Manual!Look, Manual!At, Manual!KeepQueue, Manual!queue, Manual!evidence,
     Manual!projected
<1>2. /\ UNCHANGED <<uJob, uCancel, uTraining, uRetries, uLease, uTrained, uPromotion, uDeadline, uDispatched, uCall, uResult, uVerified>>
      /\ UNCHANGED <<uJournal, uProjection, uPublished, uReceipt, uFrame, uNext, uHigh, uUpsets>>
  BY <1>1 DEF Manual!queue, Manual!run, Manual!ledger
<1>3. Manual!Latest(Manual!at) \in 0..EvaluationAttempts /\ EvaluationAttempts \in Nat
  BY ManualLatest DEF Manual!BatchAssumption
<1>4. \/ \E s \in {"submitted", "queued", "uncertain", "expired"} : Manual!Report(s)
      \/ /\ UNCHANGED uStatus
         /\ \/ uVerified[Manual!at] # None /\ Manual!GoTo("terminal")
            \/ uVerified[Manual!at] = None /\ uResult[Manual!at] # None /\ Manual!GoTo("verify")
            \/ Manual!Latest(Manual!at) # EvaluationAttempts /\ Manual!GoTo("prepare")
  BY DEF Manual!Look
<1>5. ASSUME NEW s \in {"submitted", "queued", "uncertain", "expired"},
             Manual!Report(s) PROVE ManualInv'
  <2>1. s \in Manual!Statuses /\ s \notin {"accepted", "rejected", "failed"}
    BY DEF Manual!Statuses, Manual!Settled
  <2>2. uDispatched' \subseteq Manual!Checkpoints \X Manual!Attempts
        /\ uUpsets' \in 0..MaxUpsets
        /\ uCall' \in [Manual!Checkpoints -> [Manual!Attempts -> {"none", "called", "ended"}]]
    BY <1>2 DEF Manual!TypeOK
  <2>3. uStep \in ManualLooking /\ 0 \in Nat
    BY <1>1 DEF ManualLooking
  <2> QED
    BY <1>1, <1>5, <2>1, <2>2, <2>3, ManualReportKeeps
<1>6. ASSUME UNCHANGED uStatus,
             \/ uVerified[Manual!at] # None /\ Manual!GoTo("terminal")
             \/ uVerified[Manual!at] = None /\ uResult[Manual!at] # None
                  /\ Manual!GoTo("verify")
             \/ Manual!Latest(Manual!at) # EvaluationAttempts /\ Manual!GoTo("prepare")
      PROVE  ManualInv'
  <2>1. UNCHANGED <<uDoing, uTodo, uSeen, uCandidate, uStatus>>
        /\ uStep' \in {"terminal", "verify", "prepare"}
    BY <1>6 DEF Manual!GoTo
  <2>2. Manual!TypeOK'
    BY <1>2, <2>1 DEF Manual!TypeOK, Manual!Steps
  <2>3. ManualStays
    BY <1>2 DEF ManualStays
  <2>4. ManualCounted'
    BY <1>2, <2>1, ManualCountedStays DEF ManualProjecting, Manual!ledger
  <2>5. Manual!at' = Manual!at /\ Manual!Latest(Manual!at)' = Manual!Latest(Manual!at)
    BY <1>2, <2>1 DEF Manual!at, Manual!Latest
  <2>6. /\ uStep' = "verify" => uVerified'[Manual!at] = None /\ uResult'[Manual!at] # None
        /\ uStep' = "terminal" => uVerified'[Manual!at] # None
        /\ uStep' = "prepare" => Manual!Latest(Manual!at)' < EvaluationAttempts
    BY <1>2, <1>3, <1>6, <2>5 DEF Manual!GoTo
  <2> QED
    BY <1>1, <1>2, <2>1, <2>2, <2>3, <2>4, <2>6, ManualMoveKeeps DEF ManualLooking,
       ManualProjecting
<1> QED
  BY <1>4, <1>5, <1>6

LEMMA ManualVerifies == ASSUME Manual!BatchAssumption, ManualInv, Manual!Verify PROVE ManualInv'
<1> USE DEF ManualInv
<1>1. /\ uDoing \in Requests /\ Manual!at \in uTodo /\ Manual!at \in RequestBatch[uDoing]
           /\ Manual!at \in Manual!Checkpoints
      /\ uStep = "verify" /\ uStep \in ManualLooking /\ uDoing # None
  BY ManualAt DEF Manual!Verify, Manual!At, ManualLooking, ManualPlaced
<1>2. CASE uResult[Manual!at].attempt = Manual!Latest(Manual!at)
  <2>1. /\ UNCHANGED <<uJob, uCancel, uTraining, uRetries, uLease, uTrained, uPromotion, uDeadline, uDispatched, uCall, uResult>>
        /\ UNCHANGED <<uJournal, uProjection, uPublished, uReceipt, uFrame, uNext, uHigh, uUpsets>>
        /\ UNCHANGED <<uDoing, uTodo, uSeen, uCandidate, uStatus>> /\ uStep' = "terminal"
        /\ uVerified' = [uVerified EXCEPT ![Manual!at] = uResult[Manual!at].verdict]
    BY <1>2 DEF Manual!Verify, Manual!GoTo, Manual!queue, Manual!run, Manual!projected,
       Manual!ledger
  <2>2. uVerified[Manual!at] = None /\ uResult[Manual!at] # None
    BY <1>1 DEF ManualPlaced
  <2>3. uResult[Manual!at].verdict \in WorkerVerdicts /\ uResult[Manual!at].verdict # None
    <3>1. uResult[Manual!at] \in [attempt : Manual!Attempts, verdict : WorkerVerdicts]
      BY <1>1, <2>2 DEF Manual!TypeOK
    <3>2. \A v \in WorkerVerdicts : v # None
      BY DEF Manual!BatchAssumption, Manual!Statuses, Manual!Settled
    <3> QED
      BY <3>1, <3>2
  <2>4. /\ uVerified' \in [Manual!Checkpoints -> {None} \cup WorkerVerdicts]
        /\ uVerified'[Manual!at] # None
        /\ \A c \in Manual!Checkpoints : uVerified[c] # None => uVerified'[c] = uVerified[c]
    <3>1. uVerified \in [Manual!Checkpoints -> {None} \cup WorkerVerdicts]
      BY DEF Manual!TypeOK
    <3> QED
      BY <1>1, <2>1, <2>2, <2>3, <3>1
  <2>5. Manual!TypeOK'
    BY <2>1, <2>4 DEF Manual!TypeOK, Manual!Steps
  <2>6. ManualStays
    BY <2>1, <2>4 DEF ManualStays
  <2>7. ManualCounted'
    BY <2>1, ManualCountedStays DEF ManualProjecting, Manual!ledger
  <2> QED
    BY <1>1, <2>1, <2>4, <2>5, <2>6, <2>7, ManualMoveKeeps DEF ManualLooking,
       ManualProjecting
<1>3. CASE uResult[Manual!at].attempt # Manual!Latest(Manual!at)
  <2>1. Manual!Finish("failed") /\ UNCHANGED uUpsets
        /\ UNCHANGED <<Manual!run, uPromotion, Manual!evidence, Manual!projected, uReceipt, Manual!ledger>>
    BY <1>3 DEF Manual!Verify, Manual!evidence
  <2> QED
    BY <1>1, <2>1, ManualUpsetIs, ManualEndKeeps
<1> QED
  BY <1>2, <1>3

LEMMA ManualPrepares ==
  ASSUME Manual!BatchAssumption, ManualInv, Manual!Prepare
  PROVE  ManualInv'
<1> USE DEF ManualInv
<1>1. /\ uDoing \in Requests /\ Manual!at \in uTodo /\ Manual!at \in RequestBatch[uDoing]
           /\ Manual!at \in Manual!Checkpoints
      /\ uStep = "prepare" /\ uStep \in ManualLooking
  BY ManualAt DEF Manual!Prepare, Manual!At, ManualLooking
<1>2. /\ UNCHANGED <<uJob, uCancel, uTraining, uRetries, uLease, uTrained, uPromotion, uDispatched, uCall, uResult, uVerified>>
      /\ UNCHANGED <<uJournal, uProjection, uPublished, uReceipt, uFrame, uNext, uHigh, uUpsets>>
      /\ UNCHANGED <<uDoing, uTodo, uSeen, uCandidate, uStatus>> /\ uStep' = "submit"
      /\ uDeadline' = [uDeadline EXCEPT ![Manual!at][Manual!Latest(Manual!at) + 1] = "live"]
  BY DEF Manual!Prepare, Manual!GoTo, Manual!KeepQueue, Manual!queue, Manual!run,
     Manual!projected, Manual!ledger
<1>3. Manual!Latest(Manual!at) + 1 \in Manual!Attempts
  <2>1. Manual!Latest(Manual!at) \in 0..EvaluationAttempts
        /\ Manual!Latest(Manual!at) < EvaluationAttempts /\ EvaluationAttempts \in Nat
    BY <1>1, ManualLatest DEF ManualPlaced, Manual!BatchAssumption
  <2> QED
    BY <2>1 DEF Manual!Attempts
<1>4. /\ uDeadline' \in [Manual!Checkpoints -> [Manual!Attempts -> {"none", "live", "late"}]]
      /\ uDeadline'[Manual!at][Manual!Latest(Manual!at) + 1] # "none"
  <2>1. uDeadline \in [Manual!Checkpoints -> [Manual!Attempts -> {"none", "live", "late"}]]
    BY DEF Manual!TypeOK
  <2>2. ASSUME NEW l \in Manual!Attempts,
               uDeadline' = [uDeadline EXCEPT ![Manual!at][l] = "live"]
        PROVE  /\ uDeadline' \in [Manual!Checkpoints -> [Manual!Attempts -> {"none", "live", "late"}]]
               /\ uDeadline'[Manual!at][l] # "none"
    BY <1>1, <2>1, <2>2
  <2> QED
    BY <1>2, <1>3, <2>2
<1>5. Manual!TypeOK'
  BY <1>2, <1>4 DEF Manual!TypeOK, Manual!Steps
<1>6. ManualStays
  BY <1>2 DEF ManualStays
<1>7. ManualCounted'
  BY <1>2, ManualCountedStays DEF ManualProjecting, Manual!ledger
<1>8. Manual!at' = Manual!at
  BY <1>2 DEF Manual!at
<1> QED
  BY <1>1, <1>2, <1>3, <1>4, <1>5, <1>6, <1>7, ManualMoveKeeps DEF ManualLooking,
     ManualProjecting

(* A call of the latest attempt.                                           *)
LEMMA ManualCallIs ==
  ASSUME Manual!TypeOK, uCall' = uCall
         \/ uCall' = [uCall EXCEPT ![Manual!at][Manual!Latest(Manual!at)] = "called"]
  PROVE  uCall' \in [Manual!Checkpoints -> [Manual!Attempts -> {"none", "called", "ended"}]]
<1>1. uCall \in [Manual!Checkpoints -> [Manual!Attempts -> {"none", "called", "ended"}]]
  BY DEF Manual!TypeOK
<1>2. ASSUME NEW l, NEW d, uCall' = [uCall EXCEPT ![d][l] = "called"]
      PROVE  uCall' \in [Manual!Checkpoints -> [Manual!Attempts -> {"none", "called", "ended"}]]
  BY <1>1, <1>2
<1> QED
  BY <1>1, <1>2

LEMMA ManualSubmits == ASSUME Manual!BatchAssumption, ManualInv, Manual!Submit PROVE ManualInv'
<1> USE DEF ManualInv
<1>1. /\ uDoing \in Requests /\ Manual!at \in uTodo /\ Manual!at \in RequestBatch[uDoing]
           /\ Manual!at \in Manual!Checkpoints
      /\ uStep = "submit" /\ uStep \in ManualLooking
  BY ManualAt DEF Manual!Submit, Manual!At, ManualLooking
<1>2. /\ UNCHANGED <<uJob, uCancel, uTraining, uRetries, uLease, uTrained, uPromotion, uDeadline, uDispatched, uResult, uVerified>>
      /\ UNCHANGED <<uJournal, uProjection, uPublished, uReceipt, uFrame, uNext, uHigh, uUpsets>>
      /\ UNCHANGED <<uDoing, uTodo, uSeen, uCandidate, uStatus>> /\ uStep' = "dispatch"
      /\ uCall' = [uCall EXCEPT ![Manual!at][Manual!Latest(Manual!at)] = "called"]
  BY DEF Manual!Submit, Manual!GoTo, Manual!KeepQueue, Manual!queue, Manual!run,
     Manual!projected, Manual!ledger
<1>3. uCall' \in [Manual!Checkpoints -> [Manual!Attempts -> {"none", "called", "ended"}]]
  BY <1>2, ManualCallIs
<1>4. Manual!TypeOK'
  BY <1>2, <1>3 DEF Manual!TypeOK, Manual!Steps
<1>5. ManualStays
  BY <1>2 DEF ManualStays
<1>6. ManualCounted'
  BY <1>2, ManualCountedStays DEF ManualProjecting, Manual!ledger
<1>7. \E a \in Manual!Attempts : uDeadline'[Manual!at][a] # "none"
  BY <1>1, <1>2 DEF ManualPlaced
<1> QED
  BY <1>1, <1>2, <1>4, <1>5, <1>6, <1>7, ManualMoveKeeps DEF ManualLooking,
     ManualProjecting

LEMMA ManualReports ==
  ASSUME Manual!BatchAssumption, ManualInv, Manual!SubmitFails \/ Manual!Dispatch
         \/ Manual!ProjectionFails
  PROVE  ManualInv'
<1> USE DEF ManualInv
<1>1. /\ UNCHANGED <<Manual!queue, Manual!run, uPromotion, uDeadline, uResult, uVerified, uJournal, uPublished, uReceipt, Manual!ledger>>
      /\ UNCHANGED uProjection
      /\ uStep \in ManualLooking
      /\ Manual!Report("uncertain") \/ Manual!Report("submitted") \/ Manual!Report("awaiting")
  BY DEF Manual!SubmitFails, Manual!Dispatch, Manual!ProjectionFails, Manual!At,
     Manual!KeepQueue, Manual!queue, Manual!evidence, Manual!projected, ManualLooking,
     ManualProjecting
<1>2. uDoing \in Requests /\ Manual!at \in uTodo /\ Manual!at \in RequestBatch[uDoing]
      /\ Manual!at \in Manual!Checkpoints
  BY <1>1, ManualAt
<1>3. uUpsets' \in 0..MaxUpsets
  BY ManualUpsetIs DEF Manual!SubmitFails, Manual!Dispatch, Manual!ProjectionFails,
     Manual!KeepQueue
<1>4. uDispatched' \subseteq Manual!Checkpoints \X Manual!Attempts
  <2>1. CASE Manual!SubmitFails \/ Manual!ProjectionFails
    BY <2>1 DEF Manual!SubmitFails, Manual!ProjectionFails, Manual!evidence, Manual!TypeOK
  <2>2. CASE Manual!Dispatch
    <3>1. PICK a \in Manual!Attempts : uDeadline[Manual!at][a] # "none"
      BY <2>2 DEF Manual!Dispatch, Manual!At, ManualPlaced
    <3>2. Manual!Latest(Manual!at) \in 0..EvaluationAttempts /\ a <= Manual!Latest(Manual!at)
          /\ EvaluationAttempts \in Nat
      BY <3>1, ManualLatest DEF Manual!BatchAssumption
    <3>3. Manual!Latest(Manual!at) \in Manual!Attempts
      BY <3>2 DEF Manual!Attempts
    <3> QED
      BY <1>2, <2>2, <3>3 DEF Manual!Dispatch, Manual!TypeOK
  <2> QED
    BY <2>1, <2>2
<1>5. uCall' \in [Manual!Checkpoints -> [Manual!Attempts -> {"none", "called", "ended"}]]
  BY ManualCallIs DEF Manual!SubmitFails, Manual!Dispatch, Manual!ProjectionFails,
     Manual!evidence
<1>6. ASSUME NEW s \in {"uncertain", "submitted", "awaiting"}, Manual!Report(s) PROVE ManualInv'
  <2>1. s \in Manual!Statuses /\ s \notin {"accepted", "rejected", "failed"} /\ 0 \in Nat
    BY DEF Manual!Statuses
  <2> QED
    BY <1>1, <1>3, <1>4, <1>5, <1>6, <2>1, ManualReportKeeps
<1> QED
  BY <1>1, <1>6

LEMMA ManualTerminals ==
  ASSUME Manual!BatchAssumption, ManualInv, Manual!TerminalStatus
  PROVE  ManualInv'
<1> USE DEF ManualInv
<1>1. /\ uDoing \in Requests /\ Manual!at \in uTodo /\ Manual!at \in RequestBatch[uDoing]
           /\ Manual!at \in Manual!Checkpoints
      /\ uStep = "terminal" /\ uStep \in ManualLooking
  BY ManualAt DEF Manual!TerminalStatus, Manual!At, ManualLooking
<1>2. /\ UNCHANGED <<Manual!queue, Manual!run, uPromotion, uDeadline, uResult, uVerified, uJournal, uPublished, uReceipt, Manual!ledger>>
      /\ UNCHANGED <<uDispatched, uCall, uProjection, uUpsets>>
      /\ \/ uProjection[Manual!at] # 0 /\ Manual!Report(uVerified[Manual!at])
         \/ Manual!Report("awaiting")
         \/ Manual!GoTo("append") /\ UNCHANGED uStatus
  BY DEF Manual!TerminalStatus, Manual!KeepQueue, Manual!queue, Manual!evidence,
     Manual!projected
<1>3. uVerified[Manual!at] \in WorkerVerdicts /\ uVerified[Manual!at] # None
  BY <1>1 DEF ManualPlaced, Manual!TypeOK
<1>4. uDispatched' \subseteq Manual!Checkpoints \X Manual!Attempts /\ uUpsets' \in 0..MaxUpsets
      /\ uCall' \in [Manual!Checkpoints -> [Manual!Attempts -> {"none", "called", "ended"}]]
  BY <1>2 DEF Manual!TypeOK
<1>5. CASE uProjection[Manual!at] # 0 /\ Manual!Report(uVerified[Manual!at])
  <2>1. ManualShown(Manual!at) /\ uVerified[Manual!at] \in Manual!Statuses /\ 0 \in Nat
    BY <1>1, <1>3, <1>5 DEF ManualBacked, Manual!Statuses, Manual!Settled,
       Manual!BatchAssumption
  <2> QED
    BY <1>1, <1>2, <1>4, <1>5, <2>1, ManualReportKeeps
<1>6. CASE Manual!Report("awaiting")
  <2>1. "awaiting" \in Manual!Statuses /\ 0 \in Nat
    BY DEF Manual!Statuses
  <2> QED
    BY <1>1, <1>2, <1>4, <1>6, <2>1, ManualReportKeeps
<1>7. CASE Manual!GoTo("append") /\ UNCHANGED uStatus
  <2>1. /\ UNCHANGED <<uJob, uCancel, uTraining, uRetries, uLease, uTrained, uPromotion, uDeadline, uDispatched, uCall, uResult, uVerified>>
        /\ UNCHANGED <<uJournal, uProjection, uPublished, uReceipt, uFrame, uNext, uHigh, uUpsets>>
        /\ UNCHANGED <<uDoing, uTodo, uSeen, uCandidate, uStatus>> /\ uStep' = "append"
    BY <1>2, <1>7 DEF Manual!GoTo, Manual!queue, Manual!run, Manual!ledger
  <2>2. Manual!TypeOK'
    BY <2>1 DEF Manual!TypeOK, Manual!Steps
  <2>3. ManualStays
    BY <2>1 DEF ManualStays
  <2>4. ManualCounted'
    BY <2>1, ManualCountedStays DEF ManualProjecting, Manual!ledger
  <2>5. uVerified'[Manual!at] # None
    BY <1>3, <2>1
  <2> QED
    BY <1>1, <2>1, <2>2, <2>3, <2>4, <2>5, ManualMoveKeeps DEF ManualLooking,
       ManualProjecting
<1> QED
  BY <1>2, <1>5, <1>6, <1>7

-----------------------------------------------------------------------------
(* The ledger of the job the worker advances.                              *)
LEMMA ManualFramesAre ==
  ASSUME Manual!BatchAssumption, ManualInv, uStep \in ManualProjecting \ {"append"}
  PROVE  /\ Manual!at \in Manual!Frames /\ Manual!Frames \subseteq RequestBatch[uDoing]
              /\ Manual!Frames \subseteq Manual!Checkpoints
         /\ Manual!Max({uFrame[c] : c \in Manual!Frames}) \in Nat
              /\ Manual!Max({uFrame[c] : c \in Manual!Frames}) < uNext[uDoing]
         /\ \A c \in Manual!Frames : uFrame[c] <= Manual!Max({uFrame[c1] : c1 \in Manual!Frames})
<1> USE DEF ManualInv
<1> DEFINE F == {uFrame[c] : c \in Manual!Frames}
<1>1. uDoing \in Requests /\ Manual!at \in RequestBatch[uDoing]
      /\ RequestBatch[uDoing] \subseteq Manual!Checkpoints
  BY ManualAt DEF ManualLooking, Manual!Checkpoints
<1>2. Manual!at \in Manual!Frames /\ Manual!Frames \subseteq RequestBatch[uDoing]
      /\ Manual!Frames \subseteq Manual!Checkpoints
  BY <1>1 DEF Manual!Frames, ManualCounted
<1>3. uNext[uDoing] \in Nat /\ \A c \in Manual!Frames : uFrame[c] \in Nat
      /\ uFrame[c] < uNext[uDoing]
  BY <1>1, <1>2 DEF ManualCounted, Manual!TypeOK
<1>4. F \in SUBSET Nat /\ F # {} /\ \A x \in F : x <= uNext[uDoing]
  BY <1>2, <1>3
<1>5. Manual!Max(F) \in F /\ \A x \in F : x <= Manual!Max(F)
  BY <1>3, <1>4, GreatestIs
<1> QED
  BY <1>2, <1>3, <1>5

LEMMA ManualAppends ==
  ASSUME Manual!BatchAssumption, ManualInv, Manual!AppendEvent
  PROVE  ManualInv'
<1> USE DEF ManualInv
<1>1. /\ uDoing \in Requests /\ Manual!at \in uTodo /\ Manual!at \in RequestBatch[uDoing]
           /\ Manual!at \in Manual!Checkpoints
      /\ uStep = "append" /\ uStep \in ManualLooking
  BY ManualAt DEF Manual!AppendEvent, Manual!At, ManualLooking, ManualProjecting
<1>2. /\ UNCHANGED <<uJob, uCancel, uTraining, uRetries, uTrained, uPromotion, uDeadline, uDispatched, uCall, uResult, uVerified>>
      /\ UNCHANGED <<uJournal, uProjection, uPublished, uReceipt, uHigh, uUpsets>>
      /\ UNCHANGED <<uDoing, uTodo, uCandidate, uStatus>> /\ uStep' = "seal"
      /\ uLease' = "job" /\ uSeen' = [uSeen EXCEPT !.own = "live"]
      /\ uFrame' = IF uFrame[Manual!at] = 0 THEN [uFrame EXCEPT ![Manual!at] = uNext[uDoing]] ELSE uFrame
      /\ uNext' = [uNext EXCEPT ![uDoing] = uNext[uDoing] + 1]
  BY DEF Manual!AppendEvent, Manual!Leases, Manual!KeepQueue, Manual!queue,
     Manual!evidence, Manual!projected
<1>3. /\ uFrame \in [Manual!Checkpoints -> Nat] /\ uNext \in [Requests -> Nat]
           /\ uHigh \in [Requests -> Nat]
      /\ \A j \in Requests : uHigh[j] < uNext[j]
      /\ \A j \in Requests : \A c \in RequestBatch[j] : c \in Manual!Checkpoints
           /\ uFrame[c] < uNext[j]
  BY DEF Manual!TypeOK, ManualCounted, Manual!Checkpoints
<1>4. uNext[uDoing] \in Nat \ {0} /\ uHigh[uDoing] < uNext[uDoing]
  BY <1>1, <1>3
<1>5. uNext' \in [Requests -> Nat]
      /\ \A j \in Requests : uNext'[j] = IF j = uDoing THEN uNext[j] + 1 ELSE uNext[j]
  BY <1>1, <1>2, <1>3
<1>6. /\ uFrame' \in [Manual!Checkpoints -> Nat]
      /\ \A c \in Manual!Checkpoints : uFrame'[c] = IF c = Manual!at
           /\ uFrame[c] = 0 THEN uNext[uDoing] ELSE uFrame[c]
  BY <1>1, <1>2, <1>3, <1>4
<1>7. Manual!TypeOK'
  BY <1>2, <1>5, <1>6 DEF Manual!TypeOK, Manual!Steps
<1>8. ManualStays
  BY <1>2 DEF ManualStays
<1>9. Manual!at' = Manual!at
  BY <1>2 DEF Manual!at
<1>10. ManualCounted'
  <2>1. \A j \in Requests : uHigh'[j] < uNext'[j]
    BY <1>2, <1>3, <1>5
  <2>2. ASSUME NEW j \in Requests, NEW c \in RequestBatch[j]
        PROVE  uFrame'[c] < uNext'[j] /\ (uFrame'[c] # 0 /\ uFrame'[c] <= uHigh'[j]
               => ManualInJournal(c)')
    <3>1. c \in Manual!Checkpoints /\ uFrame[c] < uNext[j] /\ uFrame[c] \in Nat
          /\ uNext[j] \in Nat
      BY <1>3
    <3>2. ManualInJournal(c)' <=> ManualInJournal(c)
      BY <1>2 DEF ManualInJournal
    <3>3. CASE uFrame'[c] = uFrame[c]
      <4>1. uFrame'[c] < uNext'[j]
        BY <1>5, <3>1, <3>3
      <4>2. uFrame[c] # 0 /\ uFrame[c] <= uHigh[j] => ManualInJournal(c)
        BY DEF ManualCounted
      <4> QED
        BY <1>2, <3>2, <3>3, <4>1, <4>2
    <3>4. CASE uFrame'[c] # uFrame[c]
      <4>1. c = Manual!at /\ uFrame'[c] = uNext[uDoing]
        BY <1>6, <3>1, <3>4
      <4>2. j = uDoing
        BY <1>1, <4>1 DEF Manual!BatchAssumption
      <4>3. uNext'[j] = uNext[uDoing] + 1 /\ uHigh'[j] = uHigh[uDoing] /\ uHigh[uDoing] \in Nat
        BY <1>2, <1>3, <1>5, <4>2
      <4> QED
        BY <1>4, <4>1, <4>3
    <3> QED
      BY <3>3, <3>4
  <2>3. uFrame'[Manual!at] # 0
    BY <1>1, <1>4, <1>6
  <2>4. uStep' = "seal" /\ Manual!at' = Manual!at
    BY <1>2, <1>9
  <2> QED
    BY <2>1, <2>2, <2>3, <2>4 DEF ManualCounted
<1>11. uVerified'[Manual!at] # None
  BY <1>1, <1>2 DEF ManualPlaced, ManualProjecting
<1> QED
  BY <1>1, <1>2, <1>7, <1>8, <1>10, <1>11, ManualMoveKeeps DEF ManualLooking,
     ManualProjecting

LEMMA ManualSeals ==
  ASSUME Manual!BatchAssumption, ManualInv, Manual!SealSegment
  PROVE  ManualInv'
<1> USE DEF ManualInv
<1>1. /\ uDoing \in Requests /\ Manual!at \in uTodo /\ Manual!at \in RequestBatch[uDoing]
           /\ Manual!at \in Manual!Checkpoints
      /\ uStep = "seal" /\ uStep \in ManualLooking
  BY ManualAt DEF Manual!SealSegment, Manual!At, ManualLooking, ManualProjecting
<1>2. /\ UNCHANGED <<uJob, uCancel, uTraining, uRetries, uLease, uTrained, uPromotion, uDeadline, uDispatched, uCall, uResult, uVerified>>
      /\ UNCHANGED <<uProjection, uPublished, uReceipt, uFrame, uNext, uHigh, uUpsets>>
      /\ UNCHANGED <<uDoing, uTodo, uSeen, uCandidate, uStatus>>
           /\ uStep' \in {"publish", "record"}
      /\ uJournal' = uJournal \cup {[seq |-> uSeen.offset + uFrame[c], event |-> c] : c \in Manual!Unsealed}
  BY DEF Manual!SealSegment, Manual!GoTo, Manual!KeepQueue, Manual!queue, Manual!run,
     Manual!evidence, Manual!ledger
<1>3. Manual!Unsealed \subseteq Manual!Frames /\ Manual!Frames \subseteq Manual!Checkpoints
  BY <1>1, ManualFramesAre DEF Manual!Unsealed, ManualProjecting
<1>4. \A e \in uJournal' : e.seq \in Nat \ {0} /\ e.event \in Manual!Checkpoints
  <2>1. \A c \in Manual!Unsealed : uFrame[c] \in Nat \ {0} /\ c \in Manual!Checkpoints
    BY <1>3 DEF Manual!Frames, Manual!TypeOK
  <2>2. uSeen.offset \in Nat
    BY DEF Manual!TypeOK
  <2>3. \A c \in Manual!Unsealed : uSeen.offset + uFrame[c] \in Nat \ {0}
        /\ c \in Manual!Checkpoints
    BY <2>1, <2>2
  <2>4. \A e \in uJournal : e.seq \in Nat \ {0} /\ e.event \in Manual!Checkpoints
    BY DEF Manual!TypeOK
  <2> QED
    BY <1>2, <2>3, <2>4
<1>5. Manual!TypeOK'
  BY <1>2, <1>4 DEF Manual!TypeOK, Manual!Steps
<1>6. ManualStays
  BY <1>2 DEF ManualStays
<1>7. ManualCounted'
  <2>1. \A c : ManualInJournal(c) => ManualInJournal(c)'
    BY <1>2 DEF ManualInJournal
  <2>2. ASSUME NEW c \in Manual!Unsealed PROVE ManualInJournal(c)'
    <3> DEFINE e == [seq |-> uSeen.offset + uFrame[c], event |-> c]
    <3>1. e \in uJournal' /\ e.event = c
      BY <1>2
    <3> HIDE DEF e
    <3> QED
      BY <3>1 DEF ManualInJournal
  <2>3. \A c \in Manual!Frames : ManualInJournal(c)'
    <3> SUFFICES ASSUME NEW c \in Manual!Frames,
                        c \notin Manual!Unsealed PROVE ManualInJournal(c)'
      BY <2>2
    <3>1. c \in RequestBatch[uDoing] /\ uFrame[c] # 0 /\ uFrame[c] \in Nat
          /\ uHigh[uDoing] \in Nat
      BY <1>1, <1>3 DEF Manual!Frames, Manual!TypeOK
    <3>2. uFrame[c] <= uHigh[uDoing]
      BY <3>1 DEF Manual!Unsealed
    <3> QED
      BY <1>1, <2>1, <3>1, <3>2 DEF ManualCounted
  <2>4. Manual!Frames' = Manual!Frames /\ Manual!at' = Manual!at
    BY <1>2 DEF Manual!Frames, Manual!at
  <2>5. uFrame[Manual!at] # 0
    BY <1>1 DEF ManualCounted, ManualProjecting
  <2>6. /\ \A j \in Requests : uHigh[j] < uNext[j]
        /\ \A j \in Requests : \A c \in RequestBatch[j] :
             uFrame[c] < uNext[j] /\ (uFrame[c] # 0 /\ uFrame[c] <= uHigh[j]
                 => ManualInJournal(c)')
    BY <2>1 DEF ManualCounted
  <2> QED
    BY <1>2, <2>3, <2>4, <2>5, <2>6 DEF ManualCounted
<1>8. uVerified'[Manual!at] # None
  BY <1>1, <1>2 DEF ManualPlaced, ManualProjecting
<1> QED
  BY <1>1, <1>2, <1>5, <1>6, <1>7, <1>8, ManualMoveKeeps DEF ManualLooking,
     ManualProjecting

LEMMA ManualRecords ==
  ASSUME Manual!BatchAssumption, ManualInv, Manual!RecordSegment
  PROVE  ManualInv'
<1> USE DEF ManualInv
<1> DEFINE top == Manual!Max({uFrame[c] : c \in Manual!Frames})
<1>1. /\ uDoing \in Requests /\ Manual!at \in uTodo /\ Manual!at \in RequestBatch[uDoing]
           /\ Manual!at \in Manual!Checkpoints
      /\ uStep = "record" /\ uStep \in ManualLooking
  BY ManualAt DEF Manual!RecordSegment, Manual!At, ManualLooking, ManualProjecting
<1>2. /\ UNCHANGED <<uJob, uCancel, uTraining, uRetries, uLease, uTrained, uPromotion, uDeadline, uDispatched, uCall, uResult, uVerified>>
      /\ UNCHANGED <<uJournal, uProjection, uPublished, uReceipt, uFrame, uNext, uUpsets>>
      /\ UNCHANGED <<uDoing, uTodo, uSeen, uCandidate, uStatus>> /\ uStep' = "publish"
      /\ uHigh' = [uHigh EXCEPT ![uDoing] = top]
  BY DEF Manual!RecordSegment, Manual!GoTo, Manual!KeepQueue, Manual!queue, Manual!run,
     Manual!evidence, Manual!projected
<1>3. top \in Nat /\ top < uNext[uDoing]
  BY <1>1, ManualFramesAre DEF ManualProjecting
<1> HIDE DEF top
<1>4. uHigh' \in [Requests -> Nat]
      /\ \A j \in Requests : uHigh'[j] = IF j = uDoing THEN top ELSE uHigh[j]
  BY <1>1, <1>2, <1>3 DEF Manual!TypeOK
<1>5. Manual!TypeOK'
  BY <1>2, <1>4 DEF Manual!TypeOK, Manual!Steps
<1>6. ManualStays
  BY <1>2 DEF ManualStays
<1>7. ManualCounted'
  <2>1. Manual!Frames' = Manual!Frames /\ Manual!at' = Manual!at
        /\ \A c : ManualInJournal(c)' <=> ManualInJournal(c)
    BY <1>2 DEF Manual!Frames, Manual!at, ManualInJournal
  <2>2. (\A c \in Manual!Frames : ManualInJournal(c)) /\ uFrame[Manual!at] # 0
    BY <1>1 DEF ManualCounted, ManualProjecting
  <2>3. \A j \in Requests : uHigh'[j] < uNext[j]
    BY <1>3, <1>4 DEF ManualCounted
  <2>4. \A j \in Requests : \A c \in RequestBatch[j] :
          uFrame[c] < uNext[j] /\ (uFrame[c] # 0 /\ uFrame[c] <= uHigh'[j]
              => ManualInJournal(c))
    <3> SUFFICES ASSUME NEW j \in Requests, NEW c \in RequestBatch[j]
                 PROVE  uFrame[c] < uNext[j] /\ (uFrame[c] # 0 /\ uFrame[c] <= uHigh'[j]
                        => ManualInJournal(c))
      OBVIOUS
    <3>1. CASE j = uDoing
      BY <2>2, <3>1 DEF Manual!Frames, ManualCounted
    <3>2. CASE j # uDoing
      BY <1>4, <3>2 DEF ManualCounted
    <3> QED
      BY <3>1, <3>2
  <2> QED
    BY <1>2, <2>1, <2>2, <2>3, <2>4 DEF ManualCounted
<1>8. uVerified'[Manual!at] # None
  BY <1>1, <1>2 DEF ManualPlaced, ManualProjecting
<1> QED
  BY <1>1, <1>2, <1>5, <1>6, <1>7, <1>8, ManualMoveKeeps DEF ManualLooking,
     ManualProjecting

LEMMA ManualPublishes ==
  ASSUME Manual!BatchAssumption, ManualInv, Manual!PublishFrames
  PROVE  ManualInv'
<1> USE DEF ManualInv
<1>1. /\ uDoing \in Requests /\ Manual!at \in uTodo /\ Manual!at \in RequestBatch[uDoing]
           /\ Manual!at \in Manual!Checkpoints
      /\ uStep = "publish" /\ uStep \in ManualLooking
  BY ManualAt DEF Manual!PublishFrames, Manual!At, ManualLooking, ManualProjecting
<1>2. /\ UNCHANGED <<uJob, uCancel, uTraining, uRetries, uLease, uTrained, uPromotion, uDeadline, uDispatched, uCall, uResult, uVerified>>
      /\ UNCHANGED <<uJournal, uProjection, uReceipt, uFrame, uNext, uHigh, uUpsets>>
      /\ UNCHANGED <<uDoing, uTodo, uSeen, uCandidate, uStatus>> /\ uStep' = "project"
      /\ uPublished' = uPublished \cup Manual!Frames
  BY DEF Manual!PublishFrames, Manual!GoTo, Manual!KeepQueue, Manual!queue, Manual!run,
     Manual!evidence, Manual!ledger
<1>3. Manual!Frames \subseteq Manual!Checkpoints
  BY <1>1, ManualFramesAre DEF ManualProjecting
<1>4. Manual!TypeOK'
  BY <1>2, <1>3 DEF Manual!TypeOK, Manual!Steps
<1>5. ManualStays
  BY <1>2 DEF ManualStays
<1>6. ManualCounted'
  <2>1. Manual!Frames' = Manual!Frames /\ Manual!at' = Manual!at
        /\ \A c : ManualInJournal(c)' <=> ManualInJournal(c)
    BY <1>2 DEF Manual!Frames, Manual!at, ManualInJournal
  <2>2. (\A c \in Manual!Frames : ManualInJournal(c)) /\ uFrame[Manual!at] # 0
    BY <1>1 DEF ManualCounted, ManualProjecting
  <2> QED
    BY <1>2, <2>1, <2>2 DEF ManualCounted
<1>7. uVerified'[Manual!at] # None
  BY <1>1, <1>2 DEF ManualPlaced, ManualProjecting
<1> QED
  BY <1>1, <1>2, <1>4, <1>5, <1>6, <1>7, ManualMoveKeeps DEF ManualLooking,
     ManualProjecting

LEMMA ManualProjects ==
  ASSUME Manual!BatchAssumption, ManualInv, Manual!PutProjection
  PROVE  ManualInv'
<1> USE DEF ManualInv
<1> DEFINE n == uSeen.offset + Manual!Max({uFrame[c] : c \in Manual!Frames})
<1>1. /\ uDoing \in Requests /\ Manual!at \in uTodo /\ Manual!at \in RequestBatch[uDoing]
           /\ Manual!at \in Manual!Checkpoints
      /\ uStep = "project" /\ uStep \in ManualLooking
  BY ManualAt DEF Manual!PutProjection, Manual!At, ManualLooking, ManualProjecting
<1>2. /\ UNCHANGED <<Manual!queue, Manual!run, uPromotion, uDeadline, uResult, uVerified, uJournal, uPublished, uReceipt, Manual!ledger>>
      /\ UNCHANGED <<uDispatched, uCall, uUpsets>>
      /\ Manual!Report(uVerified[Manual!at])
           /\ uProjection' = [uProjection EXCEPT ![Manual!at] = n]
  BY DEF Manual!PutProjection, Manual!KeepQueue, Manual!queue, Manual!evidence
<1>3. n \in Nat /\ Manual!at \in Manual!Frames
  <2>1. uSeen.offset \in Nat
    BY DEF Manual!TypeOK
  <2>2. Manual!Max({uFrame[c] : c \in Manual!Frames}) \in Nat /\ Manual!at \in Manual!Frames
    BY <1>1, ManualFramesAre DEF ManualProjecting
  <2> QED
    BY <2>1, <2>2
<1> HIDE DEF n
<1>4. ManualShown(Manual!at)
  BY <1>1, <1>3 DEF ManualCounted, ManualShown
<1>5. uVerified[Manual!at] \in Manual!Statuses
  BY <1>1 DEF ManualPlaced, ManualProjecting, Manual!TypeOK, Manual!BatchAssumption,
     Manual!Statuses, Manual!Settled
<1>6. uDispatched' \subseteq Manual!Checkpoints \X Manual!Attempts /\ uUpsets' \in 0..MaxUpsets
      /\ uCall' \in [Manual!Checkpoints -> [Manual!Attempts -> {"none", "called", "ended"}]]
  BY <1>2 DEF Manual!TypeOK
<1> QED
  BY <1>1, <1>2, <1>3, <1>4, <1>5, <1>6, ManualReportKeeps

-----------------------------------------------------------------------------
(* The batch is settled: the candidate, the promotion, the receipt.        *)
LEMMA ManualSettleKeeps ==
  ASSUME Manual!BatchAssumption, ManualInv,
         uStep \in {"settle", "candidate"} \cup ManualPromoted,
         uStep' \in {"candidate"} \cup ManualPromoted,
         UNCHANGED <<uJob, uDoing, uTodo, uProjection, Manual!ledger, uJournal, uPublished>>,
         ManualStays, Manual!TypeOK', ManualChosen',
         \A c \in Manual!Checkpoints : uStatus'[c] \in {"accepted", "rejected", "failed"}
             => uStatus'[c] = uStatus[c]
  PROVE  ManualInv'
<1> USE DEF ManualInv
<1>1. ManualBacked'
  BY ManualBackedStays
<1>2. ManualCounted'
  BY ManualCountedStays DEF ManualProjecting, ManualPromoted
<1>3. ManualPlaced'
  BY DEF ManualPlaced, ManualLooking, ManualProjecting, ManualPromoted
<1>4. Manual!SuccessIsBacked'
  BY ManualSuccessStays
<1> QED
  BY <1>1, <1>2, <1>3, <1>4

LEMMA ManualSettles == ASSUME Manual!BatchAssumption, ManualInv, Manual!Settle PROVE ManualInv'
<1> USE DEF ManualInv
<1>1. /\ uStep = "settle" /\ uDoing \in Requests /\ uDoing # None
      /\ UNCHANGED <<uJob, uCancel, uTraining, uRetries, uLease, uTrained, uPromotion, uDeadline, uDispatched, uResult, uVerified>>
         \/ Manual!Finish("retry_wait")
      /\ UNCHANGED <<Manual!run, uPromotion, uDeadline, uDispatched, uResult, uVerified, Manual!projected, uReceipt, Manual!ledger, uUpsets>>
  BY Zenon DEF Manual!Settle, Manual!At, ManualPlaced, Manual!TypeOK, Manual!queue,
     Manual!run
<1>2. CASE ~uSeen.cancel /\ ~\A c \in RequestBatch[uDoing] : uStatus[c] \in Manual!Settled
  <2>1. Manual!Finish("retry_wait")
        /\ UNCHANGED <<Manual!run, uPromotion, Manual!evidence, Manual!projected, uReceipt, Manual!ledger>>
    BY <1>2 DEF Manual!Settle, Manual!evidence
  <2>2. UNCHANGED uUpsets
    BY <1>1
  <2> QED
    BY <1>1, <2>1, <2>2, ManualUpsetIs, ManualEndKeeps
<1>3. CASE uSeen.cancel \/ \A c \in RequestBatch[uDoing] : uStatus[c] \in Manual!Settled
  <2>1. Manual!GoTo("candidate") /\ UNCHANGED Manual!queue
    BY <1>3, Zenon DEF Manual!Settle
  <2>2. /\ UNCHANGED <<uJob, uCancel, uTraining, uRetries, uLease, uTrained, uPromotion, uDeadline, uDispatched, uResult, uVerified>>
        /\ UNCHANGED <<uJournal, uProjection, uPublished, uReceipt, uFrame, uNext, uHigh, uUpsets>>
        /\ UNCHANGED <<uDoing, uTodo, uSeen, uCandidate>> /\ uStep' = "candidate"
    BY <1>1, <2>1 DEF Manual!GoTo, Manual!queue, Manual!run, Manual!projected,
       Manual!ledger
  <2>3. /\ uStatus' \in [Manual!Checkpoints -> Manual!Statuses]
        /\ \A c \in Manual!Checkpoints : uStatus'[c] = uStatus[c] \/ uStatus'[c] = "canceled"
        /\ ~uSeen.cancel => uStatus' = uStatus
    <3>1. CASE ~uSeen.cancel
      BY <1>3, <3>1 DEF Manual!Settle, Manual!TypeOK
    <3>2. CASE uSeen.cancel
      <4>1. PICK open : uStatus' = [c \in Manual!Checkpoints |-> IF c \in open THEN "canceled" ELSE uStatus[c]]
        BY <3>2 DEF Manual!Settle
      <4>2. uStatus \in [Manual!Checkpoints -> Manual!Statuses]
            /\ "canceled" \in Manual!Statuses
        BY DEF Manual!TypeOK, Manual!Statuses
      <4> QED
        BY <3>2, <4>1, <4>2
    <3> QED
      BY <3>1, <3>2
  <2>4. uCall' \in [Manual!Checkpoints -> [Manual!Attempts -> {"none", "called", "ended"}]]
    <3>1. uCall \in [Manual!Checkpoints -> [Manual!Attempts -> {"none", "called", "ended"}]]
      BY DEF Manual!TypeOK
    <3>2. \/ uCall' = uCall
          \/ \E stopped : uCall' = [c \in Manual!Checkpoints |-> [a \in Manual!Attempts |->
                 IF <<c, a>> \in stopped THEN "ended" ELSE uCall[c][a]]]
      BY DEF Manual!Settle
    <3>3. ASSUME NEW stopped, uCall' = [c \in Manual!Checkpoints |-> [a \in Manual!Attempts |->
                 IF <<c, a>> \in stopped THEN "ended" ELSE uCall[c][a]]]
          PROVE  uCall' \in [Manual!Checkpoints -> [Manual!Attempts -> {"none", "called", "ended"}]]
      <4>1. ASSUME NEW c \in Manual!Checkpoints
            PROVE  [a \in Manual!Attempts |-> IF <<c, a>> \in stopped THEN "ended" ELSE uCall[c][a]]
                     \in [Manual!Attempts -> {"none", "called", "ended"}]
        BY <3>1
      <4> QED
        BY <3>3, <4>1, Zenon
    <3> QED
      BY <3>1, <3>2, <3>3
  <2>5. Manual!TypeOK'
    BY <2>2, <2>3, <2>4 DEF Manual!TypeOK, Manual!Steps
  <2>6. ManualStays
    BY <2>2 DEF ManualStays
  <2>7. ManualChosen'
    <3>1. uCandidate = None
      BY <1>1 DEF ManualChosen, ManualPromoted
    <3>2. ~uSeen.cancel => \A c \in RequestBatch[uDoing] : uStatus'[c] \in Manual!Settled
      BY <1>3, <2>3
    <3> QED
      BY <2>2, <3>1, <3>2 DEF ManualChosen, ManualPromoted
  <2> QED
    BY <1>1, <2>2, <2>3, <2>5, <2>6, <2>7, ManualSettleKeeps DEF Manual!ledger
<1> QED
  BY <1>2, <1>3

(* The evidence, and the lowest of it.                                     *)
LEMMA ManualEvidenceIs ==
  ASSUME Manual!BatchAssumption, Manual!TypeOK
  PROVE  /\ Manual!Evidence \subseteq Manual!Promotions
         /\ \A c \in Manual!Checkpoints : uVerified[c] = "accepted"
              => [checkpoint |-> c, by |-> "manual"] \in Manual!Evidence
         /\ Manual!Evidence # {} => /\ \E e \in Manual!Evidence : e.checkpoint = Manual!Lowest
                             /\ \A e \in Manual!Evidence : Manual!Lowest <= e.checkpoint
<1> DEFINE S == {e.checkpoint : e \in Manual!Evidence}
<1>1. Manual!Evidence \subseteq Manual!Promotions
  BY DEF Manual!Evidence, Manual!Promotions, Manual!TypeOK
<1>2. S \in SUBSET Nat
  BY <1>1 DEF Manual!Promotions, Manual!Checkpoints, Manual!BatchAssumption
<1>3. \A c \in Manual!Checkpoints : uVerified[c] = "accepted"
      => [checkpoint |-> c, by |-> "manual"] \in Manual!Evidence
  BY DEF Manual!Evidence
<1>4. ASSUME Manual!Evidence # {}
      PROVE  (\E e \in Manual!Evidence : e.checkpoint = Manual!Lowest)
             /\ (\A e \in Manual!Evidence : Manual!Lowest <= e.checkpoint)
  <2>1. S # {}
    BY <1>4
  <2>2. Manual!Min(S) \in S /\ \A x \in S : Manual!Min(S) <= x
    BY <1>2, <2>1, LeastIs
  <2> QED
    BY <2>2 DEF Manual!Lowest
<1> QED
  BY <1>1, <1>3, <1>4

LEMMA ManualFinds ==
  ASSUME Manual!BatchAssumption, ManualInv, Manual!FindCandidate
  PROVE  ManualInv'
<1> USE DEF ManualInv
<1>1. /\ uStep = "candidate" /\ uDoing # None
      /\ UNCHANGED <<Manual!run, uPromotion, Manual!evidence, Manual!projected, uReceipt, Manual!ledger, uUpsets>>
  BY Zenon DEF Manual!FindCandidate, Manual!At, ManualPlaced
<1>2. /\ UNCHANGED <<uTraining, uRetries, uLease, uTrained, uPromotion, uDeadline, uDispatched, uCall, uResult, uVerified>>
      /\ UNCHANGED <<uJournal, uProjection, uPublished, uReceipt, uFrame, uNext, uHigh, uUpsets>>
  BY <1>1 DEF Manual!run, Manual!evidence, Manual!projected, Manual!ledger
<1>3. \/ Manual!Finish("failed") \/ Manual!Finish("blocked")
      \/ Manual!Evidence = {} /\ Manual!GoTo("receipt") /\ UNCHANGED <<Manual!queue, uStatus>>
      \/ /\ Manual!Evidence # {}
         /\ uPromotion \in {None, CHOOSE e \in Manual!Evidence : e.checkpoint = Manual!Lowest}
         /\ uCandidate' = CHOOSE e \in Manual!Evidence : e.checkpoint = Manual!Lowest
         /\ uStep' = IF uPromotion = None THEN "promote" ELSE "summary"
         /\ UNCHANGED <<Manual!queue, uDoing, uTodo, uSeen, uStatus>>
  BY Zenon DEF Manual!FindCandidate
<1>4. CASE Manual!Finish("failed") \/ Manual!Finish("blocked")
  BY <1>1, <1>4, ManualUpsetIs, ManualEndKeeps
<1>5. ManualStays
  BY <1>2 DEF ManualStays
<1>6. CASE Manual!Evidence = {} /\ Manual!GoTo("receipt") /\ UNCHANGED <<Manual!queue, uStatus>>
  <2>1. UNCHANGED <<uJob, uCancel, uDoing, uTodo, uSeen, uStatus, uCandidate>>
        /\ uStep' = "receipt"
    BY <1>6 DEF Manual!GoTo, Manual!queue
  <2>2. Manual!TypeOK'
    BY <1>2, <2>1 DEF Manual!TypeOK, Manual!Steps
  <2>3. \A c \in Manual!Checkpoints : uVerified[c] # "accepted"
    BY <1>6, ManualEvidenceIs
  <2>4. ManualChosen'
    BY <1>1, <1>2, <2>1, <2>3 DEF ManualChosen, ManualPromoted
  <2> QED
    BY <1>1, <1>2, <1>5, <2>1, <2>2, <2>4, ManualSettleKeeps DEF ManualPromoted,
       Manual!ledger
<1>7. CASE /\ Manual!Evidence # {}
           /\ uPromotion \in {None, CHOOSE e \in Manual!Evidence : e.checkpoint = Manual!Lowest}
           /\ uCandidate' = CHOOSE e \in Manual!Evidence : e.checkpoint = Manual!Lowest
           /\ uStep' = IF uPromotion = None THEN "promote" ELSE "summary"
           /\ UNCHANGED <<Manual!queue, uDoing, uTodo, uSeen, uStatus>>
  <2>1. /\ UNCHANGED <<uJob, uCancel, uDoing, uTodo, uSeen, uStatus>>
             /\ uStep' \in {"promote", "summary"}
        /\ uStep' = "summary" => uPromotion = uCandidate'
    BY <1>7 DEF Manual!queue
  <2>2. uCandidate' \in Manual!Evidence /\ uCandidate'.checkpoint = Manual!Lowest
    <3>1. \E e \in Manual!Evidence : e.checkpoint = Manual!Lowest
      BY <1>7, ManualEvidenceIs
    <3> QED
      BY <1>7, <3>1, Zenon
  <2>3. uCandidate' \in Manual!Promotions /\ uCandidate' # None
    BY <2>2, ManualEvidenceIs DEF Manual!BatchAssumption
  <2>4. Manual!TypeOK'
    BY <1>2, <2>1, <2>3 DEF Manual!TypeOK, Manual!Steps
  <2>5. \A c \in Manual!Checkpoints : uVerified[c] = "accepted" => uCandidate'.checkpoint <= c
    <3>1. ASSUME NEW c \in Manual!Checkpoints,
                 uVerified[c] = "accepted" PROVE uCandidate'.checkpoint <= c
      <4>1. [checkpoint |-> c, by |-> "manual"] \in Manual!Evidence
        BY <3>1, ManualEvidenceIs
      <4>2. Manual!Lowest <= [checkpoint |-> c, by |-> "manual"].checkpoint
        BY <4>1, <1>7, ManualEvidenceIs
      <4> QED
        BY <2>2, <4>2
    <3> QED
      BY <3>1
  <2>6. ManualChosen'
    BY <1>1, <1>2, <2>1, <2>3, <2>5 DEF ManualChosen, ManualPromoted
  <2> QED
    BY <1>1, <1>2, <1>5, <2>1, <2>4, <2>6, ManualSettleKeeps DEF ManualPromoted,
       Manual!ledger
<1> QED
  BY <1>3, <1>4, <1>6, <1>7

LEMMA ManualPromotes ==
  ASSUME Manual!BatchAssumption, ManualInv, Manual!Promote
  PROVE  ManualInv'
<1> USE DEF ManualInv
<1>1. /\ uStep = "promote" /\ uDoing # None /\ uCandidate # None
      /\ UNCHANGED <<Manual!run, Manual!evidence, Manual!projected, uReceipt, Manual!ledger, uUpsets>>
  BY Zenon DEF Manual!Promote, Manual!At, ManualPlaced, ManualChosen
<1>2. /\ UNCHANGED <<uTraining, uRetries, uLease, uTrained, uDeadline, uDispatched, uCall, uResult, uVerified>>
      /\ UNCHANGED <<uJournal, uProjection, uPublished, uReceipt, uFrame, uNext, uHigh, uUpsets>>
  BY <1>1 DEF Manual!run, Manual!evidence, Manual!projected, Manual!ledger
<1>3. \/ (Manual!Finish("failed") \/ Manual!Finish("blocked")) /\ UNCHANGED uPromotion
      \/ /\ uPromotion \in {None, uCandidate} /\ uPromotion' = uCandidate
         /\ Manual!GoTo("summary") /\ UNCHANGED <<Manual!queue, uStatus>>
  BY DEF Manual!Promote
<1>4. CASE (Manual!Finish("failed") \/ Manual!Finish("blocked")) /\ UNCHANGED uPromotion
  BY <1>1, <1>4, ManualUpsetIs, ManualEndKeeps
<1>5. CASE /\ uPromotion \in {None, uCandidate} /\ uPromotion' = uCandidate
           /\ Manual!GoTo("summary") /\ UNCHANGED <<Manual!queue, uStatus>>
  <2>1. UNCHANGED <<uJob, uCancel, uDoing, uTodo, uSeen, uStatus, uCandidate>>
        /\ uStep' = "summary"
    BY <1>5 DEF Manual!GoTo, Manual!queue
  <2>2. Manual!TypeOK'
    BY <1>2, <1>5, <2>1 DEF Manual!TypeOK, Manual!Steps
  <2>3. ManualStays
    BY <1>2, <1>5 DEF ManualStays
  <2>4. ManualChosen'
    BY <1>1, <1>2, <1>5, <2>1 DEF ManualChosen, ManualPromoted
  <2> QED
    BY <1>1, <1>2, <2>1, <2>2, <2>3, <2>4, ManualSettleKeeps DEF ManualPromoted,
       Manual!ledger
<1> QED
  BY <1>3, <1>4, <1>5

LEMMA ManualSummarizes ==
  ASSUME Manual!BatchAssumption, ManualInv, Manual!Summarize
  PROVE  ManualInv'
<1> USE DEF ManualInv
<1>1. /\ uStep = "summary" /\ uStep' = "receipt"
      /\ UNCHANGED <<uJob, uCancel, uTraining, uRetries, uLease, uTrained, uPromotion, uDeadline, uDispatched, uCall, uResult, uVerified>>
      /\ UNCHANGED <<uJournal, uProjection, uPublished, uReceipt, uFrame, uNext, uHigh, uUpsets>>
      /\ UNCHANGED <<uDoing, uTodo, uSeen, uStatus, uCandidate>>
  BY DEF Manual!Summarize, Manual!At, Manual!GoTo, Manual!KeepQueue, Manual!queue,
     Manual!run, Manual!evidence, Manual!projected, Manual!ledger
<1>2. Manual!TypeOK'
  BY <1>1 DEF Manual!TypeOK, Manual!Steps
<1>3. ManualStays
  BY <1>1 DEF ManualStays
<1>4. ManualChosen'
  BY <1>1 DEF ManualChosen, ManualPromoted
<1> QED
  BY <1>1, <1>2, <1>3, <1>4, ManualSettleKeeps DEF ManualPromoted, Manual!ledger

LEMMA ManualPuts == ASSUME Manual!BatchAssumption, ManualInv, Manual!PutReceipt PROVE ManualInv'
<1> USE DEF ManualInv
<1>1. /\ uStep = "receipt" /\ uDoing # None /\ uDoing \in Requests
      /\ UNCHANGED <<Manual!run, uPromotion, Manual!evidence, Manual!projected, Manual!ledger, uUpsets>>
  BY Zenon DEF Manual!PutReceipt, Manual!At, ManualPlaced, Manual!TypeOK
<1>2. /\ UNCHANGED <<uTraining, uRetries, uLease, uTrained, uPromotion, uDeadline, uDispatched, uCall, uResult, uVerified>>
      /\ UNCHANGED <<uJournal, uProjection, uPublished, uFrame, uNext, uHigh, uUpsets>>
  BY <1>1 DEF Manual!run, Manual!evidence, Manual!projected, Manual!ledger
<1>3. \/ Manual!Finish("failed") /\ UNCHANGED uReceipt
      \/ /\ \/ uReceipt[uDoing] = None
                 /\ uReceipt' = [uReceipt EXCEPT ![uDoing] = Manual!Terminal]
            \/ uReceipt[uDoing] = Manual!Terminal /\ uReceipt' = uReceipt
         /\ Manual!GoTo("finish") /\ UNCHANGED <<Manual!queue, uStatus>>
  BY DEF Manual!PutReceipt
<1>4. CASE Manual!Finish("failed") /\ UNCHANGED uReceipt
  BY <1>1, <1>4, ManualUpsetIs, ManualEndKeeps
<1>5. CASE /\ \/ uReceipt[uDoing] = None
                   /\ uReceipt' = [uReceipt EXCEPT ![uDoing] = Manual!Terminal]
              \/ uReceipt[uDoing] = Manual!Terminal /\ uReceipt' = uReceipt
           /\ Manual!GoTo("finish") /\ UNCHANGED <<Manual!queue, uStatus>>
  <2>1. UNCHANGED <<uJob, uCancel, uDoing, uTodo, uSeen, uStatus, uCandidate>>
        /\ uStep' = "finish"
    BY <1>5 DEF Manual!GoTo, Manual!queue
  <2>2. Manual!Terminal \in Manual!Receipts
    BY DEF Manual!Terminal, Manual!Outcome, Manual!Receipts, Manual!TypeOK
  <2>3. /\ uReceipt' \in [Requests -> Manual!Receipts \cup {None}]
             /\ uReceipt'[uDoing] = Manual!Terminal
        /\ \A j \in Requests : uReceipt[j] # None => uReceipt'[j] = uReceipt[j]
    <3>1. uReceipt \in [Requests -> Manual!Receipts \cup {None}]
      BY DEF Manual!TypeOK
    <3> QED
      BY <1>1, <1>5, <2>2, <3>1
  <2>4. Manual!TypeOK'
    BY <1>2, <2>1, <2>3 DEF Manual!TypeOK, Manual!Steps
  <2>5. ManualStays
    BY <1>2, <2>3 DEF ManualStays
  <2>6. Manual!Terminal' = Manual!Terminal
    BY <2>1 DEF Manual!Terminal, Manual!Outcome
  <2>7. ManualChosen'
    BY <1>1, <1>2, <2>1, <2>3, <2>6 DEF ManualChosen, ManualPromoted
  <2> QED
    BY <1>1, <1>2, <2>1, <2>4, <2>5, <2>7, ManualSettleKeeps DEF ManualPromoted,
       Manual!ledger
<1> QED
  BY <1>3, <1>4, <1>5

LEMMA ManualEnds ==
  ASSUME Manual!BatchAssumption, ManualInv, Manual!SummaryFails \/ Manual!FinishJob
         \/ Manual!Raises \/ Manual!WorkerDies
  PROVE  ManualInv'
<1> USE DEF ManualInv
<1>1. /\ uDoing # None
           /\ UNCHANGED <<Manual!run, uPromotion, Manual!evidence, Manual!projected, uReceipt, Manual!ledger>>
      /\ Manual!Upset \/ UNCHANGED uUpsets
  BY Zenon DEF Manual!SummaryFails, Manual!FinishJob, Manual!Raises, Manual!WorkerDies,
     Manual!At, ManualPlaced
<1>2. uUpsets' \in 0..MaxUpsets
  BY <1>1, ManualUpsetIs
<1>3. \/ \E s \in {"retry_wait", "failed", "queued"} : Manual!Finish(s)
      \/ uStep = "finish" /\ Manual!Finish(Manual!Outcome)
  BY DEF Manual!SummaryFails, Manual!FinishJob, Manual!Raises, Manual!WorkerDies,
     Manual!At
<1>4. ASSUME NEW s \in {"retry_wait", "failed", "queued"}, Manual!Finish(s) PROVE ManualInv'
  BY <1>1, <1>2, <1>4, ManualEndKeeps
<1>5. CASE uStep = "finish" /\ Manual!Finish(Manual!Outcome)
  <2>1. Manual!Outcome \in {"canceled", "failed", "succeeded"}
    BY DEF Manual!Outcome
  <2> QED
    BY <1>1, <1>2, <1>5, <2>1, ManualEndKeeps
<1> QED
  BY <1>3, <1>4, <1>5

-----------------------------------------------------------------------------
LEMMA ManualInit == ASSUME Manual!BatchAssumption, Manual!Init PROVE ManualInv
<1> USE DEF Manual!Init
<1>1. Manual!TypeOK
  <2>1. uUpsets \in 0..MaxUpsets
    BY DEF Manual!BatchAssumption
  <2>2. 0 \in Nat /\ 1 \in Nat
    OBVIOUS
  <2>3. uStatus \in [Manual!Checkpoints -> Manual!Statuses]
        /\ uSeen \in [terminal : BOOLEAN, cancel : BOOLEAN, offset : Nat,
                     own : {"none", "live", "expired"}]
    BY DEF Manual!NoStatus, Manual!Nobody, Manual!Statuses
  <2> QED
    BY <2>1, <2>2, <2>3 DEF Manual!TypeOK, Manual!Steps
<1>2. ManualPlaced
  BY DEF ManualPlaced, ManualLooking, ManualProjecting
<1>3. ManualCounted
  BY DEF ManualCounted, ManualProjecting, Manual!Checkpoints, ManualInJournal,
     Manual!Frames
<1>4. ManualBacked
  <2>1. \A c \in Manual!Checkpoints : uProjection[c] = 0 /\ uStatus[c] = "none"
    BY DEF Manual!NoStatus
  <2>2. 0 \in Nat /\ \A c \in Manual!Checkpoints : uProjection[c] <= 0
    BY <2>1
  <2> QED
    BY <2>1, <2>2 DEF ManualBacked
<1>5. ManualChosen
  BY DEF ManualChosen, ManualPromoted
<1>6. Manual!SuccessIsBacked
  BY DEF Manual!SuccessIsBacked
<1> QED
  BY <1>1, <1>2, <1>3, <1>4, <1>5, <1>6 DEF ManualInv

LEMMA ManualInductive ==
  ASSUME Manual!BatchAssumption, ManualInv, [Manual!Next]_Manual!vars
  PROVE  ManualInv'
<1>1. CASE UNCHANGED Manual!vars
  <2>1. /\ UNCHANGED <<uJob, uCancel, uTraining, uRetries, uLease, uTrained, uPromotion, uDeadline, uDispatched, uCall, uResult, uVerified>>
        /\ UNCHANGED <<uVerified, Manual!projected, uReceipt, Manual!ledger, Manual!worker, uUpsets>>
    BY <1>1 DEF Manual!vars, Manual!queue, Manual!run, Manual!evidence
  <2>2. ManualWorld
    BY <2>1 DEF ManualWorld, Manual!worker
  <2>3. Manual!TypeOK'
    BY <2>1 DEF Manual!TypeOK, ManualInv, Manual!projected, Manual!ledger, Manual!worker
  <2> QED
    BY <2>2, <2>3, ManualWorldKeeps
<1>2. CASE Manual!Next
  <2>1. CASE \/ \E j \in Requests : Manual!Enqueue(j) \/ Manual!RequestCancel(j)
                  \/ Manual!Retry(j)
             \/ ManualTrains \/ Manual!LeaseExpires
             \/ \E c \in Manual!Checkpoints, a \in Manual!Attempts :
                  Manual!AttemptExpires(c, a)
                      \/ \E v \in WorkerVerdicts : Manual!Upload(c, a, v)
    BY <2>1, ManualWorldSteps
  <2>2. CASE Manual!Advance
    BY <2>2, ManualClaims, ManualAdmits, ManualLeases, ManualWaits, ManualLooks, ManualVerifies, ManualPrepares,
       ManualSubmits, ManualReports, ManualTerminals, ManualAppends, ManualSeals,
       ManualRecords, ManualPublishes, ManualProjects, ManualSettles, ManualFinds,
           ManualPromotes, ManualSummarizes, ManualPuts, ManualEnds, Zenon DEF Manual!Advance
  <2>3. CASE Manual!Goes
    BY <2>3, ManualReports, ManualEnds, Zenon DEF Manual!Goes
  <2> QED
    BY <1>2, <2>1, <2>2, <2>3, Zenon DEF Manual!Next, ManualTrains
<1> QED
  BY <1>1, <1>2

THEOREM SuccessIsHonest ==
  ASSUME Manual!BatchAssumption
  PROVE  Manual!Spec => [](Manual!TypeOK /\ Manual!SuccessIsBacked)
<1>1. Manual!Init => ManualInv
  BY ManualInit
<1>2. ManualInv /\ [Manual!Next]_Manual!vars => ManualInv'
  BY ManualInductive
<1>3. ManualInv => Manual!TypeOK /\ Manual!SuccessIsBacked
  BY DEF ManualInv
<1> QED
  BY <1>1, <1>2, <1>3, PTL DEF Manual!Spec

(* An Attempt of training has put its terminal receipt.                    *)
ManualEnded == uTraining # "active" \/ uRetries > 0

(* An advance that has seen a receipt, as one that projects has, knows of  *)
(* an Attempt that has ended.  One that projects has taken the lease, and  *)
(* holds it until it runs out.                                             *)
ManualLeased ==
  /\ uSeen.terminal => ManualEnded
  /\ uStep \in ManualProjecting \cup {"lease"} => uSeen.terminal
  /\ uSeen.own = "live" => uLease = "job"
  /\ uStep \in ManualProjecting \ {"append"} => uSeen.own # "none"

LEMMA ManualLeasedAppends ==
  ASSUME Manual!BatchAssumption, Manual!TypeOK, ManualLeased, Manual!ProjectionAwaitsTraining,
         Manual!AppendEvent
  PROVE  ManualLeased' /\ Manual!ProjectionAwaitsTraining'
<1>1. /\ UNCHANGED <<uTraining, uRetries, uJournal, uProjection, uPublished>>
      /\ uStep = "append" /\ uStep' = "seal"
      /\ uLease' = "job" /\ uSeen' = [uSeen EXCEPT !.own = "live"]
  BY DEF Manual!AppendEvent, Manual!Leases, Manual!At, Manual!projected
<1>2. uSeen'.own = "live" /\ uSeen'.terminal = uSeen.terminal
  BY <1>1 DEF Manual!TypeOK
<1> QED
  BY <1>1, <1>2 DEF ManualLeased, ManualEnded, Manual!ProjectionAwaitsTraining, ManualProjecting

(* A step that projects leaves what it has seen, and the lease, alone; any *)
(* other step of the worker but the first two sees no receipt, and         *)
(* projects nothing yet.                                                   *)
LEMMA ManualLeasedProjects ==
  ASSUME Manual!BatchAssumption, Manual!TypeOK, ManualLeased, Manual!ProjectionAwaitsTraining,
         Manual!SealSegment \/ Manual!RecordSegment \/ Manual!PublishFrames
           \/ Manual!PutProjection
  PROVE  ManualLeased' /\ Manual!ProjectionAwaitsTraining'
<1>1. uStep \in ManualProjecting \ {"append"}
  BY DEF Manual!SealSegment, Manual!RecordSegment, Manual!PublishFrames,
     Manual!PutProjection, Manual!At, ManualProjecting
<1>2. UNCHANGED <<uTraining, uRetries, uLease, uSeen>> /\ uStep' # "lease"
  BY DEF Manual!SealSegment, Manual!RecordSegment, Manual!PublishFrames,
     Manual!PutProjection, Manual!GoTo, Manual!Report, Manual!run
<1>3. /\ uSeen.terminal /\ ManualEnded /\ uSeen.own # "none"
      /\ uSeen.own = "live" => uLease = "job"
      /\ uSeen.own \in {"none", "live", "expired"} /\ uRetries \in Nat
  BY <1>1 DEF ManualLeased, Manual!TypeOK
<1> QED
  BY <1>2, <1>3 DEF ManualLeased, ManualEnded, Manual!ProjectionAwaitsTraining

LEMMA ManualLeasedWorks ==
  ASSUME Manual!BatchAssumption, Manual!TypeOK, ManualLeased, Manual!ProjectionAwaitsTraining,
         UNCHANGED <<uTraining, uRetries, uLease, uJournal, uProjection, uPublished>>,
         uSeen' = uSeen \/ uSeen' = Manual!Nobody
             \/ (\E b \in BOOLEAN : uSeen' = [Manual!Nobody EXCEPT !.cancel = b]),
         uStep' \notin ManualProjecting \cup {"lease"}
  PROVE  ManualLeased' /\ Manual!ProjectionAwaitsTraining'
<1>1. (uSeen'.terminal => uSeen.terminal) /\ (uSeen'.own = "live" => uSeen.own = "live")
  BY DEF Manual!Nobody
<1> QED
  BY <1>1 DEF ManualLeased, ManualEnded, Manual!ProjectionAwaitsTraining, ManualProjecting

LEMMA ManualLeasedAdmits ==
  ASSUME Manual!BatchAssumption, Manual!TypeOK, ManualLeased, Manual!ProjectionAwaitsTraining,
         Manual!Admit
  PROVE  ManualLeased' /\ Manual!ProjectionAwaitsTraining'
<1>1. /\ UNCHANGED <<uTraining, uRetries, uLease, uJournal, uProjection, uPublished>>
      /\ uSeen' = [uSeen EXCEPT !.terminal = uTraining # "active"]
      /\ uStep' = IF uTraining = "active" THEN "look" ELSE "lease"
  BY DEF Manual!Admit, Manual!run, Manual!projected
<1>2. uSeen'.own = uSeen.own /\ uSeen'.terminal = (uTraining # "active")
  BY <1>1 DEF Manual!TypeOK
<1> QED
  BY <1>1, <1>2 DEF ManualLeased, ManualEnded, Manual!ProjectionAwaitsTraining,
     ManualProjecting

LEMMA ManualLeasedTakes ==
  ASSUME Manual!BatchAssumption, Manual!TypeOK, ManualLeased, Manual!ProjectionAwaitsTraining,
         Manual!TakeLease
  PROVE  ManualLeased' /\ Manual!ProjectionAwaitsTraining'
<1> DEFINE offset == Manual!Max({uProjection[c] : c \in Manual!Checkpoints})
<1>1. /\ UNCHANGED <<uTraining, uRetries, uJournal, uProjection, uPublished>>
      /\ uStep = "lease" /\ uStep' = "look"
      /\ uLease' = "job" /\ uSeen' = [[uSeen EXCEPT !.offset = offset] EXCEPT !.own = "live"]
  BY DEF Manual!TakeLease, Manual!Leases, Manual!At, Manual!projected
<1> HIDE DEF offset
<1>2. uSeen'.own = "live" /\ uSeen'.terminal = uSeen.terminal
  BY <1>1 DEF Manual!TypeOK
<1> QED
  BY <1>1, <1>2 DEF ManualLeased, ManualEnded, Manual!ProjectionAwaitsTraining,
     ManualProjecting

LEMMA ManualLeasedOutside ==
  ASSUME Manual!BatchAssumption, Manual!TypeOK, ManualLeased, Manual!ProjectionAwaitsTraining,
         \/ \E j \in Requests : Manual!Enqueue(j) \/ Manual!RequestCancel(j) \/ Manual!Retry(j)
         \/ ManualTrains \/ Manual!LeaseExpires
         \/ \E c \in Manual!Checkpoints, a \in Manual!Attempts :
              Manual!AttemptExpires(c, a) \/ \E v \in WorkerVerdicts : Manual!Upload(c, a, v)
  PROVE  ManualLeased' /\ Manual!ProjectionAwaitsTraining'
<1>1. CASE Manual!LeaseExpires
  <2>1. /\ UNCHANGED <<uTraining, uRetries, uStep, uJournal, uProjection, uPublished>>
        /\ uLease' = "none"
        /\ uSeen' = [uSeen EXCEPT !.own = IF uSeen.own = "live" THEN "expired" ELSE uSeen.own]
    BY <1>1 DEF Manual!LeaseExpires, Manual!projected
  <2>2. /\ uSeen'.terminal = uSeen.terminal /\ uSeen'.own # "live"
        /\ uSeen.own # "none" => uSeen'.own # "none"
    BY <2>1 DEF Manual!TypeOK
  <2> QED
    BY <2>1, <2>2 DEF ManualLeased, ManualEnded, Manual!ProjectionAwaitsTraining
<1>2. CASE ManualTrains
  <2>1. UNCHANGED <<uSeen, uStep, uJournal, uProjection, uPublished>>
    BY <1>2 DEF ManualTrains, Manual!TrainingAccepts, Manual!TrainingStarts,
       Manual!TrainingPromotes, Manual!TrainingEnds, Manual!TrainingIsInterrupted,
       Manual!RetryTraining, Manual!PutManifest, Manual!Trains, Manual!worker,
       Manual!projected
  <2>2. /\ ManualEnded => ManualEnded'
        /\ uTraining' = "active" /\ uRetries' = 0 => uTraining = "active" /\ uRetries = 0
    BY <1>2 DEF ManualTrains, ManualEnded, Manual!TrainingAccepts, Manual!TrainingStarts,
       Manual!TrainingPromotes, Manual!TrainingEnds, Manual!TrainingIsInterrupted,
       Manual!RetryTraining, Manual!PutManifest, Manual!Trains, Manual!TypeOK
  <2>3. uLease' = uLease \/ (uLease # "job" /\ uLease' \in {"none", "training"})
    BY <1>2 DEF ManualTrains, Manual!TrainingAccepts, Manual!TrainingStarts,
       Manual!TrainingPromotes, Manual!TrainingEnds, Manual!TrainingIsInterrupted,
       Manual!RetryTraining, Manual!PutManifest, Manual!Trains
  <2>4. uSeen.own \in {"none", "live", "expired"}
    BY DEF Manual!TypeOK
  <2> QED
    BY <2>1, <2>2, <2>3, <2>4 DEF ManualLeased, Manual!ProjectionAwaitsTraining,
       ManualProjecting
<1>3. CASE \/ \E j \in Requests : Manual!Enqueue(j) \/ Manual!RequestCancel(j)
                 \/ Manual!Retry(j)
           \/ \E c \in Manual!Checkpoints, a \in Manual!Attempts :
                Manual!AttemptExpires(c, a)
                  \/ \E v \in WorkerVerdicts : Manual!Upload(c, a, v)
  <2>1. UNCHANGED <<Manual!worker, Manual!projected, Manual!run>>
    BY <1>3 DEF Manual!Enqueue, Manual!RequestCancel, Manual!Retry, Manual!Request,
       Manual!AttemptExpires, Manual!Upload
  <2> QED
    BY <2>1 DEF ManualLeased, ManualEnded, Manual!ProjectionAwaitsTraining, Manual!worker,
       Manual!projected, Manual!run
<1> QED
  BY <1>1, <1>2, <1>3

LEMMA ManualLeasedAdvances ==
  ASSUME Manual!BatchAssumption, Manual!TypeOK, ManualLeased, Manual!ProjectionAwaitsTraining,
         Manual!Advance \/ Manual!Goes
  PROVE  ManualLeased' /\ Manual!ProjectionAwaitsTraining'
<1>1. ASSUME NEW j \in Requests, Manual!Claim(j) PROVE ManualLeased'
             /\ Manual!ProjectionAwaitsTraining'
  <2>1. /\ UNCHANGED <<uTraining, uRetries, uLease, uJournal, uProjection, uPublished>>
        /\ uStep' = "admit" /\ uSeen' = [Manual!Nobody EXCEPT !.cancel = uCancel[j]]
    BY <1>1 DEF Manual!Claim, Manual!run, Manual!projected
  <2>2. uCancel[j] \in BOOLEAN
    BY DEF Manual!TypeOK
  <2> QED
    BY <2>1, <2>2, ManualLeasedWorks DEF ManualProjecting
<1>2. CASE Manual!TerminalStatus
  <2>1. UNCHANGED <<uTraining, uRetries, uLease, uSeen, uJournal, uProjection, uPublished>>
    BY <1>2 DEF Manual!TerminalStatus, Manual!Report, Manual!GoTo, Manual!run,
       Manual!projected
  <2>2. uStep' \in {"look", "settle"} \/ (uStep' = "append" /\ uSeen.terminal)
    BY <1>2 DEF Manual!TerminalStatus, Manual!Report, Manual!GoTo
  <2> QED
    BY <2>1, <2>2 DEF ManualLeased, ManualEnded, Manual!ProjectionAwaitsTraining,
       ManualProjecting
<1>3. CASE Manual!Look \/ Manual!Verify \/ Manual!Prepare \/ Manual!Submit \/ Manual!SubmitFails
           \/ Manual!Dispatch
  <2>1. UNCHANGED <<uTraining, uRetries, uLease, uJournal, uProjection, uPublished>>
    BY <1>3 DEF Manual!Look, Manual!Verify, Manual!Prepare, Manual!Submit,
       Manual!SubmitFails, Manual!Dispatch, Manual!run, Manual!projected
  <2>2. (uSeen' = uSeen \/ uSeen' = Manual!Nobody)
        /\ uStep' \notin ManualProjecting \cup {"lease"}
    BY <1>3 DEF Manual!Look, Manual!Verify, Manual!Prepare, Manual!Submit,
       Manual!SubmitFails, Manual!Dispatch, Manual!Report, Manual!GoTo, Manual!Finish,
       ManualProjecting
  <2> QED
    BY <2>1, <2>2, ManualLeasedWorks
<1>4. CASE Manual!Settle \/ Manual!FindCandidate \/ Manual!Promote \/ Manual!Summarize
           \/ Manual!PutReceipt
  <2>1. UNCHANGED <<uTraining, uRetries, uLease, uJournal, uProjection, uPublished>>
    BY <1>4 DEF Manual!Settle, Manual!FindCandidate, Manual!Promote, Manual!Summarize,
       Manual!PutReceipt, Manual!run, Manual!projected
  <2>2. (uSeen' = uSeen \/ uSeen' = Manual!Nobody)
        /\ uStep' \notin ManualProjecting \cup {"lease"}
    BY <1>4 DEF Manual!Settle, Manual!FindCandidate, Manual!Promote, Manual!Summarize,
       Manual!PutReceipt, Manual!GoTo, Manual!Finish, ManualProjecting
  <2> QED
    BY <2>1, <2>2, ManualLeasedWorks
<1>5. CASE Manual!SummaryFails \/ Manual!FinishJob \/ Manual!Raises \/ Manual!WorkerDies
           \/ Manual!LeaseIsTaken \/ Manual!ProjectionFails
  <2>1. UNCHANGED <<uTraining, uRetries, uLease, uJournal, uProjection, uPublished>>
    BY <1>5 DEF Manual!SummaryFails, Manual!FinishJob, Manual!Raises, Manual!WorkerDies,
       Manual!LeaseIsTaken, Manual!ProjectionFails, Manual!run, Manual!projected
  <2>2. (uSeen' = uSeen \/ uSeen' = Manual!Nobody)
        /\ uStep' \notin ManualProjecting \cup {"lease"}
    BY <1>5 DEF Manual!SummaryFails, Manual!FinishJob, Manual!Raises, Manual!WorkerDies,
       Manual!LeaseIsTaken, Manual!ProjectionFails, Manual!Report, Manual!Finish,
       ManualProjecting
  <2> QED
    BY <2>1, <2>2, ManualLeasedWorks
<1> QED
  BY <1>1, <1>2, <1>3, <1>4, <1>5, ManualLeasedAdmits, ManualLeasedTakes,
     ManualLeasedAppends, ManualLeasedProjects, Zenon DEF Manual!Advance, Manual!Goes

(* Before the first receipt of training nothing is projected, and beside a *)
(* later Attempt that holds the lease only by an advance whose own lease   *)
(* has run out.                                                            *)
THEOREM ProjectionIsLate ==
  ASSUME Manual!BatchAssumption PROVE Manual!Spec => []Manual!ProjectionAwaitsTraining
<1> DEFINE Inv == ManualLeased /\ Manual!ProjectionAwaitsTraining
<1>1. Manual!Init => Inv
  BY DEF Manual!Init, Manual!Nobody, ManualLeased, ManualProjecting,
     Manual!ProjectionAwaitsTraining
<1>2. Manual!TypeOK /\ Inv /\ [Manual!Next]_Manual!vars => Inv'
  <2>1. ASSUME Manual!TypeOK, Inv, UNCHANGED Manual!vars PROVE Inv'
    BY <2>1 DEF Manual!vars, Manual!run, Manual!projected, Manual!worker, ManualLeased,
       ManualEnded, Manual!ProjectionAwaitsTraining
  <2>2. ASSUME Manual!TypeOK, Inv, Manual!Next PROVE Inv'
    BY <2>2, ManualLeasedOutside, ManualLeasedAdvances, Zenon DEF Manual!Next, ManualTrains
  <2> QED
    BY <2>1, <2>2
<1>3. Manual!Spec => []Manual!TypeOK
  <2>1. Manual!Spec => [](Manual!TypeOK /\ Manual!SuccessIsBacked)
    BY SuccessIsHonest
  <2> QED
    BY <2>1, PTL
<1>4. Inv => Manual!ProjectionAwaitsTraining
  OBVIOUS
<1> QED
  BY <1>1, <1>2, <1>3, <1>4, PTL DEF Manual!Spec

=============================================================================
