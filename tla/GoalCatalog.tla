----------------------------- MODULE GoalCatalog -----------------------------
(***************************************************************************)
(* The catalog of one goal (goal_catalog_projection.py) and the processes  *)
(* that record facts in it (run_authority.py).                             *)
(*                                                                         *)
(* A fact is an immutable document, its source, announced by an immutable  *)
(* event that names the source and its digest and is stored first.  A      *)
(* projection rebuilds the whole catalog from the events whose source is   *)
(* found, stores it under its digest and replaces the pointer with a       *)
(* compare-and-swap.  Projections are run by a thread of the process that  *)
(* recorded the fact and, when that thread fails or is slow, by a queued   *)
(* job; they race with each other.  A request to the store is one step.    *)
(* Pages and generations are content-addressed and written only once, so   *)
(* storing them belongs to the step that leads to the pointer.             *)
(***************************************************************************)
EXTENDS Naturals

CONSTANTS
  Events,     \* the facts; each is recorded by one process
  Workers,    \* the workers that run queued projections
  Attempts,   \* maximum_attempts of reconcile
  MaxFaults,  \* bound of the model: deaths and failed requests
  Nothing     \* no pointer

CatalogAssumption ==
  /\ Attempts \in Nat \ {0} /\ MaxFaults \in Nat
  /\ Events \cap Workers = {}
  /\ Workers \cap {"none", "queued", "done"} = {}  \* a job's field tells them apart
  /\ \A E \in SUBSET Events : E # Nothing

Projectors == Events \cup Workers  \* the thread of a recording process is named by its fact

VARIABLES
  \* The object store.
  stored,   \* the events
  sources,  \* the facts whose source document is stored
  pointer,  \* the pointer: its ETag and the events the catalog it names has applied
  acked,    \* the acknowledged events
  \* The processes that record facts, one for each.
  at,       \* where it is
  \* The queue of jobs.
  job,      \* the projection job of a fact
  \* The projections.
  pc, seen, tag, found, tries,
  faults

store == <<stored, sources, pointer, acked>>
projection == <<pc, seen, tag, found, tries>>
vars == <<store, at, job, projection, faults>>

Init ==
  /\ stored = {} /\ sources = {} /\ acked = {}
  /\ pointer = [etag |-> 0, applied |-> {}]  \* ETag 0: there is no pointer yet
  /\ at = [e \in Events |-> "event"]
  /\ job = [e \in Events |-> "none"]
  /\ pc = [x \in Projectors |-> "rest"]
  /\ seen = [x \in Projectors |-> Nothing]
  /\ tag = [x \in Projectors |-> 0]
  /\ found = [x \in Projectors |-> {}]
  /\ tries = [x \in Projectors |-> 0]
  /\ faults = 0

Running == {"pointer", "tag", "list", "verify", "replace", "readback", "acknowledge"}

Elsewhere == UNCHANGED <<stored, sources, at, job, faults>>
GoTo(x, step) == pc' = [pc EXCEPT ![x] = step]

(* What an execution knew is gone when it ends; what it needs no longer it *)
(* forgets at once.                                                        *)
Forget(x) ==
  /\ seen' = [seen EXCEPT ![x] = Nothing] /\ tag' = [tag EXCEPT ![x] = 0]
  /\ found' = [found EXCEPT ![x] = {}] /\ tries' = [tries EXCEPT ![x] = 0]

-----------------------------------------------------------------------------
(* The recording process: event, source, projection thread, job.           *)
PutEvent(e) ==
  /\ at[e] = "event"
  /\ stored' = stored \cup {e}
  /\ at' = [at EXCEPT ![e] = "source"]
  /\ UNCHANGED <<sources, pointer, acked, job, projection, faults>>

PutSource(e) ==
  /\ at[e] = "source"
  /\ sources' = sources \cup {e}
  /\ at' = [at EXCEPT ![e] = "schedule"]
  /\ UNCHANGED <<stored, pointer, acked, job, projection, faults>>

Start(x) ==
  /\ pc' = [pc EXCEPT ![x] = "pointer"]
  /\ UNCHANGED <<seen, tag, found, tries>>

Schedule(e) ==
  /\ at[e] = "schedule"
  /\ Start(e)
  /\ at' = [at EXCEPT ![e] = "join"]
  /\ UNCHANGED <<store, job, faults>>

(* The thread is waited for two seconds; it may go on after them.          *)
Joined(e) ==
  /\ at[e] = "join" /\ pc[e] = "done"
  /\ at' = [at EXCEPT ![e] = "over"]
  /\ UNCHANGED <<store, job, projection, faults>>

(* Faulty variant: a slow or failed projection is left to the thread.      *)
Enqueue_Never(e) ==
  /\ at[e] = "join" /\ pc[e] # "done"
  /\ at' = [at EXCEPT ![e] = "over"]
  /\ UNCHANGED <<store, job, projection, faults>>

Enqueue(e) ==
  /\ at[e] = "join" /\ pc[e] # "done"
  /\ at' = [at EXCEPT ![e] = "over"]
  /\ job' = [job EXCEPT ![e] = "queued"]
  /\ UNCHANGED <<store, projection, faults>>

(* An error of the queue is swallowed.                                     *)
EnqueueFails(e) ==
  /\ at[e] = "join" /\ pc[e] # "done"
  /\ faults < MaxFaults /\ faults' = faults + 1
  /\ at' = [at EXCEPT ![e] = "lost"]
  /\ UNCHANGED <<store, job, projection>>

(* The process ends after its work, and its thread, a daemon, with it.     *)
Ends(e) ==
  /\ at[e] \in {"over", "lost"} /\ pc[e] \in Running
  /\ GoTo(e, "failed") /\ Forget(e)
  /\ UNCHANGED <<store, at, job, faults>>

Dies(e) ==
  /\ at[e] \notin {"over", "lost"}
  /\ faults < MaxFaults /\ faults' = faults + 1
  /\ at' = [at EXCEPT ![e] = "lost"]
  /\ GoTo(e, "failed") /\ Forget(e)
  /\ UNCHANGED <<store, job>>

-----------------------------------------------------------------------------
(* The job: it is tried again until a projection succeeds.                 *)
TakeJob(x, e) ==
  /\ pc[x] = "rest" /\ job[e] = "queued"
  /\ job' = [job EXCEPT ![e] = x]
  /\ Start(x)
  /\ UNCHANGED <<store, at, faults>>

ReportJob(x, e) ==
  /\ job[e] = x /\ pc[x] \in {"done", "failed"}
  /\ job' = [job EXCEPT ![e] = IF pc[x] = "done" THEN "done" ELSE "queued"]
  /\ pc' = [pc EXCEPT ![x] = "rest"]
  /\ UNCHANGED <<store, at, seen, tag, found, tries, faults>>

-----------------------------------------------------------------------------
(* reconcile.                                                              *)
ReadPointer(x) ==
  /\ pc[x] = "pointer"
  /\ IF pointer.etag = 0
     THEN /\ seen' = [seen EXCEPT ![x] = Nothing]
          /\ tag' = [tag EXCEPT ![x] = 0]
          /\ GoTo(x, "list")
     ELSE /\ seen' = [seen EXCEPT ![x] = pointer.applied]
          /\ GoTo(x, "tag") /\ UNCHANGED tag
  /\ UNCHANGED <<pointer, acked, found, tries>> /\ Elsewhere

(* The ETag is asked for separately; it may be that of a newer pointer.    *)
ReadTag(x) ==
  /\ pc[x] = "tag"
  /\ tag' = [tag EXCEPT ![x] = pointer.etag]
  /\ GoTo(x, "list")
  /\ UNCHANGED <<pointer, acked, seen, found, tries>> /\ Elsewhere

ListEvents(x) ==
  /\ pc[x] = "list"
  /\ found' = [found EXCEPT ![x] = stored]
  /\ GoTo(x, "verify")
  /\ UNCHANGED <<pointer, acked, seen, tag, tries>> /\ Elsewhere

(* Events without their source are orphans and left out.  A catalog equal  *)
(* to the one that was read is not stored again.                           *)
Verify(x) ==
  /\ pc[x] = "verify"
  /\ LET verified == found[x] \cap sources
     IN /\ found' = [found EXCEPT ![x] = verified]
        /\ GoTo(x, IF seen[x] = verified THEN "acknowledge" ELSE "replace")
        /\ tag' = [tag EXCEPT ![x] = IF seen[x] = verified THEN 0 ELSE @]
        /\ tries' = [tries EXCEPT ![x] = IF seen[x] = verified THEN 0 ELSE @]
  /\ seen' = [seen EXCEPT ![x] = Nothing]
  /\ UNCHANGED <<pointer, acked>> /\ Elsewhere

(* Faulty variant: the pointer is put without If-Match.                    *)
Replace_Unconditional(x) ==
  /\ pc[x] = "replace"
  /\ pointer' = [etag |-> pointer.etag + 1, applied |-> found[x]]
  /\ tag' = [tag EXCEPT ![x] = pointer.etag + 1]
  /\ GoTo(x, "readback")
  /\ UNCHANGED <<acked, seen, found, tries>> /\ Elsewhere

(* Faulty variant: one attempt too many.                                   *)
Replace_TooOften(x) ==
  /\ pc[x] = "replace"
  /\ IF tag[x] = pointer.etag
     THEN /\ pointer' = [etag |-> pointer.etag + 1, applied |-> found[x]]
          /\ tag' = [tag EXCEPT ![x] = pointer.etag + 1]
          /\ tries' = [tries EXCEPT ![x] = 0]
          /\ GoTo(x, "readback") /\ UNCHANGED <<seen, found>>
     ELSE /\ IF tries[x] < Attempts
             THEN /\ tries' = [tries EXCEPT ![x] = @ + 1]
                  /\ tag' = [tag EXCEPT ![x] = 0] /\ found' = [found EXCEPT ![x] = {}]
                  /\ GoTo(x, "pointer") /\ UNCHANGED seen
             ELSE GoTo(x, "failed") /\ Forget(x)
          /\ UNCHANGED pointer
  /\ UNCHANGED acked /\ Elsewhere

Replace(x) ==
  /\ pc[x] = "replace"
  /\ IF tag[x] = pointer.etag
     THEN /\ pointer' = [etag |-> pointer.etag + 1, applied |-> found[x]]
          /\ tag' = [tag EXCEPT ![x] = pointer.etag + 1]
          /\ tries' = [tries EXCEPT ![x] = 0]
          /\ GoTo(x, "readback") /\ UNCHANGED <<seen, found>>
     ELSE /\ IF tries[x] + 1 < Attempts
             THEN /\ tries' = [tries EXCEPT ![x] = @ + 1]
                  /\ tag' = [tag EXCEPT ![x] = 0] /\ found' = [found EXCEPT ![x] = {}]
                  /\ GoTo(x, "pointer") /\ UNCHANGED seen
             ELSE GoTo(x, "failed") /\ Forget(x)
          /\ UNCHANGED pointer
  /\ UNCHANGED acked /\ Elsewhere

(* A newer catalog makes the projection fail although it was published.    *)
ReadBack(x) ==
  /\ pc[x] = "readback"
  /\ IF pointer.etag = tag[x]
     THEN /\ GoTo(x, "acknowledge") /\ tag' = [tag EXCEPT ![x] = 0]
          /\ UNCHANGED <<seen, found, tries>>
     ELSE GoTo(x, "failed") /\ Forget(x)
  /\ UNCHANGED <<pointer, acked>> /\ Elsewhere

Acknowledge(x) ==
  /\ pc[x] = "acknowledge"
  /\ IF found[x] \subseteq acked
     THEN GoTo(x, "done") /\ Forget(x) /\ UNCHANGED acked
     ELSE /\ \E e \in found[x] \ acked : acked' = acked \cup {e}
          /\ UNCHANGED projection
  /\ UNCHANGED pointer /\ Elsewhere

(* A request fails, or the worker dies and its job is recovered.           *)
Fails(x) ==
  /\ pc[x] \in Running
  /\ faults < MaxFaults /\ faults' = faults + 1
  /\ GoTo(x, "failed") /\ Forget(x)
  /\ UNCHANGED <<store, at, job>>

-----------------------------------------------------------------------------
Record(e) ==
  PutEvent(e) \/ PutSource(e) \/ Schedule(e) \/ Joined(e) \/ Enqueue(e)

Project(x) ==
  \/ ReadPointer(x) \/ ReadTag(x) \/ ListEvents(x) \/ Verify(x)
  \/ Replace(x) \/ ReadBack(x) \/ Acknowledge(x)

RunJob(x) == \E e \in Events : TakeJob(x, e) \/ ReportJob(x, e)

Next ==
  \/ \E e \in Events : Record(e) \/ EnqueueFails(e) \/ Ends(e) \/ Dies(e)
  \/ \E x \in Projectors : Project(x) \/ Fails(x)
  \/ \E x \in Workers : RunJob(x)

Spec == Init /\ [][Next]_vars
-----------------------------------------------------------------------------
(* Every variable keeps its kind of value, and no projection starts more   *)
(* than maximum_attempts rounds.                                           *)
TypeOK ==
  /\ stored \in SUBSET Events /\ sources \in SUBSET stored /\ acked \in SUBSET sources
  /\ pointer.etag \in Nat /\ pointer.applied \in SUBSET sources
  /\ at \in [Events -> {"event", "source", "schedule", "join", "over", "lost"}]
  /\ job \in [Events -> {"none", "queued", "done"} \cup Workers]
  /\ pc \in [Projectors -> Running \cup {"rest", "done", "failed"}]
  /\ seen \in [Projectors -> {Nothing} \cup SUBSET Events]
  /\ tag \in [Projectors -> Nat]
  /\ found \in [Projectors -> SUBSET Events]
  /\ tries \in [Projectors -> 0..Attempts - 1]
  /\ faults \in 0..MaxFaults

(* Whatever the order of the projections that race, a published catalog    *)
(* never shows less than the one it replaces, and a fact is acknowledged   *)
(* only after a catalog that shows it was published (reconcile).           *)
Promise == INSTANCE CatalogRecord WITH shown <- pointer.applied, acknowledged <- acked
CatalogOnlyGrows == Promise!Spec

(* A fact whose source is stored and that is not acknowledged is still in  *)
(* somebody's hands: its process, whose projection has not succeeded, or a *)
(* job that will be tried (again).  A projection that succeeded has        *)
(* acknowledged the fact it was started for, whatever it raced with.  Only *)
(* the process that died, or could not queue the job, loses its fact.      *)
FactsHaveAnOwner ==
  \A e \in sources \ acked :
    \/ at[e] \in {"schedule", "lost"}
    \/ at[e] = "join" /\ pc[e] # "done"
    \/ job[e] = "queued"
    \/ job[e] \in Workers /\ pc[job[e]] # "done"
=============================================================================
