----------------------------- MODULE StateArchive -----------------------------
(***************************************************************************)
(* The state archive of a Run: the directory the learner keeps             *)
(* (state_archive.py, driven by batch_runtime.py), its publication by the  *)
(* supervisor (run_supervisor.py) as objects, a generation and             *)
(* latest.json, the pruning that follows, and its restoration by the next  *)
(* Attempt (run_authority.py).                                             *)
(*                                                                         *)
(* A closure lists the files of the directory: entries, which never        *)
(* change, and one view, which refers to entries.  The file lock keeps the *)
(* learner out while the supervisor stages a closure.  Every request to    *)
(* the store follows a heartbeat of the writer lease; the Attempt that has *)
(* lost it makes no further request, except the one that was under way,    *)
(* which may reach the store late.                                         *)
(***************************************************************************)
EXTENDS Naturals

CONSTANTS
  Entries,      \* the entries a learner may capture
  MaxAttempts,  \* bound of the model: Attempts of the Run
  MaxSteps,     \* bound of the model: closures that are sealed
  Nothing

Attempts == 1..MaxAttempts
Closure == [step : 1..MaxSteps, entries : SUBSET Entries, view : SUBSET Entries]
Files == {<<"entry", e>> : e \in Entries} \cup {<<"view", s>> : s \in SUBSET Entries}

ArchiveAssumption ==
  MaxAttempts \in Nat \ {0} /\ MaxSteps \in Nat /\ Nothing \notin Closure

(* The files of a closure or a generation.                                 *)
Content(c) == {<<"entry", e>> : e \in c.entries} \cup {<<"view", c.view>>}

Keys(gs) == {<<"generation", g>> : g \in gs}

VARIABLES
  \* The directory, and where its learner is.
  local, view, closure, learner, sealed,
  \* The bucket.
  objects, generations, latest,
  \* The Attempt that has the lease, and its supervisor.
  owner, pc,
  stage,      \* the closure being published
  published,  \* state_archive_closure_sha256: the closure this Attempt last published
  prior,      \* the files of the generation before it
  doomed,     \* the keys to delete
  \* A request of an earlier Attempt that has not reached the store yet.
  late,
  overrun     \* such a request has replaced latest.json or deleted a key

directory == <<local, view, closure, learner, sealed>>
bucket == <<objects, generations, latest>>
supervisor == <<owner, pc, stage, published, prior, doomed>>
vars == <<directory, bucket, supervisor, late, overrun>>

Init ==
  /\ local = {} /\ view = {} /\ closure = Nothing /\ learner = "run" /\ sealed = 0
  /\ objects = {} /\ generations = {} /\ latest = Nothing
  /\ owner = 1 /\ pc = "idle" /\ stage = Nothing /\ published = Nothing
  /\ prior = {} /\ doomed = {}
  /\ late = Nothing /\ overrun = FALSE

-----------------------------------------------------------------------------
(* The learner.                                                            *)
Capture(e) ==
  /\ learner = "run" /\ local' = local \cup {e}
  /\ UNCHANGED <<view, closure, learner, sealed, bucket, supervisor, late, overrun>>

(* persist: write_view and then retain_entries, with the same entries.     *)
WriteView(s) ==
  /\ learner = "run" /\ s \subseteq local
  /\ view' = s /\ closure' = Nothing /\ learner' = "retain"
  /\ UNCHANGED <<local, sealed, bucket, supervisor, late, overrun>>

Retain ==
  /\ learner = "retain"
  /\ local' = view /\ closure' = Nothing
  /\ learner' \in {"run", "seal"}
  /\ UNCHANGED <<view, sealed, bucket, supervisor, late, overrun>>

Seal ==
  /\ learner = "seal" /\ sealed < MaxSteps
  /\ sealed' = sealed + 1
  /\ closure' = [step |-> sealed + 1, entries |-> local, view |-> view]
  /\ learner' = "run"
  /\ UNCHANGED <<local, view, bucket, supervisor, late, overrun>>

-----------------------------------------------------------------------------
(* The supervisor.                                                         *)
GoTo(step) == pc' = step
Idle == GoTo("idle") /\ stage' = Nothing /\ prior' = {} /\ doomed' = {}

(* Under the file lock: the files must be those the closure lists.         *)
Stage ==
  /\ pc = "idle" /\ closure # Nothing /\ closure # published
  /\ closure.entries \subseteq local /\ closure.view = view
  /\ stage' = closure /\ GoTo("prior")
  /\ UNCHANGED <<directory, bucket, owner, published, prior, doomed, late, overrun>>

ReadPrior ==
  /\ pc = "prior"
  /\ latest # Nothing => latest \in generations
  /\ prior' = IF latest = Nothing THEN {} ELSE Content(latest)
  /\ GoTo("objects")
  /\ UNCHANGED <<directory, bucket, owner, stage, published, doomed, late, overrun>>

(* A file of the prior generation is not stored again.                     *)
Missing == (Content(stage) \ prior) \ objects

PutObject(file) ==
  /\ pc = "objects" /\ file \in Missing
  /\ objects' = objects \cup {file}
  /\ UNCHANGED <<directory, generations, latest, supervisor, late, overrun>>

PutGeneration ==
  /\ pc = "objects" /\ Missing = {}
  /\ generations' = generations \cup {stage}
  /\ GoTo("latest")
  /\ UNCHANGED <<directory, objects, latest, owner, stage, published, prior, doomed, late, overrun>>

PutLatest ==
  /\ pc = "latest"
  /\ latest' = stage
  /\ GoTo("prune")
  /\ UNCHANGED <<directory, objects, generations, owner, stage, published, prior, doomed, late, overrun>>

(* Faulty variant: what is retained is the generation before.              *)
ListObsolete_BeforeLast ==
  /\ pc = "prune"
  /\ latest # Nothing => latest \in generations
  /\ doomed' = (objects \ prior) \cup Keys(generations \ {latest})
  /\ GoTo("delete")
  /\ UNCHANGED <<directory, bucket, owner, stage, published, prior, late, overrun>>

(* prune_state_archive reads latest.json and its generation again.         *)
ListObsolete ==
  /\ pc = "prune"
  /\ latest # Nothing => latest \in generations
  /\ doomed' = IF latest = Nothing THEN {}
               ELSE (objects \ Content(latest)) \cup Keys(generations \ {latest})
  /\ GoTo("delete")
  /\ UNCHANGED <<directory, bucket, owner, stage, published, prior, late, overrun>>

Delete(key) ==
  /\ pc = "delete" /\ key \in doomed
  /\ objects' = objects \ {key} /\ generations' = {g \in generations : Keys({g}) # {key}}
  /\ doomed' = doomed \ {key}
  /\ UNCHANGED <<directory, latest, owner, pc, stage, published, prior, late, overrun>>

Finish ==
  /\ pc = "delete" /\ doomed = {}
  /\ published' = stage /\ Idle
  /\ UNCHANGED <<directory, bucket, owner, late, overrun>>

-----------------------------------------------------------------------------
(* The next Attempt.                                                       *)
UnderWay ==
  CASE pc = "objects" /\ Missing # {} -> {<<"object", file>> : file \in Missing}
    [] pc = "objects" /\ Missing = {} -> {<<"generation", stage>>}
    [] pc = "latest" -> {<<"latest", stage>>}
    [] pc = "delete" -> {<<"delete", key>> : key \in doomed}
    [] OTHER -> {}

(* It takes the lease over, restores the generation latest.json names,     *)
(* and starts a learner, in a new directory or in that of the last one.    *)
(* An archive that cannot be restored ends it.                             *)
Restorable ==
  latest # Nothing =>
    latest \in generations /\ Content(latest) \subseteq objects

TakeOver ==
  /\ owner < MaxAttempts /\ owner' = owner + 1
  /\ late' \in IF late = Nothing THEN UnderWay \cup {Nothing} ELSE {late}
  /\ Idle
  /\ IF latest = Nothing
     THEN /\ \/ UNCHANGED <<local, view, closure>>
             \/ local' = {} /\ view' = {} /\ closure' = Nothing
          /\ learner' = "run" /\ published' = Nothing
     ELSE /\ Restorable
          /\ local' \in {latest.entries, local \cup latest.entries}
          /\ view' = latest.view /\ closure' = latest /\ published' = Nothing
          /\ learner' = "run"
  /\ UNCHANGED <<sealed, bucket, overrun>>

LateRequest ==
  /\ late # Nothing /\ late' = Nothing
  /\ LET kind == late[1]  what == late[2] IN
     /\ objects' = CASE kind = "object" -> objects \cup {what}
                     [] kind = "delete" -> objects \ {what}
                     [] OTHER -> objects
     /\ generations' = CASE kind = "generation" -> generations \cup {what}
                         [] kind = "delete" -> {g \in generations : Keys({g}) # {what}}
                         [] OTHER -> generations
     /\ latest' = IF kind = "latest" THEN what ELSE latest
     /\ overrun' = (overrun \/ kind \in {"latest", "delete"})
  /\ UNCHANGED <<directory, supervisor>>

-----------------------------------------------------------------------------
Next ==
  \/ \E e \in Entries : Capture(e)
  \/ \E s \in SUBSET Entries : WriteView(s)
  \/ Retain \/ Seal
  \/ Stage \/ ReadPrior \/ PutGeneration \/ PutLatest \/ ListObsolete \/ Finish
  \/ \E file \in Files : PutObject(file)
  \/ \E key \in doomed : Delete(key)
  \/ TakeOver \/ LateRequest

Spec == Init /\ [][Next]_vars
-----------------------------------------------------------------------------
(* Every variable keeps its kind of value.                                 *)
TypeOK ==
  /\ local \in SUBSET Entries /\ view \in SUBSET Entries
  /\ closure \in Closure \cup {Nothing} /\ learner \in {"run", "retain", "seal"}
  /\ sealed \in 0..MaxSteps
  /\ objects \in SUBSET Files /\ generations \in SUBSET Closure
  /\ latest \in Closure \cup {Nothing}
  /\ owner \in Attempts
  /\ pc \in {"idle", "prior", "objects", "latest", "prune", "delete"}
  /\ stage \in Closure \cup {Nothing} /\ published \in Closure \cup {Nothing}
  /\ prior \in SUBSET Files /\ doomed \subseteq Files \cup Keys(Closure)
  /\ late = Nothing \/ late[1] \in {"object", "generation", "latest", "delete"}
  /\ overrun \in BOOLEAN

(* "Recovery acquires this same lease before reading a generation, so its  *)
(* current inventory cannot be retired concurrently"                       *)
(* (prune_state_archive): latest.json names an archive that can be         *)
(* restored and whose view refers to its own entries, at whichever step a  *)
(* supervisor or a learner died and whatever was pruned; unless a writer   *)
(* that had lost the lease replaced latest.json or deleted a key late.     *)
LatestIsRestorable ==
  ~overrun => Restorable /\ (latest # Nothing => latest.view \subseteq latest.entries)
=============================================================================
