---------------------------- MODULE DatasetStore ----------------------------
(***************************************************************************)
(* A local collection of recorded episodes (dataset_store.py) and the      *)
(* commands that add to it and read it (dataset_record.py).                *)
(*                                                                         *)
(* A collection is the directory "current".  It is replaced in a           *)
(* transaction: the new tree is built in "next", transaction.json names    *)
(* the phase, two renames and a removal follow, and whoever takes the      *)
(* exclusive lock first finishes what a dead process left.  A layout that  *)
(* fits no phase is moved to the quarantine, with everything there.        *)
(*                                                                         *)
(* "record" first salvages the sessions that earlier recordings left       *)
(* behind, then records into a session of its own and adopts it.  Every    *)
(* recorder is one invocation and one session with one episode; both are   *)
(* named by the recorder.  Every change of the disk is a step; processes   *)
(* die between any two, the machine does not.                              *)
(***************************************************************************)
EXTENDS Naturals

CONSTANTS
  Recorders,  \* invocations of record
  Readers,    \* invocations of the commands that open the collection
  MaxFaults,  \* bound of the model: deaths and exceptions
  None

Processes == Recorders \cup Readers
Tree == [episodes : SUBSET Recorders, whole : BOOLEAN]
Transaction == [step : {"prepared", "backup_moved", "current_installed", "current_validated"},
                had : BOOLEAN, new : SUBSET Recorders]

StoreAssumption ==
  /\ Recorders \cap Readers = {} /\ MaxFaults \in Nat
  /\ None \notin Processes \cup Tree \cup Transaction

VARIABLES
  \* The directory of the collection.
  current, next, backup,  \* trees
  phase,                  \* transaction.json
  quarantine,             \* the trees moved there
  \* Its lock.
  exclusive, shared,
  \* The pending sessions.
  session,   \* the directory: "none", "here", "removing", "gone"
  episode,   \* "none"; "active", a journal; "package", a complete tree
  manifest,  \* its state: "recording", "committed"
  holder,    \* who has the lock of the session
  \* The processes.
  at,        \* where it is
  task,      \* what it took the exclusive lock for
  todo,      \* recover_pending: the sessions left to look at
  work,      \* the session it adopts
  view,      \* the tree a reader has open
  faults

trees == <<current, next, backup, phase, quarantine>>
locks == <<exclusive, shared>>
sessions == <<session, episode, manifest, holder>>
processes == <<at, task, todo, work, view>>
vars == <<trees, locks, sessions, processes, faults>>

Init ==
  /\ current = None /\ next = None /\ backup = None /\ phase = None /\ quarantine = {}
  /\ exclusive = None /\ shared = {}
  /\ session = [r \in Recorders |-> "none"] /\ episode = [r \in Recorders |-> "none"]
  /\ manifest = [r \in Recorders |-> "recording"] /\ holder = [r \in Recorders |-> None]
  /\ at = [p \in Processes |-> "start"] /\ task = [p \in Processes |-> "none"]
  /\ todo = [p \in Processes |-> {}] /\ work = [p \in Processes |-> None]
  /\ view = [p \in Processes |-> None]
  /\ faults = 0

Fault == faults < MaxFaults /\ faults' = faults + 1
Go(p, from, to) == at[p] = from /\ at' = [at EXCEPT ![p] = to]
There == UNCHANGED <<task, todo, work, view>>

-----------------------------------------------------------------------------
(* The exclusive lock, and recovery, which comes first under it.           *)
Ask(p, from, for) ==
  /\ Go(p, from, "enter")
  /\ task' = [task EXCEPT ![p] = for]

(* Faulty variant: a writer does not wait for the readers.                 *)
Enter_Exclusive(p) ==
  /\ Go(p, "enter", "recover") /\ There
  /\ exclusive = None
  /\ exclusive' = p
  /\ UNCHANGED <<trees, shared, sessions, faults>>

Enter(p) ==
  /\ Go(p, "enter", "recover") /\ There
  /\ exclusive = None /\ shared = {}
  /\ exclusive' = p
  /\ UNCHANGED <<trees, shared, sessions, faults>>

Layout(c, n, b) == (current # None) = c /\ (next # None) = n /\ (backup # None) = b

Moving(p) == exclusive = p /\ at[p] \in {"recover", "commit"} /\ phase # None
MovedBy(p) == UNCHANGED <<quarantine, locks, sessions, processes, faults>>

CurrentMoves == phase.step = "prepared" /\ phase.had /\ Layout(TRUE, TRUE, FALSE)

NextMoves ==
  \/ phase.step = "prepared" /\ ~phase.had /\ Layout(FALSE, TRUE, FALSE)
  \/ phase.step = "backup_moved" /\ phase.had /\ Layout(FALSE, TRUE, TRUE)

MoveCurrent(p) ==
  /\ Moving(p) /\ CurrentMoves
  /\ backup' = current /\ current' = None
  /\ UNCHANGED <<next, phase>> /\ MovedBy(p)

MoveNext(p) ==
  /\ Moving(p) /\ NextMoves
  /\ current' = next /\ next' = None
  /\ UNCHANGED <<backup, phase>> /\ MovedBy(p)

(* The phases a layout proves; the last one after the tree was validated.  *)
Proved ==
  { step \in {"backup_moved"} :
      phase.step = "prepared" /\ phase.had /\ Layout(FALSE, TRUE, TRUE) }
  \cup
  { step \in {"current_installed"} :
      \/ phase.step = "prepared" /\ ~phase.had /\ Layout(TRUE, FALSE, FALSE)
      \/ phase.step = "backup_moved" /\ phase.had /\ Layout(TRUE, FALSE, TRUE) }
  \cup
  { step \in {"current_validated"} :
      /\ phase.step = "current_installed" /\ Layout(TRUE, FALSE, phase.had)
      /\ current = [episodes |-> phase.new, whole |-> TRUE] }

WritePhase(p) ==
  /\ Moving(p)
  /\ \E step \in Proved : phase' = [phase EXCEPT !.step = step]
  /\ UNCHANGED <<current, next, backup>> /\ MovedBy(p)

Validated == phase.step = "current_validated" /\ current # None /\ next = None

DropBackup(p) ==
  /\ Moving(p) /\ Validated /\ backup # None
  /\ backup' = None
  /\ UNCHANGED <<current, next, phase>> /\ MovedBy(p)

DropPhase(p) ==
  /\ Moving(p) /\ Validated /\ backup = None
  /\ phase' = None
  /\ UNCHANGED <<current, next, backup>> /\ MovedBy(p)

(* Trees without a marker; with one, a layout that cannot be or exceptions.*)
Ambiguous(p) ==
  /\ exclusive = p /\ Go(p, "recover", "quarantine") /\ There
  /\ phase = None /\ (next # None \/ backup # None)
  /\ UNCHANGED <<trees, locks, sessions, faults>>

Raises(p) ==
  /\ Moving(p)
  /\ IF CurrentMoves \/ NextMoves \/ Proved # {} \/ Validated
       THEN Fault ELSE UNCHANGED faults
  /\ at' = [at EXCEPT ![p] = "quarantine"]
  /\ UNCHANGED <<trees, locks, sessions, task, todo, work, view>>

(* _quarantine_transaction: one rename after the other.                    *)
Away(tree) == quarantine' = quarantine \cup {tree}

QuarantineTree(p) ==
  /\ at[p] = "quarantine" /\ ~Layout(FALSE, FALSE, FALSE)
  /\ IF current # None
       THEN Away(current) /\ current' = None /\ UNCHANGED <<next, backup>>
     ELSE IF next # None
       THEN Away(next) /\ next' = None /\ UNCHANGED <<current, backup>>
     ELSE Away(backup) /\ backup' = None /\ UNCHANGED <<current, next>>
  /\ UNCHANGED <<phase, locks, sessions, processes, faults>>

(* What a process holds is free when it ends, however it ends.             *)
Free(p) ==
  /\ exclusive' = IF exclusive = p THEN None ELSE exclusive
  /\ shared' = shared \ {p}
  /\ holder' = [r \in Recorders |-> IF holder[r] = p THEN None ELSE holder[r]]
  /\ view' = [view EXCEPT ![p] = None]
  /\ UNCHANGED <<task, todo, work>>

(* ... and then the marker, and the error is raised.                       *)
QuarantineEnds(p) ==
  /\ Go(p, "quarantine", "gone") /\ Layout(FALSE, FALSE, FALSE)
  /\ phase' = None
  /\ Free(p)
  /\ UNCHANGED <<current, next, backup, quarantine, session, episode, manifest, faults>>

Recovered(p) ==
  /\ exclusive = p /\ Go(p, "recover", "recovered") /\ There
  /\ phase = None /\ next = None /\ backup = None
  /\ UNCHANGED <<trees, locks, sessions, faults>>

-----------------------------------------------------------------------------
(* adopt_tree, under the lock: merge, build, install.                      *)
Existing == IF current = None THEN {} ELSE current.episodes
Incoming(p) == {work[p]}

Leave(p, to) ==
  /\ Go(p, at[p], to) /\ There
  /\ exclusive' = None
  /\ UNCHANGED <<trees, shared, sessions, faults>>

NothingNew(p) ==
  /\ at[p] = "recovered" /\ task[p] = "adopt" /\ Incoming(p) \subseteq Existing
  /\ Leave(p, "adopted")

BuildBegins(p) ==
  /\ Go(p, "recovered", "build") /\ There
  /\ task[p] = "adopt" /\ ~(Incoming(p) \subseteq Existing)
  /\ next' = [episodes |-> {}, whole |-> FALSE]
  /\ UNCHANGED <<current, backup, phase, quarantine, locks, sessions, faults>>

Merged(p) == Existing \cup Incoming(p)

BuildEnds(p) ==
  /\ Go(p, "build", "install") /\ There
  /\ next' = [episodes |-> Merged(p), whole |-> TRUE]
  /\ UNCHANGED <<current, backup, phase, quarantine, locks, sessions, faults>>

Install(p) ==
  /\ Go(p, "install", "commit") /\ There
  /\ phase' = [step |-> "prepared", had |-> current # None, new |-> next.episodes]
  /\ UNCHANGED <<current, next, backup, quarantine, locks, sessions, faults>>

Committed(p) ==
  /\ at[p] = "commit" /\ phase = None
  /\ Leave(p, "adopted")

-----------------------------------------------------------------------------
(* record_command: recover_pending, preflight, a session, its adoption.    *)
Begin(r) ==
  /\ Go(r, "start", "scan")
  /\ todo' = [todo EXCEPT ![r] = {s \in Recorders : session[s] \in {"here", "removing"}}]
  /\ UNCHANGED <<trees, locks, sessions, task, work, view, faults>>

(* Its directory may be disappearing: the open of its lock fails.          *)
Look(r, s) ==
  /\ at[r] = "scan" /\ s \in todo[r]
  /\ todo' = [todo EXCEPT ![r] = @ \ {s}]
  /\ UNCHANGED <<trees, locks, session, manifest, view, faults>>

(* Held by another, ended, committed, or nothing in it can be recovered.   *)
Skip(r, s) ==
  /\ Look(r, s)
  /\ holder[s] # None \/ session[s] # "here" \/ manifest[s] = "committed"
       \/ episode[s] # "package"
  /\ UNCHANGED <<episode, holder, at, task, work>>

Vanished(r, s) ==
  /\ Look(r, s) /\ session[s] \in {"removing", "gone"}
  /\ at' = [at EXCEPT ![r] = "gone"]
  /\ UNCHANGED <<episode, holder, task, work>>

(* An active episode is turned into a package first.                       *)
Salvage(r, s) ==
  /\ Look(r, s)
  /\ holder[s] = None /\ session[s] = "here" /\ manifest[s] = "recording"
  /\ episode[s] \in {"active", "package"}
  /\ episode' = [episode EXCEPT ![s] = "package"]
  /\ holder' = [holder EXCEPT ![s] = r]
  /\ work' = [work EXCEPT ![r] = s]
  /\ Ask(r, "scan", "adopt")

Preflight(r) ==
  /\ Ask(r, "scan", "preflight") /\ todo[r] = {}
  /\ UNCHANGED <<trees, locks, sessions, todo, work, view, faults>>

PreflightEnds(r) ==
  /\ at[r] = "recovered" /\ task[r] = "preflight"
  /\ Leave(r, "reserve")

Reserve(r) ==
  /\ Go(r, "reserve", "record")
  /\ session' = [session EXCEPT ![r] = "here"]
  /\ holder' = [holder EXCEPT ![r] = r]
  /\ work' = [work EXCEPT ![r] = r]
  /\ UNCHANGED <<trees, locks, episode, manifest, task, todo, view, faults>>

RecordEpisode(r) ==
  /\ at[r] = "record"
  /\ episode' = [episode EXCEPT ![r] = CASE @ = "none" -> "active" [] OTHER -> "package"]
  /\ IF episode[r] = "active" THEN Ask(r, "record", "adopt") ELSE UNCHANGED <<at, task>>
  /\ UNCHANGED <<trees, locks, session, manifest, holder, todo, work, view, faults>>

(* The manifest says so; the own session is then removed.                  *)
Acknowledge(r) ==
  LET s == work[r] IN
  /\ Go(r, "adopted", IF s = r THEN "remove" ELSE "scan")
  /\ manifest' = [manifest EXCEPT ![s] = "committed"]
  /\ holder' = IF s = r THEN holder ELSE [holder EXCEPT ![s] = None]
  /\ UNCHANGED <<trees, locks, session, episode, task, todo, work, view, faults>>

Remove(r) ==
  /\ at[r] = "remove"
  /\ IF session[r] = "here"
       THEN /\ session' = [session EXCEPT ![r] = "removing"]
            /\ UNCHANGED <<at, holder>>
       ELSE /\ session' = [session EXCEPT ![r] = "gone"]
            /\ holder' = [holder EXCEPT ![r] = None]
            /\ at' = [at EXCEPT ![r] = "done"]
  /\ UNCHANGED <<trees, locks, episode, manifest, task, todo, work, view, faults>>

-----------------------------------------------------------------------------
(* open_source: a transaction that is under way is finished first.         *)
Clean == phase = None /\ next = None /\ backup = None

Share(p) ==
  /\ p \in Readers /\ at[p] \in {"start", "again"} /\ exclusive = None
  /\ IF at[p] = "start" /\ ~Clean
       THEN /\ Ask(p, "start", "read")
            /\ UNCHANGED <<shared, view>>
       ELSE /\ shared' = IF current = None THEN shared ELSE shared \cup {p}
            /\ view' = [view EXCEPT ![p] = current]
            /\ at' = [at EXCEPT ![p] = IF current = None THEN "gone" ELSE "reading"]
            /\ UNCHANGED task
  /\ UNCHANGED <<trees, exclusive, sessions, todo, work, faults>>

ShareAgain(p) ==
  /\ at[p] = "recovered" /\ task[p] = "read"
  /\ Leave(p, "again")

Close(p) ==
  /\ Go(p, "reading", "done")
  /\ Free(p)
  /\ UNCHANGED <<trees, session, episode, manifest, faults>>

-----------------------------------------------------------------------------
(* A process dies or raises.  A session without an episode goes with it.   *)
Ended == {"done", "gone"}

Fails(p) ==
  /\ at[p] \notin Ended \cup {"start"} /\ Fault
  /\ at' = [at EXCEPT ![p] = "gone"]
  /\ Free(p)
  /\ UNCHANGED <<trees, session, episode, manifest>>

(* Faulty variant: ... with or without an episode.                         *)
Abandon_Any(r) ==
  /\ at[r] = "gone" /\ session[r] = "here" /\ holder[r] = None
  /\ session' = [session EXCEPT ![r] = "gone"]
  /\ UNCHANGED <<trees, locks, episode, manifest, holder, processes, faults>>

Abandon(r) ==
  /\ at[r] = "gone" /\ session[r] = "here" /\ episode[r] = "none" /\ holder[r] = None
  /\ session' = [session EXCEPT ![r] = "gone"]
  /\ UNCHANGED <<trees, locks, episode, manifest, holder, processes, faults>>

Transact(p) ==
  \/ Enter(p) \/ MoveCurrent(p) \/ MoveNext(p) \/ WritePhase(p) \/ DropBackup(p)
  \/ DropPhase(p) \/ Ambiguous(p) \/ Raises(p) \/ QuarantineTree(p) \/ QuarantineEnds(p)
  \/ Recovered(p)

Record(r) ==
  \/ Begin(r) \/ Preflight(r) \/ PreflightEnds(r) \/ Reserve(r) \/ RecordEpisode(r)
  \/ NothingNew(r) \/ BuildBegins(r) \/ BuildEnds(r) \/ Install(r) \/ Committed(r)
  \/ Acknowledge(r) \/ Remove(r) \/ Abandon(r)
  \/ \E s \in Recorders : Skip(r, s) \/ Vanished(r, s) \/ Salvage(r, s)

Next ==
  \/ \E p \in Processes : Transact(p) \/ Fails(p)
  \/ \E r \in Recorders : Record(r)
  \/ \E p \in Readers : Share(p) \/ ShareAgain(p) \/ Close(p)

Spec == Init /\ [][Next]_vars
-----------------------------------------------------------------------------
TypeOK ==
  /\ {current, next, backup} \subseteq Tree \cup {None}
  /\ phase \in Transaction \cup {None} /\ quarantine \subseteq Tree
  /\ exclusive \in Processes \cup {None} /\ shared \subseteq Readers
  /\ session \in [Recorders -> {"none", "here", "removing", "gone"}]
  /\ episode \in [Recorders -> {"none", "active", "package"}]
  /\ manifest \in [Recorders -> {"recording", "committed"}]
  /\ holder \in [Recorders -> Recorders \cup {None}]
  /\ at \in [Processes -> Ended \cup {"start", "enter", "recover", "quarantine", "recovered",
        "build", "install", "commit", "adopted", "scan", "reserve", "record", "remove", "again",
        "reading"}]
  /\ task \in [Processes -> {"none", "adopt", "preflight", "read"}]
  /\ todo \in [Processes -> SUBSET Recorders] /\ work \in [Processes -> Recorders \cup {None}]
  /\ view \in [Processes -> Tree \cup {None}]
  /\ faults \in 0..MaxFaults

Holds(tree, e) == tree # None /\ tree.whole /\ e \in tree.episodes

(* An episode that was recorded is never lost, whichever command dies or   *)
(* fails at whichever step and whoever cleans up after it: it is in the    *)
(* collection, in a transaction that recovery will finish, in its session, *)
(* or in the quarantine.                                                   *)
EpisodesAreKept ==
  \A e \in Recorders : episode[e] = "package" =>
    \/ session[e] \in {"here", "removing"} /\ manifest[e] = "recording"
    \/ Holds(current, e) \/ Holds(backup, e)
    \/ phase # None /\ Holds(next, e)
    \/ \E tree \in quarantine : Holds(tree, e)

Reported == {e \in Recorders : manifest[e] = "committed"}

(* What a reader has open is the collection, whole, until it closes it,    *)
(* with every episode a recording was told is committed, unless a          *)
(* transaction has been quarantined.                                       *)
ReadersSeeCommits ==
  \A p \in shared :
    /\ view[p] = current /\ current.whole
    /\ Reported \subseteq current.episodes \/ quarantine # {}
=============================================================================
