-------------------------- MODULE DatasetStoreProofs --------------------------
(* Theorems about DatasetStore for all sets of recorders and readers and   *)
(* every number of deaths and exceptions, with their proofs.               *)
EXTENDS DatasetStore, TLAPS

(* The exclusive lock admits one process, and no reader beside it.         *)
Inside == {"recover", "quarantine", "recovered", "build", "install", "commit"}
Locked ==
  /\ \A p \in Processes : at[p] \in Inside => exclusive = p
  /\ exclusive # None => shared = {}

(* What each layout of the directory holds while a transaction goes on: no *)
(* tree has an episode that the new one lacks.                             *)
Consistent ==
  /\ phase = None => backup = None
  /\ \A tree \in {current, backup} : tree # None => tree.whole
  /\ phase # None =>
       /\ \A tree \in {current, backup} : tree # None => tree.episodes \subseteq phase.new
       /\ next # None => next = [episodes |-> phase.new, whole |-> TRUE]
       /\ phase.step = "current_validated" /\ current # None
            => current = [episodes |-> phase.new, whole |-> TRUE]
       /\ quarantine = {} => ~Layout(FALSE, FALSE, FALSE)

(* How far a process under the lock has come.                              *)
Placed ==
  \A p \in Processes :
    /\ at[p] = "recovered" => Clean
    /\ at[p] = "build" => phase = None
    /\ at[p] = "install" => phase = None /\ next = [episodes |-> Merged(p), whole |-> TRUE]

(* What a recorder is about: an episode that is complete.                  *)
Adopting(p) ==
  \/ at[p] \in {"build", "install", "commit", "adopted"}
  \/ at[p] \in {"enter", "recover", "recovered"} /\ task[p] = "adopt"

Working ==
  /\ \A p \in Processes : Adopting(p) => work[p] \in Recorders /\ episode[work[p]] = "package"
  /\ \A r \in Processes : at[r] = "record" => work[r] = r /\ session[r] = "here"
  /\ \A r \in Recorders : at[r] = "remove" => manifest[r] = "committed"
  /\ \A s \in Reported : episode[s] = "package"

(* Where an episode is once it was adopted.                                *)
Stored(e) ==
  \/ Holds(current, e) \/ Holds(backup, e)
  \/ phase # None /\ Holds(next, e)
  \/ \E tree \in quarantine : Holds(tree, e)

AdoptedIsStored ==
  \A p \in Processes : at[p] \in {"commit", "adopted"} => Stored(work[p])

(* What the collection has, once the transaction under way is finished.    *)
Collection == IF phase = None THEN Existing ELSE phase.new

Adopted == Reported \cup {e \in Recorders : \E p \in Processes : at[p] = "adopted"
    /\ work[p] = e}

AdoptedIsShown ==
  quarantine = {} =>
    /\ Adopted \subseteq Collection
    /\ current # None => Adopted \subseteq current.episodes
    /\ \A p \in Processes : at[p] = "commit" => work[p] \in Collection

(* A reader has the collection that is there.                              *)
Viewing == \A p \in shared : current # None /\ view[p] = current

IInv ==
  /\ TypeOK /\ Locked /\ Consistent /\ Placed /\ Working
  /\ AdoptedIsStored /\ EpisodesAreKept /\ AdoptedIsShown /\ Viewing
  /\ ReadersSeeCommits

(* The steps, by what they change on the disk: an existing transaction,    *)
(* the tree that is built, or nothing of the collection.                   *)
Shift(p) ==
  \/ MoveCurrent(p) \/ MoveNext(p) \/ WritePhase(p) \/ DropBackup(p) \/ DropPhase(p)
  \/ QuarantineTree(p)
Build(p) == p \in Recorders /\ (BuildBegins(p) \/ BuildEnds(p) \/ Install(p))
Lock(p) == Enter(p) \/ Ambiguous(p) \/ Raises(p) \/ Recovered(p) \/ Fails(p)
RecordOnly(p) ==
  /\ p \in Recorders
  /\ \/ Begin(p) \/ Preflight(p) \/ PreflightEnds(p) \/ Reserve(p) \/ RecordEpisode(p)
     \/ NothingNew(p) \/ Committed(p) \/ Acknowledge(p) \/ Remove(p) \/ Abandon(p)
     \/ \E s \in Recorders : Skip(p, s) \/ Vanished(p, s) \/ Salvage(p, s)
Read(p) == p \in Readers /\ (Share(p) \/ ShareAgain(p) \/ Close(p))
Quiet(p) == Lock(p) \/ RecordOnly(p) \/ Read(p)

LEMMA NextCases ==
  ASSUME [Next]_vars
  PROVE  \/ \E p \in Processes : Shift(p) \/ Build(p) \/ QuarantineEnds(p) \/ Quiet(p)
         \/ UNCHANGED vars
BY DEF Next, Transact, Record, Processes, Shift, Build, Quiet, Lock, RecordOnly, Read

LEMMA ShiftEffect ==
  ASSUME NEW p \in Processes, Locked, Shift(p)
  PROVE  /\ UNCHANGED <<locks, sessions, processes, faults>>
         /\ exclusive = p /\ at[p] \in {"recover", "commit", "quarantine"}
BY DEF Locked, Inside, Shift, MoveCurrent, MoveNext, WritePhase, DropBackup, DropPhase,
   QuarantineTree,
       Moving, MovedBy, locks, sessions, processes

LEMMA BuildEffect ==
  ASSUME NEW p \in Processes, Build(p)
  PROVE  /\ p \in Recorders
         /\ UNCHANGED <<current, backup, quarantine, locks, sessions, task, todo, work, view, faults>>
         /\ \/ at[p] = "recovered" /\ at' = [at EXCEPT ![p] = "build"]
            \/ at[p] = "build" /\ at' = [at EXCEPT ![p] = "install"]
            \/ at[p] = "install" /\ at' = [at EXCEPT ![p] = "commit"]
BY DEF Build, BuildBegins, BuildEnds, Install, Go, There

LEMMA QuietEffect ==
  ASSUME NEW p \in Processes, Quiet(p)
  PROVE  UNCHANGED trees
<1>1. CASE Lock(p)
  BY <1>1 DEF Lock, Enter, Ambiguous, Raises, Recovered, Fails
<1>2. CASE RecordOnly(p)
  BY <1>2 DEF RecordOnly, Begin, Preflight, PreflightEnds, Reserve, RecordEpisode, NothingNew,
     Committed,
              Leave, Acknowledge, Remove, Abandon, Skip, Vanished, Salvage, Look
<1>3. CASE Read(p)
  BY <1>3 DEF Read, Share, ShareAgain, Close, Leave
<1> QED
  BY <1>1, <1>2, <1>3 DEF Quiet

(* Only its own steps move a process.                                      *)
LEMMA OthersStay ==
  ASSUME TypeOK, NEW p \in Processes, NEW q \in Processes, q # p,
         Build(p) \/ QuarantineEnds(p) \/ Quiet(p)
  PROVE  at'[q] = at[q] /\ task'[q] = task[q] /\ work'[q] = work[q]
<1>1. CASE Build(p)
  BY <1>1, BuildEffect DEF TypeOK
<1>2. CASE QuarantineEnds(p) \/ Lock(p)
  BY <1>2 DEF QuarantineEnds, Lock, Enter, Ambiguous, Raises, Recovered, Fails, Go, There, Free,
     TypeOK
<1>3. CASE RecordOnly(p)
  <2>1. CASE Begin(p) \/ Preflight(p) \/ PreflightEnds(p) \/ Reserve(p) \/ RecordEpisode(p)
    BY <2>1 DEF Begin, Preflight, PreflightEnds, Reserve, RecordEpisode, Leave, Go, There, Ask,
       TypeOK
  <2>2. CASE NothingNew(p) \/ Committed(p) \/ Acknowledge(p) \/ Remove(p) \/ Abandon(p)
    BY <2>2 DEF NothingNew, Committed, Leave, Acknowledge, Remove, Abandon, Go, There,
       processes, TypeOK
  <2>3. ASSUME NEW s \in Recorders, Skip(p, s) \/ Vanished(p, s) \/ Salvage(p, s)
        PROVE  at'[q] = at[q] /\ task'[q] = task[q] /\ work'[q] = work[q]
    BY <2>3 DEF Skip, Vanished, Salvage, Look, Ask, Go, TypeOK
  <2> QED
    BY <1>3, <2>1, <2>2, <2>3 DEF RecordOnly
<1>4. CASE Read(p)
  BY <1>4 DEF Read, Share, ShareAgain, Close, Leave, Go, There, Ask, Free, TypeOK
<1> QED
  BY <1>1, <1>2, <1>3, <1>4 DEF Quiet

(* A tree that is built is there.                                          *)
LEMMA MergedTyped ==
  ASSUME TypeOK, NEW p \in Processes, work[p] \in Recorders
  PROVE  Merged(p) \subseteq Recorders
BY DEF TypeOK, Merged, Existing, Incoming, Tree

LEMMA TreeIsThere ==
  ASSUME StoreAssumption, NEW e \in SUBSET Recorders, NEW w \in BOOLEAN
  PROVE  [episodes |-> e, whole |-> w] \in Tree /\ [episodes |-> e, whole |-> w] # None
BY DEF StoreAssumption, Tree

LEMMA TreesTyped ==
  ASSUME StoreAssumption, TypeOK, Placed, Working, [Next]_vars
  PROVE  /\ {current', next', backup'} \subseteq Tree \cup {None}
         /\ phase' \in Transaction \cup {None} /\ quarantine' \subseteq Tree
<1> USE DEF TypeOK
<1>1. ASSUME NEW p \in Processes, Shift(p)
      PROVE  /\ {current', next', backup'} \subseteq Tree \cup {None}
             /\ phase' \in Transaction \cup {None} /\ quarantine' \subseteq Tree
  <2>1. CASE MoveCurrent(p) \/ MoveNext(p) \/ DropBackup(p) \/ DropPhase(p)
    BY <2>1 DEF MoveCurrent, MoveNext, DropBackup, DropPhase, MovedBy
  <2>2. CASE WritePhase(p)
    <3>1. PICK step \in Proved : phase' = [phase EXCEPT !.step = step]
      BY <2>2 DEF WritePhase
    <3>2. step \in {"backup_moved", "current_installed", "current_validated"}
          /\ phase \in Transaction
      BY <2>2, <3>1 DEF WritePhase, Moving, Proved
    <3> QED
      BY <2>2, <3>1, <3>2 DEF WritePhase, MovedBy, Transaction
  <2>3. CASE QuarantineTree(p)
    BY <2>3 DEF QuarantineTree, Away, Layout
  <2> QED
    BY <1>1, <2>1, <2>2, <2>3 DEF Shift
<1>2. ASSUME NEW p \in Processes, Build(p)
      PROVE  /\ {current', next', backup'} \subseteq Tree \cup {None}
             /\ phase' \in Transaction \cup {None} /\ quarantine' \subseteq Tree
  <2>1. UNCHANGED <<current, backup, quarantine>> /\ p \in Recorders
    BY <1>2, BuildEffect
  <2>2. CASE BuildBegins(p)
    BY <2>1, <2>2 DEF BuildBegins, Tree
  <2>3. CASE BuildEnds(p)
    <3>1. work[p] \in Recorders
      BY <2>3 DEF BuildEnds, Go, Working, Adopting
    <3> QED
      BY <2>1, <2>3, <3>1, MergedTyped, TreeIsThere DEF BuildEnds
  <2>4. CASE Install(p)
    <3>1. next = [episodes |-> Merged(p), whole |-> TRUE] /\ work[p] \in Recorders
      BY <2>4 DEF Install, Go, Placed, Working, Adopting
    <3>2. next \in Tree
      BY <3>1, MergedTyped, TreeIsThere
    <3> QED
      BY <2>1, <2>4, <3>2 DEF Install, Tree, Transaction
  <2> QED
    BY <1>2, <2>2, <2>3, <2>4 DEF Build
<1>3. ASSUME NEW p \in Processes, QuarantineEnds(p) \/ Quiet(p)
      PROVE  /\ {current', next', backup'} \subseteq Tree \cup {None}
             /\ phase' \in Transaction \cup {None} /\ quarantine' \subseteq Tree
  <2>1. CASE QuarantineEnds(p)
    BY <2>1 DEF QuarantineEnds
  <2>2. CASE Quiet(p)
    BY <2>2, QuietEffect DEF trees
  <2> QED
    BY <1>3, <2>1, <2>2
<1> QED
  BY <1>1, <1>2, <1>3, NextCases DEF vars, trees

LEMMA LocksTyped ==
  ASSUME StoreAssumption, TypeOK, [Next]_vars
  PROVE  exclusive' \in Processes \cup {None} /\ shared' \subseteq Readers
         /\ faults' \in 0..MaxFaults
<1> USE DEF TypeOK
<1>1. ASSUME NEW p \in Processes, Shift(p) \/ Build(p)
      PROVE  UNCHANGED <<locks, faults>>
  BY <1>1, BuildEffect
  DEF Shift, MoveCurrent, MoveNext, WritePhase, DropBackup, DropPhase, QuarantineTree, MovedBy
<1>2. ASSUME NEW p \in Processes, QuarantineEnds(p) \/ Lock(p)
      PROVE  /\ exclusive' \in Processes \cup {None} /\ shared' \subseteq Readers
             /\ faults' = faults \/ Fault
  BY <1>2 DEF QuarantineEnds, Lock, Enter, Ambiguous, Raises, Recovered, Fails, Free, locks
<1>3. ASSUME NEW p \in Processes, RecordOnly(p)
      PROVE  exclusive' \in Processes \cup {None} /\ shared' \subseteq Readers
             /\ faults' = faults
  BY <1>3 DEF RecordOnly, Begin, Preflight, PreflightEnds, Reserve, RecordEpisode, NothingNew,
     Committed,
              Leave, Acknowledge, Remove, Abandon, Skip, Vanished, Salvage, Look, locks
<1>4. ASSUME NEW p \in Processes, Read(p)
      PROVE  exclusive' \in Processes \cup {None} /\ shared' \subseteq Readers
             /\ faults' = faults
  BY <1>4 DEF Read, Share, ShareAgain, Close, Leave, Free
<1>5. Fault => faults' \in 0..MaxFaults
  BY DEF Fault, StoreAssumption
<1> QED
  BY <1>1, <1>2, <1>3, <1>4, <1>5, NextCases DEF Quiet, locks, vars

LEMMA SessionsTyped ==
  ASSUME TypeOK, Working, [Next]_vars
  PROVE  /\ session' \in [Recorders -> {"none", "here", "removing", "gone"}]
         /\ episode' \in [Recorders -> {"none", "active", "package"}]
         /\ manifest' \in [Recorders -> {"recording", "committed"}]
         /\ holder' \in [Recorders -> Recorders \cup {None}]
<1> USE DEF TypeOK
<1>1. ASSUME NEW p \in Processes, Shift(p) \/ Build(p) PROVE UNCHANGED sessions
  BY <1>1, BuildEffect
  DEF Shift, MoveCurrent, MoveNext, WritePhase, DropBackup, DropPhase, QuarantineTree, MovedBy
<1>2. ASSUME NEW p \in Processes, QuarantineEnds(p) \/ Lock(p) \/ Read(p)
      PROVE  /\ session' = session /\ episode' = episode /\ manifest' = manifest
             /\ holder' \in [Recorders -> Recorders \cup {None}]
  <2>1. CASE Free(p)
    BY <1>2, <2>1
    DEF QuarantineEnds, Lock, Enter, Ambiguous, Raises, Recovered, Fails, Free, sessions, Read,
       Share,
        ShareAgain, Close, Leave
  <2>2. CASE UNCHANGED sessions
    BY <2>2 DEF sessions
  <2> QED
    BY <1>2, <2>1, <2>2
    DEF QuarantineEnds, Lock, Enter, Ambiguous, Raises, Recovered, Fails, Read, Share,
       ShareAgain, Close,
        Leave
<1>3. ASSUME NEW p \in Recorders,
             Begin(p) \/ Preflight(p) \/ PreflightEnds(p) \/ NothingNew(p) \/ Committed(p)
      PROVE  UNCHANGED sessions
  BY <1>3 DEF Begin, Preflight, PreflightEnds, NothingNew, Committed, Leave
<1>4. ASSUME NEW p \in Recorders,
             Reserve(p) \/ RecordEpisode(p) \/ Remove(p) \/ Abandon(p)
      PROVE  /\ session' \in [Recorders -> {"none", "here", "removing", "gone"}]
             /\ episode' \in [Recorders -> {"none", "active", "package"}]
             /\ manifest' = manifest /\ holder' \in [Recorders -> Recorders \cup {None}]
  BY <1>4 DEF Reserve, RecordEpisode, Remove, Abandon
<1>5. ASSUME NEW p \in Recorders, Acknowledge(p)
      PROVE  /\ session' = session /\ episode' = episode
             /\ manifest' \in [Recorders -> {"recording", "committed"}]
             /\ holder' \in [Recorders -> Recorders \cup {None}]
  BY <1>5 DEF Acknowledge
<1>6. ASSUME NEW p \in Recorders, NEW s \in Recorders, Skip(p, s) \/ Vanished(p, s)
             \/ Salvage(p, s)
      PROVE  /\ session' = session /\ manifest' = manifest
             /\ episode' \in [Recorders -> {"none", "active", "package"}]
             /\ holder' \in [Recorders -> Recorders \cup {None}]
  BY <1>6 DEF Skip, Vanished, Salvage, Look
<1>7. ASSUME NEW p \in Processes, RecordOnly(p)
      PROVE  /\ session' \in [Recorders -> {"none", "here", "removing", "gone"}]
             /\ episode' \in [Recorders -> {"none", "active", "package"}]
             /\ manifest' \in [Recorders -> {"recording", "committed"}]
             /\ holder' \in [Recorders -> Recorders \cup {None}]
  BY <1>3, <1>4, <1>5, <1>6, <1>7 DEF RecordOnly, sessions
<1> QED
  BY <1>1, <1>2, <1>7, NextCases DEF Quiet, sessions, vars

LEMMA PositionsTyped ==
  ASSUME TypeOK, [Next]_vars
  PROVE  at' \in [Processes -> Ended \cup {"start", "enter", "recover", "quarantine", "recovered",
           "build", "install", "commit", "adopted", "scan", "reserve", "record", "remove",
               "again",
           "reading"}]
<1> USE DEF TypeOK, Ended
<1>1. ASSUME NEW p \in Processes, Shift(p) \/ Build(p)
      PROVE  at' = at \/ \E to \in {"build", "install", "commit"} : at' = [at EXCEPT ![p] = to]
  BY <1>1, BuildEffect
  DEF Shift, MoveCurrent, MoveNext, WritePhase, DropBackup, DropPhase, QuarantineTree, MovedBy,
     processes
<1>2. ASSUME NEW p \in Processes, QuarantineEnds(p) \/ Lock(p)
      PROVE  \E to \in {"gone", "recover", "quarantine", "recovered"} : at' = [at EXCEPT ![p] = to]
  BY <1>2 DEF QuarantineEnds, Lock, Enter, Ambiguous, Raises, Recovered, Fails, Go
<1>3. ASSUME NEW p \in Processes, RecordOnly(p)
      PROVE  \/ at' = at
             \/ \E to \in {"scan", "enter", "reserve", "record", "adopted", "remove", "done", "gone"} :
                  at' = [at EXCEPT ![p] = to]
  BY <1>3 DEF RecordOnly, Begin, Preflight, PreflightEnds, Reserve, RecordEpisode, NothingNew,
     Committed,
              Leave, Acknowledge, Remove, Abandon, Skip, Vanished, Salvage, Ask, Go, processes
<1>4. ASSUME NEW p \in Processes, Read(p)
      PROVE  \E to \in {"enter", "gone", "reading", "again", "done"} : at' = [at EXCEPT ![p] = to]
  BY <1>4 DEF Read, Share, ShareAgain, Close, Leave, Ask, Go
<1> QED
  BY <1>1, <1>2, <1>3, <1>4, NextCases DEF Quiet, vars, processes

LEMMA TasksTyped ==
  ASSUME TypeOK, [Next]_vars
  PROVE  /\ task' \in [Processes -> {"none", "adopt", "preflight", "read"}]
         /\ todo' \in [Processes -> SUBSET Recorders]
              /\ work' \in [Processes -> Recorders \cup {None}]
         /\ view' \in [Processes -> Tree \cup {None}]
<1> USE DEF TypeOK
<1>1. ASSUME NEW p \in Processes, Shift(p)
             \/ Build(p) PROVE UNCHANGED <<task, todo, work, view>>
  BY <1>1, BuildEffect
  DEF Shift, MoveCurrent, MoveNext, WritePhase, DropBackup, DropPhase, QuarantineTree, MovedBy,
     processes
<1>2. ASSUME NEW p \in Processes, QuarantineEnds(p) \/ Lock(p)
      PROVE  UNCHANGED <<task, todo, work>> /\ view' \in [Processes -> Tree \cup {None}]
  BY <1>2 DEF QuarantineEnds, Lock, Enter, Ambiguous, Raises, Recovered, Fails, Free, There
<1>3. ASSUME NEW p \in Recorders,
             \/ Begin(p) \/ Preflight(p) \/ PreflightEnds(p) \/ Reserve(p) \/ RecordEpisode(p)
             \/ NothingNew(p) \/ Committed(p) \/ Acknowledge(p) \/ Remove(p) \/ Abandon(p)
      PROVE  /\ view' = view /\ todo' \in [Processes -> SUBSET Recorders]
             /\ task' \in [Processes -> {"none", "adopt", "preflight", "read"}]
             /\ work' \in [Processes -> Recorders \cup {None}]
  BY <1>3 DEF Begin, Preflight, PreflightEnds, Reserve, RecordEpisode, NothingNew, Committed,
     Leave,
              Acknowledge, Remove, Abandon, Ask, There, processes
<1>4. ASSUME NEW p \in Recorders, NEW s \in Recorders, Skip(p, s) \/ Vanished(p, s)
             \/ Salvage(p, s)
      PROVE  /\ view' = view /\ todo' \in [Processes -> SUBSET Recorders]
             /\ task' \in [Processes -> {"none", "adopt", "preflight", "read"}]
             /\ work' \in [Processes -> Recorders \cup {None}]
  BY <1>4 DEF Skip, Vanished, Salvage, Look, Ask
<1>5. ASSUME NEW p \in Processes, Read(p)
      PROVE  /\ UNCHANGED <<todo, work>> /\ view' \in [Processes -> Tree \cup {None}]
             /\ task' \in [Processes -> {"none", "adopt", "preflight", "read"}]
  BY <1>5 DEF Read, Share, ShareAgain, Close, Leave, Ask, There, Free
<1> QED
  BY <1>1, <1>2, <1>3, <1>4, <1>5, NextCases DEF Quiet, RecordOnly, vars, processes

LEMMA TypeStep ==
  ASSUME StoreAssumption, TypeOK, Placed, Working, [Next]_vars
  PROVE  TypeOK'
BY TreesTyped, LocksTyped, SessionsTyped, PositionsTyped, TasksTyped DEF TypeOK, Ended

(* What a step does to the lock: it keeps it, frees, takes, or shares it.  *)
LEMMA LockEffect ==
  ASSUME StoreAssumption, TypeOK, Locked, NEW p \in Processes,
         Build(p) \/ QuarantineEnds(p) \/ Quiet(p)
  PROVE  \/ /\ exclusive' = exclusive /\ shared' \subseteq shared
            /\ at[p] \in Inside \/ at'[p] \notin Inside
         \/ exclusive = p /\ exclusive' = None /\ at'[p] \notin Inside
         \/ exclusive = None /\ shared = {} /\ exclusive' = p /\ shared' = {}
         \/ exclusive = None /\ exclusive' = None /\ at'[p] \notin Inside
<1> USE DEF TypeOK, Inside
<1>1. CASE Build(p)
  BY <1>1, BuildEffect DEF locks
<1>2. CASE QuarantineEnds(p) \/ Lock(p)
  <2>1. CASE Enter(p)
    BY <2>1 DEF Enter
  <2>2. CASE Ambiguous(p) \/ Raises(p) \/ Recovered(p)
    BY <2>2 DEF Ambiguous, Raises, Recovered, Moving, Go, locks
  <2>3. CASE QuarantineEnds(p) \/ Fails(p)
    BY <2>3 DEF QuarantineEnds, Fails, Free, Go
  <2> QED
    BY <1>2, <2>1, <2>2, <2>3 DEF Lock
<1>3. CASE RecordOnly(p)
  <2>1. CASE PreflightEnds(p) \/ NothingNew(p) \/ Committed(p)
    BY <2>1 DEF PreflightEnds, NothingNew, Committed, Leave, Go, Locked
  <2>2. CASE \/ Begin(p) \/ Preflight(p) \/ Reserve(p) \/ RecordEpisode(p) \/ Acknowledge(p)
             \/ Remove(p) \/ Abandon(p)
    BY <2>2 DEF Begin, Preflight, Reserve, RecordEpisode, Acknowledge, Remove, Abandon, Go, Ask,
       locks,
                processes
  <2>3. ASSUME NEW s \in Recorders, Skip(p, s) \/ Vanished(p, s) \/ Salvage(p, s)
        PROVE  UNCHANGED locks /\ (at[p] \in Inside \/ at'[p] \notin Inside)
    BY <2>3 DEF Skip, Vanished, Salvage, Look, Ask, Go
  <2> QED
    BY <1>3, <2>1, <2>2, <2>3 DEF RecordOnly, locks
<1>4. CASE Read(p)
  <2>1. CASE Share(p)
    BY <2>1 DEF Share, Ask, Go
  <2>2. CASE ShareAgain(p)
    BY <2>2 DEF ShareAgain, Leave, Go, Locked
  <2>3. CASE Close(p)
    BY <2>3 DEF Close, Free, Go
  <2> QED
    BY <1>4, <2>1, <2>2, <2>3 DEF Read
<1> QED
  BY <1>1, <1>2, <1>3, <1>4 DEF Quiet

LEMMA LockedStep ==
  ASSUME StoreAssumption, TypeOK, Locked, [Next]_vars
  PROVE  Locked'
<1>1. ASSUME NEW p \in Processes, Build(p) \/ QuarantineEnds(p) \/ Quiet(p)
      PROVE  Locked'
  <2>1. ASSUME NEW q \in Processes, at'[q] \in Inside PROVE exclusive' = q
    <3>1. q # p => at[q] \in Inside
      BY <1>1, <2>1, OthersStay
    <3>2. at[q] \in Inside => exclusive = q
      BY DEF Locked
    <3>3. None \notin Processes
      BY DEF StoreAssumption
    <3> QED
      BY <1>1, <2>1, <3>1, <3>2, <3>3, LockEffect
  <2>2. exclusive' # None => shared' = {}
    BY <1>1, LockEffect DEF Locked
  <2> QED
    BY <2>1, <2>2 DEF Locked, Inside
<1>2. ASSUME NEW p \in Processes, Shift(p) PROVE Locked'
  BY <1>2, ShiftEffect DEF Locked, Inside, locks, processes
<1>3. CASE UNCHANGED vars
  BY <1>3 DEF Locked, Inside, vars, locks, processes
<1> QED
  BY <1>1, <1>2, <1>3, NextCases

(* Everything that changes the collection is done under the lock.          *)
LEMMA TreesAreGuarded ==
  ASSUME StoreAssumption, TypeOK, Locked, NEW p \in Processes, Shift(p) \/ Build(p)
         \/ QuarantineEnds(p)
  PROVE  exclusive = p /\ shared = {}
<1>1. exclusive = p
  BY ShiftEffect, BuildEffect DEF Locked, Inside, QuarantineEnds, Go
<1> QED
  BY <1>1 DEF Locked, StoreAssumption

(* A marker is replaced by a marker.                                       *)
LEMMA PhaseStays ==
  ASSUME StoreAssumption, TypeOK, NEW p \in Processes, WritePhase(p)
  PROVE  phase' # None
<1>1. PICK step \in Proved : phase' = [phase EXCEPT !.step = step]
  BY DEF WritePhase
<1>2. step \in {"backup_moved", "current_installed", "current_validated"}
      /\ phase \in Transaction
  BY <1>1 DEF Proved, WritePhase, Moving, TypeOK
<1>3. phase' \in Transaction
  BY <1>1, <1>2 DEF Transaction
<1> QED
  BY <1>3 DEF StoreAssumption

LEMMA ConsistentStep ==
  ASSUME StoreAssumption, TypeOK, Locked, Consistent, Placed, Working, [Next]_vars
  PROVE  Consistent'
<1>1. ASSUME NEW p \in Processes, MoveCurrent(p) PROVE Consistent'
  BY <1>1 DEF MoveCurrent, Moving, CurrentMoves, MovedBy, Consistent, Layout
<1>2. ASSUME NEW p \in Processes, MoveNext(p) PROVE Consistent'
  BY <1>2 DEF MoveNext, Moving, NextMoves, MovedBy, Consistent, Layout
<1>3. ASSUME NEW p \in Processes, WritePhase(p) PROVE Consistent'
  <2>1. PICK step \in Proved : phase' = [phase EXCEPT !.step = step]
    BY <1>3 DEF WritePhase
  <2>2. phase \in Transaction
    BY <1>3 DEF WritePhase, Moving, TypeOK
  <2>3. phase'.new = phase.new /\ phase'.step = step
    BY <2>1, <2>2 DEF Transaction
  <2>4. UNCHANGED <<current, next, backup, quarantine>> /\ phase # None
    BY <1>3 DEF WritePhase, Moving, MovedBy
  <2>5. phase' # None
    BY <1>3, PhaseStays
  <2>6. step = "current_validated" => current = [episodes |-> phase.new, whole |-> TRUE]
    BY <2>1 DEF Proved
  <2> QED
    BY <2>3, <2>4, <2>5, <2>6 DEF Consistent, Layout
<1>4. ASSUME NEW p \in Processes, DropBackup(p) \/ DropPhase(p) PROVE Consistent'
  BY <1>4 DEF DropBackup, DropPhase, Moving, MovedBy, Validated, Consistent, Layout
<1>5. ASSUME NEW p \in Processes, QuarantineTree(p) PROVE Consistent'
  <2>1. phase' = phase /\ quarantine' # {}
    BY <1>5 DEF QuarantineTree, Away
  <2>2. /\ current' = current \/ current' = None
        /\ next' = next \/ next' = None
        /\ backup' = backup \/ backup' = None
    BY <1>5 DEF QuarantineTree
  <2> QED
    BY <2>1, <2>2 DEF Consistent
<1>6. ASSUME NEW p \in Processes, QuarantineEnds(p) PROVE Consistent'
  BY <1>6 DEF QuarantineEnds, Layout, Consistent
<1>7. ASSUME NEW p \in Processes, BuildBegins(p) \/ BuildEnds(p) PROVE Consistent'
  <2>1. phase = None
    BY <1>7 DEF BuildBegins, BuildEnds, Go, Placed, Clean
  <2>2. UNCHANGED <<current, backup, phase>>
    BY <1>7 DEF BuildBegins, BuildEnds
  <2> QED
    BY <2>1, <2>2 DEF Consistent
<1>8. ASSUME NEW p \in Processes, Install(p) PROVE Consistent'
  <2>1. /\ phase = None /\ next = [episodes |-> Merged(p), whole |-> TRUE]
        /\ phase' = [step |-> "prepared", had |-> current # None, new |-> Merged(p)]
        /\ UNCHANGED <<current, next, backup, quarantine>>
    BY <1>8 DEF Install, Go, Placed
  <2>2. next # None
    BY <1>8, <2>1, MergedTyped, TreeIsThere DEF Install, Go, Working, Adopting
  <2> QED
    BY <2>1, <2>2 DEF Consistent, Layout, Merged, Existing
<1>9. CASE UNCHANGED trees
  BY <1>9 DEF trees, Consistent, Layout
<1> QED
  BY <1>1, <1>2, <1>3, <1>4, <1>5, <1>6, <1>7, <1>8, <1>9, NextCases, QuietEffect DEF Shift,
     Build, vars

LEMMA PlacedStep ==
  ASSUME StoreAssumption, TypeOK, Locked, Placed, [Next]_vars
  PROVE  Placed'
<1> DEFINE Good(q) ==
      /\ at[q] = "recovered" => Clean
      /\ at[q] = "build" => phase = None
      /\ at[q] = "install" => phase = None /\ next = [episodes |-> Merged(q), whole |-> TRUE]
<1>1. SUFFICES ASSUME NEW q \in Processes PROVE Good(q)'
  BY DEF Placed
<1>2. Good(q)
  BY DEF Placed
<1>3. CASE at'[q] = at[q] /\ work'[q] = work[q] /\ UNCHANGED trees
  BY <1>2, <1>3 DEF trees, Clean, Merged, Existing, Incoming
<1>4. CASE at'[q] \notin {"recovered", "build", "install"}
  BY <1>4
<1>5. ASSUME NEW p \in Processes, q # p, Build(p) \/ QuarantineEnds(p)
             \/ Quiet(p) PROVE Good(q)'
  <2>1. at'[q] = at[q] /\ work'[q] = work[q]
    BY <1>5, OthersStay
  <2>2. CASE Quiet(p)
    BY <1>3, <2>1, <2>2, QuietEffect
  <2>3. CASE Build(p) \/ QuarantineEnds(p)
    <3>1. exclusive # q
      BY <1>5, <2>3, TreesAreGuarded
    <3>2. at[q] \notin {"recovered", "build", "install"}
      BY <3>1 DEF Locked, Inside
    <3> QED
      BY <1>4, <2>1, <3>2
  <2> QED
    BY <1>5, <2>2, <2>3
<1>6. CASE Shift(q)
  BY <1>4, <1>6, ShiftEffect DEF processes
<1>7. ASSUME NEW p \in Processes, q # p, Shift(p) PROVE Good(q)'
  <2>1. exclusive # q /\ at' = at
    BY <1>7, ShiftEffect DEF processes
  <2>2. at[q] \notin {"recovered", "build", "install"}
    BY <2>1 DEF Locked, Inside
  <2> QED
    BY <1>4, <2>1, <2>2
<1>8. CASE Build(q)
  <2>1. CASE BuildBegins(q)
    BY <1>2, <2>1 DEF BuildBegins, Go, Clean, TypeOK
  <2>2. CASE BuildEnds(q)
    <3>1. /\ phase = None /\ phase' = phase /\ at'[q] = "install" /\ work' = work
               /\ current' = current
          /\ next' = [episodes |-> Merged(q), whole |-> TRUE]
      BY <1>2, <2>2 DEF BuildEnds, Go, There, TypeOK
    <3>2. Merged(q)' = Merged(q)
      BY <3>1 DEF Merged, Existing, Incoming
    <3> QED
      BY <3>1, <3>2
  <2>3. CASE Install(q)
    BY <1>4, <2>3 DEF Install, Go, TypeOK
  <2> QED
    BY <1>8, <2>1, <2>2, <2>3 DEF Build
<1>9. CASE QuarantineEnds(q) \/ Lock(q)
  <2>1. CASE Recovered(q)
    BY <2>1 DEF Recovered, Go, trees, Clean, TypeOK
  <2>2. CASE QuarantineEnds(q) \/ Enter(q) \/ Ambiguous(q) \/ Raises(q) \/ Fails(q)
    BY <1>4, <2>2 DEF QuarantineEnds, Enter, Ambiguous, Raises, Fails, Go, TypeOK
  <2> QED
    BY <1>9, <2>1, <2>2 DEF Lock
<1>10. CASE RecordOnly(q) \/ Read(q)
  <2>1. at'[q] \notin {"recovered", "build", "install"}
    <3>1. CASE \/ Begin(q) \/ Preflight(q) \/ PreflightEnds(q) \/ Reserve(q) \/ NothingNew(q)
               \/ Committed(q) \/ Acknowledge(q)
      BY <3>1 DEF Begin, Preflight, PreflightEnds, Reserve, NothingNew, Committed, Acknowledge,
         Leave, Ask,
                  Go, TypeOK
    <3>2. CASE RecordEpisode(q) \/ Remove(q) \/ Abandon(q)
      BY <3>2 DEF RecordEpisode, Remove, Abandon, Ask, Go, TypeOK, processes
    <3>3. ASSUME NEW s \in Recorders, Skip(q, s) \/ Vanished(q, s) \/ Salvage(q, s)
          PROVE  at'[q] \notin {"recovered", "build", "install"}
      BY <3>3 DEF Skip, Vanished, Salvage, Look, Ask, Go, TypeOK
    <3>4. CASE Read(q)
      BY <3>4 DEF Read, Share, ShareAgain, Close, Leave, Ask, Go, TypeOK
    <3> QED
      BY <1>10, <3>1, <3>2, <3>3, <3>4 DEF RecordOnly
  <2> QED
    BY <1>4, <2>1
<1>11. CASE UNCHANGED vars
  BY <1>3, <1>11 DEF vars, processes
<1> QED
  BY <1>5, <1>6, <1>7, <1>8, <1>9, <1>10, <1>11, NextCases DEF Quiet

(* Sessions: only their own recorder opens and removes them, packages stay *)
(* packages, and what is reported was adopted.                             *)
LEMMA SessionEffect ==
  ASSUME TypeOK, [Next]_vars, NEW s \in Recorders
  PROVE  /\ episode[s] = "package" => episode'[s] = "package"
         /\ manifest[s] = "committed" => manifest'[s] = "committed"
         /\ manifest'[s] = "committed" => \/ manifest[s] = "committed"
                                          \/ \E p \in Processes : at[p] = "adopted"
                                               /\ work[p] = s
         /\ session'[s] # session[s] =>
              \/ Reserve(s) /\ session'[s] = "here"
              \/ at[s] = "remove"
              \/ at[s] = "gone" /\ episode[s] = "none"
         /\ episode'[s] = "package" => episode[s] # "none"
<1> USE DEF TypeOK, Processes
<1>1. CASE UNCHANGED <<session, episode, manifest>>
  BY <1>1
<1>2. ASSUME NEW p \in Processes, Shift(p)
             \/ Build(p) PROVE UNCHANGED <<session, episode, manifest>>
  BY <1>2, BuildEffect
  DEF Shift, MoveCurrent, MoveNext, WritePhase, DropBackup, DropPhase, QuarantineTree, MovedBy,
     sessions
<1>3. ASSUME NEW p \in Processes, QuarantineEnds(p) \/ Lock(p) \/ Read(p)
      PROVE  UNCHANGED <<session, episode, manifest>>
  BY <1>3 DEF QuarantineEnds, Lock, Enter, Ambiguous, Raises, Recovered, Fails, sessions, Read,
     Share,
              ShareAgain, Close, Leave
<1>4. ASSUME NEW p \in Recorders,
             Begin(p) \/ Preflight(p) \/ PreflightEnds(p) \/ NothingNew(p) \/ Committed(p)
      PROVE  UNCHANGED <<session, episode, manifest>>
  BY <1>4 DEF Begin, Preflight, PreflightEnds, NothingNew, Committed, Leave, sessions
<1>5. ASSUME NEW p \in Recorders, Reserve(p) \/ Remove(p) \/ Abandon(p)
      PROVE  /\ UNCHANGED <<episode, manifest>>
             /\ session'[s] # session[s] =>
                  \/ Reserve(s) /\ session'[s] = "here"
                  \/ at[s] = "remove"
                  \/ at[s] = "gone" /\ episode[s] = "none"
  BY <1>5 DEF Reserve, Remove, Abandon
<1>6. ASSUME NEW p \in Recorders, RecordEpisode(p)
      PROVE  /\ UNCHANGED <<session, manifest>>
             /\ episode[s] = "package" => episode'[s] = "package"
             /\ episode'[s] = "package" => episode[s] # "none"
  BY <1>6 DEF RecordEpisode
<1>7. ASSUME NEW p \in Recorders, Acknowledge(p)
      PROVE  /\ UNCHANGED <<session, episode>>
             /\ manifest[s] = "committed" => manifest'[s] = "committed"
             /\ manifest'[s] = "committed" => manifest[s] = "committed" \/ (at[p] = "adopted"
                  /\ work[p] = s)
  BY <1>7 DEF Acknowledge, Go
<1>8. ASSUME NEW p \in Recorders, NEW t \in Recorders, Skip(p, t) \/ Vanished(p, t)
             \/ Salvage(p, t)
      PROVE  /\ UNCHANGED <<session, manifest>>
             /\ episode[s] = "package" => episode'[s] = "package"
             /\ episode'[s] = "package" => episode[s] # "none"
  BY <1>8 DEF Skip, Vanished, Salvage, Look
<1>9. CASE UNCHANGED vars
  BY <1>9 DEF vars, sessions
<1> QED
  BY <1>1, <1>2, <1>3, <1>4, <1>5, <1>6, <1>7, <1>8, <1>9, NextCases DEF Quiet, RecordOnly

(* How a process comes to adopt an episode, to record and to remove.       *)
LEMMA WorkEffect ==
  ASSUME TypeOK, Working, NEW p \in Processes, Build(p) \/ QuarantineEnds(p) \/ Quiet(p)
  PROVE  /\ Adopting(p)' => \/ Adopting(p) /\ work'[p] = work[p]
                            \/ work'[p] \in Recorders /\ episode'[work'[p]] = "package"
         /\ at'[p] = "record" => \/ at[p] = "record" /\ work'[p] = work[p] /\ session' = session
                                 \/ work'[p] = p /\ session'[p] = "here"
         /\ at'[p] = "remove" => \/ at[p] = "remove" /\ manifest' = manifest
                                 \/ manifest'[p] = "committed"
<1> USE DEF TypeOK, Adopting, Ended
<1>1. CASE Build(p)
  <2>1. work'[p] = work[p] /\ at'[p] \in {"build", "install", "commit"}
    BY <1>1, BuildEffect
  <2>2. Adopting(p)
    BY <1>1 DEF Build, BuildBegins, BuildEnds, Install, Go
  <2> QED
    BY <2>1, <2>2
<1>2. CASE QuarantineEnds(p) \/ Lock(p)
  <2>1. UNCHANGED <<work, task>>
    BY <1>2 DEF QuarantineEnds, Lock, Enter, Ambiguous, Raises, Recovered, Fails, There, Free
  <2>2. /\ at'[p] \in {"gone", "recover", "quarantine", "recovered"}
        /\ at'[p] = "recover" => at[p] = "enter"
        /\ at'[p] = "recovered" => at[p] = "recover"
    BY <1>2 DEF QuarantineEnds, Lock, Enter, Ambiguous, Raises, Recovered, Fails, Go
  <2> QED
    BY <2>1, <2>2
<1>3. CASE \/ Begin(p) \/ Preflight(p) \/ PreflightEnds(p) \/ Abandon(p) \/ Read(p)
  <2>1. CASE Begin(p) \/ Preflight(p) \/ PreflightEnds(p)
    BY <2>1 DEF Begin, Preflight, PreflightEnds, Leave, Go, Ask
  <2>2. CASE Abandon(p)
    BY <2>2 DEF Abandon, processes
  <2>3. CASE Read(p)
    BY <2>3 DEF Read, Share, ShareAgain, Close, Leave, Ask, Go
  <2> QED
    BY <1>3, <2>1, <2>2, <2>3
<1>4. CASE p \in Recorders /\ (Reserve(p) \/ RecordEpisode(p))
  <2>1. CASE p \in Recorders /\ Reserve(p)
    BY <2>1 DEF Reserve, Go
  <2>2. CASE p \in Recorders /\ RecordEpisode(p)
    <3>1. work[p] = p /\ session' = session /\ work' = work
      BY <2>2 DEF RecordEpisode, Working
    <3>2. CASE episode[p] = "active"
      <4>1. at'[p] = "enter" /\ episode'[p] = "package"
        BY <2>2, <3>2 DEF RecordEpisode, Ask, Go
      <4> QED
        BY <2>2, <3>1, <4>1
    <3>3. CASE episode[p] # "active"
      BY <2>2, <3>1, <3>3 DEF RecordEpisode
    <3> QED
      BY <3>2, <3>3
  <2> QED
    BY <1>4, <2>1, <2>2
<1>5. CASE p \in Recorders /\ (NothingNew(p) \/ Committed(p))
  BY <1>5 DEF NothingNew, Committed, Leave, Go, There
<1>6. CASE p \in Recorders /\ (Acknowledge(p) \/ Remove(p))
  BY <1>6 DEF Acknowledge, Remove, Go, Working
<1>7. ASSUME NEW s \in Recorders, Skip(p, s) \/ Vanished(p, s) \/ Salvage(p, s)
      PROVE  /\ at'[p] \in {"scan", "gone", "enter"}
             /\ at'[p] = "enter" => work'[p] \in Recorders /\ episode'[work'[p]] = "package"
  BY <1>7 DEF Skip, Vanished, Salvage, Look, Ask, Go
<1> QED
  BY <1>1, <1>2, <1>3, <1>4, <1>5, <1>6, <1>7 DEF Quiet, RecordOnly

LEMMA WorkingStep ==
  ASSUME StoreAssumption, TypeOK, Locked, Working, [Next]_vars
  PROVE  Working'
<1>1. ASSUME NEW q \in Processes
      PROVE  /\ Adopting(q)' => \/ Adopting(q) /\ work'[q] = work[q]
                                \/ work'[q] \in Recorders /\ episode'[work'[q]] = "package"
             /\ at'[q] = "record" => \/ at[q] = "record" /\ work'[q] = work[q]
                                     \/ work'[q] = q /\ session'[q] = "here"
             /\ at'[q] = "remove" => at[q] = "remove" \/ manifest'[q] = "committed"
  <2>1. ASSUME NEW p \in Processes, Build(p) \/ QuarantineEnds(p) \/ Quiet(p), p = q
        PROVE  /\ Adopting(q)' => \/ Adopting(q) /\ work'[q] = work[q]
                                  \/ work'[q] \in Recorders /\ episode'[work'[q]] = "package"
               /\ at'[q] = "record" => \/ at[q] = "record" /\ work'[q] = work[q]
                                       \/ work'[q] = q /\ session'[q] = "here"
               /\ at'[q] = "remove" => at[q] = "remove" \/ manifest'[q] = "committed"
    BY <2>1, WorkEffect
  <2>2. CASE at'[q] = at[q] /\ task'[q] = task[q] /\ work'[q] = work[q]
    BY <2>2 DEF Adopting
  <2>3. ASSUME NEW p \in Processes, Shift(p)
        PROVE  at'[q] = at[q] /\ task'[q] = task[q] /\ work'[q] = work[q]
    BY <2>3, ShiftEffect DEF processes
  <2>4. UNCHANGED vars => at'[q] = at[q] /\ task'[q] = task[q] /\ work'[q] = work[q]
    BY DEF vars, processes
  <2> QED
    BY <2>1, <2>2, <2>3, <2>4, OthersStay, NextCases
<1>2. ASSUME NEW q \in Processes, Adopting(q)' PROVE work'[q] \in Recorders
             /\ episode'[work'[q]] = "package"
  BY <1>1, <1>2, SessionEffect DEF Working
<1>3. ASSUME NEW q \in Processes, at'[q] = "record" PROVE work'[q] = q /\ session'[q] = "here"
  <2>1. CASE at[q] = "record" /\ work'[q] = work[q]
    <3>1. work[q] = q /\ session[q] = "here"
      BY <2>1 DEF Working
    <3>2. q \in Recorders
      BY <3>1 DEF TypeOK, StoreAssumption
    <3> QED
      BY <2>1, <3>1, <3>2, SessionEffect DEF Reserve, Go
  <2> QED
    BY <1>1, <1>3, <2>1
<1>4. ASSUME NEW r \in Recorders, at'[r] = "remove" PROVE manifest'[r] = "committed"
  BY <1>1, <1>4, SessionEffect DEF Working, Processes
<1>5. ASSUME NEW s \in Reported' PROVE episode'[s] = "package"
  BY <1>5, SessionEffect DEF Working, Reported, Adopting
<1> QED
  BY <1>2, <1>3, <1>4, <1>5 DEF Working, Adopting, Reported

(* A tree that has an episode leaves the disk only for one that has it,    *)
(* too, or for the quarantine.                                             *)
LEMMA StoredStays ==
  ASSUME StoreAssumption, TypeOK, Locked, Consistent, Placed, Working, [Next]_vars,
         NEW e \in Recorders, Stored(e)
  PROVE  Stored(e)'
<1> USE DEF Stored, Holds
<1>1. ASSUME NEW p \in Processes, MoveCurrent(p) PROVE Stored(e)'
  BY <1>1 DEF MoveCurrent, Moving, CurrentMoves, Layout, MovedBy
<1>2. ASSUME NEW p \in Processes, MoveNext(p) PROVE Stored(e)'
  BY <1>2 DEF MoveNext, Moving, NextMoves, Layout, MovedBy
<1>3. ASSUME NEW p \in Processes, WritePhase(p) PROVE Stored(e)'
  <2>1. phase' # None /\ UNCHANGED <<current, next, backup, quarantine>>
    BY <1>3, PhaseStays DEF WritePhase, MovedBy
  <2> QED
    BY <2>1
<1>4. ASSUME NEW p \in Processes, DropBackup(p) PROVE Stored(e)'
  <2>1. /\ UNCHANGED <<current, next, phase, quarantine>>
        /\ phase # None /\ phase.step = "current_validated" /\ current # None /\ backup # None
    BY <1>4 DEF DropBackup, Moving, Validated, MovedBy
  <2>2. current.whole /\ backup.episodes \subseteq current.episodes
    BY <2>1 DEF Consistent
  <2> QED
    BY <2>1, <2>2
<1>5. ASSUME NEW p \in Processes, DropPhase(p) PROVE Stored(e)'
  BY <1>5 DEF DropPhase, Validated, MovedBy
<1>6. ASSUME NEW p \in Processes, QuarantineTree(p) PROVE Stored(e)'
  BY <1>6 DEF QuarantineTree, Away
<1>7. ASSUME NEW p \in Processes, QuarantineEnds(p) PROVE Stored(e)'
  BY <1>7 DEF QuarantineEnds, Layout
<1>8. ASSUME NEW p \in Processes, Build(p) PROVE Stored(e)'
  <2>1. phase = None /\ UNCHANGED <<current, backup, quarantine>>
    BY <1>8, BuildEffect DEF Placed, Clean
  <2> QED
    BY <2>1
<1>9. CASE UNCHANGED trees
  BY <1>9 DEF trees
<1> QED
  BY <1>1, <1>2, <1>3, <1>4, <1>5, <1>6, <1>7, <1>8, <1>9, NextCases, QuietEffect DEF Shift,
     vars

(* An episode is adopted when the marker names its tree, or the collection *)
(* has it.                                                                 *)
LEMMA Adopts ==
  ASSUME TypeOK, NEW p \in Processes, Build(p) \/ QuarantineEnds(p) \/ Quiet(p),
         at'[p] \in {"commit", "adopted"}
  PROVE  /\ p \in Recorders /\ work' = work
         /\ \/ Install(p) /\ at'[p] = "commit"
            \/ NothingNew(p) /\ at'[p] = "adopted"
            \/ Committed(p) /\ at'[p] = "adopted"
<1> USE DEF TypeOK
<1>1. CASE Build(p)
  BY <1>1, BuildEffect DEF Build, BuildBegins, BuildEnds, Install, Go, There
<1>2. CASE QuarantineEnds(p) \/ Lock(p)
  BY <1>2 DEF QuarantineEnds, Lock, Enter, Ambiguous, Raises, Recovered, Fails, Go
<1>3. CASE RecordOnly(p)
  <2>1. CASE Begin(p) \/ Preflight(p) \/ PreflightEnds(p) \/ Reserve(p) \/ RecordEpisode(p)
    BY <2>1 DEF Begin, Preflight, PreflightEnds, Reserve, RecordEpisode, Leave, Ask, Go
  <2>2. CASE Acknowledge(p) \/ Remove(p) \/ Abandon(p)
    BY <2>2 DEF Acknowledge, Remove, Abandon, Go, processes
  <2>3. CASE NothingNew(p) \/ Committed(p)
    BY <1>3, <2>3 DEF RecordOnly, NothingNew, Committed, Leave, Go, There
  <2>4. ASSUME NEW s \in Recorders, Skip(p, s) \/ Vanished(p, s) \/ Salvage(p, s) PROVE FALSE
    BY <2>4 DEF Skip, Vanished, Salvage, Look, Ask, Go
  <2> QED
    BY <1>3, <2>1, <2>2, <2>3, <2>4 DEF RecordOnly
<1>4. CASE Read(p)
  BY <1>4 DEF Read, Share, ShareAgain, Close, Leave, Ask, Go
<1> QED
  BY <1>1, <1>2, <1>3, <1>4 DEF Quiet

LEMMA Adopter ==
  ASSUME TypeOK, Locked, NEW q \in Processes, at'[q] \in {"commit", "adopted"}, [Next]_vars
  PROVE  /\ work'[q] = work[q]
         /\ \/ at'[q] = at[q]
            \/ Install(q) /\ at'[q] = "commit"
            \/ NothingNew(q) /\ at'[q] = "adopted"
            \/ Committed(q) /\ at'[q] = "adopted"
<1>1. ASSUME NEW p \in Processes, Shift(p) PROVE UNCHANGED <<at, work>>
  BY <1>1, ShiftEffect DEF processes
<1>2. ASSUME NEW p \in Processes, Build(p) \/ QuarantineEnds(p) \/ Quiet(p), p # q
      PROVE  at'[q] = at[q] /\ work'[q] = work[q]
  BY <1>2, OthersStay
<1>3. CASE Build(q) \/ QuarantineEnds(q) \/ Quiet(q)
  BY <1>3, Adopts
<1> QED
  BY <1>1, <1>2, <1>3, NextCases DEF vars, processes

LEMMA AdoptedIsStoredStep ==
  ASSUME StoreAssumption, TypeOK, Locked, Consistent, Placed, Working, AdoptedIsStored,
         [Next]_vars
  PROVE  AdoptedIsStored'
<1>1. SUFFICES ASSUME NEW q \in Processes,
                      at'[q] \in {"commit", "adopted"} PROVE Stored(work[q])'
  BY DEF AdoptedIsStored
<1>2. work'[q] = work[q]
  BY <1>1, Adopter
<1>3. CASE at[q] \in {"commit", "adopted"}
  <2>1. Stored(work[q]) /\ work[q] \in Recorders
    BY <1>3 DEF AdoptedIsStored, Working, Adopting
  <2> QED
    BY <1>2, <2>1, StoredStays
<1>4. CASE NothingNew(q)
  <2>1. current' = current /\ work[q] \in Existing
    BY <1>4 DEF NothingNew, Leave, Incoming, trees
  <2>2. Holds(current, work[q])
    BY <2>1 DEF Existing, Holds, Consistent
  <2> QED
    BY <1>2, <2>1, <2>2 DEF Stored, Holds
<1>5. CASE Install(q)
  <2>1. next = [episodes |-> Merged(q), whole |-> TRUE] /\ next' = next /\ work[q] \in Recorders
    BY <1>5 DEF Install, Go, Placed, Working, Adopting
  <2>2. next # None /\ work[q] \in next.episodes /\ next.whole
    BY <2>1, MergedTyped, TreeIsThere DEF Merged, Incoming
  <2>3. phase' # None
    <3>1. phase' = [step |-> "prepared", had |-> current # None, new |-> next.episodes]
      BY <1>5 DEF Install
    <3>2. next.episodes \subseteq Recorders
      BY <2>1, MergedTyped
    <3>3. phase' \in Transaction
      BY <3>1, <3>2 DEF Transaction
    <3> QED
      BY <3>3 DEF StoreAssumption
  <2> QED
    BY <1>2, <2>1, <2>2, <2>3 DEF Stored, Holds
<1>6. CASE Committed(q)
  BY <1>3, <1>6 DEF Committed
<1> QED
  BY <1>1, <1>3, <1>4, <1>5, <1>6, Adopter

(* An episode becomes a package in its session, recorded or salvaged.      *)
LEMMA BecomesPackage ==
  ASSUME TypeOK, Working, [Next]_vars, NEW s \in Recorders,
         episode[s] # "package", episode'[s] = "package"
  PROVE  session[s] \in {"here", "removing"}
<1> USE DEF TypeOK, Processes
<1>1. ASSUME NEW p \in Processes, Shift(p) \/ Build(p) PROVE UNCHANGED episode
  BY <1>1, BuildEffect
  DEF Shift, MoveCurrent, MoveNext, WritePhase, DropBackup, DropPhase, QuarantineTree, MovedBy,
     sessions
<1>2. ASSUME NEW p \in Processes, QuarantineEnds(p) \/ Lock(p)
             \/ Read(p) PROVE UNCHANGED episode
  BY <1>2 DEF QuarantineEnds, Lock, Enter, Ambiguous, Raises, Recovered, Fails, sessions, Read,
     Share,
              ShareAgain, Close, Leave
<1>3. ASSUME NEW p \in Recorders,
             \/ Begin(p) \/ Preflight(p) \/ PreflightEnds(p) \/ NothingNew(p) \/ Committed(p)
             \/ Reserve(p) \/ Remove(p) \/ Abandon(p) \/ Acknowledge(p)
      PROVE  UNCHANGED episode
  BY <1>3 DEF Begin, Preflight, PreflightEnds, NothingNew, Committed, Leave, Reserve, Remove,
     Abandon,
              Acknowledge, sessions
<1>4. ASSUME NEW p \in Recorders, RecordEpisode(p)
      PROVE  episode'[s] = episode[s] \/ session[s] = "here"
  BY <1>4 DEF RecordEpisode, Working
<1>5. ASSUME NEW p \in Recorders, NEW t \in Recorders, Skip(p, t) \/ Vanished(p, t)
             \/ Salvage(p, t)
      PROVE  episode'[s] = episode[s] \/ session[s] = "here"
  BY <1>5 DEF Skip, Vanished, Salvage
<1> QED
  BY <1>1, <1>2, <1>3, <1>4, <1>5, NextCases DEF Quiet, RecordOnly, vars, sessions

(* An episode leaves its session when it is reported, or by the hand of    *)
(* its recorder, who was told so.                                          *)
LEMMA EpisodesAreKeptStep ==
  ASSUME StoreAssumption, TypeOK, Locked, Consistent, Placed, Working, AdoptedIsStored,
         EpisodesAreKept, [Next]_vars
  PROVE  EpisodesAreKept'
<1>1. SUFFICES ASSUME NEW e \in Recorders, episode'[e] = "package"
               PROVE  (session'[e] \in {"here", "removing"} /\ manifest'[e] = "recording")
                      \/ Stored(e)'
  BY DEF EpisodesAreKept, Stored, Holds
<1>2. CASE manifest'[e] = "committed"
  <2>1. CASE manifest[e] = "committed"
    <3>1. Stored(e)
      BY <2>1 DEF EpisodesAreKept, Stored, Working, Reported
    <3> QED
      BY <3>1, StoredStays
  <2>2. ASSUME NEW p \in Processes, at[p] = "adopted", work[p] = e PROVE Stored(e)'
    BY <2>2, StoredStays DEF AdoptedIsStored
  <2> QED
    BY <1>2, <2>1, <2>2, SessionEffect
<1>3. CASE manifest'[e] = "recording"
  <2>1. manifest[e] = "recording"
    BY <1>3, SessionEffect DEF TypeOK
  <2>2. CASE episode[e] = "package"
    <3>1. CASE Stored(e)
      BY <3>1, StoredStays
    <3>2. CASE session[e] \in {"here", "removing"}
      <4>1. at[e] # "remove" /\ episode[e] # "none"
        BY <2>1, <2>2 DEF Working
      <4> QED
        BY <1>3, <3>2, <4>1, SessionEffect
    <3> QED
      BY <2>2, <3>1, <3>2 DEF EpisodesAreKept, Stored
  <2>3. CASE episode[e] # "package"
    <3>1. session[e] \in {"here", "removing"}
      BY <1>1, <2>3, BecomesPackage
    <3>2. at[e] # "remove" /\ episode[e] # "none"
      BY <1>1, <2>1, SessionEffect DEF Working
    <3> QED
      BY <1>3, <3>1, <3>2, SessionEffect
  <2> QED
    BY <2>2, <2>3
<1>4. manifest'[e] \in {"recording", "committed"}
  BY TypeStep DEF TypeOK
<1> QED
  BY <1>2, <1>3, <1>4

(* What the collection has, it keeps, unless it is put in quarantine.      *)
LEMMA CollectionStays ==
  ASSUME StoreAssumption, TypeOK, Locked, Consistent, Placed, Working, [Next]_vars,
         quarantine' = {}
  PROVE  /\ quarantine = {}
         /\ Collection \subseteq Collection'
         /\ current' # None => current' = current \/ current'.episodes = Collection
<1> USE DEF Collection, Existing
<1>1. ASSUME NEW p \in Processes, MoveCurrent(p) \/ DropBackup(p)
      PROVE  UNCHANGED <<phase, quarantine>> /\ phase # None /\ (current' = current
             \/ current' = None)
  BY <1>1 DEF MoveCurrent, DropBackup, Moving, MovedBy
<1>2. ASSUME NEW p \in Processes, MoveNext(p)
      PROVE  UNCHANGED <<phase, quarantine>> /\ phase # None /\ current'.episodes = phase.new
  <2>1. phase # None /\ next # None /\ UNCHANGED <<phase, quarantine>> /\ current' = next
    BY <1>2 DEF MoveNext, Moving, NextMoves, Layout, MovedBy
  <2> QED
    BY <2>1 DEF Consistent
<1>3. ASSUME NEW p \in Processes, WritePhase(p)
      PROVE  UNCHANGED <<current, quarantine>> /\ Collection' = Collection
  <2>1. phase \in Transaction /\ phase # None /\ phase' # None
        /\ UNCHANGED <<current, quarantine>>
    BY <1>3, PhaseStays DEF WritePhase, Moving, MovedBy, TypeOK
  <2>2. phase'.new = phase.new
    BY <1>3, <2>1 DEF WritePhase, Transaction
  <2> QED
    BY <2>1, <2>2
<1>4. ASSUME NEW p \in Processes, DropPhase(p)
      PROVE  UNCHANGED <<current, quarantine>> /\ Collection' = Collection
  <2>1. /\ phase # None /\ phase.step = "current_validated" /\ current # None /\ phase' = None
        /\ UNCHANGED <<current, quarantine>>
    BY <1>4 DEF DropPhase, Moving, Validated, MovedBy
  <2> QED
    BY <2>1 DEF Consistent
<1>5. ASSUME NEW p \in Processes, QuarantineTree(p) PROVE FALSE
  BY <1>5 DEF QuarantineTree, Away
<1>6. ASSUME NEW p \in Processes, QuarantineEnds(p)
      PROVE  UNCHANGED <<current, phase, quarantine>>
  BY <1>6 DEF QuarantineEnds, Consistent
<1>7. ASSUME NEW p \in Processes, BuildBegins(p) \/ BuildEnds(p)
      PROVE  UNCHANGED <<current, phase, quarantine>>
  BY <1>7 DEF BuildBegins, BuildEnds
<1>8. ASSUME NEW p \in Processes, Install(p)
      PROVE  UNCHANGED <<current, quarantine>> /\ phase = None
             /\ Collection \subseteq Collection'
  <2>1. /\ phase = None /\ UNCHANGED <<current, quarantine>>
        /\ next = [episodes |-> Merged(p), whole |-> TRUE]
        /\ phase'.new = next.episodes
    BY <1>8 DEF Install, Go, Placed
  <2>2. Collection' = Merged(p) \/ Collection' = Existing
    BY <2>1
  <2> QED
    BY <2>1, <2>2 DEF Merged
<1>9. UNCHANGED trees => UNCHANGED <<current, phase, quarantine>>
  BY DEF trees
<1> QED
  BY <1>1, <1>2, <1>3, <1>4, <1>5, <1>6, <1>7, <1>8, <1>9, NextCases, QuietEffect DEF Shift,
     Build, vars

(* An episode that is adopted without a transaction of its own is in the   *)
(* collection.                                                             *)
LEMMA AdoptedEffect ==
  ASSUME TypeOK, Locked, Placed, Working, AdoptedIsShown, quarantine = {}, [Next]_vars,
         NEW e \in Adopted'
  PROVE  e \in Adopted \/ (UNCHANGED trees /\ phase = None /\ e \in Existing)
<1>1. CASE e \in Reported'
  BY <1>1, SessionEffect DEF Reported, Adopted
<1>2. ASSUME NEW q \in Processes, e \in Recorders, at'[q] = "adopted", work'[q] = e
      PROVE  e \in Adopted \/ (UNCHANGED trees /\ phase = None /\ e \in Existing)
  <2>1. work[q] = e
    BY <1>2, Adopter
  <2>2. CASE at'[q] = at[q]
    BY <1>2, <2>1, <2>2 DEF Adopted
  <2>3. CASE NothingNew(q)
    BY <2>1, <2>3 DEF NothingNew, Leave, Incoming, Placed, Clean
  <2>4. CASE Committed(q)
    <3>1. phase = None /\ UNCHANGED trees /\ at[q] = "commit"
      BY <2>4 DEF Committed, Leave
    <3>2. e \in Collection
      BY <2>1, <3>1 DEF AdoptedIsShown
    <3> QED
      BY <3>1, <3>2 DEF Collection
  <2>5. CASE Install(q)
    BY <1>2, <2>5 DEF Install, Go, TypeOK
  <2> QED
    BY <1>2, <2>2, <2>3, <2>4, <2>5, Adopter
<1> QED
  BY <1>1, <1>2 DEF Adopted, Reported

LEMMA AdoptedIsShownStep ==
  ASSUME StoreAssumption, TypeOK, Locked, Consistent, Placed, Working, AdoptedIsShown,
         [Next]_vars
  PROVE  AdoptedIsShown'
<1>1. SUFFICES ASSUME quarantine' = {}
               PROVE  /\ \A e \in Adopted' : e \in Collection' /\ (current' # None
                           => e \in current'.episodes)
                      /\ \A q \in Processes : at'[q] = "commit" => work'[q] \in Collection'
  BY DEF AdoptedIsShown
<1>2. /\ quarantine = {} /\ Collection \subseteq Collection'
      /\ current' # None => current' = current \/ current'.episodes = Collection
  BY <1>1, CollectionStays
<1>3. /\ Adopted \subseteq Collection
      /\ current # None => Adopted \subseteq current.episodes
      /\ \A p \in Processes : at[p] = "commit" => work[p] \in Collection
  BY <1>2 DEF AdoptedIsShown
<1>4. ASSUME NEW e \in Adopted'
      PROVE  e \in Collection' /\ (current' # None => e \in current'.episodes)
  <2>1. CASE e \in Adopted
    BY <1>2, <1>3, <2>1
  <2>2. CASE UNCHANGED trees /\ phase = None /\ e \in Existing
    BY <2>2 DEF trees, Collection, Existing
  <2> QED
    BY <1>2, <2>1, <2>2, AdoptedEffect
<1>5. ASSUME NEW q \in Processes, at'[q] = "commit" PROVE work'[q] \in Collection'
  <2>1. work'[q] = work[q]
    BY <1>5, Adopter
  <2>2. CASE at[q] = "commit"
    BY <1>2, <1>3, <2>1, <2>2
  <2>3. CASE Install(q)
    <3>1. /\ next = [episodes |-> Merged(q), whole |-> TRUE] /\ work[q] \in Recorders
          /\ phase' = [step |-> "prepared", had |-> current # None, new |-> next.episodes]
      BY <2>3 DEF Install, Go, Placed, Working, Adopting
    <3>2. next.episodes \subseteq Recorders /\ work[q] \in next.episodes
      BY <3>1, MergedTyped DEF Merged, Incoming
    <3>3. phase' \in Transaction
      BY <3>1, <3>2 DEF Transaction
    <3>4. phase' # None /\ phase'.new = next.episodes
      BY <3>1, <3>3 DEF StoreAssumption
    <3> QED
      BY <2>1, <3>2, <3>4 DEF Collection
  <2> QED
    BY <1>5, <2>2, <2>3, Adopter
<1> QED
  BY <1>4, <1>5

(* Who reads has opened the collection, and nobody replaces it meanwhile.  *)
LEMMA ReaderEffect ==
  ASSUME TypeOK, Viewing, NEW p \in Processes, QuarantineEnds(p) \/ Quiet(p),
         NEW q \in shared'
  PROVE  \/ q \in shared /\ view'[q] = view[q]
         \/ current # None /\ view'[q] = current
<1> USE DEF TypeOK, Processes
<1>1. CASE QuarantineEnds(p) \/ Lock(p)
  BY <1>1 DEF QuarantineEnds, Lock, Enter, Ambiguous, Raises, Recovered, Fails, Free, There,
     locks
<1>2. CASE RecordOnly(p)
  BY <1>2 DEF RecordOnly, Begin, Preflight, PreflightEnds, Reserve, RecordEpisode, NothingNew,
     Committed,
              Leave, There, Acknowledge, Remove, Abandon, Skip, Vanished, Salvage, Look, locks,
                  processes
<1>3. CASE Read(p)
  <2>1. CASE p \in Readers /\ Share(p)
    <3>1. q \in Processes /\ (q \in shared \/ q = p)
      BY <2>1 DEF Share
    <3>2. CASE at[p] = "start" /\ ~Clean
      BY <2>1, <3>2 DEF Share
    <3>3. CASE ~(at[p] = "start" /\ ~Clean)
      <4>1. /\ shared' = IF current = None THEN shared ELSE shared \cup {p}
            /\ view' = [view EXCEPT ![p] = current]
        BY <2>1, <3>3 DEF Share
      <4> QED
        BY <3>1, <4>1 DEF Viewing
    <3> QED
      BY <3>2, <3>3
  <2>2. CASE ShareAgain(p)
    BY <2>2 DEF ShareAgain, Leave, There
  <2>3. CASE p \in Readers /\ Close(p)
    BY <2>3 DEF Close, Free
  <2> QED
    BY <1>3, <2>1, <2>2, <2>3 DEF Read
<1> QED
  BY <1>1, <1>2, <1>3 DEF Quiet

LEMMA ViewingStep ==
  ASSUME StoreAssumption, TypeOK, Locked, Viewing, [Next]_vars
  PROVE  Viewing'
<1>1. SUFFICES ASSUME NEW q \in shared' PROVE current' # None /\ view'[q] = current'
  BY DEF Viewing
<1>2. ASSUME NEW p \in Processes, Shift(p) \/ Build(p) PROVE FALSE
  <2>1. shared = {} /\ shared' = shared
    BY <1>2, TreesAreGuarded, ShiftEffect, BuildEffect DEF locks
  <2> QED
    BY <1>1, <2>1
<1>3. ASSUME NEW p \in Processes, QuarantineEnds(p) PROVE FALSE
  <2>1. shared = {} /\ shared' \subseteq shared
    BY <1>3, TreesAreGuarded DEF QuarantineEnds, Free
  <2> QED
    BY <1>1, <2>1
<1>4. ASSUME NEW p \in Processes, Quiet(p) PROVE current' # None /\ view'[q] = current'
  BY <1>1, <1>4, QuietEffect, ReaderEffect DEF Viewing, trees
<1>5. CASE UNCHANGED vars
  BY <1>1, <1>5 DEF Viewing, vars, trees, locks, processes
<1> QED
  BY <1>2, <1>3, <1>4, <1>5, NextCases

LEMMA ReadersFollow ==
  ASSUME Consistent, AdoptedIsShown, Viewing
  PROVE  ReadersSeeCommits
BY DEF Consistent, AdoptedIsShown, Viewing, ReadersSeeCommits, Adopted

LEMMA Initial ==
  ASSUME StoreAssumption, Init
  PROVE  IInv
<1>1. TypeOK
  BY DEF StoreAssumption, Init, TypeOK, Processes
<1>2. Locked /\ Consistent /\ Placed /\ Viewing
  BY DEF Init, Locked, Inside, Consistent, Placed, Viewing
<1>3. Working /\ AdoptedIsStored /\ EpisodesAreKept
  BY DEF Init, Working, Adopting, Reported, AdoptedIsStored, EpisodesAreKept, Processes
<1>4. AdoptedIsShown
  BY DEF Init, AdoptedIsShown, Adopted, Reported
<1> QED
  BY <1>1, <1>2, <1>3, <1>4, ReadersFollow DEF IInv

LEMMA ReadersFollowNext == Consistent' /\ AdoptedIsShown' /\ Viewing' => ReadersSeeCommits'
<1>1. Consistent /\ AdoptedIsShown /\ Viewing => ReadersSeeCommits
  BY ReadersFollow
<1> QED
  BY <1>1, PTL

LEMMA Inductive == StoreAssumption => (Spec => []IInv)
<1> SUFFICES ASSUME StoreAssumption PROVE Spec => []IInv
  OBVIOUS
<1>1. Init => IInv
  BY Initial
<1>2. IInv /\ [Next]_vars => IInv'
  <2> SUFFICES ASSUME IInv, [Next]_vars PROVE IInv'
    OBVIOUS
  <2>1. TypeOK' /\ Locked' /\ Consistent' /\ Placed' /\ Working'
    BY TypeStep, LockedStep, ConsistentStep, PlacedStep, WorkingStep DEF IInv
  <2>2. AdoptedIsStored' /\ EpisodesAreKept' /\ AdoptedIsShown' /\ Viewing'
    BY AdoptedIsStoredStep, EpisodesAreKeptStep, AdoptedIsShownStep, ViewingStep DEF IInv
  <2> QED
    BY <2>1, <2>2, ReadersFollowNext DEF IInv
<1> QED
  BY <1>1, <1>2, PTL DEF Spec

(* Every variable keeps its kind of value.                                 *)
THEOREM StoreTypeCorrect == ASSUME StoreAssumption PROVE Spec => []TypeOK
<1>1. IInv => TypeOK
  BY DEF IInv
<1> QED
  BY <1>1, Inductive, PTL

(* A recorded episode is in its session, in the collection, in a           *)
(* transaction that can be recovered, or in the quarantine, whoever died.  *)
THEOREM EpisodesSurvive == ASSUME StoreAssumption PROVE Spec => []EpisodesAreKept
<1>1. IInv => EpisodesAreKept
  BY DEF IInv
<1> QED
  BY <1>1, Inductive, PTL

(* An open collection is whole, is the current one, and has everything     *)
(* that was reported, unless a transaction was quarantined.                *)
THEOREM ReadersAreUpToDate == ASSUME StoreAssumption PROVE Spec => []ReadersSeeCommits
<1>1. IInv => ReadersSeeCommits
  BY DEF IInv
<1> QED
  BY <1>1, Inductive, PTL
=============================================================================
