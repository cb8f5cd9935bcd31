-------------------------- MODULE GoalCatalogProofs --------------------------
(* Theorems about GoalCatalog for every set of facts and of workers and    *)
(* every number of attempts and faults, with their proofs.                 *)
EXTENDS GoalCatalog, TLAPS

Knowing == {"verify", "replace", "readback", "acknowledge"}  \* after ListEvents

(* What a projection knows, in relation to the pointer as it is now.  The  *)
(* events are listed after the tag was read: while the tag is current,     *)
(* the list holds every fact of the catalog it would replace.              *)
Projecting ==
  \A x \in Projectors :
    /\ tag[x] <= pointer.etag
    /\ pc[x] \in {"tag", "list", "verify"} /\ seen[x] # Nothing =>
         seen[x] \subseteq pointer.applied
    /\ pc[x] \in {"verify", "replace"} /\ tag[x] = pointer.etag =>
         pointer.applied \subseteq found[x]
    /\ pc[x] = "verify" => found[x] \subseteq stored
    /\ pc[x] = "replace" => found[x] \subseteq sources
    /\ pc[x] \in {"readback", "acknowledge"} => found[x] \subseteq pointer.applied

AckedIsShown == acked \subseteq pointer.applied

(* Where a fact is, in relation to its documents and acknowledgement.      *)
Recording ==
  \A e \in Events :
    /\ at[e] = "source" => e \in stored
    /\ at[e] \in {"event", "source"} => e \notin sources
    /\ at[e] \in {"schedule", "join", "over"} => e \in sources
    /\ at[e] = "over" => e \in acked \/ job[e] # "none"

(* A projection that was started for a fact finds it, so that it cannot    *)
(* succeed without acknowledging it.                                       *)
FindsOwnFact(x, e) ==
  /\ pc[x] \in Running \cup {"done"} => e \in sources
  /\ pc[x] \in Knowing => e \in found[x]
  /\ pc[x] = "done" => e \in acked

Owned ==
  /\ \A e \in Events : FindsOwnFact(e, e)
  /\ \A e \in Events : job[e] = "done" => e \in acked
  /\ \A e \in Events : job[e] # "none" => e \in sources
  /\ \A e \in Events, x \in Workers : job[e] = x => pc[x] # "rest" /\ FindsOwnFact(x, e)
  /\ \A e, f \in Events : job[e] \in Workers /\ job[e] = job[f] => e = f

IInv == TypeOK /\ Projecting /\ AckedIsShown /\ Recording /\ Owned

-----------------------------------------------------------------------------
LEMMA InitInductive == ASSUME CatalogAssumption, Init PROVE IInv
BY DEF CatalogAssumption, Init, IInv, TypeOK, Projecting, AckedIsShown,
   Recording, Owned, FindsOwnFact, Projectors, Running, Knowing

LEMMA TypeStep ==
  ASSUME CatalogAssumption, IInv, [Next]_vars
  PROVE  TypeOK'
<1>1. ASSUME NEW e \in Events, PutEvent(e) PROVE TypeOK'
  BY <1>1 DEF IInv, TypeOK, PutEvent, projection
<1>2. ASSUME NEW e \in Events, PutSource(e) PROVE TypeOK'
  BY <1>2 DEF IInv, TypeOK, PutSource, Recording, projection
<1>3. ASSUME NEW e \in Events, Schedule(e) PROVE TypeOK'
  BY <1>3 DEF IInv, TypeOK, Running, Schedule, Start, store
<1>4. ASSUME NEW e \in Events, Joined(e) PROVE TypeOK'
  BY <1>4 DEF IInv, TypeOK, Joined, store, projection
<1>5. ASSUME NEW e \in Events, Enqueue(e) PROVE TypeOK'
  BY <1>5 DEF IInv, TypeOK, Enqueue, store, projection
<1>6. ASSUME NEW e \in Events, EnqueueFails(e) PROVE TypeOK'
  BY <1>6 DEF CatalogAssumption, IInv, TypeOK, EnqueueFails, store,
     projection
<1>7. ASSUME NEW e \in Events, Ends(e) PROVE TypeOK'
  BY <1>7 DEF CatalogAssumption, Projectors, IInv, TypeOK, Ends, GoTo,
     Forget, store
<1>8. ASSUME NEW e \in Events, Dies(e) PROVE TypeOK'
  BY <1>8 DEF CatalogAssumption, Projectors, IInv, TypeOK, Dies, GoTo,
     Forget, store
<1>9. ASSUME NEW x \in Projectors, ReadPointer(x) PROVE TypeOK'
  BY <1>9 DEF IInv, TypeOK, Running, ReadPointer, GoTo, Elsewhere
<1>10. ASSUME NEW x \in Projectors, ReadTag(x) PROVE TypeOK'
  BY <1>10 DEF IInv, TypeOK, Running, ReadTag, GoTo, Elsewhere
<1>11. ASSUME NEW x \in Projectors, ListEvents(x) PROVE TypeOK'
  BY <1>11 DEF IInv, TypeOK, Running, ListEvents, GoTo, Elsewhere
<1>12. ASSUME NEW x \in Projectors, Verify(x) PROVE TypeOK'
  BY <1>12 DEF CatalogAssumption, IInv, TypeOK, Running, Verify, GoTo,
     Elsewhere
<1>13. ASSUME NEW x \in Projectors, Replace(x) PROVE TypeOK'
  BY <1>13 DEF CatalogAssumption, IInv, TypeOK, Running, Replace, Projecting,
     GoTo, Forget, Elsewhere
<1>14. ASSUME NEW x \in Projectors, ReadBack(x) PROVE TypeOK'
  BY <1>14 DEF CatalogAssumption, IInv, TypeOK, Running, ReadBack, GoTo,
     Forget, Elsewhere
<1>15. ASSUME NEW x \in Projectors, Acknowledge(x) PROVE TypeOK'
  BY <1>15 DEF CatalogAssumption, IInv, TypeOK, Acknowledge, Projecting,
     GoTo, Forget, Elsewhere, projection
<1>16. ASSUME NEW x \in Projectors, Fails(x) PROVE TypeOK'
  BY <1>16 DEF CatalogAssumption, IInv, TypeOK, Fails, GoTo, Forget, store
<1>17. ASSUME NEW x \in Workers, NEW e \in Events, TakeJob(x, e) PROVE TypeOK'
  BY <1>17 DEF IInv, TypeOK, Running, TakeJob, Start, store
<1>18. ASSUME NEW x \in Workers, NEW e \in Events, ReportJob(x, e) PROVE TypeOK'
  BY <1>18 DEF IInv, TypeOK, ReportJob, store
<1>19. CASE UNCHANGED vars
  BY <1>19 DEF IInv, TypeOK, vars, store, projection
<1> QED
  BY <1>1, <1>2, <1>3, <1>4, <1>5, <1>6, <1>7, <1>8, <1>9, <1>10, <1>11,
     <1>12, <1>13, <1>14, <1>15, <1>16, <1>17, <1>18, <1>19 DEF Next, Record,
     Project, RunJob

LEMMA ProjectingStep ==
  ASSUME CatalogAssumption, TypeOK, Projecting, [Next]_vars
  PROVE  Projecting'
<1>1. ASSUME NEW e \in Events, PutEvent(e) PROVE Projecting'
  BY <1>1 DEF Projecting, PutEvent, projection
<1>2. ASSUME NEW e \in Events, PutSource(e) PROVE Projecting'
  BY <1>2 DEF Projecting, PutSource, projection
<1>3. ASSUME NEW e \in Events, Schedule(e) PROVE Projecting'
  BY <1>3 DEF Projecting, Schedule, Start, store
<1>4. ASSUME NEW e \in Events, Joined(e) PROVE Projecting'
  BY <1>4 DEF Projecting, Joined, store, projection
<1>5. ASSUME NEW e \in Events, Enqueue(e) PROVE Projecting'
  BY <1>5 DEF Projecting, Enqueue, store, projection
<1>6. ASSUME NEW e \in Events, EnqueueFails(e) PROVE Projecting'
  BY <1>6 DEF Projecting, EnqueueFails, store, projection
<1>7. ASSUME NEW e \in Events, Ends(e) PROVE Projecting'
  BY <1>7 DEF TypeOK, Projecting, Ends, GoTo, Forget, store
<1>8. ASSUME NEW e \in Events, Dies(e) PROVE Projecting'
  BY <1>8 DEF TypeOK, Projecting, Dies, GoTo, Forget, store
<1>9. ASSUME NEW x \in Projectors, ReadPointer(x) PROVE Projecting'
  BY <1>9 DEF TypeOK, Projecting, ReadPointer, GoTo, Elsewhere
<1>10. ASSUME NEW x \in Projectors, ReadTag(x) PROVE Projecting'
  BY <1>10 DEF TypeOK, Projecting, ReadTag, GoTo, Elsewhere
<1>11. ASSUME NEW x \in Projectors, ListEvents(x) PROVE Projecting'
  BY <1>11 DEF TypeOK, Projecting, ListEvents, GoTo, Elsewhere
<1>12. ASSUME NEW x \in Projectors, Verify(x) PROVE Projecting'
  BY <1>12 DEF CatalogAssumption, TypeOK, Projecting, Verify, GoTo, Elsewhere
<1>13. ASSUME NEW x \in Projectors, Replace(x) PROVE Projecting'
  BY <1>13 DEF TypeOK, Projecting, Replace, GoTo, Forget, Elsewhere
<1>14. ASSUME NEW x \in Projectors, ReadBack(x) PROVE Projecting'
  BY <1>14 DEF TypeOK, Projecting, ReadBack, GoTo, Forget, Elsewhere
<1>15. ASSUME NEW x \in Projectors, Acknowledge(x) PROVE Projecting'
  BY <1>15 DEF TypeOK, Projecting, Acknowledge, GoTo, Forget, Elsewhere,
     projection
<1>16. ASSUME NEW x \in Projectors, Fails(x) PROVE Projecting'
  BY <1>16 DEF TypeOK, Projecting, Fails, GoTo, Forget, store
<1>17. ASSUME NEW x \in Workers, NEW e \in Events, TakeJob(x, e) PROVE Projecting'
  BY <1>17 DEF Projecting, TakeJob, Start, store
<1>18. ASSUME NEW x \in Workers, NEW e \in Events, ReportJob(x, e) PROVE Projecting'
  BY <1>18 DEF Projecting, ReportJob, store
<1>19. CASE UNCHANGED vars
  BY <1>19 DEF Projecting, vars, store, projection
<1> QED
  BY <1>1, <1>2, <1>3, <1>4, <1>5, <1>6, <1>7, <1>8, <1>9, <1>10, <1>11,
     <1>12, <1>13, <1>14, <1>15, <1>16, <1>17, <1>18, <1>19 DEF Next, Record,
     Project, RunJob

LEMMA AckedStep ==
  ASSUME CatalogAssumption, TypeOK, Projecting, AckedIsShown, [Next]_vars
  PROVE  AckedIsShown'
<1>1. ASSUME NEW e \in Events, PutEvent(e) PROVE AckedIsShown'
  BY <1>1 DEF AckedIsShown, PutEvent
<1>2. ASSUME NEW e \in Events, PutSource(e) PROVE AckedIsShown'
  BY <1>2 DEF AckedIsShown, PutSource
<1>3. ASSUME NEW e \in Events, Schedule(e) PROVE AckedIsShown'
  BY <1>3 DEF AckedIsShown, Schedule, store
<1>4. ASSUME NEW e \in Events, Joined(e) PROVE AckedIsShown'
  BY <1>4 DEF AckedIsShown, Joined, store
<1>5. ASSUME NEW e \in Events, Enqueue(e) PROVE AckedIsShown'
  BY <1>5 DEF AckedIsShown, Enqueue, store
<1>6. ASSUME NEW e \in Events, EnqueueFails(e) PROVE AckedIsShown'
  BY <1>6 DEF AckedIsShown, EnqueueFails, store
<1>7. ASSUME NEW e \in Events, Ends(e) PROVE AckedIsShown'
  BY <1>7 DEF AckedIsShown, Ends, store
<1>8. ASSUME NEW e \in Events, Dies(e) PROVE AckedIsShown'
  BY <1>8 DEF AckedIsShown, Dies, store
<1>9. ASSUME NEW x \in Projectors, ReadPointer(x) PROVE AckedIsShown'
  BY <1>9 DEF AckedIsShown, ReadPointer
<1>10. ASSUME NEW x \in Projectors, ReadTag(x) PROVE AckedIsShown'
  BY <1>10 DEF AckedIsShown, ReadTag
<1>11. ASSUME NEW x \in Projectors, ListEvents(x) PROVE AckedIsShown'
  BY <1>11 DEF AckedIsShown, ListEvents
<1>12. ASSUME NEW x \in Projectors, Verify(x) PROVE AckedIsShown'
  BY <1>12 DEF AckedIsShown, Verify
<1>13. ASSUME NEW x \in Projectors, Replace(x) PROVE AckedIsShown'
  BY <1>13 DEF Projecting, AckedIsShown, Replace
<1>14. ASSUME NEW x \in Projectors, ReadBack(x) PROVE AckedIsShown'
  BY <1>14 DEF AckedIsShown, ReadBack
<1>15. ASSUME NEW x \in Projectors, Acknowledge(x) PROVE AckedIsShown'
  BY <1>15 DEF Projecting, AckedIsShown, Acknowledge
<1>16. ASSUME NEW x \in Projectors, Fails(x) PROVE AckedIsShown'
  BY <1>16 DEF AckedIsShown, Fails, store
<1>17. ASSUME NEW x \in Workers, NEW e \in Events, TakeJob(x, e) PROVE AckedIsShown'
  BY <1>17 DEF AckedIsShown, TakeJob, store
<1>18. ASSUME NEW x \in Workers, NEW e \in Events, ReportJob(x, e) PROVE AckedIsShown'
  BY <1>18 DEF AckedIsShown, ReportJob, store
<1>19. CASE UNCHANGED vars
  BY <1>19 DEF AckedIsShown, vars, store
<1> QED
  BY <1>1, <1>2, <1>3, <1>4, <1>5, <1>6, <1>7, <1>8, <1>9, <1>10, <1>11,
     <1>12, <1>13, <1>14, <1>15, <1>16, <1>17, <1>18, <1>19 DEF Next, Record,
     Project, RunJob

LEMMA RecordingStep ==
  ASSUME CatalogAssumption, TypeOK, Recording, Owned, [Next]_vars
  PROVE  Recording'
<1>1. ASSUME NEW e \in Events, PutEvent(e) PROVE Recording'
  BY <1>1 DEF Recording, PutEvent
<1>2. ASSUME NEW e \in Events, PutSource(e) PROVE Recording'
  BY <1>2 DEF TypeOK, Recording, PutSource
<1>3. ASSUME NEW e \in Events, Schedule(e) PROVE Recording'
  BY <1>3 DEF Recording, Schedule, store
<1>4. ASSUME NEW e \in Events, Joined(e) PROVE Recording'
  BY <1>4 DEF Recording, Owned, FindsOwnFact, Joined, store
<1>5. ASSUME NEW e \in Events, Enqueue(e) PROVE Recording'
  BY <1>5 DEF TypeOK, Recording, Enqueue, store
<1>6. ASSUME NEW e \in Events, EnqueueFails(e) PROVE Recording'
  BY <1>6 DEF Recording, EnqueueFails, store
<1>7. ASSUME NEW e \in Events, Ends(e) PROVE Recording'
  BY <1>7 DEF Recording, Ends, store
<1>8. ASSUME NEW e \in Events, Dies(e) PROVE Recording'
  BY <1>8 DEF Recording, Dies, store
<1>9. ASSUME NEW x \in Projectors, ReadPointer(x) PROVE Recording'
  BY <1>9 DEF Recording, ReadPointer, Elsewhere
<1>10. ASSUME NEW x \in Projectors, ReadTag(x) PROVE Recording'
  BY <1>10 DEF Recording, ReadTag, Elsewhere
<1>11. ASSUME NEW x \in Projectors, ListEvents(x) PROVE Recording'
  BY <1>11 DEF Recording, ListEvents, Elsewhere
<1>12. ASSUME NEW x \in Projectors, Verify(x) PROVE Recording'
  BY <1>12 DEF Recording, Verify, Elsewhere
<1>13. ASSUME NEW x \in Projectors, Replace(x) PROVE Recording'
  BY <1>13 DEF Recording, Replace, Elsewhere
<1>14. ASSUME NEW x \in Projectors, ReadBack(x) PROVE Recording'
  BY <1>14 DEF Recording, ReadBack, Elsewhere
<1>15. ASSUME NEW x \in Projectors, Acknowledge(x) PROVE Recording'
  BY <1>15 DEF Recording, Acknowledge, Elsewhere
<1>16. ASSUME NEW x \in Projectors, Fails(x) PROVE Recording'
  BY <1>16 DEF Recording, Fails, store
<1>17. ASSUME NEW x \in Workers, NEW e \in Events, TakeJob(x, e) PROVE Recording'
  BY <1>17 DEF CatalogAssumption, Recording, TakeJob, store
<1>18. ASSUME NEW x \in Workers, NEW e \in Events, ReportJob(x, e) PROVE Recording'
  BY <1>18 DEF Recording, ReportJob, store
<1>19. CASE UNCHANGED vars
  BY <1>19 DEF Recording, vars, store
<1> QED
  BY <1>1, <1>2, <1>3, <1>4, <1>5, <1>6, <1>7, <1>8, <1>9, <1>10, <1>11,
     <1>12, <1>13, <1>14, <1>15, <1>16, <1>17, <1>18, <1>19 DEF Next, Record,
     Project, RunJob

LEMMA OwnedStep ==
  ASSUME CatalogAssumption, TypeOK, Recording, Owned, [Next]_vars
  PROVE  Owned'
<1>1. ASSUME NEW e \in Events, PutEvent(e) PROVE Owned'
  BY <1>1 DEF Owned, FindsOwnFact, PutEvent, projection
<1>2. ASSUME NEW e \in Events, PutSource(e) PROVE Owned'
  BY <1>2 DEF Owned, FindsOwnFact, PutSource, projection
<1>3. ASSUME NEW e \in Events, Schedule(e) PROVE Owned'
  BY <1>3 DEF CatalogAssumption, Recording, Owned, FindsOwnFact, Knowing,
     Schedule, Start, store
<1>4. ASSUME NEW e \in Events, Joined(e) PROVE Owned'
  BY <1>4 DEF Owned, FindsOwnFact, Joined, store, projection
<1>5. ASSUME NEW e \in Events, Enqueue(e) PROVE Owned'
  BY <1>5 DEF CatalogAssumption, Recording, Owned, FindsOwnFact, Enqueue,
     store, projection
<1>6. ASSUME NEW e \in Events, EnqueueFails(e) PROVE Owned'
  BY <1>6 DEF Owned, FindsOwnFact, EnqueueFails, store, projection
<1>7. ASSUME NEW e \in Events, Ends(e) PROVE Owned'
  BY <1>7 DEF TypeOK, Owned, FindsOwnFact, Knowing, Ends, GoTo, Forget, store
<1>8. ASSUME NEW e \in Events, Dies(e) PROVE Owned'
  BY <1>8 DEF TypeOK, Owned, FindsOwnFact, Running, Knowing, Dies, GoTo,
     Forget, store
<1>9. ASSUME NEW x \in Projectors, ReadPointer(x) PROVE Owned'
  BY <1>9 DEF Projectors, TypeOK, Owned, FindsOwnFact, Knowing, ReadPointer,
     GoTo, Elsewhere
<1>10. ASSUME NEW x \in Projectors, ReadTag(x) PROVE Owned'
  BY <1>10 DEF Owned, FindsOwnFact, Running, Knowing, ReadTag, GoTo,
     Elsewhere
<1>11. ASSUME NEW x \in Projectors, ListEvents(x) PROVE Owned'
  BY <1>11 DEF TypeOK, Owned, FindsOwnFact, ListEvents, GoTo, Elsewhere
<1>12. ASSUME NEW x \in Projectors, Verify(x) PROVE Owned'
  BY <1>12 DEF Owned, FindsOwnFact, Running, Knowing, Verify, GoTo, Elsewhere
<1>13. ASSUME NEW x \in Projectors, Replace(x) PROVE Owned'
  BY <1>13 DEF Projectors, TypeOK, Owned, FindsOwnFact, Knowing, Replace,
     GoTo, Forget, Elsewhere
<1>14. ASSUME NEW x \in Projectors, ReadBack(x) PROVE Owned'
  BY <1>14 DEF Projectors, TypeOK, Owned, FindsOwnFact, Knowing, ReadBack,
     GoTo, Forget, Elsewhere
<1>15. ASSUME NEW x \in Projectors, Acknowledge(x) PROVE Owned'
  BY <1>15 DEF Projectors, TypeOK, Owned, FindsOwnFact, Knowing, Acknowledge,
     GoTo, Forget, Elsewhere, projection
<1>16. ASSUME NEW x \in Projectors, Fails(x) PROVE Owned'
  BY <1>16 DEF TypeOK, Owned, FindsOwnFact, Knowing, Fails, GoTo, Forget,
     store
<1>17. ASSUME NEW x \in Workers, NEW e \in Events, TakeJob(x, e) PROVE Owned'
  BY <1>17 DEF CatalogAssumption, Projectors, TypeOK, Owned, FindsOwnFact,
     Knowing, TakeJob, Start, store
<1>18. ASSUME NEW x \in Workers, NEW e \in Events, ReportJob(x, e) PROVE Owned'
  BY <1>18 DEF CatalogAssumption, TypeOK, Owned, FindsOwnFact, ReportJob,
     store
<1>19. CASE UNCHANGED vars
  BY <1>19 DEF Owned, FindsOwnFact, vars, store, projection
<1> QED
  BY <1>1, <1>2, <1>3, <1>4, <1>5, <1>6, <1>7, <1>8, <1>9, <1>10, <1>11,
     <1>12, <1>13, <1>14, <1>15, <1>16, <1>17, <1>18, <1>19 DEF Next, Record,
     Project, RunJob
LEMMA StepInductive == ASSUME CatalogAssumption, IInv, [Next]_vars PROVE IInv'
BY TypeStep, ProjectingStep, AckedStep, RecordingStep, OwnedStep DEF IInv

LEMMA Inductive == ASSUME CatalogAssumption PROVE Spec => []IInv
<1>1. Init => IInv
  BY InitInductive
<1>2. IInv /\ [Next]_vars => IInv'
  BY StepInductive
<1> QED
  BY <1>1, <1>2, PTL DEF Spec

-----------------------------------------------------------------------------
(* Every state is well typed, and no projection starts more rounds than    *)
(* maximum_attempts of reconcile.                                          *)
THEOREM CatalogTypeCorrect == ASSUME CatalogAssumption PROVE Spec => []TypeOK
<1>1. IInv => TypeOK
  BY DEF IInv
<1> QED
  BY <1>1, Inductive, PTL

LEMMA OwnersFollow == IInv => FactsHaveAnOwner
BY DEF IInv, TypeOK, Recording, Owned, FindsOwnFact, FactsHaveAnOwner

(* A fact whose source is stored and that is not acknowledged is in        *)
(* somebody's hands, unless its process died or could not queue the job    *)
(* (run_authority.py): no order of the projections that race forgets it.   *)
THEOREM FactsStayOwned == ASSUME CatalogAssumption PROVE Spec => []FactsHaveAnOwner
<1> QED
  BY OwnersFollow, Inductive, PTL

-----------------------------------------------------------------------------
(* GoalCatalog implements CatalogRecord.                                   *)

LEMMA InitImplements == Init => Promise!Init
BY DEF Init, Promise!Init

LEMMA StepImplements ==
  ASSUME CatalogAssumption, IInv, [Next]_vars
  PROVE  [Promise!Next]_Promise!vars
<1>1. ASSUME NEW x \in Projectors, Replace(x) PROVE Promise!Publish \/ UNCHANGED Promise!vars
  BY <1>1 DEF IInv, TypeOK, Projecting, Replace, Promise!Publish
<1>2. ASSUME NEW x \in Projectors, Acknowledge(x)
      PROVE  Promise!Acknowledge \/ UNCHANGED Promise!vars
  BY <1>2 DEF IInv, Projecting, AckedIsShown, Acknowledge,
     Promise!Acknowledge
<1>3. CASE UNCHANGED <<pointer, acked>>
  BY <1>3 DEF Promise!vars
<1>4. ASSUME NEW e \in Events, Record(e) \/ EnqueueFails(e) \/ Ends(e) \/ Dies(e)
      PROVE  UNCHANGED <<pointer, acked>>
  BY <1>4 DEF Record, PutEvent, PutSource, Schedule, Joined, Enqueue,
     EnqueueFails, Ends, Dies, store
<1>5. ASSUME NEW x \in Projectors,
             \/ ReadPointer(x) \/ ReadTag(x) \/ ListEvents(x) \/ Verify(x) \/ ReadBack(x)
                  \/ Fails(x)
      PROVE  UNCHANGED <<pointer, acked>>
  BY <1>5 DEF ReadPointer, ReadTag, ListEvents, Verify, ReadBack, Fails,
     store
<1>6. ASSUME NEW x \in Workers, RunJob(x) PROVE UNCHANGED <<pointer, acked>>
  BY <1>6 DEF RunJob, TakeJob, ReportJob, store
<1>7. CASE UNCHANGED vars
  BY <1>7, <1>3 DEF vars, store
<1> QED
  BY <1>1, <1>2, <1>3, <1>4, <1>5, <1>6, <1>7 DEF Next, Project, Promise!Next

(* The published catalog of a goal only grows, and a fact is acknowledged  *)
(* only once a catalog that shows it was published, whichever projections  *)
(* race (goal_catalog_projection.py, reconcile): the pointer's ETag and    *)
(* its content are read in two requests, and a stale pair never wins.      *)
THEOREM CatalogImplementsRecord == ASSUME CatalogAssumption PROVE Spec => CatalogOnlyGrows
<1> QED
  BY InitImplements, StepImplements, Inductive, PTL DEF Spec,
     CatalogOnlyGrows, Promise!Spec
=============================================================================
