-------------------------- MODULE WriterLeaseProofs --------------------------
(* Theorems about WriterLease for every set of processes and every length  *)
(* of the intervals, with their proofs.                                    *)
EXTENDS WriterLease, TLAPS

Trusting == {"holding", "renewing", "renewed"}

(* The lease of a process that has one names that process.                 *)
OwnDocument ==
  \A h \in Holders :
    pc[h] \in Trusting \cup {"acquired", "lost"} =>
      lease[h] \in Document /\ lease[h].holder = h

(* Clock readings lie in the past.                                         *)
PastReadings ==
  \A h \in Holders : instant[h] <= now /\ last[h] <= now

(* The expiry test of acquire_lease passed for the document of its GET.    *)
TestedBeforePut == \A h \in Holders : pc[h] = "ready" => ~HeldByAnother(h)

(* A replaced writer's first missed renewal starts within one interval,    *)
(* and a second miss ends it.                                              *)
StaleWindow ==
  \A h \in Holders :
    /\ pc[h] \in Trusting => misses[h] \in 0 .. 1
    /\ h \in Tools /\ pc[h] \in Trusting => misses[h] = 0
    /\ pc[h] \in Trusting /\ ~Stored(h) =>
         /\ misses[h] = 0 => last[h] <= trusted[h]
         /\ misses[h] = 1 => last[h] <= trusted[h] + RenewEvery
         /\ misses[h] = 0 /\ pc[h] = "holding" => now <= trusted[h] + RenewEvery
         /\ misses[h] = 0 /\ pc[h] # "holding" => instant[h] <= trusted[h] + RenewEvery

IInv == TypeOK /\ OwnDocument /\ PastReadings /\ TestedBeforePut /\ StaleWindow

-----------------------------------------------------------------------------
(* Type correctness                                                        *)

LEMMA SuccessorType ==
  ASSUME TypeOK, NEW h \in Holders, NEW previous \in Document \cup {NoLease}
  PROVE  Successor(h, previous) \in Document
BY LeaseAssumption DEF TypeOK, Successor, Document, Utc

LEMMA OverwriteType ==
  ASSUME TypeOK, NEW h \in Holders, NEW d \in Document, Overwrite(h, d)
  PROVE  object' \in Document /\ trusted' \in [Holders -> Nat]
BY DEF TypeOK, Overwrite

LEMMA EndType ==
  ASSUME TypeOK, NEW h \in Holders, End(h), now' = now,
         object' \in Document \cup {NoLease}
  PROVE  TypeOK'
BY DEF TypeOK, End, EndCall, PC

LEMMA InitType == Init => TypeOK
BY DEF Init, TypeOK, PC

LEMMA AcquireType ==
  ASSUME TypeOK, NEW h \in Holders,
         \/ AcquireGet(h) \/ AcquireHead(h) \/ AcquireRefused(h)
         \/ AcquirePut(h) \/ AcquireConflict(h) \/ AcquireReply(h)
  PROVE  TypeOK'
<1>1. CASE AcquireGet(h)
  BY <1>1 DEF TypeOK, AcquireGet, Move, PC
<1>2. CASE AcquireHead(h)
  BY <1>2 DEF TypeOK, AcquireHead, Move, PC
<1>3. CASE AcquireRefused(h)
  BY <1>3, EndType DEF TypeOK, AcquireRefused
<1>4. CASE AcquirePut(h)
  <2>1. Successor(h, seen[h]) \in Document
    BY SuccessorType DEF TypeOK
  <2>2. object' \in Document /\ trusted' \in [Holders -> Nat]
    BY <1>4, <2>1, OverwriteType DEF AcquirePut
  <2> QED
    BY <1>4, <2>1, <2>2 DEF TypeOK, AcquirePut, Move, PC
<1>5. CASE AcquireConflict(h)
  BY <1>5, EndType DEF TypeOK, AcquireConflict
<1>6. CASE AcquireReply(h)
  BY <1>6 DEF TypeOK, AcquireReply, EndCall, Move, PC
<1> QED
  BY <1>1, <1>2, <1>3, <1>4, <1>5, <1>6

LEMMA RenewType ==
  ASSUME TypeOK, NEW h \in Holders,
         \/ RenewStart(h) \/ RenewExpired(h) \/ RenewPut(h) \/ RenewConflict(h)
         \/ RenewReply(h) \/ RenewMissed(h)
  PROVE  TypeOK'
<1>1. CASE RenewStart(h)
  BY <1>1 DEF TypeOK, RenewStart, Move, PC
<1>2. CASE RenewExpired(h)
  BY <1>2 DEF TypeOK, RenewExpired, Move, PC
<1>3. CASE RenewPut(h)
  <2>1. Successor(h, lease[h]) \in Document
    BY SuccessorType DEF TypeOK
  <2>2. object' \in Document /\ trusted' \in [Holders -> Nat]
    BY <1>3, <2>1, OverwriteType DEF RenewPut
  <2> QED
    BY <1>3, <2>1, <2>2 DEF TypeOK, RenewPut, Move, PC
<1>4. CASE RenewConflict(h)
  BY <1>4 DEF TypeOK, RenewConflict, EndCall, Move, PC
<1>5. CASE RenewReply(h)
  <2>1. Successor(h, lease[h]) \in Document
    BY SuccessorType DEF TypeOK
  <2> QED
    BY <1>5, <2>1 DEF TypeOK, RenewReply, EndCall, Move, PC
<1>6. CASE RenewMissed(h)
  BY <1>6 DEF TypeOK, RenewMissed, EndCall, PC
<1> QED
  BY <1>1, <1>2, <1>3, <1>4, <1>5, <1>6

LEMMA StepType == TypeOK /\ [Next]_vars => TypeOK'
<1> SUFFICES ASSUME TypeOK, [Next]_vars PROVE TypeOK'
  OBVIOUS
<1>1. ASSUME NEW h \in Holders, Release(h) PROVE TypeOK'
  BY <1>1, EndType DEF TypeOK, Release
<1>2. ASSUME NEW h \in Holders, Crash(h) PROVE TypeOK'
  BY <1>2, EndType DEF TypeOK, Crash
<1>3. CASE Tick
  BY <1>3 DEF TypeOK, Tick
<1>4. CASE UNCHANGED vars
  BY <1>4 DEF TypeOK, vars
<1> QED
  BY <1>1, <1>2, <1>3, <1>4, AcquireType, RenewType DEF Next

(* Every state of the lease protocol is well typed: what acquire_lease and *)
(* renew_lease store is always a lease document.                           *)
THEOREM LeaseTypeCorrect == Spec => []TypeOK
<1>1. Init => TypeOK
  BY InitType
<1>2. TypeOK /\ [Next]_vars => TypeOK'
  BY StepType
<1> QED
  BY <1>1, <1>2, PTL DEF Spec

-----------------------------------------------------------------------------
(* The inductive invariant                                                 *)

LEMMA InitInductive == Init => IInv
<1> SUFFICES ASSUME Init PROVE IInv
  OBVIOUS
<1>1. TypeOK
  BY InitType
<1>2. OwnDocument /\ PastReadings /\ TestedBeforePut /\ StaleWindow
  BY DEF Init, OwnDocument, PastReadings, TestedBeforePut, StaleWindow, Trusting
<1> QED
  BY <1>1, <1>2 DEF IInv

LEMMA OwnDocumentStep ==
  ASSUME TypeOK, OwnDocument, [Next]_vars
  PROVE  OwnDocument'
<1>1. ASSUME NEW h \in Holders, AcquirePut(h) PROVE OwnDocument'
  <2>1. Successor(h, seen[h]) \in Document /\ Successor(h, seen[h]).holder = h
    BY SuccessorType DEF TypeOK, Successor
  <2> QED
    BY <1>1, <2>1 DEF TypeOK, OwnDocument, AcquirePut, Move, Trusting
<1>2. ASSUME NEW h \in Holders, RenewReply(h) PROVE OwnDocument'
  <2>1. Successor(h, lease[h]) \in Document /\ Successor(h, lease[h]).holder = h
    BY SuccessorType DEF TypeOK, Successor
  <2> QED
    BY <1>2, <2>1 DEF TypeOK, OwnDocument, RenewReply, Move, Trusting
<1>3. ASSUME NEW h \in Holders, End(h) PROVE OwnDocument'
  BY <1>3 DEF TypeOK, OwnDocument, End, Trusting
<1>4. ASSUME NEW h \in Holders,
             \/ AcquireGet(h) \/ AcquireHead(h) \/ AcquireReply(h)
             \/ RenewStart(h) \/ RenewExpired(h) \/ RenewPut(h)
             \/ RenewConflict(h) \/ RenewMissed(h)
      PROVE  OwnDocument'
  BY <1>4 DEF TypeOK, OwnDocument, Trusting, Move, AcquireGet, AcquireHead,
     AcquireReply, RenewStart, RenewExpired, RenewPut, RenewConflict, RenewMissed
<1>5. CASE Tick
  BY <1>5 DEF OwnDocument, Tick
<1>6. CASE UNCHANGED vars
  BY <1>6 DEF OwnDocument, vars
<1> QED
  BY <1>1, <1>2, <1>3, <1>4, <1>5, <1>6
  DEF Next, AcquireRefused, AcquireConflict, Release, Crash

LEMMA PastReadingsStep ==
  ASSUME TypeOK, PastReadings, [Next]_vars
  PROVE  PastReadings'
<1>1. ASSUME NEW h \in Holders, End(h), now' = now PROVE PastReadings'
  BY <1>1 DEF TypeOK, PastReadings, End, EndCall
<1>2. ASSUME NEW h \in Holders,
             \/ AcquireGet(h) \/ AcquireHead(h) \/ AcquirePut(h)
             \/ AcquireReply(h)
      PROVE  PastReadings'
  BY <1>2 DEF TypeOK, PastReadings, EndCall, AcquireGet, AcquireHead, AcquirePut,
     AcquireReply
<1>3. ASSUME NEW h \in Holders,
             \/ RenewStart(h) \/ RenewExpired(h) \/ RenewPut(h)
             \/ RenewConflict(h) \/ RenewReply(h) \/ RenewMissed(h)
      PROVE  PastReadings'
  BY <1>3 DEF TypeOK, PastReadings, EndCall, RenewStart, RenewExpired, RenewPut,
     RenewConflict, RenewReply, RenewMissed
<1>4. CASE Tick
  BY <1>4 DEF TypeOK, PastReadings, Tick
<1>5. CASE UNCHANGED vars
  BY <1>5 DEF PastReadings, vars
<1> QED
  BY <1>1, <1>2, <1>3, <1>4, <1>5
  DEF Next, AcquireRefused, AcquireConflict, Release, Crash

LEMMA TestedBeforePutStep ==
  ASSUME TypeOK, TestedBeforePut, [Next]_vars
  PROVE  TestedBeforePut'
<1>1. ASSUME NEW h \in Holders, End(h) PROVE TestedBeforePut'
  BY <1>1 DEF TypeOK, TestedBeforePut, HeldByAnother, End, EndCall
<1>2. ASSUME NEW h \in Holders,
             \/ AcquireGet(h) \/ AcquireHead(h) \/ AcquirePut(h)
             \/ AcquireReply(h)
      PROVE  TestedBeforePut'
  BY <1>2 DEF TypeOK, TestedBeforePut, HeldByAnother, EndCall, Move, AcquireGet,
     AcquireHead, AcquirePut, AcquireReply
<1>3. ASSUME NEW h \in Holders,
             \/ RenewStart(h) \/ RenewExpired(h) \/ RenewPut(h)
             \/ RenewConflict(h) \/ RenewReply(h) \/ RenewMissed(h)
      PROVE  TestedBeforePut'
  BY <1>3 DEF TypeOK, TestedBeforePut, HeldByAnother, EndCall, Move, RenewStart,
     RenewExpired, RenewPut, RenewConflict, RenewReply, RenewMissed
<1>4. CASE Tick
  BY <1>4 DEF TestedBeforePut, HeldByAnother, Tick
<1>5. CASE UNCHANGED vars
  BY <1>5 DEF TestedBeforePut, HeldByAnother, vars
<1> QED
  BY <1>1, <1>2, <1>3, <1>4, <1>5
  DEF Next, AcquireRefused, AcquireConflict, Release, Crash

(* A document of h is stored or not after h or somebody else overwrites    *)
(* the object; whoever is displaced is trusted up to now.                  *)
LEMMA OverwriteEffect ==
  ASSUME TypeOK, NEW h \in Holders, NEW d \in Document, d.holder = h,
         Overwrite(h, d)
  PROVE  /\ Stored(h)'
         /\ trusted'[h] = trusted[h]
         /\ \A g \in Holders : g # h =>
              /\ ~Stored(g)'
              /\ Stored(g) /\ pc[g] # "gone" => trusted'[g] = now
              /\ ~Stored(g) => trusted'[g] = trusted[g]
BY NoLeaseAssumption DEF TypeOK, Overwrite, Stored

LEMMA StaleWindowAcquire ==
  ASSUME IInv, NEW h \in Holders,
         \/ AcquireGet(h) \/ AcquireHead(h) \/ AcquirePut(h) \/ AcquireReply(h)
  PROVE  StaleWindow'
<1> USE LeaseAssumption
<1>1. CASE AcquireGet(h)
  BY <1>1 DEF IInv, TypeOK, StaleWindow, Stored, AcquireGet, Move, Trusting
<1>2. CASE AcquireHead(h)
  BY <1>2 DEF IInv, TypeOK, StaleWindow, Stored, AcquireHead, Move, Trusting
<1>3. CASE AcquirePut(h)
  <2>1. Successor(h, seen[h]) \in Document /\ Successor(h, seen[h]).holder = h
    BY SuccessorType DEF IInv, TypeOK, Successor
  <2>2. /\ Stored(h)'
        /\ \A g \in Holders : g # h =>
              /\ ~Stored(g)'
              /\ Stored(g) /\ pc[g] # "gone" => trusted'[g] = now
              /\ ~Stored(g) => trusted'[g] = trusted[g]
    BY <1>3, <2>1, OverwriteEffect DEF IInv, AcquirePut
  <2> QED
    BY <1>3, <2>2
    DEF IInv, TypeOK, PastReadings, StaleWindow, AcquirePut, Move, Trusting
<1>4. CASE AcquireReply(h)
  BY <1>4
  DEF IInv, TypeOK, StaleWindow, Stored, AcquireReply, EndCall, Move, Trusting
<1> QED
  BY <1>1, <1>2, <1>3, <1>4

LEMMA StaleWindowRenew ==
  ASSUME IInv, NEW h \in Holders,
         \/ RenewStart(h) \/ RenewExpired(h) \/ RenewPut(h) \/ RenewConflict(h)
         \/ RenewReply(h) \/ RenewMissed(h)
  PROVE  StaleWindow'
<1> USE LeaseAssumption
<1>1. CASE RenewStart(h)
  BY <1>1 DEF IInv, TypeOK, StaleWindow, Stored, RenewStart, Move, Trusting
<1>2. CASE RenewExpired(h)
  BY <1>2 DEF IInv, TypeOK, StaleWindow, Stored, RenewExpired, Move, Trusting
<1>3. CASE RenewPut(h)
  <2>1. Successor(h, lease[h]) \in Document /\ Successor(h, lease[h]).holder = h
    BY SuccessorType DEF IInv, TypeOK, Successor
  <2>2. /\ Stored(h)'
        /\ \A g \in Holders : g # h =>
              /\ ~Stored(g)'
              /\ Stored(g) /\ pc[g] # "gone" => trusted'[g] = now
              /\ ~Stored(g) => trusted'[g] = trusted[g]
    BY <1>3, <2>1, OverwriteEffect DEF IInv, RenewPut
  <2> QED
    BY <1>3, <2>2
    DEF IInv, TypeOK, PastReadings, StaleWindow, RenewPut, Move, Trusting
<1>4. CASE RenewConflict(h)
  BY <1>4
  DEF IInv, TypeOK, StaleWindow, Stored, RenewConflict, EndCall, Move, Trusting
<1>5. CASE RenewReply(h)
  BY <1>5
  DEF IInv, TypeOK, PastReadings, StaleWindow, Stored, RenewReply, EndCall, Move,
      Trusting
<1>6. CASE RenewMissed(h)
  BY <1>6
  DEF IInv, TypeOK, StaleWindow, Stored, RenewMissed, EndCall, Trusting
<1> QED
  BY <1>1, <1>2, <1>3, <1>4, <1>5, <1>6

LEMMA StaleWindowEnd ==
  ASSUME IInv, NEW h \in Holders, End(h), now' = now,
         \/ object' = object
         \/ object = lease[h] /\ pc[h] \in {"holding", "lost"}
  PROVE  StaleWindow'
<1>1. ASSUME NEW g \in Holders, g # h, ~Stored(g)' PROVE ~Stored(g)
  BY <1>1, NoLeaseAssumption DEF IInv, OwnDocument, Stored, Trusting
<1> QED
  BY <1>1, LeaseAssumption DEF IInv, TypeOK, StaleWindow, End, EndCall, Trusting

LEMMA StaleWindowTick ==
  ASSUME IInv, Tick
  PROVE  StaleWindow'
BY LeaseAssumption
DEF IInv, TypeOK, StaleWindow, Stored, Tick, Due, Trusting

LEMMA StepInductive == IInv /\ [Next]_vars => IInv'
<1> SUFFICES ASSUME IInv, [Next]_vars PROVE IInv'
  OBVIOUS
<1>1. TypeOK' /\ OwnDocument' /\ PastReadings' /\ TestedBeforePut'
  BY StepType, OwnDocumentStep, PastReadingsStep, TestedBeforePutStep DEF IInv
<1>2. StaleWindow'
  <2>1. ASSUME NEW h \in Holders,
               \/ AcquireRefused(h) \/ AcquireConflict(h) \/ Release(h) \/ Crash(h)
        PROVE  StaleWindow'
    BY <2>1, StaleWindowEnd DEF AcquireRefused, AcquireConflict, Release, Crash
  <2>2. CASE UNCHANGED vars
    BY <2>2 DEF IInv, StaleWindow, Stored, vars
  <2> QED
    BY <2>1, <2>2, StaleWindowAcquire, StaleWindowRenew, StaleWindowTick DEF Next
<1> QED
  BY <1>1, <1>2 DEF IInv

LEMMA Inductive == Spec => []IInv
<1> QED
  BY InitInductive, StepInductive, PTL DEF Spec

-----------------------------------------------------------------------------
(* The properties                                                          *)

(* A writer whose lease was replaced, by a takeover after expiry or through *)
(* the gap between the two reads of acquire_lease, is stopped by            *)
(* _lease_heartbeat or check_lease within two renewal intervals.            *)
THEOREM StaleWriterIsFenced == Spec => []StaleWriterFencedInTime
<1>1. IInv => StaleWriterFencedInTime
  BY LeaseAssumption
  DEF IInv, TypeOK, StaleWindow, StaleWriterFencedInTime, MayWrite, Due, Holders,
      Trusting
<1> QED
  BY <1>1, Inductive, PTL

(* acquire_lease never replaces a live lease that its GET returned.        *)
THEOREM LiveLeaseIsRespected == Spec => LiveLeaseReplacedOnlyAcrossReads
<1>1. IInv /\ [Next]_vars =>
        [\A h \in Holders :
           /\ object # NoLease /\ object.expires > Utc(h, now) /\ object.holder # h
           /\ object' # NoLease /\ object' # object /\ object'.holder = h
           => seen[h] # object]_vars
  <2> SUFFICES ASSUME IInv, [Next]_vars, NEW h \in Holders,
                      object # NoLease, object.expires > Utc(h, now), object.holder # h,
                      object' # NoLease, object' # object, object'.holder = h
               PROVE  seen[h] # object
    OBVIOUS
  <2>1. ASSUME NEW g \in Holders, AcquirePut(g) PROVE seen[h] # object
    <3>1. Successor(g, seen[g]).holder = g
      BY DEF Successor
    <3>2. g = h
      BY <2>1, <3>1 DEF AcquirePut, Overwrite
    <3>3. ~HeldByAnother(h)
      BY <2>1, <3>2 DEF IInv, TestedBeforePut, AcquirePut, Move
    <3>4. object.expires \in Nat /\ now \in Nat /\ instant[h] \in Nat
          /\ Ahead[h] \in Nat /\ instant[h] <= now
      BY LeaseAssumption DEF IInv, TypeOK, PastReadings, Document
    <3> QED
      BY <3>3, <3>4 DEF HeldByAnother, Utc
  <2>2. ASSUME NEW g \in Holders, RenewPut(g) PROVE FALSE
    <3>1. Successor(g, lease[g]).holder = g
      BY DEF Successor
    <3> QED
      BY <2>2, <3>1 DEF IInv, OwnDocument, Trusting, RenewPut, Move, Overwrite
  <2>3. ASSUME NEW g \in Holders,
               \/ AcquireGet(g) \/ AcquireHead(g) \/ AcquireRefused(g)
               \/ AcquireConflict(g) \/ AcquireReply(g)
               \/ RenewStart(g) \/ RenewExpired(g) \/ RenewConflict(g)
               \/ RenewReply(g) \/ RenewMissed(g) \/ Release(g) \/ Crash(g)
        PROVE  FALSE
    BY <2>3
    DEF AcquireGet, AcquireHead, AcquireRefused, AcquireConflict, AcquireReply,
        RenewStart, RenewExpired, RenewConflict, RenewReply, RenewMissed, Release,
        Crash
  <2> QED
    BY <2>1, <2>2, <2>3 DEF Next, Tick, vars
<1> QED
  BY <1>1, Inductive, PTL DEF Spec, LiveLeaseReplacedOnlyAcrossReads

(* renew_lease cannot put a replaced lease back.                           *)
THEOREM StaleWriterStaysOut == Spec => StaleWriterCannotReturn
<1>1. IInv /\ [Next]_vars =>
        [\A h \in Holders :
           pc[h] \in {"holding", "renewing", "renewed", "lost"} /\ ~Stored(h)
             => ~Stored(h)']_vars
  <2> SUFFICES ASSUME IInv, [Next]_vars, NEW h \in Holders,
                      pc[h] \in {"holding", "renewing", "renewed", "lost"},
                      ~Stored(h)
               PROVE  ~Stored(h)'
    OBVIOUS
  <2>1. ASSUME NEW g \in Holders, AcquirePut(g) PROVE ~Stored(h)'
    BY <2>1 DEF AcquirePut, Overwrite, Move, Successor, Stored
  <2>2. ASSUME NEW g \in Holders, RenewPut(g) PROVE ~Stored(h)'
    <3>1. lease[g] \in Document /\ lease[g].holder = g
      BY <2>2 DEF IInv, OwnDocument, RenewPut, Move, Trusting
    <3>2. g # h
      BY <2>2, <3>1, NoLeaseAssumption DEF RenewPut, Stored
    <3> QED
      BY <2>2, <3>2 DEF RenewPut, Overwrite, Successor, Stored
  <2>3. ASSUME NEW g \in Holders, Release(g) PROVE ~Stored(h)'
    BY <2>3 DEF Release, Stored
  <2>4. ASSUME NEW g \in Holders,
               \/ AcquireGet(g) \/ AcquireHead(g) \/ AcquireRefused(g)
               \/ AcquireConflict(g) \/ AcquireReply(g)
               \/ RenewStart(g) \/ RenewExpired(g) \/ RenewConflict(g)
               \/ RenewReply(g) \/ RenewMissed(g) \/ Crash(g)
        PROVE  ~Stored(h)'
    BY <2>4
    DEF Stored, AcquireGet, AcquireHead, AcquireRefused, AcquireConflict,
        AcquireReply, RenewStart, RenewExpired, RenewConflict, RenewReply,
        RenewMissed, Crash
  <2> QED
    BY <2>1, <2>2, <2>3, <2>4 DEF Next, Tick, Stored, vars
<1> QED
  BY <1>1, Inductive, PTL DEF Spec, StaleWriterCannotReturn

(* release_lease deletes a document only for the process it names.         *)
THEOREM ReleaseIsOwn == Spec => ReleaseFreesOwnLease
<1>1. IInv /\ [Next]_vars =>
        [object # NoLease /\ object' = NoLease => pc'[object.holder] = "gone"]_vars
  <2> SUFFICES ASSUME IInv, [Next]_vars, object # NoLease, object' = NoLease
               PROVE  pc'[object.holder] = "gone"
    OBVIOUS
  <2>1. ASSUME NEW g \in Holders, Release(g) PROVE pc'[object.holder] = "gone"
    BY <2>1 DEF IInv, TypeOK, OwnDocument, Trusting, Release, End
  <2>2. ASSUME NEW g \in Holders, AcquirePut(g) PROVE FALSE
    BY <2>2, SuccessorType, NoLeaseAssumption DEF IInv, TypeOK, AcquirePut, Overwrite
  <2>3. ASSUME NEW g \in Holders, RenewPut(g) PROVE FALSE
    BY <2>3, SuccessorType, NoLeaseAssumption DEF IInv, TypeOK, RenewPut, Overwrite
  <2>4. ASSUME NEW g \in Holders,
               \/ AcquireGet(g) \/ AcquireHead(g) \/ AcquireRefused(g)
               \/ AcquireConflict(g) \/ AcquireReply(g)
               \/ RenewStart(g) \/ RenewExpired(g) \/ RenewConflict(g)
               \/ RenewReply(g) \/ RenewMissed(g) \/ Crash(g)
        PROVE  FALSE
    BY <2>4
    DEF AcquireGet, AcquireHead, AcquireRefused, AcquireConflict, AcquireReply,
        RenewStart, RenewExpired, RenewConflict, RenewReply, RenewMissed, Crash
  <2> QED
    BY <2>1, <2>2, <2>3, <2>4 DEF Next, Tick, vars
<1> QED
  BY <1>1, Inductive, PTL DEF Spec, ReleaseFreesOwnLease

-----------------------------------------------------------------------------
(* Exclusion: without the race of acquire_lease, on clocks that agree       *)

(* The ETag a process is about to write with is that of the document its   *)
(* GET returned: nothing came between the two reads.                       *)
SameDocument == \A h \in Holders : pc[h] = "ready" => etag[h] = seen[h]

(* The UTC clocks of the hosts show the same time.                         *)
ClocksAgree == \A g, h \in Holders : Ahead[g] = Ahead[h]

(* While a lease, or the renewal of it that is in flight, has not expired, *)
(* the stored document is the holder's own and expires no earlier.         *)
Having == Trusting \cup {"acquired"}
Relied(h) ==
  pc[h] \in Having =>
    /\ lease[h].expires <= Utc(h, now) + Ttl
    /\ pc[h] = "renewing" => lease[h].expires <= Utc(h, instant[h]) + Ttl
    /\ Stored(h) => lease[h].expires <= object.expires
    /\ lease[h].expires > Utc(h, now) => Stored(h)
    /\ pc[h] = "renewed" /\ Stored(h) => object.expires = Utc(h, instant[h]) + Ttl
    /\ pc[h] = "renewed" /\ instant[h] + Ttl > now => Stored(h)

InForce == \A h \in Holders : Relied(h)

(* The lease of another holder is not in force when h overwrites it.       *)
LEMMA OverwrittenHasExpired ==
  ASSUME IInv, InForce, NEW g \in Holders, NEW h \in Holders, g # h,
         pc[g] \in Having, NEW d \in Document, d.holder = h, Overwrite(h, d),
         Stored(g) => object.expires <= Utc(g, now),
         pc'[g] = pc[g], lease'[g] = lease[g], instant'[g] = instant[g], now' = now
  PROVE  Relied(g)'
<1>1. ~Stored(g)'
  BY OverwriteEffect DEF IInv
<1>2. /\ lease[g] \in Document /\ instant[g] \in Nat /\ now \in Nat /\ Ttl \in Nat
      /\ Ahead[g] \in Nat
  BY LeaseAssumption DEF IInv, TypeOK, OwnDocument, Having, Trusting
<1>3. /\ lease[g].expires <= Utc(g, now) + Ttl
      /\ pc[g] = "renewing" => lease[g].expires <= Utc(g, instant[g]) + Ttl
      /\ lease[g].expires <= Utc(g, now)
      /\ pc[g] = "renewed" => instant[g] + Ttl <= now
  BY <1>2 DEF InForce, Relied, IInv, TypeOK, Document, Stored, Utc
<1> QED
  BY <1>1, <1>2, <1>3 DEF Relied, Document, Utc

(* A step that leaves a holder, what is stored of it and the time alone.   *)
LEMMA ReliedUntouched ==
  ASSUME InForce, NEW g \in Holders,
         pc'[g] = pc[g], lease'[g] = lease[g], instant'[g] = instant[g],
         UNCHANGED <<now, object>>
  PROVE  Relied(g)'
BY DEF InForce, Relied, Stored, Utc

LEMMA InForceAcquire ==
  ASSUME IInv, InForce, SameDocument, ClocksAgree, NEW h \in Holders,
         \/ AcquireGet(h) \/ AcquireHead(h) \/ AcquirePut(h) \/ AcquireReply(h),
         NEW g \in Holders
  PROVE  Relied(g)'
<1>1. CASE AcquireGet(h) \/ AcquireHead(h)
  <2>1. CASE g = h
    BY <1>1, <2>1
    DEF IInv, TypeOK, Relied, AcquireGet, AcquireHead, Move, Having, Trusting
  <2>2. CASE g # h
    BY <1>1, <2>2, ReliedUntouched
    DEF IInv, TypeOK, AcquireGet, AcquireHead, Move
  <2> QED
    BY <2>1, <2>2
<1>2. CASE AcquirePut(h)
  <2>1. Successor(h, seen[h]) \in Document /\ Successor(h, seen[h]).holder = h
    BY SuccessorType DEF IInv, TypeOK, Successor
  <2>2. CASE g = h
    <3>1. object' = Successor(h, seen[h]) /\ lease'[h] = Successor(h, seen[h])
          /\ pc'[h] = "acquired" /\ now' = now
      BY <1>2 DEF IInv, TypeOK, AcquirePut, Overwrite, Move
    <3>2. Successor(h, seen[h]).expires <= Utc(h, now) + Ttl
      BY LeaseAssumption DEF IInv, TypeOK, PastReadings, Successor, Utc
    <3> QED
      BY <2>1, <2>2, <3>1, <3>2, NoLeaseAssumption DEF Relied, Stored, Document
  <2>3. CASE g # h /\ pc[g] \in Having
    <3>1. Stored(g) => object.expires <= Utc(g, now)
      <4>1. pc[h] = "ready" /\ object = seen[h]
        BY <1>2 DEF AcquirePut, Move, SameDocument
      <4>2. Stored(g) => object.expires <= Utc(h, instant[h])
        BY <2>3, <4>1, LeaseAssumption
        DEF IInv, TypeOK, TestedBeforePut, HeldByAnother, Stored, Document, Utc
      <4> QED
        BY <4>1, <4>2, LeaseAssumption
        DEF IInv, TypeOK, PastReadings, ClocksAgree, Stored, Document, Utc
    <3> QED
      BY <1>2, <2>1, <2>3, <3>1, OverwrittenHasExpired DEF IInv, TypeOK, AcquirePut, Move
  <2>4. CASE g # h /\ pc[g] \notin Having
    BY <1>2, <2>4 DEF IInv, TypeOK, Relied, AcquirePut, Move
  <2> QED
    BY <2>2, <2>3, <2>4
<1>3. CASE AcquireReply(h)
  <2>1. CASE g = h
    BY <1>3, <2>1
    DEF IInv, TypeOK, InForce, Relied, Stored, AcquireReply, Move, EndCall, Having,
        Trusting
  <2>2. CASE g # h
    BY <1>3, <2>2, ReliedUntouched DEF IInv, TypeOK, AcquireReply, Move, EndCall
  <2> QED
    BY <2>1, <2>2
<1> QED
  BY <1>1, <1>2, <1>3

LEMMA InForceRenew ==
  ASSUME IInv, InForce, NEW h \in Holders,
         \/ RenewStart(h) \/ RenewExpired(h) \/ RenewPut(h) \/ RenewConflict(h)
         \/ RenewReply(h) \/ RenewMissed(h),
         NEW g \in Holders
  PROVE  Relied(g)'
<1>1. CASE RenewPut(h)
  <2>1. pc[h] = "renewing" /\ lease[h] \in Document /\ lease[h].holder = h
    BY <1>1 DEF IInv, OwnDocument, RenewPut, Move, Trusting
  <2>2. Successor(h, lease[h]) \in Document /\ Successor(h, lease[h]).holder = h
        /\ Successor(h, lease[h]).expires = Utc(h, instant[h]) + Ttl
    BY <2>1, SuccessorType DEF IInv, Successor
  <2>3. CASE g = h
    <3>1. object' = Successor(h, lease[h]) /\ lease' = lease /\ instant' = instant
          /\ pc'[h] = "renewed" /\ now' = now
      BY <1>1 DEF IInv, TypeOK, RenewPut, Overwrite, Move
    <3>2. /\ lease[h].expires <= Utc(h, now) + Ttl
          /\ lease[h].expires <= Utc(h, instant[h]) + Ttl
      BY <2>1 DEF InForce, Relied, Having, Trusting
    <3> QED
      BY <2>2, <2>3, <3>1, <3>2, NoLeaseAssumption DEF Relied, Stored, Document
  <2>4. CASE g # h /\ pc[g] \in Having
    <3>1. ~Stored(g)
      BY <1>1, <2>1, <2>4 DEF RenewPut, Stored
    <3> QED
      BY <1>1, <2>2, <2>4, <3>1, OverwrittenHasExpired DEF IInv, TypeOK, RenewPut, Move
  <2>5. CASE g # h /\ pc[g] \notin Having
    BY <1>1, <2>5 DEF IInv, TypeOK, Relied, RenewPut, Move
  <2> QED
    BY <2>3, <2>4, <2>5
<1>2. CASE RenewReply(h)
  <2>1. CASE g = h
    <3>1. pc[h] = "renewed" /\ now' = now /\ object' = object
          /\ pc'[h] \in {"holding", "lost"}
          /\ lease'[h] = Successor(h, lease[h])
      BY <1>2 DEF IInv, TypeOK, RenewReply, Move
    <3>2. lease'[h].expires = Utc(h, instant[h]) + Ttl /\ instant[h] <= now
      BY <3>1 DEF IInv, PastReadings, Successor
    <3>3. /\ Stored(h) => object.expires = Utc(h, instant[h]) + Ttl
          /\ instant[h] + Ttl > now => Stored(h)
      BY <3>1 DEF InForce, Relied, Having, Trusting
    <3>4. Stored(h)' <=> Stored(h)
      BY <3>1 DEF Stored
    <3>5. now \in Nat /\ instant[h] \in Nat /\ Ttl \in Nat /\ Ahead[h] \in Nat
      BY LeaseAssumption DEF IInv, TypeOK
    <3> QED
      BY <2>1, <3>1, <3>2, <3>3, <3>4, <3>5 DEF Relied, Having, Trusting, Utc
  <2>2. CASE g # h
    BY <1>2, <2>2, ReliedUntouched DEF IInv, TypeOK, RenewReply, Move, EndCall
  <2> QED
    BY <2>1, <2>2
<1>3. CASE RenewStart(h) \/ RenewExpired(h) \/ RenewConflict(h) \/ RenewMissed(h)
  <2>1. CASE g = h
    BY <1>3, <2>1
    DEF IInv, TypeOK, InForce, Relied, Stored, RenewStart, RenewExpired, RenewConflict,
        RenewMissed, Move, EndCall, Having, Trusting
  <2>2. CASE g # h
    BY <1>3, <2>2, ReliedUntouched
    DEF IInv, TypeOK, RenewStart, RenewExpired, RenewConflict, RenewMissed, Move, EndCall
  <2> QED
    BY <2>1, <2>2
<1> QED
  BY <1>1, <1>2, <1>3

(* A process that ends frees its own lease at most.                        *)
LEMMA InForceEnd ==
  ASSUME IInv, InForce, NEW h \in Holders, End(h), now' = now,
         \/ object' = object
         \/ object' = NoLease /\ object = lease[h] /\ pc[h] \in {"holding", "lost"},
         NEW g \in Holders
  PROVE  Relied(g)'
<1>1. CASE g = h
  BY <1>1 DEF IInv, TypeOK, Relied, End, Having, Trusting
<1>2. CASE g # h /\ object' = object
  BY <1>2, ReliedUntouched DEF IInv, TypeOK, End, EndCall
<1>3. CASE g # h /\ object' = NoLease /\ object = lease[h] /\ pc[h] \in {"holding", "lost"}
  <2>1. ~Stored(g)
    BY <1>3 DEF IInv, OwnDocument, Stored, Trusting
  <2>2. pc'[g] = pc[g] /\ lease'[g] = lease[g] /\ instant'[g] = instant[g]
    BY <1>3 DEF IInv, TypeOK, End, EndCall
  <2>3. pc[g] \in Having =>
          /\ lease[g].expires \in Nat /\ instant[g] + Ttl \in Nat /\ now \in Nat
          /\ Ahead[g] \in Nat
    BY LeaseAssumption DEF IInv, TypeOK, OwnDocument, Document, Having, Trusting
  <2>4. pc[g] \in Having => /\ lease[g].expires <= Utc(g, now)
                            /\ pc[g] = "renewed" => instant[g] + Ttl <= now
    BY <2>1, <2>3 DEF InForce, Relied, IInv, TypeOK, Utc
  <2>5. CASE pc[g] \in Having
    BY <1>3, <2>2, <2>3, <2>4, <2>5 DEF InForce, Relied, Stored, Utc
  <2> QED
    BY <2>2, <2>5 DEF Relied
<1> QED
  BY <1>1, <1>2, <1>3

LEMMA InForceTick ==
  ASSUME IInv, InForce, Tick, NEW g \in Holders
  PROVE  Relied(g)'
<1>1. CASE pc[g] \in Having
  <2>1. /\ lease[g].expires \in Nat /\ instant[g] + Ttl \in Nat /\ now \in Nat
        /\ Ttl \in Nat /\ Ahead[g] \in Nat
    BY <1>1, LeaseAssumption DEF IInv, TypeOK, OwnDocument, Document, Having, Trusting
  <2> QED
    BY <1>1, <2>1 DEF InForce, Relied, Stored, Tick, Utc
<1> QED
  BY <1>1 DEF Relied, Tick

LEMMA InForceStep ==
  ClocksAgree /\ IInv /\ InForce /\ SameDocument /\ [Next]_vars => InForce'
<1> SUFFICES ASSUME ClocksAgree, IInv, InForce, SameDocument, [Next]_vars,
                    NEW g \in Holders
             PROVE  Relied(g)'
  BY DEF InForce
<1>1. ASSUME NEW h \in Holders,
             \/ AcquireRefused(h) \/ AcquireConflict(h) \/ Release(h) \/ Crash(h)
      PROVE  Relied(g)'
  BY <1>1, InForceEnd DEF AcquireRefused, AcquireConflict, Release, Crash
<1>2. CASE UNCHANGED vars
  BY <1>2, ReliedUntouched DEF vars
<1> QED
  BY <1>1, <1>2, InForceAcquire, InForceRenew, InForceTick DEF Next

(* A Run has one writer at a time wherever the clocks of the hosts agree   *)
(* and the two reads of acquire_lease return the same document: slow,      *)
(* failed and half-failed requests do not break the exclusion that         *)
(* run_authority.py:1149 relies on.  Both hypotheses are needed: the race  *)
(* of the two reads breaks it, and so does a host whose clock is ahead,    *)
(* which takes a lease that its holder's clock says is in force.           *)
THEOREM OneReadIsExclusive ==
  ASSUME ClocksAgree
  PROVE  Spec /\ []SameDocument => []ExclusiveWriter
<1>1. Init => InForce
  BY DEF Init, InForce, Relied, Having, Trusting
<1>2. IInv /\ InForce => ExclusiveWriter
  <2> SUFFICES ASSUME IInv, InForce, NEW g \in Holders, NEW h \in Holders,
                      MayWrite(g), MayWrite(h)
               PROVE  g = h
    BY DEF ExclusiveWriter
  <2>1. ASSUME NEW f \in Holders, MayWrite(f) PROVE Stored(f)
    <3>1. /\ pc[f] = "holding" /\ lease[f].expires \in Nat
          /\ ~(lease[f].expires <= Utc(f, now))
      BY <2>1 DEF MayWrite, Expired, IInv, OwnDocument, Document, Trusting
    <3> QED
      BY <3>1, LeaseAssumption DEF InForce, Relied, IInv, TypeOK, Having, Trusting, Utc
  <2> QED
    BY <2>1 DEF Stored
<1>3. IInv /\ InForce /\ SameDocument /\ [Next]_vars => InForce'
  BY InForceStep
<1> QED
  BY <1>1, <1>2, <1>3, Inductive, PTL DEF Spec
=============================================================================
