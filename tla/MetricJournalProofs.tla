-------------------------- MODULE MetricJournalProofs --------------------------
(* Theorems about MetricJournal for every set of events and every number   *)
(* of restarts and faults, with their proofs.                              *)
EXTENDS MetricJournal, FiniteSetTheorems, WellFoundedInduction, TLAPS

(* A row of the ledger, as a segment holds it.                             *)
RowOf(e) == [seq |-> seqOf[e], event |-> e]

(* The segments of which the ledger has every row.                         *)
Held == IF pc = "down" THEN {} ELSE segments \ replaying

(* The rows up to the high-water mark, and up to a segment that was put    *)
(* and is not recorded yet, are in segments of this Attempt.               *)
Sealed(e) == \E s \in segments : s.attempt = attempt /\ RowOf(e) \in s.rows
Sealing ==
  /\ \A e \in Rows : seqOf[e] < next
  /\ \A e \in Rows : seqOf[e] <= high \/ seqOf[e] <= put => Sealed(e)
  /\ high # 0 => \E e \in Rows : seqOf[e] = high
  /\ put # 0 => \E e \in Rows : seqOf[e] = put
  /\ \A s \in segments : IsFiniteSet(s.rows)

(* Where the supervisor is, and what it has in hand there.                 *)
Placed ==
  /\ put # 0 \/ settling # {} => Serving
  /\ \A r, q \in settling : r = q
  /\ replaying # {} => pc = "recover"
  /\ pc \in {"down", "recover"} => high = 0

(* A row is shown as delivered the way the Run's service takes it.         *)
Marked ==
  /\ delivery \in Deliveries
  /\ \A e \in Rows : status[e] = "local_only" => delivery = "local_only"
  /\ \A e \in Rows : status[e] = "published" =>
       /\ delivery # "local_only"
       /\ delivery = "mlflow" => \E p \in logged : p.event = e

(* The metrics of a verified result are recorded, or will be before the    *)
(* Attempt goes on.                                                        *)
VerdictsRecorded ==
  /\ pc \in {"run", "drain", "final", "done"} => verified \subseteq Rows \cup settling
  /\ pc = "recover" => verified \subseteq Rows \cup restoring

SealedIsHeld == \A s \in Held : Replayed(s) \subseteq Rows

Safe == TypeOK /\ Sealing /\ Placed /\ Marked /\ VerdictsRecorded /\ SealedIsHeld
    /\ DrainIsComplete

(* As long as no number was spent on an event already there: the rows are  *)
(* numbered without a gap,                                                 *)
Numbered ==
  /\ \A n \in 1..(next - 1) : \E e \in Rows : seqOf[e] = n
  /\ \A d, e \in Rows : seqOf[d] = seqOf[e] => d = e

(* an event has one number in all segments, and a number one event; a      *)
(* segment is an interval, and the segments of an Attempt begin with 1;    *)
Consistent ==
  /\ \A r, q \in JournalRows(segments) : r.seq = q.seq <=> r.event = q.event
  /\ \A s \in segments : \A r,
       q \in s.rows : \A n \in r.seq..q.seq : \E p \in s.rows : p.seq = n
  /\ \A s \in segments : \A r \in s.rows : \A n \in 1..r.seq :
       \E t \in segments : t.attempt = s.attempt /\ \E q \in t.rows : q.seq = n
  /\ \A s \in segments : s.rows # {}
  /\ \A r \in JournalRows(segments) : r.seq # 0
  /\ \E b \in Nat : \A r \in JournalRows(segments) : r.seq <= b

(* and a replay gives every event the number it had.                       *)
Faithful ==
  /\ \A s \in Held : \A r \in s.rows : seqOf[r.event] = r.seq
  /\ replaying # {} => \A e \in Rows : RowOf(e) \in JournalRows(segments)

Gapless == ~spent => Numbered /\ Consistent /\ Faithful

IInv == Safe /\ Gapless

-----------------------------------------------------------------------------
(* Sets of numbers.                                                        *)

LEMMA Lowest ==
  ASSUME NEW S \in SUBSET Nat, S # {}
  PROVE  \E m \in S : \A x \in S : m <= x
<1>1. PICK m \in S : \A x \in S : ~(<<x, m>> \in OpToRel(<, Nat))
  BY NatLessThanWellFounded, WFMin
<1>2. \A x \in S : ~(x < m)
  BY <1>1, Zenon DEF OpToRel
<1> QED
  BY <1>2

LEMMA MinIs ==
  ASSUME NEW S \in SUBSET Int, NEW m \in S, \A x \in S : m <= x
  PROVE  Min(S) = m
<1>1. \E x \in S : \A y \in S : x <= y
  OBVIOUS
<1>2. Min(S) \in S /\ \A y \in S : Min(S) <= y
  BY Zenon DEF Min
<1>3. m \in Int /\ Min(S) \in Int /\ m <= Min(S) /\ Min(S) <= m
  BY <1>2
<1> QED
  BY <1>3

LEMMA MaxIs ==
  ASSUME NEW S \in SUBSET Int, NEW m \in S, \A x \in S : x <= m
  PROVE  Max(S) = m
<1>1. \E x \in S : \A y \in S : x >= y
  OBVIOUS
<1>2. Max(S) \in S /\ \A y \in S : Max(S) >= y
  BY Zenon DEF Max
<1>3. m \in Int /\ Max(S) \in Int /\ m >= Max(S) /\ Max(S) >= m
  BY <1>2
<1> QED
  BY <1>3

LEMMA Highest ==
  ASSUME NEW S \in SUBSET Nat, S # {}, NEW b \in Nat, \A x \in S : x <= b
  PROVE  Max(S) \in S /\ \A x \in S : x <= Max(S)
<1> DEFINE Bounds == {n \in Nat : \A x \in S : x <= n}
<1>1. PICK m \in Bounds : \A n \in Bounds : m <= n
  <2>1. b \in Bounds
    OBVIOUS
  <2> QED
    BY Lowest
<1>2. m \in S
  <2>1. SUFFICES ASSUME m \notin S PROVE FALSE
    OBVIOUS
  <2>2. m # 0
    <3>1. PICK x \in S : TRUE
      OBVIOUS
    <3>2. x \in Nat /\ x <= m /\ x # m
      BY <2>1
    <3> QED
      BY <3>2
  <2>3. m - 1 \in Bounds
    BY <2>1, <2>2
  <2> QED
    BY <1>1, <2>3
<1> QED
  BY <1>2, MaxIs

(* A set of positive numbers without a gap is an interval.                 *)
LEMMA NoGap ==
  ASSUME NEW S \in SUBSET (Nat \ {0}), NEW b \in Nat, \A x \in S : x <= b,
         \A x \in S : \A n \in 1..x : n \in S
  PROVE  S = 1..Cardinality(S)
<1>1. CASE S = {}
  BY <1>1, FS_EmptySet
<1>2. CASE S # {}
  <2>1. Max(S) \in S /\ \A x \in S : x <= Max(S)
    BY <1>2, Highest
  <2> DEFINE m == Max(S)
  <2>2. m \in Nat \ {0} /\ m \in S /\ \A x \in S : x <= m
    BY <2>1
  <2> HIDE DEF m
  <2>3. \A x \in 1..m : x \in S
    BY <2>2
  <2>4. \A x \in S : x \in 1..m
    BY <2>2
  <2>5. S = 1..m
    BY <2>3, <2>4
  <2>6. Cardinality(1..m) = m
    BY <2>2, FS_Interval
  <2> QED
    BY <2>5, <2>6
<1> QED
  BY <1>1, <1>2

-----------------------------------------------------------------------------
(* A batch: the lowest rows above the high-water mark.                     *)

LEMMA BatchIsFirst ==
  ASSUME JournalAssumption, TypeOK
  PROVE  /\ Batch \subseteq Unsealed /\ Unsealed \subseteq Events
         /\ Unsealed # {} => Batch # {}
         /\ \A e \in Batch, d \in Unsealed : seqOf[d] <= seqOf[e] => d \in Batch
<1> DEFINE Lower(e) == {d \in Unsealed : seqOf[d] < seqOf[e]}
<1>1. Batch \subseteq Unsealed /\ Unsealed \subseteq Events
  BY DEF Batch, Unsealed, Rows
<1>2. Unsealed # {} => Batch # {}
  <2>1. SUFFICES ASSUME Unsealed # {} PROVE Batch # {}
    OBVIOUS
  <2>2. {seqOf[e] : e \in Unsealed} \in SUBSET Nat
    BY <1>1 DEF TypeOK
  <2>3. PICK m \in {seqOf[e] : e \in Unsealed} : \A x \in {seqOf[e] : e \in Unsealed} : m <= x
    BY <2>1, <2>2, Lowest
  <2>4. PICK e \in Unsealed : \A d \in Unsealed : seqOf[e] <= seqOf[d]
    BY <2>3
  <2>5. Lower(e) = {}
    BY <2>4, <1>1 DEF TypeOK
  <2>6. Cardinality(Lower(e)) < Limit
    <3>1. Cardinality(Lower(e)) = 0
      BY <2>5, FS_EmptySet
    <3> QED
      BY <3>1 DEF JournalAssumption
  <2> QED
    BY <2>6 DEF Batch
<1>3. ASSUME NEW e \in Batch, NEW d \in Unsealed, seqOf[d] <= seqOf[e]
      PROVE  d \in Batch
  <2>1. IsFiniteSet(Lower(e))
    BY <1>1, FS_Subset DEF JournalAssumption
  <2>2. Lower(d) \subseteq Lower(e)
    BY <1>1, <1>3 DEF TypeOK
  <2>3. Cardinality(Lower(d)) <= Cardinality(Lower(e))
    BY <2>1, <2>2, FS_Subset
  <2>4. Cardinality(Lower(d)) \in Nat /\ Cardinality(Lower(e)) \in Nat
    BY <2>1, <2>2, FS_Subset, FS_CardinalityType
  <2>5. Cardinality(Lower(e)) < Limit
    BY DEF Batch
  <2>6. Cardinality(Lower(d)) < Limit
    BY <2>3, <2>4, <2>5 DEF JournalAssumption
  <2> QED
    BY <2>6 DEF Batch
<1> QED
  BY <1>1, <1>2, <1>3

(* The segment of a batch ends with its highest row.                       *)
BatchRows == {RowOf(e) : e \in Batch}
Last == Max({seqOf[e] : e \in Batch})

LEMMA SegmentOfBatch ==
  ASSUME JournalAssumption, TypeOK, Sealing, Unsealed # {}
  PROVE  /\ Segment(Batch) = [attempt |-> attempt, rows |-> BatchRows]
         /\ Segment(Batch) \in [attempt : Nat, rows : SUBSET Row]
         /\ IsFiniteSet(BatchRows)
         /\ Last \in Nat /\ Last # 0 /\ \E e \in Batch : seqOf[e] = Last
         /\ \A e \in Unsealed : seqOf[e] <= Last <=> e \in Batch
<1> DEFINE S == {seqOf[e] : e \in Batch}
<1>1. Batch \subseteq Rows /\ Rows \subseteq Events
  BY BatchIsFirst DEF Unsealed, Rows
<1>2. Segment(Batch) = [attempt |-> attempt, rows |-> BatchRows]
  BY DEF Segment, BatchRows, RowOf
<1>3. BatchRows \in SUBSET Row
  BY <1>1 DEF BatchRows, RowOf, Row, TypeOK
<1>4. IsFiniteSet(BatchRows)
  <2> DEFINE f == [e \in Batch |-> RowOf(e)]
  <2>1. IsFiniteSet(Batch)
    BY <1>1, FS_Subset DEF JournalAssumption
  <2>2. f \in Surjection(Batch, BatchRows)
    BY DEF Surjection, BatchRows
  <2> QED
    BY <2>1, <2>2, FS_Surjection
<1>5. Last \in S /\ \A x \in S : x <= Last
  <2>1. S \in SUBSET Nat
    BY <1>1 DEF TypeOK
  <2>2. S # {}
    BY BatchIsFirst
  <2>3. \A x \in S : x <= next
    BY <1>1 DEF Sealing, TypeOK
  <2>4. next \in Nat
    BY DEF TypeOK
  <2> HIDE DEF S
  <2>5. Max(S) \in S /\ \A x \in S : x <= Max(S)
    BY <2>1, <2>2, <2>3, <2>4, Highest
  <2> QED
    BY <2>5 DEF S, Last
<1>6. PICK e \in Batch : seqOf[e] = Last
  BY <1>5
<1>7. Last \in Nat /\ Last # 0
  BY <1>1, <1>6 DEF TypeOK, Rows
<1>8. \A d \in Unsealed : seqOf[d] <= Last <=> d \in Batch
  BY <1>5, BatchIsFirst
<1> QED
  BY <1>2, <1>3, <1>4, <1>6, <1>7, <1>8 DEF TypeOK

-----------------------------------------------------------------------------
(* What an insert and a replay do to the ledger.                           *)

LEMMA IdleIsEvent ==
  ASSUME JournalAssumption, TypeOK
  PROVE  IdleMetrics[restarts + 1] \in Events
BY DEF JournalAssumption, TypeOK, Events, IdleEvents

LEMMA InsertEffect ==
  ASSUME TypeOK, NEW e \in Events, Insert(e)
  PROVE  /\ seqOf' \in [Events -> Nat]
         /\ status' \in [Events -> {"none", "pending", "published", "local_only"}]
         /\ next' = next + 1 /\ high' = high
         /\ spent' \in BOOLEAN /\ (~spent' => ~spent /\ e \notin Rows)
         /\ Rows' = Rows \cup {e} /\ Rows \subseteq Events
         /\ \A d \in Rows : seqOf'[d] = seqOf[d] /\ status'[d] = status[d]
         /\ e \notin Rows => seqOf'[e] = next /\ status'[e] = "pending"
         /\ \A d \in Events : (seqOf'[d] = 0) <=> (status'[d] = "none")
BY DEF TypeOK, Insert, Rows

LEMMA ReplayEffect ==
  ASSUME JournalAssumption, TypeOK, Sealing, NEW s \in replaying, Replay(s)
  PROVE  /\ seqOf' \in [Events -> Nat]
         /\ status' \in [Events -> {"none", "pending", "published", "local_only"}]
         /\ next' \in Nat \ {0} /\ next <= next'
         /\ Rows' = Rows \cup Replayed(s) /\ Rows \subseteq Events
         /\ Replayed(s) \subseteq Events
         /\ \A d \in Rows : seqOf'[d] = seqOf[d] /\ status'[d] = status[d]
         /\ \A d \in Replayed(s) \ Rows : seqOf'[d] < next' /\ status'[d] = "pending"
         /\ \A d \in Events : (seqOf'[d] = 0) <=> (status'[d] = "none")
<1>1. s \in segments /\ s.rows \in SUBSET Row /\ IsFiniteSet(s.rows)
  BY DEF TypeOK, Sealing
<1>2. Replayed(s) \subseteq Events
  BY <1>1 DEF Replayed, Row
<1>3. Cardinality(s.rows) \in Nat
  BY <1>1, FS_CardinalityType
<1>4. ASSUME NEW e \in Replayed(s)
      PROVE  Number(s, e) \in Nat /\ next <= Number(s, e)
             /\ Number(s, e) < next + Cardinality(s.rows)
  <2> DEFINE row == CHOOSE r \in s.rows : r.event = e
             Before == {r \in s.rows : r.seq < row.seq}
  <2>1. row \in s.rows
    BY DEF Replayed
  <2>2. Before \subseteq s.rows /\ row \notin Before
    BY <1>1 DEF Row
  <2>3. IsFiniteSet(Before) /\ Cardinality(Before) <= Cardinality(s.rows)
        /\ Cardinality(Before) # Cardinality(s.rows)
    BY <2>1, <2>2, <1>1, FS_Subset
  <2>4. Cardinality(Before) \in Nat
    BY <2>3, FS_CardinalityType
  <2>5. Number(s, e) = next + Cardinality(Before)
    BY DEF Number
  <2> QED
    BY <2>3, <2>4, <2>5, <1>3 DEF TypeOK
<1> QED
  BY <1>2, <1>3, <1>4 DEF Replay, TypeOK, Rows

-----------------------------------------------------------------------------
LEMMA TypeStep ==
  ASSUME JournalAssumption, TypeOK, Sealing, [Next]_vars
  PROVE  TypeOK'
<1>1. ASSUME NEW e \in Events, Append(e) PROVE TypeOK'
  BY <1>1, InsertEffect DEF Append, control, TypeOK
<1>2. ASSUME NEW e \in Events, Publish(e) PROVE TypeOK'
  <2>1. logged' \subseteq Row
    BY <1>2 DEF Publish, Deliver, TypeOK, Row
  <2> QED
    BY <1>2, <2>1 DEF Publish, Pending, Rows, TypeOK, control, JournalAssumption
<1>3. ASSUME NEW r \in Results, Settle(r) PROVE TypeOK'
  BY <1>3 DEF TypeOK, Settle, ledger
<1>4. ASSUME NEW r \in Results, RecordMetrics(r) PROVE TypeOK'
  BY <1>4, InsertEffect DEF RecordMetrics, TypeOK, Events
<1>5. ASSUME NEW r \in Results, RestoreResult(r) PROVE TypeOK'
  BY <1>5, InsertEffect DEF RestoreResult, TypeOK, Events
<1>6. CASE SealPut
  <2>1. Segment(Batch) \in [attempt : Nat, rows : SUBSET Row] /\ put' \in Nat
    BY <1>6, SegmentOfBatch DEF SealPut, Last
  <2> QED
    BY <1>6, <2>1 DEF SealPut, TypeOK, ledger
<1>7. CASE SealRecord
  BY <1>7 DEF TypeOK, SealRecord
<1>8. ASSUME NEW stored \in BOOLEAN, SealFails(stored) PROVE TypeOK'
  <2>1. Segment(Batch) \in [attempt : Nat, rows : SUBSET Row]
    BY <1>8, SegmentOfBatch DEF SealFails
  <2> QED
    BY <1>8, <2>1 DEF SealFails, TypeOK, Raise, ledger, control, JournalAssumption
<1>9. CASE Exception
  BY <1>9 DEF Exception, Raise, TypeOK, ledger, JournalAssumption
<1>10. CASE MarkLocalOnly
  BY <1>10 DEF TypeOK, Serving, MarkLocalOnly, control, Pending
<1>11. CASE LearnerExits
  BY <1>11 DEF TypeOK, Serving, LearnerExits, ledger, control
<1>12. CASE DrainEnds
  BY <1>12, InsertEffect, IdleIsEvent DEF DrainEnds, TypeOK, control
<1>13. CASE FinalDrainEnds
  BY <1>13 DEF TypeOK, Serving, FinalDrainEnds, ledger, control
<1>14. CASE FailureDrainEnds
  BY <1>14 DEF TypeOK, Serving, FailureDrainEnds, ledger, control
<1>15. CASE Crash
  BY <1>15 DEF TypeOK, Crash
<1>16. ASSUME NEW a \in {attempt, attempt + 1}, Restart(a) PROVE TypeOK'
  BY <1>16 DEF Restart, TypeOK, JournalAssumption
<1>17. ASSUME NEW s \in replaying, Replay(s) PROVE TypeOK'
  BY <1>17, ReplayEffect DEF Replay, TypeOK
<1>18. CASE Recovered
  BY <1>18 DEF TypeOK, Serving, Recovered, ledger, control
<1>19. CASE UNCHANGED vars
  BY <1>19 DEF TypeOK, Serving, vars, ledger, control
<1> QED
  BY <1>1, <1>2, <1>3, <1>4, <1>5, <1>6, <1>7, <1>8, <1>9, <1>10, <1>11, <1>12, <1>13, <1>14,
     <1>15, <1>16, <1>17, <1>18, <1>19 DEF Next

LEMMA SealingStep ==
  ASSUME JournalAssumption, TypeOK, Sealing, Placed, [Next]_vars
  PROVE  Sealing'
<1>1. ASSUME NEW e \in Events, Append(e) PROVE Sealing'
  <2>1. Insert(e) /\ e \in Events /\ UNCHANGED <<segments, attempt, put>>
    BY <1>1 DEF Append, control
  <2>2. \A d \in Rows : RowOf(d)' = RowOf(d)
    BY <2>1, InsertEffect DEF RowOf
  <2>3. \A d \in Rows : Sealed(d) => Sealed(d)'
    BY <2>1, <2>2 DEF Sealed
  <2>4. next <= next' /\ high < next /\ put < next
    BY <2>1, InsertEffect DEF TypeOK, Sealing
  <2> QED
    BY <2>1, <2>2, <2>3, <2>4, InsertEffect DEF Sealing, TypeOK
<1>2. ASSUME NEW e \in Events, Publish(e) PROVE Sealing'
  BY <1>2 DEF Sealing, Sealed, RowOf, Rows, TypeOK, Publish, control, Pending, Deliver
<1>3. ASSUME NEW r \in Results, Settle(r) PROVE Sealing'
  BY <1>3 DEF Sealing, Sealed, RowOf, Rows, TypeOK, Settle, ledger
<1>4. ASSUME NEW r \in Results, RecordMetrics(r) PROVE Sealing'
  <2>1. Insert(r) /\ r \in Events /\ UNCHANGED <<segments, attempt, put>>
    BY <1>4 DEF RecordMetrics, Events
  <2>2. \A d \in Rows : RowOf(d)' = RowOf(d)
    BY <2>1, InsertEffect DEF RowOf
  <2>3. \A d \in Rows : Sealed(d) => Sealed(d)'
    BY <2>1, <2>2 DEF Sealed
  <2>4. next <= next' /\ high < next /\ put < next
    BY <2>1, InsertEffect DEF TypeOK, Sealing
  <2> QED
    BY <2>1, <2>2, <2>3, <2>4, InsertEffect DEF Sealing, TypeOK
<1>5. ASSUME NEW r \in Results, RestoreResult(r) PROVE Sealing'
  <2>1. Insert(r) /\ r \in Events /\ UNCHANGED <<segments, attempt, put>>
    BY <1>5 DEF RestoreResult, Events
  <2>2. \A d \in Rows : RowOf(d)' = RowOf(d)
    BY <2>1, InsertEffect DEF RowOf
  <2>3. \A d \in Rows : Sealed(d) => Sealed(d)'
    BY <2>1, <2>2 DEF Sealed
  <2>4. next <= next' /\ high < next /\ put < next
    BY <2>1, InsertEffect DEF TypeOK, Sealing
  <2> QED
    BY <2>1, <2>2, <2>3, <2>4, InsertEffect DEF Sealing, TypeOK
<1>6. CASE SealPut
  <2>1. segments' = segments \cup {[attempt |-> attempt, rows |-> BatchRows]}
        /\ IsFiniteSet(BatchRows) /\ put' = Last /\ put = 0
        /\ \E e \in Batch : seqOf[e] = Last
    BY <1>6, SegmentOfBatch DEF SealPut, Last, Idle
  <2>2. UNCHANGED <<seqOf, next, high, attempt>>
    BY <1>6 DEF SealPut, ledger
  <2>3. \A e \in Rows : Sealed(e) => Sealed(e)'
    BY <2>1, <2>2 DEF Sealed, RowOf
  <2>4. \A e \in Batch : Sealed(e)'
    <3>1. ASSUME NEW e \in Batch
          PROVE  RowOf(e)' \in [attempt |-> attempt, rows |-> BatchRows].rows
      BY <2>2 DEF RowOf, BatchRows
    <3> QED
      BY <2>1, <2>2, <3>1 DEF Sealed
  <2>5. \A e \in Rows : seqOf[e] <= high \/ seqOf[e] <= Last => Sealed(e) \/ e \in Batch
    BY <1>6, SegmentOfBatch DEF SealPut, Unsealed, Sealing, TypeOK, Rows
  <2>6. Batch \subseteq Rows
    BY BatchIsFirst DEF Unsealed
  <2> QED
    BY <2>1, <2>2, <2>3, <2>4, <2>5, <2>6 DEF Sealing, Rows
<1>7. CASE SealRecord
  BY <1>7 DEF Sealing, Sealed, RowOf, Rows, TypeOK, SealRecord
<1>8. ASSUME NEW stored \in BOOLEAN, SealFails(stored) PROVE Sealing'
  <2>1. /\ \/ segments' = segments
           \/ segments' = segments \cup {[attempt |-> attempt, rows |-> BatchRows]}
        /\ IsFiniteSet(BatchRows)
    BY <1>8, SegmentOfBatch DEF SealFails
  <2>2. UNCHANGED <<seqOf, next, high, attempt, put>>
    BY <1>8 DEF SealFails, ledger, control
  <2>3. \A e \in Rows : Sealed(e) => Sealed(e)'
    BY <2>1, <2>2 DEF Sealed, RowOf
  <2> QED
    BY <2>1, <2>2, <2>3 DEF Sealing, Rows
<1>9. CASE Exception
  BY <1>9 DEF Sealing, Sealed, RowOf, Rows, TypeOK, Exception, ledger, Raise
<1>10. CASE MarkLocalOnly
  BY <1>10 DEF Sealing, Sealed, RowOf, Rows, TypeOK, MarkLocalOnly, control, Pending
<1>11. CASE LearnerExits
  BY <1>11 DEF Sealing, Sealed, RowOf, Rows, TypeOK, LearnerExits, ledger, control
<1>12. CASE DrainEnds
  <2>1. Insert(IdleMetrics[restarts + 1]) /\ IdleMetrics[restarts + 1] \in Events
        /\ UNCHANGED <<segments, attempt, put>>
    BY <1>12, IdleIsEvent DEF DrainEnds, control
  <2>2. \A d \in Rows : RowOf(d)' = RowOf(d)
    BY <2>1, InsertEffect DEF RowOf
  <2>3. \A d \in Rows : Sealed(d) => Sealed(d)'
    BY <2>1, <2>2 DEF Sealed
  <2>4. next <= next' /\ high < next /\ put < next
    BY <2>1, InsertEffect DEF TypeOK, Sealing
  <2> QED
    BY <2>1, <2>2, <2>3, <2>4, InsertEffect DEF Sealing, TypeOK
<1>13. CASE FinalDrainEnds
  BY <1>13 DEF Sealing, Sealed, RowOf, Rows, TypeOK, FinalDrainEnds, ledger, control
<1>14. CASE FailureDrainEnds
  BY <1>14 DEF Sealing, Sealed, RowOf, Rows, TypeOK, FailureDrainEnds, ledger, control
<1>15. CASE Crash
  <2>1. put' = 0 /\ high' = 0 /\ Rows' = {} /\ segments' = segments
    BY <1>15 DEF Crash, Rows
  <2> QED
    BY <2>1 DEF Sealing
<1>16. ASSUME NEW a \in {attempt, attempt + 1}, Restart(a) PROVE Sealing'
  <2>1. put' = 0 /\ high' = 0 /\ Rows' = {} /\ segments' = segments
    BY <1>16 DEF Restart, Placed, Serving, Rows
  <2> QED
    BY <2>1 DEF Sealing
<1>17. ASSUME NEW s \in replaying, Replay(s) PROVE Sealing'
  <2>1. put' = 0 /\ high' = 0 /\ segments' = segments
    BY <1>17 DEF Replay, Placed, Serving
  <2>2. \A e \in Rows' : seqOf'[e] < next' /\ seqOf'[e] \in Nat \ {0}
    BY <1>17, ReplayEffect DEF Sealing, TypeOK, Rows
  <2> QED
    BY <2>1, <2>2 DEF Sealing
<1>18. CASE Recovered
  BY <1>18 DEF Sealing, Sealed, RowOf, Rows, TypeOK, Recovered, ledger, control
<1>19. CASE UNCHANGED vars
  BY <1>19 DEF Sealing, Sealed, RowOf, Rows, TypeOK, vars, ledger, control
<1> QED
  BY <1>1, <1>2, <1>3, <1>4, <1>5, <1>6, <1>7, <1>8, <1>9, <1>10, <1>11, <1>12, <1>13, <1>14,
     <1>15, <1>16, <1>17, <1>18, <1>19 DEF Next

LEMMA PlacedStep ==
  ASSUME TypeOK, Placed, [Next]_vars
  PROVE  Placed'
<1>1. ASSUME NEW e \in Events, Append(e) PROVE Placed'
  BY <1>1 DEF Placed, Serving, Idle, TypeOK, Insert, Append, control
<1>2. ASSUME NEW e \in Events, Publish(e) PROVE Placed'
  BY <1>2 DEF Publish, Idle, Placed, Serving, control
<1>3. ASSUME NEW r \in Results, Settle(r) PROVE Placed'
  BY <1>3 DEF Placed, Serving, Idle, TypeOK, Insert, Settle, ledger
<1>4. ASSUME NEW r \in Results, RecordMetrics(r) PROVE Placed'
  BY <1>4 DEF Placed, Serving, Idle, TypeOK, Insert, RecordMetrics
<1>5. ASSUME NEW r \in Results, RestoreResult(r) PROVE Placed'
  BY <1>5 DEF Placed, Serving, Idle, TypeOK, Insert, RestoreResult
<1>6. CASE SealPut
  BY <1>6 DEF Placed, Serving, Idle, TypeOK, Insert, SealPut, ledger
<1>7. CASE SealRecord
  BY <1>7 DEF Placed, Serving, Idle, TypeOK, Insert, SealRecord
<1>8. ASSUME NEW stored \in BOOLEAN, SealFails(stored) PROVE Placed'
  BY <1>8 DEF Placed, Serving, Idle, TypeOK, Insert, SealFails, ledger, control, Raise
<1>9. CASE Exception
  BY <1>9 DEF Placed, Serving, Idle, TypeOK, Insert, Exception, ledger, Raise
<1>10. CASE MarkLocalOnly
  BY <1>10 DEF Placed, Serving, Idle, TypeOK, Insert, MarkLocalOnly, control, Pending
<1>11. CASE LearnerExits
  BY <1>11 DEF Placed, Serving, Idle, TypeOK, Insert, LearnerExits, ledger, control
<1>12. CASE DrainEnds
  BY <1>12 DEF Placed, Serving, Idle, TypeOK, Insert, DrainEnds, control
<1>13. CASE FinalDrainEnds
  BY <1>13 DEF FinalDrainEnds, Converged, Idle, Placed, Serving, ledger, control
<1>14. CASE FailureDrainEnds
  BY <1>14 DEF Placed, Serving, Idle, TypeOK, Insert, FailureDrainEnds, ledger, control
<1>15. CASE Crash
  BY <1>15 DEF Placed, Serving, Idle, TypeOK, Insert, Crash
<1>16. ASSUME NEW a \in {attempt, attempt + 1}, Restart(a) PROVE Placed'
  BY <1>16 DEF Restart, Placed, Serving
<1>17. ASSUME NEW s \in replaying, Replay(s) PROVE Placed'
  BY <1>17 DEF Placed, Serving, Idle, TypeOK, Insert, Replay
<1>18. CASE Recovered
  BY <1>18 DEF Placed, Serving, Idle, TypeOK, Insert, Recovered, ledger, control
<1>19. CASE UNCHANGED vars
  BY <1>19 DEF Placed, Serving, Idle, TypeOK, Insert, vars, ledger, control
<1> QED
  BY <1>1, <1>2, <1>3, <1>4, <1>5, <1>6, <1>7, <1>8, <1>9, <1>10, <1>11, <1>12, <1>13, <1>14,
     <1>15, <1>16, <1>17, <1>18, <1>19 DEF Next

LEMMA MarkedStep ==
  ASSUME JournalAssumption, TypeOK, Sealing, Marked, [Next]_vars
  PROVE  Marked'
<1>1. ASSUME NEW e \in Events, Append(e) PROVE Marked'
  BY <1>1, InsertEffect DEF Append, control, Marked
<1>2. ASSUME NEW e \in Events, Publish(e) PROVE Marked'
  <2>1. UNCHANGED <<delivery, seqOf>> /\ Rows' = Rows /\ delivery # "local_only" /\ e \in Rows
    BY <1>2 DEF Publish, control, Pending, Rows
  <2>2. status' = status \/ status' = [status EXCEPT ![e] = "published"]
    BY <1>2 DEF Publish
  <2>3. logged \subseteq logged' /\ (delivery = "mlflow" => RowOf(e) \in logged')
    BY <1>2 DEF Publish, Deliver, RowOf
  <2>4. status \in [Events -> {"none", "pending", "published", "local_only"}]
        /\ Rows \subseteq Events
    BY DEF TypeOK, Rows
  <2> QED
    BY <2>1, <2>2, <2>3, <2>4 DEF Marked, RowOf
<1>3. ASSUME NEW r \in Results, Settle(r) PROVE Marked'
  BY <1>3 DEF Marked, TypeOK, Rows, Settle, ledger
<1>4. ASSUME NEW r \in Results, RecordMetrics(r) PROVE Marked'
  BY <1>4, InsertEffect DEF RecordMetrics, Events, Marked
<1>5. ASSUME NEW r \in Results, RestoreResult(r) PROVE Marked'
  BY <1>5, InsertEffect DEF RestoreResult, Events, Marked
<1>6. CASE SealPut
  BY <1>6 DEF Marked, TypeOK, Rows, SealPut, ledger
<1>7. CASE SealRecord
  BY <1>7 DEF Marked, Rows, SealRecord
<1>8. ASSUME NEW stored \in BOOLEAN, SealFails(stored) PROVE Marked'
  BY <1>8 DEF Marked, TypeOK, Rows, SealFails, ledger, control, Raise
<1>9. CASE Exception
  BY <1>9 DEF Marked, TypeOK, Rows, Exception, ledger, Raise
<1>10. CASE MarkLocalOnly
  BY <1>10 DEF Marked, TypeOK, Rows, MarkLocalOnly, control, Pending
<1>11. CASE LearnerExits
  BY <1>11 DEF Marked, TypeOK, Rows, LearnerExits, ledger, control
<1>12. CASE DrainEnds
  BY <1>12, InsertEffect, IdleIsEvent DEF DrainEnds, control, Marked
<1>13. CASE FinalDrainEnds
  BY <1>13 DEF Marked, TypeOK, Rows, FinalDrainEnds, ledger, control
<1>14. CASE FailureDrainEnds
  BY <1>14 DEF Marked, TypeOK, Rows, FailureDrainEnds, ledger, control
<1>15. CASE Crash
  BY <1>15 DEF Marked, Rows, Crash
<1>16. ASSUME NEW a \in {attempt, attempt + 1}, Restart(a) PROVE Marked'
  BY <1>16 DEF Marked, Rows, Restart
<1>17. ASSUME NEW s \in replaying, Replay(s) PROVE Marked'
  BY <1>17, ReplayEffect DEF Replay, Marked
<1>18. CASE Recovered
  BY <1>18 DEF Marked, TypeOK, Rows, Recovered, ledger, control
<1>19. CASE UNCHANGED vars
  BY <1>19 DEF Marked, TypeOK, Rows, vars, ledger, control
<1> QED
  BY <1>1, <1>2, <1>3, <1>4, <1>5, <1>6, <1>7, <1>8, <1>9, <1>10, <1>11, <1>12, <1>13, <1>14,
     <1>15, <1>16, <1>17, <1>18, <1>19 DEF Next

LEMMA VerdictsStep ==
  ASSUME JournalAssumption, TypeOK, Placed, Sealing, VerdictsRecorded, [Next]_vars
  PROVE  VerdictsRecorded'
<1>1. ASSUME NEW e \in Events, Append(e) PROVE VerdictsRecorded'
  BY <1>1, InsertEffect DEF Append, control, VerdictsRecorded
<1>2. ASSUME NEW e \in Events, Publish(e) PROVE VerdictsRecorded'
  BY <1>2 DEF VerdictsRecorded, Serving, Idle, Rows, Publish, control, Pending, Deliver
<1>3. ASSUME NEW r \in Results, Settle(r) PROVE VerdictsRecorded'
  BY <1>3 DEF VerdictsRecorded, Serving, Idle, Rows, Settle, ledger
<1>4. ASSUME NEW r \in Results, RecordMetrics(r) PROVE VerdictsRecorded'
  BY <1>4, InsertEffect DEF RecordMetrics, Events, VerdictsRecorded, Placed, Serving
<1>5. ASSUME NEW r \in Results, RestoreResult(r) PROVE VerdictsRecorded'
  BY <1>5, InsertEffect DEF RestoreResult, Events, VerdictsRecorded
<1>6. CASE SealPut
  BY <1>6 DEF VerdictsRecorded, Serving, Idle, Rows, SealPut, ledger
<1>7. CASE SealRecord
  BY <1>7 DEF VerdictsRecorded, Serving, Idle, Rows, SealRecord
<1>8. ASSUME NEW stored \in BOOLEAN, SealFails(stored) PROVE VerdictsRecorded'
  BY <1>8 DEF VerdictsRecorded, SealFails, Raise
<1>9. CASE Exception
  BY <1>9 DEF VerdictsRecorded, Serving, Idle, Rows, Exception, ledger, Raise
<1>10. CASE MarkLocalOnly
  BY <1>10 DEF VerdictsRecorded, Serving, Idle, Rows, MarkLocalOnly, control, Pending
<1>11. CASE LearnerExits
  BY <1>11 DEF VerdictsRecorded, Serving, Idle, Rows, LearnerExits, ledger, control
<1>12. CASE DrainEnds
  BY <1>12, InsertEffect, IdleIsEvent DEF DrainEnds, control, VerdictsRecorded
<1>13. CASE FinalDrainEnds
  BY <1>13 DEF VerdictsRecorded, Serving, Idle, Rows, FinalDrainEnds, ledger, control
<1>14. CASE FailureDrainEnds
  BY <1>14 DEF VerdictsRecorded, FailureDrainEnds
<1>15. CASE Crash
  BY <1>15 DEF VerdictsRecorded, Serving, Idle, Rows, Crash
<1>16. ASSUME NEW a \in {attempt, attempt + 1}, Restart(a) PROVE VerdictsRecorded'
  BY <1>16 DEF VerdictsRecorded, Serving, Idle, Rows, Restart
<1>17. ASSUME NEW s \in replaying, Replay(s) PROVE VerdictsRecorded'
  BY <1>17, ReplayEffect DEF Replay, VerdictsRecorded
<1>18. CASE Recovered
  BY <1>18 DEF VerdictsRecorded, Serving, Idle, Rows, Recovered, ledger, control
<1>19. CASE UNCHANGED vars
  BY <1>19 DEF VerdictsRecorded, Serving, Idle, Rows, vars, ledger, control
<1> QED
  BY <1>1, <1>2, <1>3, <1>4, <1>5, <1>6, <1>7, <1>8, <1>9, <1>10, <1>11, <1>12, <1>13, <1>14,
     <1>15, <1>16, <1>17, <1>18, <1>19 DEF Next

LEMMA HeldStep ==
  ASSUME JournalAssumption, TypeOK, Sealing, Placed, SealedIsHeld, [Next]_vars
  PROVE  SealedIsHeld'
<1>1. ASSUME NEW e \in Events, Append(e) PROVE SealedIsHeld'
  <2>1. Insert(e) /\ e \in Events /\ Held' = Held
    BY <1>1 DEF Append, control, Held
  <2> QED
    BY <2>1, InsertEffect DEF SealedIsHeld
<1>2. ASSUME NEW e \in Events, Publish(e) PROVE SealedIsHeld'
  BY <1>2 DEF SealedIsHeld, Held, Rows, Publish, control
<1>3. ASSUME NEW r \in Results, Settle(r) PROVE SealedIsHeld'
  BY <1>3 DEF SealedIsHeld, Held, Rows, Settle, ledger
<1>4. ASSUME NEW r \in Results, RecordMetrics(r) PROVE SealedIsHeld'
  <2>1. Insert(r) /\ r \in Events /\ Held' = Held
    BY <1>4 DEF RecordMetrics, Events, Held
  <2> QED
    BY <2>1, InsertEffect DEF SealedIsHeld
<1>5. ASSUME NEW r \in Results, RestoreResult(r) PROVE SealedIsHeld'
  <2>1. Insert(r) /\ r \in Events /\ Held' = Held
    BY <1>5 DEF RestoreResult, Events, Held
  <2> QED
    BY <2>1, InsertEffect DEF SealedIsHeld
<1>6. CASE SealPut
  <2>1. Held' \subseteq Held \cup {[attempt |-> attempt, rows |-> BatchRows]} /\ Rows' = Rows
    BY <1>6, SegmentOfBatch DEF SealPut, ledger, control, Held, Rows, Serving
  <2>2. Replayed([attempt |-> attempt, rows |-> BatchRows]) \subseteq Rows
    BY BatchIsFirst DEF Replayed, BatchRows, RowOf, Unsealed
  <2>3. \A s \in Held : Replayed(s)' = Replayed(s)
    OBVIOUS
  <2> QED
    BY <2>1, <2>2 DEF SealedIsHeld
<1>7. CASE SealRecord
  BY <1>7 DEF SealedIsHeld, Held, Rows, SealRecord
<1>8. ASSUME NEW stored \in BOOLEAN, SealFails(stored) PROVE SealedIsHeld'
  <2>1. Held' \subseteq Held \cup {[attempt |-> attempt, rows |-> BatchRows]} /\ Rows' = Rows
    BY <1>8, SegmentOfBatch DEF SealFails, ledger, control, Held, Rows, Serving, Raise
  <2>2. Replayed([attempt |-> attempt, rows |-> BatchRows]) \subseteq Rows
    BY BatchIsFirst DEF Replayed, BatchRows, RowOf, Unsealed
  <2>3. \A s \in Held : Replayed(s)' = Replayed(s)
    OBVIOUS
  <2> QED
    BY <2>1, <2>2 DEF SealedIsHeld
<1>9. CASE Exception
  <2>1. Held' = Held /\ Rows' = Rows
    BY <1>9 DEF Exception, Raise, Held, Rows, Serving, ledger
  <2> QED
    BY <2>1 DEF SealedIsHeld
<1>10. CASE MarkLocalOnly
  BY <1>10 DEF SealedIsHeld, Held, Rows, MarkLocalOnly, control, Pending
<1>11. CASE LearnerExits
  BY <1>11 DEF SealedIsHeld, Held, Rows, LearnerExits, ledger, control
<1>12. CASE DrainEnds
  <2>1. Insert(IdleMetrics[restarts + 1]) /\ IdleMetrics[restarts + 1] \in Events
        /\ Held' = Held
    BY <1>12, IdleIsEvent DEF DrainEnds, control, Events, Held
  <2> QED
    BY <2>1, InsertEffect DEF SealedIsHeld
<1>13. CASE FinalDrainEnds
  BY <1>13 DEF SealedIsHeld, Held, Rows, FinalDrainEnds, ledger, control
<1>14. CASE FailureDrainEnds
  BY <1>14 DEF SealedIsHeld, Held, Rows, FailureDrainEnds, ledger, control
<1>15. CASE Crash
  BY <1>15 DEF SealedIsHeld, Held, Crash
<1>16. ASSUME NEW a \in {attempt, attempt + 1}, Restart(a) PROVE SealedIsHeld'
  BY <1>16 DEF SealedIsHeld, Held, Restart
<1>17. ASSUME NEW s \in replaying, Replay(s) PROVE SealedIsHeld'
  <2>1. Held' = Held \cup {s} /\ segments' = segments
    BY <1>17 DEF Replay, Held, TypeOK
  <2> QED
    BY <1>17, <2>1, ReplayEffect DEF SealedIsHeld
<1>18. CASE Recovered
  BY <1>18 DEF SealedIsHeld, Held, Rows, Recovered, ledger, control
<1>19. CASE UNCHANGED vars
  BY <1>19 DEF SealedIsHeld, Held, Rows, vars, ledger, control
<1> QED
  BY <1>1, <1>2, <1>3, <1>4, <1>5, <1>6, <1>7, <1>8, <1>9, <1>10, <1>11, <1>12, <1>13, <1>14,
     <1>15, <1>16, <1>17, <1>18, <1>19 DEF Next

LEMMA DrainStep ==
  ASSUME JournalAssumption, TypeOK, Sealing, Placed, Marked, VerdictsRecorded, DrainIsComplete,
         [Next]_vars
  PROVE  DrainIsComplete'
<1>1. ASSUME NEW e \in Events, Append(e) PROVE DrainIsComplete'
  BY <1>1 DEF Append, DrainIsComplete
<1>2. ASSUME NEW e \in Events, Publish(e) PROVE DrainIsComplete'
  BY <1>2 DEF Publish, DrainIsComplete, Serving
<1>3. ASSUME NEW r \in Results, Settle(r) PROVE DrainIsComplete'
  BY <1>3 DEF Settle, DrainIsComplete, Serving
<1>4. ASSUME NEW r \in Results, RecordMetrics(r) PROVE DrainIsComplete'
  BY <1>4 DEF RecordMetrics, DrainIsComplete, Placed, Serving
<1>5. ASSUME NEW r \in Results, RestoreResult(r) PROVE DrainIsComplete'
  BY <1>5 DEF RestoreResult, DrainIsComplete
<1>6. CASE SealPut
  BY <1>6 DEF SealPut, DrainIsComplete, Serving
<1>7. CASE SealRecord
  BY <1>7 DEF SealRecord, DrainIsComplete, Placed, Serving
<1>8. ASSUME NEW stored \in BOOLEAN, SealFails(stored) PROVE DrainIsComplete'
  BY <1>8 DEF SealFails, Raise, DrainIsComplete
<1>9. CASE Exception
  BY <1>9 DEF Exception, Raise, DrainIsComplete
<1>10. CASE MarkLocalOnly
  BY <1>10 DEF MarkLocalOnly, DrainIsComplete, Serving
<1>11. CASE LearnerExits
  BY <1>11 DEF DrainIsComplete, Serving, Placed, Idle, Rows, LearnerExits, ledger, control
<1>12. CASE DrainEnds
  BY <1>12 DEF DrainEnds, DrainIsComplete
<1>13. CASE FinalDrainEnds
  <2>1. Rows' = Rows /\ segments' = segments /\ verified' = verified /\ logged' = logged
        /\ UNCHANGED <<seqOf, status, high, delivery>>
    BY <1>13 DEF FinalDrainEnds, ledger, control, Rows
  <2>2. \A e \in Rows : seqOf[e] <= high /\ seqOf[e] \in Nat \ {0}
    BY <1>13 DEF FinalDrainEnds, Converged, Unsealed, TypeOK, Rows
  <2>3. \A e \in Rows : RowOf(e) \in JournalRows(segments)
    BY <2>2 DEF Sealing, Sealed, JournalRows
  <2>4. \A e \in Rows : status[e] = IF delivery = "local_only" THEN "local_only" ELSE "published"
    BY <1>13 DEF FinalDrainEnds, Converged, Pending, TypeOK, Rows, Marked
  <2>5. verified \subseteq Rows
    BY <1>13 DEF FinalDrainEnds, Converged, Idle, VerdictsRecorded
  <2>6. delivery = "mlflow" => Delivered
    BY <2>4 DEF Marked, Delivered
  <2>7. delivery # "local_only" => high = LocalHighWater
    <3> DEFINE S == {0} \cup {seqOf[e] : e \in {d \in Rows : status[d] = "published"}}
    <3>1. SUFFICES ASSUME delivery # "local_only" PROVE high = Max(S)
      BY DEF LocalHighWater
    <3>2. high \in Nat /\ high \in S
      BY <3>1, <2>4 DEF Sealing, TypeOK
    <3>3. S \in SUBSET Int /\ \A x \in S : x <= high
      BY <2>2, <3>2
    <3> QED
      BY <3>2, <3>3, MaxIs
  <2> QED
    BY <2>1, <2>3, <2>4, <2>5, <2>6, <2>7 DEF DrainIsComplete, RowOf, Delivered, LocalHighWater
<1>14. CASE FailureDrainEnds
  BY <1>14 DEF DrainIsComplete, Serving, Placed, Idle, Rows, FailureDrainEnds, ledger, control
<1>15. CASE Crash
  BY <1>15 DEF DrainIsComplete, Serving, Placed, Idle, Rows, Crash
<1>16. ASSUME NEW a \in {attempt, attempt + 1}, Restart(a) PROVE DrainIsComplete'
  BY <1>16 DEF Restart, DrainIsComplete
<1>17. ASSUME NEW s \in replaying, Replay(s) PROVE DrainIsComplete'
  BY <1>17 DEF Replay, DrainIsComplete
<1>18. CASE Recovered
  BY <1>18 DEF DrainIsComplete, Serving, Placed, Idle, Rows, Recovered, ledger, control
<1>19. CASE UNCHANGED vars
  BY <1>19 DEF DrainIsComplete, Rows, Delivered, LocalHighWater, vars, ledger, control
<1> QED
  BY <1>1, <1>2, <1>3, <1>4, <1>5, <1>6, <1>7, <1>8, <1>9, <1>10, <1>11, <1>12, <1>13, <1>14,
     <1>15, <1>16, <1>17, <1>18, <1>19 DEF Next

-----------------------------------------------------------------------------
(* While no number is spent on an event already there, a replay gives      *)
(* every row of its segment the number it had.                             *)

LEMMA Counted ==
  ASSUME NEW R \in SUBSET Row, IsFiniteSet(R), NEW a \in Nat, NEW b \in Int, a <= b + 1,
         \A r, q \in R : r.seq = q.seq => r = q,
         \A r \in R : a <= r.seq /\ r.seq <= b,
         \A n \in a..b : \E r \in R : r.seq = n
  PROVE  Cardinality(R) = b - a + 1
<1> DEFINE f == [r \in R |-> r.seq]
<1>1. \A r \in R : r.seq \in a..b
  BY DEF Row
<1>2. f \in Injection(R, a..b)
  BY <1>1 DEF Injection, IsInjective
<1>3. f \in Surjection(R, a..b)
  BY <1>1 DEF Surjection
<1>4. f \in Bijection(R, a..b)
  BY <1>2, <1>3 DEF Bijection
<1>5. Cardinality(a..b) = Cardinality(R)
  BY <1>4, FS_Bijection DEF ExistsBijection
<1> QED
  BY <1>5, FS_Interval

LEMMA ReplayIsFaithful ==
  ASSUME JournalAssumption, TypeOK, Sealing, Placed, SealedIsHeld, Numbered, Consistent,
         Faithful,
         NEW s \in replaying, Replay(s), Replayed(s) \cap Rows = {}
  PROVE  /\ \A r \in s.rows : seqOf'[r.event] = r.seq
         /\ \A n \in next..(next' - 1) : \E r \in s.rows : r.seq = n
         /\ \A r \in s.rows : next <= r.seq
<1>1. pc = "recover" /\ s \in segments /\ replaying \subseteq segments
  BY DEF Replay, TypeOK
<1>2. s.rows \in SUBSET Row /\ IsFiniteSet(s.rows) /\ s.rows \subseteq JournalRows(segments)
  BY DEF TypeOK, Sealing, JournalRows
<1>3. ASSUME NEW r \in s.rows PROVE next <= r.seq
  <2>1. SUFFICES ASSUME r.seq < next PROVE FALSE
    BY DEF TypeOK, Row
  <2>2. r.seq \in 1..(next - 1)
    BY <2>1, <1>2 DEF TypeOK, Row, Consistent
  <2>3. PICK d \in Rows : seqOf[d] = r.seq
    BY <2>2 DEF Numbered
  <2>4. RowOf(d) \in JournalRows(segments)
    BY DEF Faithful
  <2>5. r.event = d
    BY <2>3, <2>4, <1>2 DEF Consistent, RowOf
  <2> QED
    BY <2>5 DEF Replayed
<1>4. \E r \in s.rows : r.seq = next
  <2>1. SUFFICES ASSUME \A r \in s.rows : r.seq # next PROVE FALSE
    OBVIOUS
  <2>2. PICK a \in s.rows : TRUE
    BY <1>1 DEF Consistent
  <2>3. next \in 1..a.seq
    BY <1>3 DEF TypeOK
  <2>4. PICK t \in segments : t.attempt = s.attempt /\ \E q \in t.rows : q.seq = next
    BY <1>1, <2>3 DEF Consistent
  <2>5. PICK q \in t.rows : q.seq = next
    BY <2>4
  <2>6. t \in replaying
    <3>1. SUFFICES ASSUME t \in Held PROVE FALSE
      BY <1>1 DEF Held
    <3>2. seqOf[q.event] = next
      BY <3>1, <2>5 DEF Faithful
    <3>3. q.event \in Rows
      BY <3>1 DEF SealedIsHeld, Replayed
    <3> QED
      BY <3>2, <3>3 DEF Sealing, TypeOK
  <2>7. PICK m \in Sequences(s) : \A x \in Sequences(s) : m <= x
    <3>1. Sequences(s) \in SUBSET Nat /\ Sequences(s) # {}
      BY <1>2 DEF Sequences, Row
    <3> QED
      BY <3>1, Lowest
  <2>8. PICK k \in Sequences(t) : \A x \in Sequences(t) : k <= x
    <3>1. Sequences(t) \in SUBSET Nat /\ Sequences(t) # {}
      BY DEF Sequences, Row, TypeOK
    <3> QED
      BY <3>1, Lowest
  <2>9. Min(Sequences(s)) = m /\ m \in Nat
    <3>1. Sequences(s) \in SUBSET Int /\ m \in Nat
      BY <1>2 DEF Sequences, Row
    <3> QED
      BY <3>1, <2>7, MinIs
  <2>10. Min(Sequences(t)) = k /\ k \in Nat
    <3>1. Sequences(t) \in SUBSET Int /\ k \in Nat
      BY DEF Sequences, Row, TypeOK
    <3> QED
      BY <3>1, <2>8, MinIs
  <2>11. k <= next
    BY <2>5, <2>8 DEF Sequences
  <2>12. next < m
    <3>1. PICK r \in s.rows : m = r.seq
      BY DEF Sequences
    <3> QED
      BY <3>1, <1>3, <2>1, <2>9 DEF TypeOK
  <2>13. SortsBefore(t, s)
    BY <2>4, <2>9, <2>10, <2>11, <2>12 DEF SortsBefore, TypeOK
  <2> QED
    BY <2>6, <2>13 DEF Replay
<1>5. \A r, q \in s.rows : r.seq = q.seq => r = q
  BY <1>2 DEF Consistent, Row
<1>6. ASSUME NEW r \in s.rows PROVE \A n \in next..r.seq : \E q \in s.rows : q.seq = n
  BY <1>1, <1>4 DEF Consistent
<1>7. ASSUME NEW r \in s.rows PROVE Number(s, r.event) = r.seq
  <2> DEFINE row == CHOOSE q \in s.rows : q.event = r.event
             Before == {q \in s.rows : q.seq < r.seq}
  <2>1. row = r
    <3>1. row \in s.rows /\ row.event = r.event
      OBVIOUS
    <3> QED
      OBVIOUS
  <2>2. Before \in SUBSET Row /\ IsFiniteSet(Before)
    BY <1>2, FS_Subset
  <2>3. r.seq \in Nat /\ next \in Nat /\ next <= r.seq
    BY <1>3 DEF Row, TypeOK
  <2>4. \A q \in Before : next <= q.seq /\ q.seq <= r.seq - 1
    BY <1>2, <1>3 DEF Row
  <2>5. \A n \in next..(r.seq - 1) : \E q \in Before : q.seq = n
    <3>1. ASSUME NEW n \in next..(r.seq - 1) PROVE \E q \in Before : q.seq = n
      <4>1. n \in next..r.seq /\ n < r.seq
        BY <2>3
      <4>2. PICK q \in s.rows : q.seq = n
        BY <4>1, <1>6
      <4> QED
        BY <4>1, <4>2
    <3> QED
      BY <3>1
  <2>6. \A p, q \in Before : p.seq = q.seq => p = q
    BY <1>5
  <2> HIDE DEF Before
  <2>7. Cardinality(Before) = (r.seq - 1) - next + 1
    BY <2>2, <2>3, <2>4, <2>5, <2>6, Counted
  <2>8. Number(s, r.event) = next + Cardinality(Before)
    BY DEF Number, Before
  <2> QED
    BY <2>3, <2>7, <2>8
<1>8. PICK m \in Nat : next <= m /\ (\E r \in s.rows : r.seq = m)
           /\ \A r \in s.rows : r.seq <= m
  <2>1. PICK b \in Nat : \A r \in JournalRows(segments) : r.seq <= b
    BY DEF Consistent
  <2>2. Sequences(s) \in SUBSET Nat /\ Sequences(s) # {} /\ \A x \in Sequences(s) : x <= b
    BY <1>2, <1>4, <2>1 DEF Sequences, Row
  <2>3. Max(Sequences(s)) \in Sequences(s) /\ \A x \in Sequences(s) : x <= Max(Sequences(s))
    BY <2>2, Highest
  <2> QED
    BY <2>2, <2>3, <1>3 DEF Sequences
<1>9. Cardinality(s.rows) = m - next + 1
  <2>1. \A n \in next..m : \E r \in s.rows : r.seq = n
    BY <1>6, <1>8
  <2>2. next \in Nat /\ m \in Int /\ next <= m + 1
    BY <1>8 DEF TypeOK
  <2> QED
    BY <1>2, <1>3, <1>5, <1>8, <2>1, <2>2, Counted
<1>10. next' = m + 1
  BY <1>9 DEF Replay, TypeOK
<1>11. \A n \in next..(next' - 1) : \E r \in s.rows : r.seq = n
  BY <1>6, <1>8, <1>10
<1>12. \A r \in s.rows : seqOf'[r.event] = r.seq
  <2>1. \A r \in s.rows : r.event \in Replayed(s) \ Rows /\ r.event \in Events
    BY <1>2 DEF Replayed, Row
  <2> QED
    BY <1>7, <2>1 DEF Replay
<1> QED
  BY <1>3, <1>11, <1>12

-----------------------------------------------------------------------------
(* A segment of the next batch goes on where its Attempt has arrived.      *)

Added == [attempt |-> attempt, rows |-> BatchRows]

LEMMA BatchIsNext ==
  ASSUME JournalAssumption, TypeOK, Sealing, Placed, SealedIsHeld, Numbered, Consistent,
         Faithful,
         Serving, put = 0, Unsealed # {}
  PROVE  /\ \A s \in segments \cup {Added} : \A r \in s.rows :
              r.event \in Rows /\ seqOf[r.event] = r.seq
         /\ \A r, q \in BatchRows : \A n \in r.seq..q.seq : \E p \in BatchRows : p.seq = n
         /\ \A r \in BatchRows : \A n \in 1..r.seq :
              \E t \in segments \cup {Added} : t.attempt = attempt
                  /\ \E q \in t.rows : q.seq = n
         /\ \A r \in BatchRows : r.seq < next
<1>1. Batch \subseteq Unsealed /\ Unsealed \subseteq Rows /\ Rows \subseteq Events /\ Batch # {}
  BY BatchIsFirst DEF Unsealed, Rows
<1>2. \A r \in BatchRows : r.event \in Batch /\ seqOf[r.event] = r.seq
  BY DEF BatchRows, RowOf
<1>3. Held = segments
  BY DEF Held, Placed, Serving
<1>4. \A s \in segments : \A r \in s.rows : r.event \in Rows /\ seqOf[r.event] = r.seq
  BY <1>3 DEF SealedIsHeld, Faithful, Replayed
<1>5. ASSUME NEW q \in BatchRows, NEW n \in 1..q.seq
      PROVE  (\E p \in BatchRows : p.seq = n) \/ (n <= high /\ \E d \in Rows : Sealed(d)
             /\ seqOf[d] = n)
  <2>1. q.seq \in Nat /\ q.seq < next /\ q.seq <= Last /\ Last \in Nat
    BY <1>1, <1>2, SegmentOfBatch DEF Sealing, TypeOK
  <2>2. n \in 1..(next - 1)
    BY <2>1 DEF TypeOK
  <2>3. PICK d \in Rows : seqOf[d] = n
    BY <2>2 DEF Numbered
  <2>4. CASE n <= high
    BY <2>3, <2>4 DEF Sealing
  <2>5. CASE ~(n <= high)
    <3>1. d \in Unsealed
      BY <2>3, <2>5 DEF Unsealed, TypeOK
    <3>2. d \in Batch
      BY <2>1, <2>3, <3>1, SegmentOfBatch
    <3>3. RowOf(d) \in BatchRows /\ RowOf(d).seq = n
      BY <2>3, <3>2 DEF BatchRows, RowOf
    <3> QED
      BY <3>3
  <2> QED
    BY <2>4, <2>5
<1>6. ASSUME NEW r \in BatchRows, NEW q \in BatchRows, NEW n \in r.seq..q.seq
      PROVE  \E p \in BatchRows : p.seq = n
  <2>1. r.seq \in Nat /\ r.seq > high /\ r.seq # 0
    BY <1>1, <1>2 DEF Unsealed, TypeOK
  <2>2. n \in 1..q.seq /\ ~(n <= high)
    BY <2>1 DEF TypeOK
  <2> QED
    BY <2>2, <1>5
<1>7. ASSUME NEW r \in BatchRows, NEW n \in 1..r.seq
      PROVE  \E t \in segments \cup {Added} : t.attempt = attempt /\ \E q \in t.rows : q.seq = n
  <2>1. CASE \E p \in BatchRows : p.seq = n
    <3>1. Added \in segments \cup {Added} /\ Added.attempt = attempt /\ Added.rows = BatchRows
      BY DEF Added
    <3> QED
      BY <2>1, <3>1
  <2>2. ASSUME NEW d \in Rows, Sealed(d), seqOf[d] = n
        PROVE  \E t \in segments : t.attempt = attempt /\ \E q \in t.rows : q.seq = n
    <3>1. PICK t \in segments : t.attempt = attempt /\ RowOf(d) \in t.rows
      BY <2>2 DEF Sealed
    <3>2. RowOf(d).seq = n
      BY <2>2 DEF RowOf
    <3> QED
      BY <3>1, <3>2
  <2> QED
    BY <1>5, <2>1, <2>2
<1>8. \A r \in BatchRows : r.seq < next
  BY <1>1, <1>2 DEF Sealing
<1> QED
  BY <1>1, <1>2, <1>4, <1>6, <1>7, <1>8 DEF Added

LEMMA AddedIsConsistent ==
  ASSUME JournalAssumption, TypeOK, Sealing, Placed, SealedIsHeld, Numbered, Consistent,
         Faithful,
         Serving, put = 0, Unsealed # {}, segments' = segments \cup {Added}
  PROVE  Consistent'
<1>1. \A s \in segments' : \A r \in s.rows : r.event \in Rows /\ seqOf[r.event] = r.seq
  BY BatchIsNext
<1>2. \A r \in JournalRows(segments)' : r.event \in Rows /\ seqOf[r.event] = r.seq
  BY <1>1 DEF JournalRows
<1>3. \A r, q \in JournalRows(segments)' : r.seq = q.seq <=> r.event = q.event
  BY <1>2 DEF Numbered
<1>4. \A r \in JournalRows(segments)' : r.seq # 0
  BY <1>2 DEF Rows
<1>5. BatchRows # {}
  BY BatchIsFirst DEF BatchRows
<1>6. \A s \in segments' : s.rows # {}
  BY <1>5 DEF Consistent, Added
<1>7. \A s \in segments' : \A r,
      q \in s.rows : \A n \in r.seq..q.seq : \E p \in s.rows : p.seq = n
  BY BatchIsNext DEF Consistent, Added
<1>8. \A s \in segments' : \A r \in s.rows : \A n \in 1..r.seq :
         \E t \in segments' : t.attempt = s.attempt /\ \E q \in t.rows : q.seq = n
  BY BatchIsNext DEF Consistent, Added
<1>9. \E b \in Nat : \A r \in JournalRows(segments)' : r.seq <= b
  <2>1. \A r \in JournalRows(segments)' : r.seq <= next
    BY <1>2 DEF Sealing, TypeOK, Rows
  <2> QED
    BY <2>1 DEF TypeOK
<1> QED
  BY <1>3, <1>4, <1>6, <1>7, <1>8, <1>9 DEF Consistent

LEMMA OldIsConsistent == Consistent /\ UNCHANGED segments => Consistent'
BY DEF Consistent

LEMMA NumberedStep ==
  ASSUME JournalAssumption, TypeOK, Sealing, Placed, SealedIsHeld, Numbered, Consistent,
         Faithful, ~spent', [Next]_vars
  PROVE  Numbered'
<1>1. ASSUME NEW e \in Events, Append(e) PROVE Numbered'
  <2>1. Insert(e) /\ e \in Events
    BY <1>1 DEF Append
  <2> QED
    BY <2>1, InsertEffect DEF Numbered, Sealing
<1>2. ASSUME NEW e \in Events, Publish(e) PROVE Numbered'
  BY <1>2 DEF Numbered, Rows, Publish, control, Pending, Deliver
<1>3. ASSUME NEW r \in Results, Settle(r) PROVE Numbered'
  BY <1>3 DEF Numbered, Rows, Settle, ledger
<1>4. ASSUME NEW r \in Results, RecordMetrics(r) PROVE Numbered'
  <2>1. Insert(r) /\ r \in Events
    BY <1>4 DEF RecordMetrics, Events
  <2> QED
    BY <2>1, InsertEffect DEF Numbered, Sealing
<1>5. ASSUME NEW r \in Results, RestoreResult(r) PROVE Numbered'
  <2>1. Insert(r) /\ r \in Events
    BY <1>5 DEF RestoreResult, Events
  <2> QED
    BY <2>1, InsertEffect DEF Numbered, Sealing
<1>6. CASE SealPut
  BY <1>6 DEF Numbered, Rows, SealPut, ledger
<1>7. CASE SealRecord
  BY <1>7 DEF Numbered, Rows, SealRecord
<1>8. ASSUME NEW stored \in BOOLEAN, SealFails(stored) PROVE Numbered'
  BY <1>8 DEF Numbered, Rows, SealFails, ledger, control, Raise
<1>9. CASE Exception
  BY <1>9 DEF Numbered, Rows, Exception, ledger, Raise
<1>10. CASE MarkLocalOnly
  BY <1>10 DEF Numbered, Rows, MarkLocalOnly, control, Pending
<1>11. CASE LearnerExits
  BY <1>11 DEF Numbered, Rows, LearnerExits, ledger, control
<1>12. CASE DrainEnds
  <2>1. Insert(IdleMetrics[restarts + 1]) /\ IdleMetrics[restarts + 1] \in Events
    BY <1>12, IdleIsEvent DEF DrainEnds
  <2> QED
    BY <2>1, InsertEffect DEF Numbered, Sealing
<1>13. CASE FinalDrainEnds
  BY <1>13 DEF Numbered, Rows, FinalDrainEnds, ledger, control
<1>14. CASE FailureDrainEnds
  BY <1>14 DEF Numbered, Rows, FailureDrainEnds, ledger, control
<1>15. CASE Crash
  BY <1>15 DEF Numbered, Rows, Crash
<1>16. ASSUME NEW a \in {attempt, attempt + 1}, Restart(a) PROVE Numbered'
  BY <1>16 DEF Numbered, Rows, Restart
<1>17. ASSUME NEW s \in replaying, Replay(s) PROVE Numbered'
  <2>1. Replayed(s) \cap Rows = {}
    BY <1>17 DEF Replay
  <2>2. Rows' = Rows \cup Replayed(s) /\ \A d \in Rows : seqOf'[d] = seqOf[d]
    BY <1>17, ReplayEffect
  <2>3. \A r \in s.rows : seqOf'[r.event] = r.seq /\ next <= r.seq
    BY <1>17, <2>1, ReplayIsFaithful
  <2>4. next \in Nat \ {0} /\ next' \in Nat
    BY <1>17, ReplayEffect DEF TypeOK
  <2>5. s.rows \in SUBSET Row /\ s.rows \subseteq JournalRows(segments)
    BY DEF TypeOK, JournalRows
  <2>6. PICK top \in Nat : top = next'
    BY <2>4
  <2>7. \A n \in next..(top - 1) : \E r \in s.rows : r.seq = n
    BY <1>17, <2>1, <2>6, ReplayIsFaithful
  <2>8. ASSUME NEW n \in 1..(top - 1) PROVE \E e \in Rows' : seqOf'[e] = n
    <3>1. n \in 1..(next - 1) \/ n \in next..(top - 1)
      BY <2>4
    <3>2. ASSUME n \in 1..(next - 1) PROVE \E e \in Rows' : seqOf'[e] = n
      BY <2>2, <3>2 DEF Numbered
    <3>3. ASSUME n \in next..(top - 1) PROVE \E e \in Rows' : seqOf'[e] = n
      BY <2>2, <2>3, <2>7, <3>3 DEF Replayed
    <3> QED
      BY <3>1, <3>2, <3>3
  <2>9. ASSUME NEW d \in Rows', NEW e \in Rows', seqOf'[d] = seqOf'[e] PROVE d = e
    <3>1. CASE d \in Rows /\ e \in Rows
      BY <2>2, <2>9, <3>1 DEF Numbered
    <3>2. CASE d \in Replayed(s) /\ e \in Replayed(s)
      BY <2>3, <2>5, <2>9, <3>2 DEF Replayed, Consistent
    <3>3. ASSUME NEW x \in Rows, NEW y \in Replayed(s) PROVE seqOf'[x] # seqOf'[y]
      <4>1. seqOf'[x] < next /\ seqOf'[x] \in Nat
        BY <2>2 DEF Sealing, TypeOK, Rows
      <4>2. seqOf'[y] \in Nat /\ next <= seqOf'[y]
        BY <2>3, <2>5 DEF Replayed, Row
      <4> QED
        BY <4>1, <4>2, <2>4
    <3> QED
      BY <2>2, <2>9, <3>1, <3>2, <3>3
  <2> QED
    BY <2>6, <2>8, <2>9 DEF Numbered
<1>18. CASE Recovered
  BY <1>18 DEF Numbered, Rows, Recovered, ledger, control
<1>19. CASE UNCHANGED vars
  BY <1>19 DEF Numbered, Rows, vars, ledger, control
<1> QED
  BY <1>1, <1>2, <1>3, <1>4, <1>5, <1>6, <1>7, <1>8, <1>9, <1>10, <1>11, <1>12, <1>13, <1>14,
     <1>15, <1>16, <1>17, <1>18, <1>19 DEF Next

LEMMA ConsistentStep ==
  ASSUME JournalAssumption, TypeOK, Sealing, Placed, SealedIsHeld, Numbered, Consistent,
         Faithful, [Next]_vars
  PROVE  Consistent'
<1>1. ASSUME NEW e \in Events, Append(e) PROVE Consistent'
  BY <1>1, OldIsConsistent DEF Append
<1>2. ASSUME NEW e \in Events, Publish(e) PROVE Consistent'
  BY <1>2, OldIsConsistent DEF Publish
<1>3. ASSUME NEW r \in Results, Settle(r) PROVE Consistent'
  BY <1>3, OldIsConsistent DEF Settle
<1>4. ASSUME NEW r \in Results, RecordMetrics(r) PROVE Consistent'
  BY <1>4, OldIsConsistent DEF RecordMetrics
<1>5. ASSUME NEW r \in Results, RestoreResult(r) PROVE Consistent'
  BY <1>5, OldIsConsistent DEF RestoreResult
<1>6. CASE SealPut
  <2>1. segments' = segments \cup {Added} /\ Serving /\ put = 0 /\ Unsealed # {}
    BY <1>6, SegmentOfBatch DEF SealPut, Added, Idle
  <2> QED
    BY <2>1, AddedIsConsistent
<1>7. CASE SealRecord
  BY <1>7, OldIsConsistent DEF SealRecord
<1>8. ASSUME NEW stored \in BOOLEAN, SealFails(stored) PROVE Consistent'
  <2>1. segments' = segments \/ segments' = segments \cup {Added}
    BY <1>8, SegmentOfBatch DEF SealFails, Added
  <2>2. Serving /\ put = 0 /\ Unsealed # {}
    BY <1>8 DEF SealFails, Idle
  <2> QED
    BY <2>1, <2>2, AddedIsConsistent, OldIsConsistent
<1>9. CASE Exception
  BY <1>9, OldIsConsistent DEF Exception
<1>10. CASE MarkLocalOnly
  BY <1>10, OldIsConsistent DEF MarkLocalOnly
<1>11. CASE LearnerExits
  BY <1>11, OldIsConsistent DEF LearnerExits
<1>12. CASE DrainEnds
  BY <1>12, OldIsConsistent DEF DrainEnds
<1>13. CASE FinalDrainEnds
  BY <1>13, OldIsConsistent DEF FinalDrainEnds
<1>14. CASE FailureDrainEnds
  BY <1>14, OldIsConsistent DEF FailureDrainEnds
<1>15. CASE Crash
  BY <1>15, OldIsConsistent DEF Crash
<1>16. ASSUME NEW a \in {attempt, attempt + 1}, Restart(a) PROVE Consistent'
  BY <1>16, OldIsConsistent DEF Restart
<1>17. ASSUME NEW s \in replaying, Replay(s) PROVE Consistent'
  BY <1>17, OldIsConsistent DEF Replay
<1>18. CASE Recovered
  BY <1>18, OldIsConsistent DEF Recovered
<1>19. CASE UNCHANGED vars
  BY <1>19, OldIsConsistent DEF vars
<1> QED
  BY <1>1, <1>2, <1>3, <1>4, <1>5, <1>6, <1>7, <1>8, <1>9, <1>10, <1>11, <1>12, <1>13, <1>14,
     <1>15, <1>16, <1>17, <1>18, <1>19 DEF Next

LEMMA FaithfulStep ==
  ASSUME JournalAssumption, TypeOK, Sealing, Placed, SealedIsHeld, Numbered, Consistent,
         Faithful, ~spent', [Next]_vars
  PROVE  Faithful'
<1>1. ASSUME NEW e \in Events, Append(e) PROVE Faithful'
  <2>1. Insert(e) /\ e \in Events /\ Held' = Held /\ replaying' = {}
    BY <1>1 DEF Append, control, Events, Held, Placed
  <2> QED
    BY <2>1, InsertEffect DEF Faithful, SealedIsHeld, Replayed
<1>2. ASSUME NEW e \in Events, Publish(e) PROVE Faithful'
  BY <1>2 DEF Faithful, Held, Rows, RowOf, Publish, control, Pending, Deliver
<1>3. ASSUME NEW r \in Results, Settle(r) PROVE Faithful'
  BY <1>3 DEF Faithful, Held, Rows, RowOf, Settle, ledger
<1>4. ASSUME NEW r \in Results, RecordMetrics(r) PROVE Faithful'
  <2>1. Insert(r) /\ r \in Events /\ Held' = Held /\ replaying' = {}
    BY <1>4 DEF RecordMetrics, Serving, control, Events, Held, Placed
  <2> QED
    BY <2>1, InsertEffect DEF Faithful, SealedIsHeld, Replayed
<1>5. ASSUME NEW r \in Results, RestoreResult(r) PROVE Faithful'
  <2>1. Insert(r) /\ r \in Events /\ Held' = Held /\ replaying' = {}
    BY <1>5 DEF RestoreResult, control, Events, Held, Placed
  <2> QED
    BY <2>1, InsertEffect DEF Faithful, SealedIsHeld, Replayed
<1>6. CASE SealPut
  <2>1. Held' \subseteq segments \cup {Added} /\ seqOf' = seqOf /\ replaying' = {}
    BY <1>6, SegmentOfBatch DEF SealPut, ledger, control, Held, Placed, Serving, Added
  <2>2. Serving /\ put = 0 /\ Unsealed # {}
    BY <1>6 DEF SealPut, Idle
  <2> QED
    BY <2>1, <2>2, BatchIsNext DEF Faithful
<1>7. CASE SealRecord
  BY <1>7 DEF Faithful, Held, Rows, RowOf, SealRecord
<1>8. ASSUME NEW stored \in BOOLEAN, SealFails(stored) PROVE Faithful'
  <2>1. Held' \subseteq segments \cup {Added} /\ seqOf' = seqOf /\ replaying' = {}
    BY <1>8, SegmentOfBatch DEF SealFails, ledger, control, Held, Placed, Serving, Added
  <2>2. Serving /\ put = 0 /\ Unsealed # {}
    BY <1>8 DEF SealFails, Idle
  <2> QED
    BY <2>1, <2>2, BatchIsNext DEF Faithful
<1>9. CASE Exception
  <2>1. Held' \subseteq Held /\ seqOf' = seqOf /\ replaying' = {}
    BY <1>9 DEF Exception, Held, Placed, Serving, ledger
  <2> QED
    BY <2>1 DEF Faithful
<1>10. CASE MarkLocalOnly
  BY <1>10 DEF Faithful, Held, Rows, RowOf, MarkLocalOnly, control, Pending
<1>11. CASE LearnerExits
  BY <1>11 DEF Faithful, Held, Rows, RowOf, LearnerExits, ledger, control
<1>12. CASE DrainEnds
  <2>1. Insert(IdleMetrics[restarts + 1]) /\ IdleMetrics[restarts + 1] \in Events
        /\ Held' = Held /\ replaying' = {}
    BY <1>12, IdleIsEvent DEF DrainEnds, control, Events, Held, Placed
  <2> QED
    BY <2>1, InsertEffect DEF Faithful, SealedIsHeld, Replayed
<1>13. CASE FinalDrainEnds
  BY <1>13 DEF Faithful, Held, Rows, RowOf, FinalDrainEnds, ledger, control
<1>14. CASE FailureDrainEnds
  BY <1>14 DEF Faithful, Held, Rows, RowOf, FailureDrainEnds, ledger, control
<1>15. CASE Crash
  <2>1. Held' = {} /\ Rows' = {}
    BY <1>15 DEF Crash, Held, Rows
  <2> QED
    BY <2>1 DEF Faithful
<1>16. ASSUME NEW a \in {attempt, attempt + 1}, Restart(a) PROVE Faithful'
  <2>1. Held' = {} /\ Rows' = {}
    BY <1>16 DEF Restart, Held, Rows
  <2> QED
    BY <2>1 DEF Faithful
<1>17. ASSUME NEW s \in replaying, Replay(s) PROVE Faithful'
  <2>1. Replayed(s) \cap Rows = {} /\ Held' = Held \cup {s} /\ segments' = segments
        /\ replaying # {}
    BY <1>17 DEF Replay, Held, TypeOK
  <2>2. Rows' = Rows \cup Replayed(s) /\ \A d \in Rows : seqOf'[d] = seqOf[d]
    BY <1>17, ReplayEffect
  <2>3. \A r \in s.rows : seqOf'[r.event] = r.seq
    BY <1>17, <2>1, ReplayIsFaithful
  <2>4. \A t \in Held : \A r \in t.rows : seqOf'[r.event] = r.seq
    BY <2>2 DEF Faithful, SealedIsHeld, Replayed
  <2>5. s.rows \in SUBSET Row /\ s.rows \subseteq JournalRows(segments)
    BY DEF TypeOK, JournalRows
  <2>6. \A d \in Rows : RowOf(d)' \in JournalRows(segments)
    BY <2>2 DEF Faithful, RowOf
  <2>7. \A r \in s.rows : RowOf(r.event)' = r
    BY <2>3, <2>5 DEF RowOf, Row
  <2>8. \A d \in Replayed(s) : RowOf(d)' \in JournalRows(segments)
    BY <2>5, <2>7 DEF Replayed
  <2> QED
    BY <2>1, <2>2, <2>3, <2>4, <2>6, <2>8 DEF Faithful, JournalRows
<1>18. CASE Recovered
  BY <1>18 DEF Faithful, Held, Rows, RowOf, Recovered, ledger, control
<1>19. CASE UNCHANGED vars
  BY <1>19 DEF Faithful, Held, Rows, RowOf, vars, ledger, control
<1> QED
  BY <1>1, <1>2, <1>3, <1>4, <1>5, <1>6, <1>7, <1>8, <1>9, <1>10, <1>11, <1>12, <1>13, <1>14,
     <1>15, <1>16, <1>17, <1>18, <1>19 DEF Next

LEMMA SpentStays == ASSUME TypeOK, [Next]_vars, ~spent' PROVE ~spent
BY DEF TypeOK, Next, vars, Append, Publish, Settle, RecordMetrics, RestoreResult, SealPut,
   SealRecord,
       SealFails, Exception, MarkLocalOnly, LearnerExits, DrainEnds, FinalDrainEnds,
           FailureDrainEnds,
       Crash, Restart, Replay, Recovered, Insert

-----------------------------------------------------------------------------
LEMMA InitInductive == ASSUME JournalAssumption, Init PROVE IInv
<1>1. Safe
  <2>1. TypeOK
    <3>1. seqOf \in [Events -> Nat] /\ \A e \in Events : (seqOf[e] = 0) <=> (status[e] = "none")
      BY DEF Init
    <3>2. status \in [Events -> {"none", "pending", "published", "local_only"}]
      BY DEF Init
    <3>3. restarts \in 0..MaxRestarts /\ faults \in 0..MaxFaults
      BY DEF Init, JournalAssumption
    <3>4. segments \subseteq [attempt : Nat, rows : SUBSET Row] /\ replaying \subseteq segments
      BY DEF Init
    <3>5. verified \subseteq Results /\ logged \subseteq Row /\ settling \subseteq Results
          /\ restoring \subseteq Results /\ spent \in BOOLEAN
      BY DEF Init
    <3>6. next \in Nat \ {0} /\ high \in Nat /\ put \in Nat /\ attempt \in Nat
          /\ pc \in {"down", "recover", "run", "drain", "final", "failing", "failed", "done"}
      BY DEF Init
    <3> QED
      BY <3>1, <3>2, <3>3, <3>4, <3>5, <3>6 DEF TypeOK
  <2>2. Rows = {} /\ Held = {} /\ segments = {}
    BY DEF Init, Rows, Held
  <2>3. Sealing /\ SealedIsHeld /\ Marked
    BY <2>2 DEF Init, Sealing, SealedIsHeld, Marked
  <2>4. Placed /\ VerdictsRecorded /\ DrainIsComplete
    BY DEF Init, Placed, VerdictsRecorded, DrainIsComplete
  <2> QED
    BY <2>1, <2>3, <2>4 DEF Safe
<1>2. Numbered /\ Faithful
  BY DEF Init, Numbered, Faithful, Held, Rows
<1>3. Consistent
  <2>1. JournalRows(segments) = {} /\ segments = {}
    BY DEF Init, JournalRows
  <2> QED
    BY <2>1 DEF Consistent
<1> QED
  BY <1>1, <1>2, <1>3 DEF IInv, Gapless

LEMMA StepInductive == ASSUME JournalAssumption, IInv, [Next]_vars PROVE IInv'
<1>1. Safe'
  BY TypeStep, SealingStep, PlacedStep, MarkedStep, VerdictsStep, HeldStep, DrainStep DEF IInv,
     Safe
<1>2. ASSUME ~spent' PROVE (Numbered /\ Consistent /\ Faithful)'
  <2>1. Numbered /\ Consistent /\ Faithful
    BY <1>2, SpentStays DEF IInv, Safe, Gapless
  <2> QED
    BY <1>2, <2>1, NumberedStep, ConsistentStep, FaithfulStep DEF IInv, Safe
<1> QED
  BY <1>1, <1>2 DEF IInv, Gapless

LEMMA Inductive == ASSUME JournalAssumption PROVE Spec => []IInv
<1>1. Init => IInv
  BY InitInductive
<1>2. IInv /\ [Next]_vars => IInv'
  BY StepInductive
<1> QED
  BY <1>1, <1>2, PTL DEF Spec

-----------------------------------------------------------------------------
(* Every variable keeps its kind of value, and an event has a row exactly  *)
(* when it has a status.                                                   *)
THEOREM JournalTypeCorrect == ASSUME JournalAssumption PROVE Spec => []TypeOK
<1>1. IInv => TypeOK
  BY DEF IInv, Safe
<1> QED
  BY <1>1, Inductive, PTL

LEMMA SealedFollows == IInv => NothingSealedIsLost
<1>1. SUFFICES ASSUME IInv, pc \in {"run", "drain", "final", "failing", "failed", "done"},
                      NEW r \in JournalRows(segments)
               PROVE  r.event \in Rows
  BY DEF NothingSealedIsLost
<1>2. Held = segments
  BY <1>1 DEF IInv, Safe, Placed, Held
<1> QED
  BY <1>1, <1>2 DEF IInv, Safe, SealedIsHeld, Replayed, JournalRows

(* After recovery the ledger holds every event any Attempt ever sealed,    *)
(* whatever was put without being recorded and whenever the task died      *)
(* (metric_journal.py, supervisor_ledger.py).                              *)
THEOREM SealedEventsSurvive == ASSUME JournalAssumption PROVE Spec => []NothingSealedIsLost
<1> QED
  BY SealedFollows, Inductive, PTL

(* A drain that is reported complete left nothing unsealed, unpublished or *)
(* unrecorded (run_supervisor.py, selected_delivery.py).                   *)
THEOREM DrainsAreComplete == ASSUME JournalAssumption PROVE Spec => []DrainIsComplete
<1>1. IInv => DrainIsComplete
  BY DEF IInv, Safe
<1> QED
  BY <1>1, Inductive, PTL

LEMMA ReadableFollows == IInv => ReadableUnlessNumbersAreSpent
<1> DEFINE J == JournalRows(segments)
           S == {r.seq : r \in J}
<1>1. SUFFICES ASSUME IInv, ~spent PROVE Readable(segments)
  BY DEF ReadableUnlessNumbersAreSpent
<1>2. TypeOK /\ Consistent
  BY <1>1 DEF IInv, Safe, Gapless
<1>3. J \subseteq Row
  BY <1>2 DEF TypeOK, JournalRows
<1>4. \A r, q \in J : r.seq = q.seq => r.event = q.event
  BY <1>2 DEF Consistent
<1>5. S \in SUBSET (Nat \ {0})
  BY <1>2, <1>3 DEF Consistent, Row
<1>6. PICK b \in Nat : \A x \in S : x <= b
  BY <1>2 DEF Consistent
<1>7. \A x \in S : \A n \in 1..x : n \in S
  <2>1. ASSUME NEW r \in J, NEW n \in 1..r.seq PROVE n \in S
    <3>1. PICK s \in segments : r \in s.rows
      BY DEF JournalRows
    <3>2. PICK t \in segments : \E q \in t.rows : q.seq = n
      BY <1>2, <3>1 DEF Consistent
    <3> QED
      BY <3>2 DEF JournalRows
  <2> QED
    BY <2>1
<1> HIDE DEF S
<1>8. S = 1..Cardinality(S)
  BY <1>5, <1>6, <1>7, NoGap
<1> QED
  BY <1>4, <1>8 DEF S, Readable

(* Until a number is spent on an event that already has one, the segments  *)
(* of all Attempts form one sequence without gap or conflict               *)
(* (metric_journal.py, read_control_journal), at any time.                 *)
THEOREM JournalStaysReadable ==
  ASSUME JournalAssumption
  PROVE  Spec => []ReadableUnlessNumbersAreSpent
<1> QED
  BY ReadableFollows, Inductive, PTL

-----------------------------------------------------------------------------
(* Points at the service                                                   *)

(* What was published had been sealed before.                              *)
SealedFirst == logged \subseteq JournalRows(segments)

(* At W&B: a row shown as published is at the service, and so is           *)
(* everything in the journal up to the last point.                         *)
Arrived ==
  delivery = "wandb" =>
    /\ \A e \in Rows : status[e] = "published" => RowOf(e) \in logged
    /\ \A p \in logged, r \in JournalRows(segments) : r.seq <= p.seq => r \in logged

Kept == ~spent => Arrived

(* A point that was sealed has all its predecessors in the journal.        *)
LEMMA Predecessors ==
  ASSUME Consistent, TypeOK, NEW p \in JournalRows(segments), NEW n \in 1..p.seq
  PROVE  \E r \in JournalRows(segments) : r.seq = n
<1>1. PICK s \in segments : p \in s.rows
  BY DEF JournalRows
<1>2. PICK t \in segments : \E q \in t.rows : q.seq = n
  BY <1>1 DEF Consistent
<1> QED
  BY <1>2 DEF JournalRows

(* While the supervisor serves, the journal's rows are the ledger's.       *)
LEMMA JournalIsInLedger ==
  ASSUME TypeOK, Placed, SealedIsHeld, Faithful, Serving, NEW r \in JournalRows(segments)
  PROVE  r.event \in Rows /\ seqOf[r.event] = r.seq /\ r = RowOf(r.event)
<1>1. Held = segments
  BY DEF Held, Placed, Serving
<1>2. PICK s \in segments : r \in s.rows
  BY DEF JournalRows
<1>3. r \in Row
  BY <1>2 DEF TypeOK
<1>4. r.event \in Rows /\ seqOf[r.event] = r.seq
  BY <1>1, <1>2 DEF SealedIsHeld, Faithful, Replayed
<1> QED
  BY <1>3, <1>4 DEF RowOf, Row

(* A point W&B has passed is one it has.                                   *)
LEMMA PassedIsLogged ==
  ASSUME TypeOK, Placed, SealedIsHeld, Numbered, Consistent, Faithful, SealedFirst, Arrived,
         delivery = "wandb", Serving, NEW e \in Rows, seqOf[e] <= RemoteHighWater
  PROVE  RowOf(e) \in logged
<1> DEFINE S == {0} \cup {p.seq : p \in logged}
<1>1. e \in Events /\ seqOf[e] \in Nat \ {0}
  BY DEF Rows, TypeOK
<1>2. S \in SUBSET Nat /\ S # {}
  BY DEF TypeOK, Row
<1>3. PICK b \in Nat : \A x \in S : x <= b
  BY DEF Consistent, SealedFirst
<1>4. Max(S) \in S
  BY <1>2, <1>3, Highest
<1>5. PICK p \in logged : p.seq = RemoteHighWater
  BY <1>1, <1>4 DEF RemoteHighWater
<1>6. p \in JournalRows(segments) /\ p.seq \in Nat
  BY DEF SealedFirst, TypeOK, Row
<1>7. seqOf[e] \in 1..p.seq
  BY <1>1, <1>5, <1>6
<1>8. PICK r \in JournalRows(segments) : r.seq = seqOf[e]
  BY <1>6, <1>7, Predecessors
<1>9. r = RowOf(e)
  BY <1>8, JournalIsInLedger DEF Numbered
<1> QED
  BY <1>5, <1>7, <1>8, <1>9 DEF Arrived

LEMMA PublishArrives ==
  ASSUME TypeOK, Placed, Marked, SealedIsHeld, Numbered, Consistent, Faithful, SealedFirst,
         Arrived, delivery = "wandb", NEW e \in Events, Publish(e)
  PROVE  Arrived'
<1>1. Serving /\ e \in Rows /\ e \in Pending /\ \A d \in Pending : seqOf[e] <= seqOf[d]
  BY DEF Publish, Pending
<1>2. /\ UNCHANGED <<segments, seqOf, delivery>> /\ Rows' = Rows
      /\ \A d \in Rows : status'[d] = status[d] \/ d = e
      /\ \A d \in Events : RowOf(d)' = RowOf(d)
  BY DEF Publish, control, Rows, TypeOK, RowOf
<1>3. logged \subseteq logged' /\ logged' \subseteq logged \cup {RowOf(e)}
  BY DEF Publish, Deliver, RowOf
<1>4. RowOf(e) \in logged'
  <2>1. CASE seqOf[e] <= RemoteHighWater
    BY <1>1, <1>3, <2>1, PassedIsLogged
  <2>2. CASE ~(seqOf[e] <= RemoteHighWater)
    BY <2>2 DEF Publish, Deliver, RowOf
  <2> QED
    BY <2>1, <2>2
<1>5. \A d \in Rows' : status'[d] = "published" => RowOf(d)' \in logged'
  BY <1>1, <1>2, <1>3, <1>4 DEF Arrived, Rows
<1>6. ASSUME NEW p \in logged', NEW r \in JournalRows(segments), r.seq <= p.seq
      PROVE  r \in logged'
  <2>1. CASE p \in logged
    BY <1>3, <1>6, <2>1 DEF Arrived
  <2>2. CASE p = RowOf(e)
    <3>1. r.event \in Rows /\ seqOf[r.event] = r.seq /\ r = RowOf(r.event)
      BY <1>1, JournalIsInLedger
    <3>2. r.seq <= seqOf[e]
      BY <1>6, <2>2 DEF RowOf
    <3>3. CASE r.event \in Pending
      <4>1. seqOf[e] <= r.seq /\ r.seq \in Nat /\ seqOf[e] \in Nat
        BY <1>1, <3>1, <3>3 DEF TypeOK, Rows
      <4>2. r.event = e
        BY <1>1, <3>1, <3>2, <4>1 DEF Numbered
      <4> QED
        BY <1>4, <3>1, <4>2
    <3>4. CASE r.event \notin Pending
      <4>1. status[r.event] = "published"
        BY <3>1, <3>4 DEF Pending, Marked, TypeOK, Rows
      <4> QED
        BY <1>3, <3>1, <4>1 DEF Arrived
    <3> QED
      BY <3>3, <3>4
  <2> QED
    BY <1>3, <2>1, <2>2
<1> QED
  BY <1>2, <1>5, <1>6 DEF Arrived

(* A segment has no row below a point that was not sealed before.          *)
LEMMA SealArrives ==
  ASSUME JournalAssumption, TypeOK, Sealing, Placed, SealedIsHeld, Numbered, Consistent,
         Faithful, SealedFirst, Arrived, Serving, put = 0, Unsealed # {},
         segments' = segments \cup {Added}, UNCHANGED <<logged, seqOf, status, delivery>>
  PROVE  Arrived'
<1>1. ASSUME NEW p \in logged, NEW r \in BatchRows, r.seq <= p.seq PROVE r \in JournalRows(segments)
  <2>1. r.event \in Rows /\ seqOf[r.event] = r.seq /\ r = RowOf(r.event)
    <3>1. Added \in segments \cup {Added} /\ Added.rows = BatchRows
      BY DEF Added
    <3>2. r.event \in Rows /\ seqOf[r.event] = r.seq
      BY <3>1, BatchIsNext
    <3> QED
      BY <3>2 DEF BatchRows, RowOf
  <2>2. p \in JournalRows(segments) /\ p.seq \in Nat /\ r.seq \in Nat \ {0}
    BY <2>1 DEF SealedFirst, TypeOK, Row, Rows
  <2>3. PICK q \in JournalRows(segments) : q.seq = r.seq
    <3>1. r.seq \in 1..p.seq
      BY <1>1, <2>2
    <3> QED
      BY <2>2, <3>1, Predecessors
  <2>4. q.event \in Rows /\ seqOf[q.event] = q.seq /\ q = RowOf(q.event)
    BY JournalIsInLedger
  <2> QED
    BY <2>1, <2>3, <2>4 DEF Numbered
<1>2. ASSUME NEW r \in JournalRows(segments)' PROVE r \in JournalRows(segments) \cup BatchRows
  <2>1. PICK s \in segments' : r \in s.rows
    BY DEF JournalRows
  <2>2. s \in segments \/ s.rows = BatchRows
    BY DEF Added
  <2> QED
    BY <2>1, <2>2 DEF JournalRows
<1>3. Rows' = Rows /\ \A d \in Rows : RowOf(d)' = RowOf(d)
  BY DEF Rows, RowOf
<1> QED
  BY <1>1, <1>2, <1>3 DEF Arrived

(* A step that neither publishes nor seals leaves the points, the journal  *)
(* and the published rows that remain as they are.                         *)
LEMMA ElseArrives ==
  ASSUME Arrived, UNCHANGED <<logged, segments, delivery>>,
         delivery = "wandb" => \A e \in Rows' : status'[e] = "published" =>
           e \in Rows /\ status[e] = "published" /\ seqOf'[e] = seqOf[e]
  PROVE  Arrived'
BY DEF Arrived, RowOf

LEMMA InsertArrives ==
  ASSUME TypeOK, Arrived, NEW e \in Events, Insert(e), UNCHANGED <<logged, segments, delivery>>
  PROVE  Arrived'
<1> QED
  BY InsertEffect, ElseArrives

LEMMA ArrivedStep ==
  ASSUME JournalAssumption, Safe, Numbered, Consistent, Faithful, SealedFirst, Arrived,
         [Next]_vars
  PROVE  Arrived'
<1> USE DEF Safe
<1>1. CASE delivery # "wandb"
  BY <1>1 DEF Arrived, Next, vars, control, Append, Publish, Settle, RecordMetrics,
     RestoreResult, SealPut, SealRecord, SealFails, Exception, MarkLocalOnly, LearnerExits,
     DrainEnds, FinalDrainEnds, FailureDrainEnds, Crash, Restart, Replay, Recovered
<1>2. ASSUME NEW e \in Events, Publish(e), delivery = "wandb" PROVE Arrived'
  BY <1>2, PublishArrives
<1>3. ASSUME NEW e \in Events,
             \/ Append(e)
             \/ e \in Results /\ (RecordMetrics(e) \/ RestoreResult(e))
             \/ DrainEnds /\ e = IdleMetrics[restarts + 1]
      PROVE  Arrived'
  BY <1>3, InsertArrives DEF Append, RecordMetrics, RestoreResult, DrainEnds, control
<1>4. CASE SealPut \/ \E stored \in BOOLEAN : SealFails(stored)
  <2>1. Serving /\ put = 0 /\ Unsealed # {} /\ UNCHANGED <<logged, seqOf, status, delivery>>
        /\ (segments' = segments \/ segments' = segments \cup {Added})
    BY <1>4, SegmentOfBatch DEF SealPut, SealFails, Added, Idle, ledger, control
  <2>2. CASE segments' = segments
    BY <2>1, <2>2, ElseArrives DEF Rows
  <2> QED
    BY <2>1, <2>2, SealArrives
<1>5. CASE Crash \/ \E a \in {attempt, attempt + 1} : Restart(a)
  <2>1. Rows' = {} /\ UNCHANGED <<logged, segments, delivery>>
    BY <1>5 DEF Crash, Restart, Rows
  <2> QED
    BY <2>1, ElseArrives
<1>6. ASSUME NEW s \in replaying, Replay(s) PROVE Arrived'
  <2>1. UNCHANGED <<logged, segments, delivery>>
    BY <1>6 DEF Replay
  <2> QED
    BY <1>6, <2>1, ReplayEffect, ElseArrives
<1>7. CASE MarkLocalOnly
  BY <1>7 DEF MarkLocalOnly, Arrived, control
<1>8. CASE \/ \E r \in Results : Settle(r)
           \/ SealRecord \/ Exception \/ LearnerExits \/ FinalDrainEnds
           \/ FailureDrainEnds \/ Recovered \/ UNCHANGED vars
  <2>1. UNCHANGED <<logged, segments, delivery, seqOf, status>>
    BY <1>8 DEF Settle, SealRecord, Exception, LearnerExits, FinalDrainEnds, FailureDrainEnds,
       Recovered, vars, ledger, control
  <2> QED
    BY <2>1, ElseArrives DEF Rows
<1>9. Results \subseteq Events /\ IdleMetrics[restarts + 1] \in Events
  BY IdleIsEvent DEF Events
<1> QED
  BY <1>1, <1>2, <1>3, <1>4, <1>5, <1>6, <1>7, <1>8, <1>9 DEF Next

(* Were a row sealed before it is published, no event would have a second  *)
(* point and W&B would drop none, until a number is spent: both need the   *)
(* order of run_supervisor.py, which publishes more often than it seals,   *)
(* or a spent number (the finding journal_dropped is the former).          *)
THEOREM SealedFirstLosesNothing ==
  ASSUME JournalAssumption
  PROVE  Spec /\ []SealedFirst => [](~spent => NoSecondPoint /\ NoPointIsDropped)
<1>1. Init => Kept
  BY DEF Init, Kept, Arrived, Rows
<1>2. IInv /\ Kept /\ SealedFirst /\ [Next]_vars => Kept'
  BY ArrivedStep, SpentStays DEF IInv, Gapless, Safe, Kept
<1>3. IInv /\ Kept /\ SealedFirst => (~spent => NoSecondPoint /\ NoPointIsDropped)
  <2> SUFFICES ASSUME IInv, Arrived, SealedFirst, ~spent PROVE NoSecondPoint /\ NoPointIsDropped
    BY DEF Kept
  <2>1. NoSecondPoint
    BY DEF IInv, Gapless, Consistent, SealedFirst, NoSecondPoint
  <2>2. ASSUME pc = "done", delivery = "wandb", NEW e \in Rows
        PROVE  \E p \in logged : p.event = e
    <3>1. RowOf(e) \in logged
      BY <2>2 DEF IInv, Safe, DrainIsComplete, Arrived
    <3> QED
      BY <3>1 DEF RowOf
  <2> QED
    BY <2>1, <2>2 DEF NoPointIsDropped, Delivered
<1> QED
  BY <1>1, <1>2, <1>3, Inductive, PTL DEF Spec
=============================================================================
