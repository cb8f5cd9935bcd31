----------------------- MODULE CheckpointEvaluationProofs -----------------------
(* Theorems about CheckpointEvaluation for every set of Checkpoints and    *)
(* every number of retries and faults, with their proofs.                  *)
EXTENDS CheckpointEvaluation, WellFoundedInduction, TLAPS

(* The supervisor is between the steps of the row of c.                    *)
InRow(c, steps) == at.todo # {} /\ c = Current /\ at.step \in steps

(* The ledger knows what the bucket says of c: it does not in a process    *)
(* that has yet to recover the row, nor in the failure drain, where an     *)
(* exception may have come between a document and its record.              *)
Rebuilt(c) ==
  \/ mode \in {"active", "drain"}
  \/ mode = "recover" /\ (c \in at.todo => c = Current /\ at.step # "row")

(* The documents of one evaluation: an attempt is prepared before it is    *)
(* called, and after the deadline of the one before it.                    *)
Documents ==
  \A c \in Checkpoints :
    /\ \A a \in Attempts :
         /\ call[c][a] # "none" => deadline[c][a] # "none"
         /\ deadline[c][a] # "none" =>
              c \in intents /\ \A b \in Attempts : b < a => deadline[c][b] = "late"
    /\ result[c] # None =>
         /\ deadline[c][result[c].attempt] # "none"
         /\ result[c].status = "expired" => deadline[c][result[c].attempt] = "late"
    /\ verified[c] # None => c \in intents

(* The phases a supervisor can be in, and the steps of a row in them.      *)
Placed ==
  /\ mode \in {"down", "ended"} => at = Idle
  /\ at.phase = "recover" => mode = "recover"
  /\ mode = "recover" => at.phase \in {"recover", "end"}
  /\ at.phase = "defer" => mode = "failing"
  /\ at.phase \in {"promote", "finish"} => mode = "drain" /\ AllSettled
  /\ mode = "failing" => closed
  /\ at.phase = "submit" => ~closed
  /\ at.phase \in {"begin", "end", "promote", "finish"} => at.todo = {}
  /\ at.todo = {} => at.step = "row"
  /\ at.step = "intent" => at.phase = "publish" /\ Current \in published
  /\ at.step = "observe" => at.phase = "recover"
  /\ at.step \in {"spawn", "dispatch"} => at.phase = "submit"
  /\ at.step = "unseen" => at.phase \in {"poll", "cancel", "defer", "settle", "settle again"}
  /\ at.step = "verified" => at.phase \notin {"publish", "submit"} /\ verified[Current] # None
  /\ at.step = "unseen" /\ at.phase = "poll" => Late(Current)

(* The rows a phase has left.                                              *)
Queued ==
  \A c \in at.todo :
    /\ at.phase = "publish" => c \notin intents
    /\ at.phase = "recover" => row[c].status \in {"pending", "submitted"}
    /\ at.phase \in {"cancel", "observe", "defer"} => row[c].status \in {"pending", "submitted"}
    /\ at.phase = "poll" => row[c].status = "submitted"
    /\ at.phase \in {"settle", "submit", "settle again"} => row[c].status = "pending"

(* A row of the ledger in relation to the documents.                       *)
RecordOf(c) ==
  /\ row[c].status = "absent" => row[c].attempt = 0
  /\ row[c].status # "absent" => c \in intents
  /\ row[c].status \in Terminal => verified[c] = row[c].status
  /\ row[c].status = "pending" =>
       \A a \in Attempts : a <= row[c].attempt => deadline[c][a] = "late"
  /\ mode # "failing" /\ row[c].status = "deferred" => row[c].attempt = 0
  /\ Rebuilt(c) => \A a \in Attempts :
       deadline[c][a] # "none" <=>
         a <= row[c].attempt \/ (InRow(c, {"spawn", "dispatch"}) /\ a = row[c].attempt + 1)
  /\ Rebuilt(c) /\ verified[c] # None =>
       row[c].status = verified[c] \/ InRow(c, {"verified"})
  /\ InRow(c, {"spawn"}) => call[c][row[c].attempt + 1] = "none"

Recorded == \A c \in Checkpoints : RecordOf(c)

(* An acceptance closes admission as soon as it is recorded.               *)
Admission ==
  Running /\ HasAcceptedEval => closed \/ (at.step = "verified"
      /\ verified[Current] = "accepted")

(* Once a Checkpoint is promoted every evaluation that was ever prepared   *)
(* has its verdict.                                                        *)
Promoted ==
  promotion # None =>
    /\ promotion \in Checkpoints /\ verified[promotion] = "accepted"
    /\ \A c \in Checkpoints : verified[c] = None => \A a \in Attempts : deadline[c][a] = "none"

IInv == TypeOK /\ Documents /\ Placed /\ Queued /\ Recorded /\ Admission /\ Promoted

-----------------------------------------------------------------------------
(* Sets of numbers.                                                        *)

LEMMA MinIs ==
  ASSUME NEW S \in SUBSET Int, NEW m \in S, \A x \in S : m <= x
  PROVE  Min(S) = m
<1>1. \E x \in S : \A y \in S : x <= y
  OBVIOUS
<1>2. Min(S) \in S /\ \A y \in S : Min(S) <= y
  BY <1>1, Zenon DEF Min
<1>3. m \in Int /\ Min(S) \in Int /\ m <= Min(S) /\ Min(S) <= m
  BY <1>2
<1> QED
  BY <1>3

LEMMA MaxIs ==
  ASSUME NEW S \in SUBSET Int, NEW m \in S, \A x \in S : x <= m
  PROVE  Max(S) = m
<1>1. \E x \in S : \A y \in S : x >= y
  OBVIOUS
<1>2. Max(S) \in S /\ \A y \in S : Max(S) >= y
  BY <1>1, Zenon DEF Max
<1>3. m \in Int /\ Max(S) \in Int /\ m >= Max(S) /\ Max(S) >= m
  BY <1>2
<1> QED
  BY <1>3

LEMMA Lowest ==
  ASSUME NEW S \in SUBSET Nat, S # {}
  PROVE  Min(S) \in S /\ \A x \in S : Min(S) <= x
<1>1. PICK m \in S : \A x \in S : ~(<<x, m>> \in OpToRel(<, Nat))
  BY NatLessThanWellFounded, WFMin
<1>2. \A x \in S : ~(x < m)
  BY <1>1, Zenon DEF OpToRel
<1>3. \A x \in S : m <= x
  BY <1>2
<1> QED
  BY <1>3, MinIs

-----------------------------------------------------------------------------
(* The position of the supervisor.                                         *)

Later == {"cancel", "observe", "settle", "submit", "poll", "settle again"}
Positions == [phase : Later \cup {"publish", "begin", "end", "recover", "defer", "promote", "finish"},
              todo : SUBSET Checkpoints, step : Steps]

LEMMA PhaseNames ==
  /\ DOMAIN Phases = 1..7 /\ Len(Phases) = 7
  /\ Phases[1] = "publish" /\ \A i \in 2..7 : Phases[i] \in Later
  /\ \A p \in Later \cup {"publish"} : \E i \in 1..7 : Phases[i] = p
<1>1. DOMAIN Phases = 1..7 /\ Len(Phases) = 7
  BY DEF Phases
<1>2. /\ Phases[1] = "publish" /\ Phases[2] = "cancel" /\ Phases[3] = "observe"
      /\ Phases[4] = "settle" /\ Phases[5] = "submit" /\ Phases[6] = "poll"
      /\ Phases[7] = "settle again"
  BY DEF Phases
<1>3. \A i \in 2..7 : i = 2 \/ i = 3 \/ i = 4 \/ i = 5 \/ i = 6 \/ i = 7
  OBVIOUS
<1>4. \A i \in 2..7 : Phases[i] \in Later
  BY <1>2, <1>3 DEF Later
<1>5. \A p \in Later \cup {"publish"} : \E i \in 1..7 : Phases[i] = p
  <2>1. 1 \in 1..7 /\ 2 \in 1..7 /\ 3 \in 1..7 /\ 4 \in 1..7 /\ 5 \in 1..7 /\ 6 \in 1..7
        /\ 7 \in 1..7
    OBVIOUS
  <2> QED
    BY <1>2, <2>1, Zenon DEF Later
<1> QED
  BY <1>1, <1>2, <1>4, <1>5

LEMMA TypeOfAt == TypeOK => at \in Positions
<1>1. {Phases[i] : i \in DOMAIN Phases} \subseteq Later \cup {"publish"}
  <2>1. \A i \in 1..7 : i = 1 \/ i \in 2..7
    OBVIOUS
  <2> QED
    BY <2>1, PhaseNames
<1> QED
  BY <1>1 DEF TypeOK, Positions

LEMMA AtIsTyped ==
  ASSUME NEW p \in Positions
  PROVE  p \in [phase : {Phases[i] : i \in DOMAIN Phases}
                          \cup {"begin", "end", "recover", "defer", "promote", "finish"},
                todo : SUBSET Checkpoints, step : Steps]
<1>1. Later \cup {"publish"} \subseteq {Phases[i] : i \in DOMAIN Phases}
  BY PhaseNames
<1> QED
  BY <1>1 DEF Positions

LEMMA IdleIsPosition ==
  Idle \in Positions /\ Idle.todo = {} /\ Idle.step = "row" /\ Idle.phase = "begin"
BY DEF Idle, Positions, Steps

LEMMA CurrentIsQueued ==
  ASSUME TypeOK, at.todo # {}
  PROVE  Current \in at.todo /\ Current \in Checkpoints
<1>1. at.todo \in SUBSET Checkpoints /\ Checkpoints \subseteq Nat
  BY EvaluationAssumption, TypeOfAt DEF Positions
<1>2. \A S \in SUBSET at.todo : S # {} => Min(S) \in S
  BY <1>1, Lowest
<1> QED
  BY <1>1, <1>2 DEF Current

(* What a phase finds when it starts.                                      *)
LEMMA WorklistFits ==
  ASSUME TypeOK, NEW p \in Later \cup {"publish"}, NEW ledger, NEW shut, NEW cancel
  PROVE  /\ Worklist(p, ledger, shut, cancel) \in SUBSET Checkpoints
         /\ \A c \in Worklist(p, ledger, shut, cancel) :
              /\ p = "publish" => c \in saved \ published
              /\ p \in {"cancel", "observe"} => ledger[c].status \in {"pending", "submitted"}
              /\ p = "poll" => ledger[c].status = "submitted"
              /\ p \in {"settle", "submit", "settle again"} => ledger[c].status = "pending"
              /\ p = "submit" => ~shut
BY DEF Worklist, Rows, Later, TypeOK

(* The next phase with work, or the end of the iteration.                  *)
Starts(pos, ledger, shut, cancel) ==
  \/ pos.phase = "end" /\ pos.todo = {}
  \/ pos.phase \in Later \cup {"publish"}
       /\ pos.todo = Worklist(pos.phase, ledger, shut, cancel)
       /\ pos.todo # {}

LEMMA PhaseAfterStarts ==
  ASSUME TypeOK, NEW n \in 0..7, NEW ledger, NEW shut, NEW cancel
  PROVE  LET pos == PhaseAfter(n, ledger, shut, cancel)
         IN  /\ pos \in Positions /\ pos.step = "row" /\ Starts(pos, ledger, shut, cancel)
             /\ n # 0 => pos.phase # "publish"
<1> DEFINE pos == PhaseAfter(n, ledger, shut, cancel)
           busy == {i \in n + 1 .. Len(Phases) : Worklist(Phases[i], ledger, shut, cancel) # {}}
<1>1. CASE busy = {}
  <2>1. pos = [Idle EXCEPT !.phase = "end"]
    BY <1>1 DEF PhaseAfter
  <2> QED
    BY <2>1 DEF Idle, Positions, Steps, Starts
<1>2. CASE busy # {}
  <2>1. busy \in SUBSET Nat
    BY PhaseNames
  <2>2. Min(busy) \in busy
    BY <1>2, <2>1, Lowest
  <2>3. PICK i \in n + 1 .. 7 : i = Min(busy) /\ Worklist(Phases[i], ledger, shut, cancel) # {}
    BY <2>2, PhaseNames
  <2>4. pos = [phase |-> Phases[i], todo |-> Worklist(Phases[i], ledger, shut, cancel), step |-> "row"]
    BY <1>2, <2>3 DEF PhaseAfter
  <2>5. (i = 1 /\ n = 0) \/ i \in 2..7
    OBVIOUS
  <2>6. Phases[i] \in Later \cup {"publish"} /\ (n # 0 => Phases[i] \in Later)
    BY <2>5, PhaseNames
  <2>7. Worklist(Phases[i], ledger, shut, cancel) \in SUBSET Checkpoints
    BY <2>6, WorklistFits
  <2>8. "publish" \notin Later
    BY DEF Later
  <2>9. pos \in Positions /\ pos.step = "row"
    BY <2>4, <2>6, <2>7 DEF Positions, Steps
  <2>10. Starts(pos, ledger, shut, cancel)
    <3> HIDE DEF pos
    <3>1. pos.phase = Phases[i] /\ pos.todo = Worklist(Phases[i], ledger, shut, cancel)
      BY <2>4
    <3>2. pos.phase = Phases[i] /\ pos.todo = Worklist(Phases[i], ledger, shut, cancel)
          /\ pos.todo # {}
      BY <2>3, <3>1, Zenon
    <3> QED
      BY <2>6, <3>2 DEF Starts
  <2>11. n # 0 => pos.phase # "publish"
    BY <2>4, <2>6, <2>8
  <2> HIDE DEF pos
  <2> QED
    BY <2>9, <2>10, <2>11 DEF pos
<1> QED
  BY <1>1, <1>2

LEMMA NextRowEffect ==
  ASSUME TypeOK, at.todo # {}, NEW ledger, NEW shut, NextRow(ledger, shut),
         at.phase \in Later \cup {"publish", "recover", "defer"}
  PROVE  /\ at' \in Positions /\ at'.step = "row"
         /\ \/ at'.phase = at.phase /\ at'.todo = at.todo \ {Current} /\ at'.todo # {}
            \/ at'.phase = "end" /\ at'.todo = {}
            \/ /\ at.phase \notin {"recover", "defer"} /\ at'.phase \in Later
               /\ at'.todo = Worklist(at'.phase, ledger, shut, canceled) /\ at'.todo # {}
<1> DEFINE rest == at.todo \ {Current}
           done == [Idle EXCEPT !.phase = "end"]
           n == CHOOSE i \in DOMAIN Phases : Phases[i] = at.phase
<1>1. at \in Positions
  BY TypeOfAt
<1>2. CASE rest # {}
  <2>1. at' = [at EXCEPT !.todo = rest, !.step = "row"]
    BY <1>2 DEF NextRow
  <2> QED
    BY <1>1, <1>2, <2>1 DEF Positions, Steps
<1>3. CASE rest = {} /\ at.phase \in {"recover", "defer"}
  <2>1. at' = done
    BY <1>3 DEF NextRow
  <2> QED
    BY <2>1 DEF Positions, Steps, Idle
<1>4. CASE rest = {} /\ at.phase \notin {"recover", "defer"}
  <2>1. at' = PhaseAfter(n, ledger, shut, canceled)
    BY <1>4 DEF NextRow
  <2>2. n \in 1..7
    BY <1>4, PhaseNames
  <2>3. PICK k \in 1..7 : k = n
    BY <2>2
  <2> HIDE DEF n
  <2>4. k \in 0..7 /\ k # 0 /\ at' = PhaseAfter(k, ledger, shut, canceled)
    BY <2>1, <2>3
  <2> QED
    BY <1>4, <2>4, PhaseAfterStarts DEF Starts
<1> QED
  BY <1>2, <1>3, <1>4

-----------------------------------------------------------------------------
(* A row that is in hand, and the next one.                                *)

LEMMA Busy ==
  ASSUME TypeOK, Placed, at.todo # {}
  PROVE  /\ Current \in at.todo /\ Current \in Checkpoints
         /\ at.phase \in Later \cup {"publish", "recover", "defer"}
         /\ mode \in {"recover", "active", "drain", "failing"}
<1>1. at \in Positions
  BY TypeOfAt
<1>2. at.phase \in Later \cup {"publish", "recover", "defer"}
  BY <1>1 DEF Positions, Placed
<1>3. mode \in {"recover", "active", "drain", "failing"}
  BY IdleIsPosition DEF Placed, TypeOK
<1> QED
  BY <1>2, <1>3, CurrentIsQueued

LEMMA NextRowKeeps ==
  ASSUME TypeOK, Placed, Queued, at.todo # {}, NextRow(row', closed'),
         mode' = mode, canceled' = canceled,
         \A d \in at.todo : d # Current => row'[d] = row[d],
         \A d \in intents' : d \in intents \/ d = Current,
         closed => closed', at.phase = "submit" => closed' = closed
  PROVE  /\ at' \in Positions /\ at'.step = "row"
         /\ Placed' /\ Queued'
         /\ \A c \in Checkpoints : Rebuilt(c)' => Rebuilt(c) \/ (mode = "recover"
              /\ c = Current)
<1>1. at.phase \in Later \cup {"publish", "recover", "defer"} /\ mode \notin {"down", "ended"}
  BY Busy
<1>2. /\ at' \in Positions /\ at'.step = "row"
      /\ \/ at'.phase = at.phase /\ at'.todo = at.todo \ {Current} /\ at'.todo # {}
         \/ at'.phase = "end" /\ at'.todo = {}
         \/ /\ at.phase \notin {"recover", "defer"} /\ at'.phase \in Later
            /\ at'.todo = Worklist(at'.phase, row', closed', canceled) /\ at'.todo # {}
  BY <1>1, NextRowEffect
<1>3. CASE at'.phase = at.phase /\ at'.todo = at.todo \ {Current} /\ at'.todo # {}
  <2>1. Placed'
    <3>1. at'.phase \in Later \cup {"publish", "recover", "defer"}
          /\ mode' \notin {"down", "ended"}
      BY <1>1, <1>3
    <3>2. at'.phase \notin {"begin", "end", "promote", "finish"}
      BY <3>1 DEF Later
    <3>3. /\ at'.phase = "recover" => mode' = "recover"
          /\ mode' = "recover" => at'.phase \in {"recover", "end"}
          /\ at'.phase = "defer" => mode' = "failing"
      BY <1>3 DEF Placed
    <3>4. mode' = "failing" => closed'
      BY <1>3 DEF Placed
    <3>5. at'.phase = "submit" => ~closed'
      BY <1>3 DEF Placed
    <3> QED
      BY <1>2, <1>3, <3>1, <3>2, <3>3, <3>4, <3>5 DEF Placed
  <2>2. Queued'
    BY <1>3 DEF Queued
  <2>3. \A c \in Checkpoints : Rebuilt(c)' => Rebuilt(c) \/ (mode = "recover" /\ c = Current)
    BY <1>2, <1>3 DEF Rebuilt
  <2> QED
    BY <1>2, <2>1, <2>2, <2>3
<1>4. CASE at'.phase = "end" /\ at'.todo = {}
  <2>1. Placed'
    BY <1>1, <1>2, <1>4 DEF Placed
  <2>2. Queued'
    BY <1>4 DEF Queued
  <2>3. at.todo = {Current} \/ at.phase \notin {"recover", "defer"}
    BY <1>4 DEF NextRow
  <2>4. \A c \in Checkpoints : Rebuilt(c)' => Rebuilt(c) \/ (mode = "recover" /\ c = Current)
    BY <1>1, <1>4, <2>3 DEF Rebuilt, Placed
  <2> QED
    BY <1>2, <2>1, <2>2, <2>4
<1>5. CASE /\ at.phase \notin {"recover", "defer"} /\ at'.phase \in Later
           /\ at'.todo = Worklist(at'.phase, row', closed', canceled) /\ at'.todo # {}
  <2>1. \A c \in at'.todo :
          /\ at'.phase \in {"cancel", "observe"} => row'[c].status \in {"pending", "submitted"}
          /\ at'.phase = "poll" => row'[c].status = "submitted"
          /\ at'.phase \in {"settle", "submit", "settle again"} => row'[c].status = "pending"
          /\ at'.phase = "submit" => ~closed'
    <3> DEFINE p == at'.phase  w == at'.todo
    <3>1. p \in Later \cup {"publish"} /\ w = Worklist(p, row', closed', canceled)
      BY <1>5
    <3> HIDE DEF p, w
    <3>2. \A c \in w :
            /\ p \in {"cancel", "observe"} => row'[c].status \in {"pending", "submitted"}
            /\ p = "poll" => row'[c].status = "submitted"
            /\ p \in {"settle", "submit", "settle again"} => row'[c].status = "pending"
            /\ p = "submit" => ~closed'
      BY <3>1 DEF Worklist, Rows, Later
    <3> QED
      BY <3>2 DEF p, w
  <2>2. mode # "recover"
    BY <1>1, <1>5 DEF Placed, Later
  <2>3. Placed'
    BY <1>1, <1>2, <1>5, <2>1, <2>2 DEF Placed, Later
  <2>4. Queued'
    BY <1>5, <2>1 DEF Queued, Later
  <2>5. \A c \in Checkpoints : Rebuilt(c)' => Rebuilt(c)
    BY <2>2 DEF Rebuilt
  <2> QED
    BY <1>2, <2>3, <2>4, <2>5
<1> QED
  BY <1>2, <1>3, <1>4, <1>5

LEMMA RaiseEffect ==
  ASSUME TypeOK, Placed, Raise
  PROVE  \/ /\ mode \in {"active", "drain"} /\ mode' = "failing" /\ at' = Idle /\ closed' = TRUE
            /\ learner' = FALSE /\ UNCHANGED <<row, canceled, saved, outcome>>
         \/ Gone("ended") /\ outcome' = "resumable_failure"
BY DEF Raise

LEMMA GoneEffect ==
  ASSUME NEW to \in {"ended", "down"}, Gone(to)
  PROVE  /\ mode' = to /\ at' = Idle
         /\ row' \in [Checkpoints -> [status : Settled \cup {"absent", "pending", "submitted"},
                                      attempt : 0..MaxAttempts]]
         /\ \A c \in Checkpoints : row'[c].status = "absent" /\ row'[c].attempt = 0
         /\ closed' = FALSE /\ canceled' = FALSE /\ learner' = FALSE /\ saved' = {}
BY DEF Gone, NoRow, MaxAttempts

LEMMA SameRow ==
  ASSUME at'.todo = at.todo, at'.phase = at.phase, row' = row \/ at.phase # "observe"
  PROVE  Current' = Current
BY Zenon DEF Current, Rows

LEMMA StepEffect ==
  ASSUME TypeOK, NEW s \in Steps, Step(s), row' = row \/ at.phase # "observe"
  PROVE  /\ at' \in Positions /\ at'.todo = at.todo /\ at'.phase = at.phase /\ at'.step = s
         /\ Current' = Current
<1>1. at \in Positions
  BY TypeOfAt
<1>2. at' \in Positions /\ at'.todo = at.todo /\ at'.phase = at.phase /\ at'.step = s
  BY <1>1 DEF Step, Positions
<1> QED
  BY <1>2, SameRow

(* The supervisor goes on with the row in hand.                            *)
LEMMA StepKeeps ==
  ASSUME TypeOK, Placed, Queued, at.todo # {}, NEW s \in Steps, Step(s),
         mode' = mode, closed' = closed, intents' = intents,
         \/ row' = row
         \/ /\ at.phase = "recover" /\ row'[Current].status \in {"pending", "submitted"}
            /\ \A d \in Checkpoints : d # Current => row'[d] = row[d],
         s = "intent" => at.phase = "publish" /\ Current \in published',
         s = "observe" => at.phase = "recover",
         s \in {"spawn", "dispatch"} => at.phase = "submit",
         s = "unseen" => at.phase \in {"poll", "cancel", "defer", "settle", "settle again"},
         s = "verified" => at.phase \notin {"publish", "submit"} /\ verified'[Current] # None,
         s = "unseen" /\ at.phase = "poll" => Late(Current) /\ deadline' = deadline
             /\ row' = row
  PROVE  at' \in Positions /\ Placed' /\ Queued'
<1>1. /\ at' \in Positions /\ at'.todo = at.todo /\ at'.phase = at.phase /\ at'.step = s
      /\ Current' = Current
  BY StepEffect
<1>2. /\ Current \in at.todo /\ at.phase \in Later \cup {"publish", "recover", "defer"}
      /\ mode \in {"recover", "active", "drain", "failing"}
  BY Busy
<1>3. at'.phase \notin {"begin", "end", "promote", "finish"} /\ mode' \notin {"down", "ended"}
  BY <1>1, <1>2 DEF Later
<1>8. s = "intent" => (Current \in published)'
  BY <1>1
<1>4. s = "verified" => (verified[Current])' # None
  BY <1>1
<1>5. s = "unseen" /\ at.phase = "poll" => Late(Current)'
  BY <1>1 DEF Late
<1>6. Placed'
  <2>1. /\ at'.phase = "recover" => mode' = "recover"
        /\ mode' = "recover" => at'.phase \in {"recover", "end"}
        /\ at'.phase = "defer" => mode' = "failing"
    BY <1>1 DEF Placed
  <2>2. mode' = "failing" => closed'
    BY <1>1 DEF Placed
  <2>3. at'.phase = "submit" => ~closed'
    BY <1>1 DEF Placed
  <2> QED
    BY <1>1, <1>3, <1>4, <1>5, <1>8, <2>1, <2>2, <2>3 DEF Placed
<1>7. Queued'
  <2>1. CASE row' = row
    BY <1>1, <2>1 DEF Queued
  <2>2. CASE /\ at.phase = "recover" /\ row'[Current].status \in {"pending", "submitted"}
             /\ \A d \in Checkpoints : d # Current => row'[d] = row[d]
    <3>1. at.todo \subseteq Checkpoints
      BY TypeOfAt DEF Positions
    <3> QED
      BY <1>1, <2>2, <3>1 DEF Queued
  <2> QED
    BY <2>1, <2>2
<1> QED
  BY <1>1, <1>6, <1>7

(* The supervisor is between two iterations, or has ended.                 *)
LEMMA IdlePlaced ==
  ASSUME at' = Idle, mode' # "recover", mode' = "failing" => closed'
  PROVE  at' \in Positions /\ Placed' /\ Queued'
<1>1. at' \in Positions /\ at'.todo = {} /\ at'.step = "row" /\ at'.phase = "begin"
  BY IdleIsPosition
<1>2. Placed'
  BY <1>1 DEF Placed
<1>3. Queued'
  BY <1>1 DEF Queued
<1> QED
  BY <1>1, <1>2, <1>3

(* Something happens that is not a step of the supervisor.                 *)
LEMMA StaysPlaced ==
  ASSUME TypeOK, Placed, Queued, at' = at, row' = row, mode' = mode, closed' = closed,
         published' = published, intents' = intents, verified' = verified,
         \A c \in Checkpoints, a \in Attempts : deadline[c][a] = "late"
             => deadline'[c][a] = "late"
  PROVE  at' \in Positions /\ Placed' /\ Queued'
<1>1. at' \in Positions /\ Current' = Current
  BY TypeOfAt, SameRow
<1>2. AllSettled' = AllSettled
  BY DEF AllSettled
<1>3. ASSUME at.step = "unseen", at.phase = "poll" PROVE Late(Current)'
  <2>1. Current \in Checkpoints /\ Late(Current)
    BY <1>3, Busy DEF Placed
  <2>2. row[Current].attempt \in Attempts
    BY <2>1 DEF Late, TypeOK, Attempts, MaxAttempts
  <2> QED
    BY <1>1, <2>1, <2>2 DEF Late
<1>4. Placed'
  BY <1>1, <1>2, <1>3 DEF Placed
<1>5. Queued'
  BY DEF Queued
<1> QED
  BY <1>1, <1>4, <1>5

-----------------------------------------------------------------------------
(* The row in hand and its documents.                                      *)

LEMMA Rowed ==
  ASSUME TypeOK, Placed, Queued, Recorded, at.todo # {}, at.phase # "publish"
  PROVE  /\ Current \in Checkpoints /\ Current \in intents
         /\ row[Current].status \in {"pending", "submitted"}
         /\ at.phase \in {"submit", "settle", "settle again"} => row[Current].status = "pending"
         /\ row[Current].status = "pending" => row[Current].attempt < 2
         /\ row[Current].attempt \in 0..2
<1>1. /\ Current \in at.todo /\ Current \in Checkpoints
      /\ at.phase \in Later \cup {"publish", "recover", "defer"}
  BY Busy
<1>2. row[Current].status \in {"pending", "submitted"}
  BY <1>1 DEF Queued, Later
<1>3. Current \in intents
  BY <1>1, <1>2 DEF Recorded, RecordOf
<1>4. /\ row[Current].status = "pending" => row[Current].attempt < 2
      /\ row[Current].attempt \in 0..2
  BY <1>1 DEF TypeOK, Rows, MaxAttempts
<1>5. at.phase \in {"submit", "settle", "settle again"} => row[Current].status = "pending"
  BY <1>1 DEF Queued
<1> QED
  BY <1>1, <1>2, <1>3, <1>4, <1>5

(* In the submission phase the ledger is rebuilt and admission is open.    *)
LEMMA Submitting ==
  ASSUME TypeOK, Placed, at.todo # {}, at.phase = "submit"
  PROVE  mode \in {"active", "drain"} /\ ~closed
<1>1. mode \in {"recover", "active", "drain", "failing"}
  BY Busy
<1> QED
  BY <1>1 DEF Placed

(* A verdict is stored for the row in hand.                                *)
LEMMA VerdictEffect ==
  ASSUME TypeOK, Placed, ObserveResult \/ MarkExpired \/ CancelEval
  PROVE  /\ at.todo # {} /\ at.phase \notin {"publish", "submit"}
              /\ at.step \notin {"spawn", "dispatch"}
         /\ Step("verified") /\ verified[Current] = None
         /\ \E status \in Terminal : verified' = [verified EXCEPT ![Current] = status]
         /\ UNCHANGED <<published, intents, deadline, result, promotion, cancelAsked, outcome, call,
                        mode, row, closed, canceled, learner, saved, retries, faults>>
<1>1. /\ at.todo # {} /\ at.phase \notin {"publish", "submit"}
           /\ at.step \notin {"spawn", "dispatch"}
      /\ Step("verified") /\ verified[Current] = None
      /\ UNCHANGED <<published, intents, deadline, result, promotion, cancelAsked, outcome, call,
                     mode, row, closed, canceled, learner, saved, retries, faults>>
  BY DEF ObserveResult, MarkExpired, CancelEval, ObservesNow, MustExpire, At, Only, PutVerified
<1>2. Current \in Checkpoints
  BY <1>1, Busy
<1>3. ObserveResult => result[Current].status \in Terminal
  BY <1>2, EvaluationAssumption DEF ObserveResult, Verifiable, TypeOK, Terminal
<1>4. "expired" \in Terminal /\ "canceled" \in Terminal
  BY DEF Terminal
<1> QED
  BY <1>1, <1>3, <1>4 DEF ObserveResult, MarkExpired, CancelEval, PutVerified

(* The row in hand gets another status, and the next row is taken.         *)
LEMMA SetRowEffect ==
  ASSUME TypeOK, Placed, Queued, at.todo # {}, NEW status, NEW attempt,
         SetRow(Current, status, attempt, closed'), mode' = mode, canceled' = canceled,
         \A d \in intents' : d \in intents \/ d = Current,
         closed => closed', at.phase = "submit" => closed' = closed
  PROVE  /\ at' \in Positions /\ at'.step = "row" /\ Placed' /\ Queued'
         /\ row' = [row EXCEPT ![Current] = [status |-> status, attempt |-> attempt]]
         /\ row'[Current] = [status |-> status, attempt |-> attempt]
         /\ \A d \in Checkpoints : d # Current => row'[d] = row[d]
         /\ \A c \in Checkpoints : Rebuilt(c)' => Rebuilt(c) \/ (mode = "recover"
              /\ c = Current)
<1>1. /\ row' = [row EXCEPT ![Current] = [status |-> status, attempt |-> attempt]]
      /\ NextRow(row', closed')
  BY DEF SetRow
<1>2. Current \in Checkpoints /\ at.todo \subseteq Checkpoints
  BY Busy, TypeOfAt DEF Positions
<1>3. /\ row'[Current] = [status |-> status, attempt |-> attempt]
      /\ \A d \in Checkpoints : d # Current => row'[d] = row[d]
  BY <1>1, <1>2 DEF TypeOK
<1> QED
  BY <1>1, <1>2, <1>3, NextRowKeeps

-----------------------------------------------------------------------------
(* The position of the supervisor and the rows it has left.                *)

LEMMA PositionStep ==
  ASSUME IInv, [Next]_vars
  PROVE  at' \in Positions /\ Placed' /\ Queued'
<1> USE DEF IInv
<1>1. CASE Begin
  <2>1. PICK pos : pos = PhaseAfter(0, row, closed, canceled') /\ at' = pos
    BY <1>1 DEF Begin
  <2>2. /\ pos \in Positions /\ pos.step = "row" /\ Starts(pos, row, closed, canceled')
    BY <2>1, PhaseAfterStarts
  <2>3. mode' = mode /\ mode \in {"active", "drain", "failing"} /\ row' = row
        /\ closed' = closed
        /\ saved' = saved /\ published' = published /\ intents' = intents
    BY <1>1 DEF Begin, Only, bucket
  <2>4. CASE pos.phase = "end" /\ pos.todo = {}
    <3>1. Placed'
      BY <2>1, <2>2, <2>3, <2>4 DEF Placed
    <3> QED
      BY <2>1, <2>2, <2>4, <3>1 DEF Queued
  <2>5. CASE pos.phase \in Later \cup {"publish"} /\ pos.todo # {}
             /\ pos.todo = Worklist(pos.phase, row, closed, canceled')
    <3> DEFINE p == pos.phase  w == pos.todo
    <3>1. p \in Later \cup {"publish"} /\ w = Worklist(p, row, closed, canceled') /\ w # {}
      BY <2>5
    <3> HIDE DEF p, w
    <3>2. \A c \in w :
            /\ p = "publish" => c \notin published
            /\ p \in {"cancel", "observe"} => row[c].status \in {"pending", "submitted"}
            /\ p = "poll" => row[c].status = "submitted"
            /\ p \in {"settle", "submit", "settle again"} => row[c].status = "pending"
            /\ p = "submit" => ~closed
      BY <3>1 DEF Worklist, Rows, Later
    <3>3. at'.phase = p /\ at'.todo = w /\ at'.step = "row"
      BY <2>1, <2>2 DEF p, w
    <3>4. p \notin {"begin", "end", "promote", "finish", "recover", "defer"}
      BY <3>1 DEF Later
    <3>5. Placed'
      BY <2>3, <3>1, <3>2, <3>3, <3>4 DEF Placed
    <3>6. intents \subseteq published
      BY DEF TypeOK
    <3>7. Queued'
      BY <2>3, <3>2, <3>3, <3>4, <3>6 DEF Queued
    <3> QED
      BY <2>1, <2>2, <3>5, <3>7
  <2> QED
    BY <2>2, <2>4, <2>5 DEF Starts
<1>2. CASE PublishCheckpoint
  <2>1. /\ at.todo # {} /\ at.phase = "publish" /\ mode' = mode /\ row' = row
             /\ closed' = closed
        /\ canceled' = canceled /\ intents' = intents
    BY <1>2 DEF PublishCheckpoint, At, Only
  <2>2. NextRow(row', closed') \/ Step("intent")
    BY <1>2, <2>1 DEF PublishCheckpoint
  <2>3. Current \in published'
    BY <1>2 DEF PublishCheckpoint
  <2> QED
    BY <2>1, <2>2, <2>3, NextRowKeeps, StepKeeps DEF Steps
<1>3. CASE EnsureEval
  <2>1. /\ at.todo # {} /\ at.phase = "publish" /\ mode' = mode /\ closed' = closed
        /\ canceled' = canceled /\ intents' = intents \cup {Current}
        /\ SetRow(Current, "pending", 0, closed')
    BY <1>3 DEF EnsureEval, At, Only
  <2> QED
    BY <2>1, SetRowEffect
<1>4. CASE ObserveResult \/ MarkExpired \/ CancelEval
  <2>1. /\ at.todo # {} /\ Step("verified") /\ mode' = mode /\ row' = row /\ closed' = closed
        /\ intents' = intents /\ at.phase \notin {"publish", "submit"}
    BY <1>4, VerdictEffect
  <2>2. verified'[Current] # None
    BY <1>4, <2>1, Busy, VerdictEffect, NoneAssumption DEF TypeOK
  <2> QED
    BY <2>1, <2>2, StepKeeps DEF Steps
<1>5. CASE ObserveNothing
  <2>1. /\ at.todo # {} /\ mode' = mode /\ closed' = closed /\ canceled' = canceled
        /\ row' = row /\ intents' = intents /\ deadline' = deadline
        /\ at.phase \in {"observe", "poll", "cancel", "defer", "recover", "settle", "settle again"}
    BY <1>5 DEF ObserveNothing, ObservesNow, At, Only, bucket
  <2>2. \/ NextRow(row', closed')
        \/ /\ Step("unseen")
                /\ at.phase \in {"poll", "cancel", "defer", "settle", "settle again"}
           /\ at.phase = "poll" => Late(Current)
    BY <1>5, <2>1 DEF ObserveNothing
  <2> QED
    BY <2>1, <2>2, NextRowKeeps, StepKeeps DEF Steps
<1>6. CASE ResetExpiredEval \/ DeferClosed \/ ReconcileVerified \/ DeferFailed \/ MarkSubmitted
  <2>1. /\ at.todo # {} /\ mode' = mode /\ closed' = closed /\ canceled' = canceled
        /\ intents' = intents
    BY <1>6 DEF ResetExpiredEval, DeferClosed, ReconcileVerified, DeferFailed, MarkSubmitted,
       At,
                Only, bucket
  <2>2. PICK status, attempt : SetRow(Current, status, attempt, closed')
    BY <1>6, <2>1 DEF ResetExpiredEval, DeferClosed, ReconcileVerified, DeferFailed,
       MarkSubmitted
  <2> QED
    BY <2>1, <2>2, SetRowEffect
<1>7. CASE MarkTerminal
  <2>1. /\ at.todo # {} /\ at.step = "verified" /\ mode' = mode /\ canceled' = canceled
        /\ intents' = intents /\ closed' = (closed \/ verified[Current] = "accepted")
        /\ SetRow(Current, verified[Current], row[Current].attempt, closed')
    BY <1>7 DEF MarkTerminal, Only, bucket
  <2>2. at.phase # "submit"
    BY <2>1 DEF Placed
  <2>3. closed => closed'
    BY <2>1
  <2> QED
    BY <2>1, <2>2, <2>3, SetRowEffect
<1>8. CASE VerdictConflict \/ IncompleteEvidence \/ Exception
  <2>1. Raise
    BY <1>8 DEF VerdictConflict, IncompleteEvidence, Exception
  <2> QED
    BY <2>1, IdlePlaced DEF Raise, Gone
<1>9. CASE PrepareAttempt
  <2>1. /\ at.todo # {} /\ at.phase = "submit" /\ mode' = mode /\ closed' = closed
        /\ canceled' = canceled /\ intents' = intents
        /\ SetRow(Current, "submitted", NextAttempt, closed') \/ (Step("spawn") /\ row' = row)
    BY <1>9 DEF PrepareAttempt, At, Only
  <2> QED
    BY <2>1, SetRowEffect, StepKeeps DEF Steps
<1>10. CASE SpawnWorker
  <2>1. /\ at.todo # {} /\ at.phase = "submit" /\ mode' = mode /\ closed' = closed
        /\ intents' = intents /\ Step("dispatch") /\ row' = row
    BY <1>10 DEF SpawnWorker, At, bucket
  <2> QED
    BY <2>1, StepKeeps DEF Steps
<1>11. CASE EndActive
  <2>1. at' = Idle /\ mode' \in {"active", "drain"}
    BY <1>11 DEF EndActive
  <2> QED
    BY <2>1, IdlePlaced
<1>12. CASE EndDrain
  <2>1. mode' = mode /\ mode = "drain" /\ row' = row
    BY <1>12 DEF EndDrain, Only
  <2>2. CASE ~Converged
    BY <1>12, <2>1, <2>2, IdlePlaced DEF EndDrain
  <2>3. CASE Converged
    <3>1. at' = [Idle EXCEPT !.phase = "promote"]
      BY <1>12, <2>3 DEF EndDrain
    <3>2. at' \in Positions /\ at'.phase = "promote" /\ at'.todo = {} /\ at'.step = "row"
      BY <3>1 DEF Idle, Positions, Steps
    <3>3. AllSettled'
      BY <2>1, <2>3 DEF Converged, AllSettled
    <3>4. Placed'
      BY <2>1, <3>2, <3>3 DEF Placed
    <3> QED
      BY <3>2, <3>4 DEF Queued
  <2> QED
    BY <2>2, <2>3
<1>13. CASE EndFailing
  <2>1. CASE at' = Idle /\ UNCHANGED <<mode, row, closed, canceled, learner, saved, outcome>>
    BY <1>13, <2>1, IdlePlaced DEF Placed, EndFailing
  <2>2. CASE Gone("ended")
    BY <2>2, IdlePlaced DEF Gone
  <2>3. CASE /\ Rows(row, {"pending", "submitted"}) # {}
             /\ at' = [phase |-> "defer", todo |-> Rows(row, {"pending", "submitted"}), step |-> "row"]
             /\ UNCHANGED <<mode, row, closed, canceled, learner, saved, outcome>>
    <3>1. mode' = "failing" /\ closed' /\ row' = row
      BY <1>13, <2>3 DEF EndFailing, Placed
    <3>2. /\ at'.todo \in SUBSET Checkpoints /\ at'.todo # {}
          /\ \A c \in at'.todo : row[c].status \in {"pending", "submitted"}
      BY <2>3 DEF Rows
    <3>3. at' \in Positions /\ at'.phase = "defer" /\ at'.step = "row"
      BY <2>3, <3>2 DEF Positions, Steps
    <3>4. Placed'
      BY <3>1, <3>2, <3>3 DEF Placed
    <3>5. Queued'
      BY <3>1, <3>2, <3>3 DEF Queued
    <3> QED
      BY <3>3, <3>4, <3>5
  <2> QED
    BY <1>13, <2>1, <2>2, <2>3 DEF EndFailing
<1>14. CASE CreatePromotion \/ SkipPromotion
  <2>1. /\ mode' = mode /\ mode = "drain" /\ row' = row /\ at.phase = "promote"
        /\ at' = [Idle EXCEPT !.phase = "finish"]
    BY <1>14 DEF CreatePromotion, SkipPromotion, Only
  <2>2. at' \in Positions /\ at'.phase = "finish" /\ at'.todo = {} /\ at'.step = "row"
    BY <2>1 DEF Idle, Positions, Steps
  <2>3. AllSettled'
    BY <2>1 DEF Placed, AllSettled
  <2>4. Placed'
    BY <2>1, <2>2, <2>3 DEF Placed
  <2> QED
    BY <2>2, <2>4 DEF Queued
<1>15. CASE Finish \/ Crash
  BY <1>15, IdlePlaced DEF Finish, Crash, Gone
<1>16. CASE RecoverEval
  <2>1. /\ at.todo # {} /\ at.phase = "recover" /\ mode' = mode /\ closed' = closed
        /\ canceled' = canceled /\ intents' = intents
    BY <1>16 DEF RecoverEval, At, Only, bucket
  <2>2. CASE \E status, attempt : SetRow(Current, status, attempt, closed')
    BY <2>1, <2>2, SetRowEffect
  <2>3. CASE /\ Step("observe")
             /\ \E last : \E status \in {"pending", "submitted"} :
                  row' = [row EXCEPT ![Current] = [status |-> status, attempt |-> last]]
    <3>1. PICK last : \E status \in {"pending", "submitted"} :
            row' = [row EXCEPT ![Current] = [status |-> status, attempt |-> last]]
      BY <2>3
    <3>2. /\ row'[Current].status \in {"pending", "submitted"}
          /\ \A d \in Checkpoints : d # Current => row'[d] = row[d]
      BY <2>1, <3>1, Busy DEF TypeOK
    <3> QED
      BY <2>1, <2>3, <3>2, StepKeeps DEF Steps
  <2> QED
    BY <1>16, <2>1, <2>2, <2>3 DEF RecoverEval
<1>17. CASE Recovered
  BY <1>17, IdlePlaced DEF Recovered
<1>18. CASE \/ \E c \in Checkpoints : LearnerSaves(c)
            \/ LearnerExits \/ CancelRequest \/ CancelSignal
            \/ \E c \in Checkpoints, a \in Attempts :
                 \/ AttemptExpires(c, a)
                 \/ \E status \in WorkerVerdicts \cup {"expired"} : WorkerAnswers(c, a, status)
            \/ UNCHANGED vars
  <2>1. /\ at' = at /\ row' = row /\ mode' = mode /\ closed' = closed /\ published' = published
        /\ intents' = intents
        /\ verified' = verified
    BY <1>18 DEF LearnerSaves, LearnerExits, CancelRequest, CancelSignal, AttemptExpires,
                 WorkerAnswers, vars, Only, bucket, process
  <2>2. \A c \in Checkpoints, a \in Attempts : deadline[c][a] = "late"
        => deadline'[c][a] = "late"
    <3>1. CASE deadline' = deadline
      BY <3>1
    <3>2. ASSUME NEW c \in Checkpoints, NEW a \in Attempts, AttemptExpires(c, a)
          PROVE  \A d \in Checkpoints, b \in Attempts : deadline[d][b] = "late"
                 => deadline'[d][b] = "late"
      BY <3>2 DEF AttemptExpires, TypeOK
    <3> QED
      BY <1>18, <3>1, <3>2 DEF LearnerSaves, LearnerExits, CancelRequest, CancelSignal,
                              WorkerAnswers, vars, Only, bucket
  <2> QED
    BY <2>1, <2>2, StaysPlaced
<1>19. CASE PublishFails
  <2>1. /\ at.todo # {} /\ at.phase = "publish" /\ mode' = mode /\ row' = row
             /\ closed' = closed
        /\ canceled' = canceled /\ intents' = intents /\ NextRow(row', closed')
    BY <1>19 DEF PublishFails, At, bucket
  <2> QED
    BY <2>1, NextRowKeeps
<1>20. CASE Restart
  <2> DEFINE known == intents' \cap published
  <2>1. /\ mode' = "recover"
        /\ row' = [c \in Checkpoints |->
                     IF c \in known THEN [status |-> "pending", attempt |-> 0] ELSE NoRow]
        /\ at' = IF known = {} THEN [Idle EXCEPT !.phase = "end"]
                 ELSE [phase |-> "recover", todo |-> known, step |-> "row"]
    BY <1>20 DEF Restart, RecoverInventory
  <2>2. known \in SUBSET Checkpoints
    BY DEF TypeOK
  <2> HIDE DEF known
  <2>3. at' \in Positions /\ at'.step = "row"
        /\ \/ at'.phase = "end" /\ at'.todo = {}
           \/ at'.phase = "recover" /\ at'.todo = known /\ known # {}
    BY <2>1, <2>2 DEF Idle, Positions, Steps
  <2>4. Placed'
    BY <2>1, <2>3 DEF Placed
  <2>5. Queued'
    BY <2>1, <2>2, <2>3 DEF Queued
  <2> QED
    BY <2>3, <2>4, <2>5
<1> QED
  BY <1>1, <1>2, <1>3, <1>4, <1>5, <1>6, <1>7, <1>8, <1>9, <1>10, <1>11, <1>12, <1>13, <1>14,
     <1>15, <1>16, <1>17, <1>18, <1>19, <1>20 DEF Next, Supervisor, Environment

-----------------------------------------------------------------------------
(* Type correctness.                                                       *)

RowType == [status : Settled \cup {"absent", "pending", "submitted"}, attempt : 0..MaxAttempts]
Ledger(r) ==
  r \in [Checkpoints -> RowType] /\ \A c \in Checkpoints : r[c].status = "pending"
      => r[c].attempt < 2

LEMMA LedgerTyped == TypeOK => Ledger(row)
BY DEF TypeOK, Ledger, RowType, Rows, MaxAttempts

LEMMA LedgerEmpty == Ledger([c \in Checkpoints |-> NoRow])
BY DEF Ledger, RowType, NoRow, MaxAttempts

LEMMA LedgerUpdate ==
  ASSUME Ledger(row), NEW c \in Checkpoints,
         NEW status \in Settled \cup {"pending", "submitted"},
         NEW attempt \in 0..2, status = "pending" => attempt < 2,
         row' = [row EXCEPT ![c] = [status |-> status, attempt |-> attempt]]
  PROVE  Ledger(row')
BY DEF Ledger, RowType, MaxAttempts

(* What an action leaves to show once the position is known to be one.     *)
LEMMA TypeFollows ==
  ASSUME at' \in Positions, Ledger(row'),
         published' \subseteq Checkpoints, intents' \subseteq published',
         deadline' \in [Checkpoints -> [Attempts -> {"none", "live", "late"}]],
         result' \in [Checkpoints ->
           {None} \cup [attempt : Attempts, status : WorkerVerdicts \cup {"expired"}]],
         verified' \in [Checkpoints -> Terminal \cup {None}],
         promotion' \in Checkpoints \cup {None},
         cancelAsked' \in BOOLEAN,
         outcome' \in {"none", "resumable_failure", "succeeded", "failed", "canceled"},
         call' \in [Checkpoints -> [Attempts -> {"none", "called", "inTime", "answered"}]],
         mode' \in {"down", "recover", "active", "drain", "failing", "ended"},
         closed' \in BOOLEAN, canceled' \in BOOLEAN, learner' \in BOOLEAN,
         saved' \subseteq Checkpoints,
         retries' \in 0..MaxRetries, faults' \in 0..MaxFaults
  PROVE  TypeOK'
<1>1. at' \in [phase : {Phases[i] : i \in DOMAIN Phases}
                         \cup {"begin", "end", "recover", "defer", "promote", "finish"},
               todo : SUBSET Checkpoints, step : Steps]
  BY AtIsTyped
<1>2. row' \in [Checkpoints -> RowType]
      /\ \A c \in Rows(row', {"pending"}) : row'[c].attempt < MaxAttempts
  BY DEF Ledger, Rows, MaxAttempts
<1> QED
  BY <1>1, <1>2 DEF TypeOK, RowType

LEMMA LastPrepared ==
  ASSUME NEW c
  PROVE  LET last == Max({a \in Attempts : deadline[c][a] # "none"} \cup {0})
         IN  /\ last \in 0..2
             /\ last # 0 => deadline[c][last] # "none"
             /\ \A a \in Attempts : deadline[c][a] # "none" => a <= last
<1> DEFINE S == {a \in Attempts : deadline[c][a] # "none"} \cup {0}
<1>1. S \in SUBSET Int
  BY DEF Attempts
<1>2. \E m \in S : \A x \in S : x <= m
  BY DEF Attempts, MaxAttempts
<1>3. PICK m \in S : \A x \in S : x <= m
  BY <1>2
<1>4. Max(S) = m
  BY <1>1, <1>3, MaxIs
<1> QED
  BY <1>3, <1>4 DEF Attempts, MaxAttempts

LEMMA TypeStep ==
  ASSUME IInv, [Next]_vars
  PROVE  TypeOK'
<1>1. /\ TypeOK /\ Placed /\ Queued /\ Recorded /\ Ledger(row)
  BY LedgerTyped DEF IInv
<1>2. at' \in Positions
  BY PositionStep
<1> USE DEF TypeOK
<1>3. CASE Begin \/ PublishCheckpoint \/ EndActive \/ EndDrain \/ EndFailing
        \/ SkipPromotion \/ Recovered
  <2>1. /\ row' = row \/ row' = [c \in Checkpoints |-> NoRow]
        /\ UNCHANGED <<intents, deadline, result, verified, promotion, cancelAsked, call, retries, faults>>
    BY <1>3 DEF Begin, PublishCheckpoint, EndActive, EndDrain, EndFailing, SkipPromotion,
                Recovered, Gone, Only, bucket
  <2>2. /\ mode' \in {"down", "recover", "active", "drain", "failing", "ended"}
        /\ outcome' \in {"none", "resumable_failure", "succeeded", "failed", "canceled"}
    BY <1>1, <1>3 DEF Begin, PublishCheckpoint, EndActive, EndDrain, EndFailing, SkipPromotion,
                Recovered, Gone, Only, bucket
  <2>3. closed' \in BOOLEAN /\ canceled' \in BOOLEAN /\ learner' \in BOOLEAN
    BY <1>1, <1>3 DEF Begin, PublishCheckpoint, EndActive, EndDrain, EndFailing, SkipPromotion,
                Recovered, Gone, Only, bucket
  <2>4. saved' \subseteq Checkpoints
    BY <1>1, <1>3 DEF Begin, PublishCheckpoint, EndActive, EndDrain, EndFailing, SkipPromotion,
                Recovered, Gone, Only, bucket
  <2>5. published \subseteq published' /\ published' \subseteq Checkpoints
    <3>1. at.todo # {} => Current \in Checkpoints
      BY <1>1, Busy
    <3> QED
      BY <1>1, <1>3, <3>1 DEF Begin, PublishCheckpoint, EndActive, EndDrain, EndFailing,
                    SkipPromotion, Recovered, Only, bucket, At
  <2> QED
    BY <1>1, <1>2, <2>1, <2>2, <2>3, <2>4, <2>5, LedgerEmpty, TypeFollows
<1>4. CASE ObserveResult \/ MarkExpired \/ CancelEval
  <2>1. /\ UNCHANGED <<published, intents, deadline, result, promotion, cancelAsked, outcome, call,
                       mode, row, closed, canceled, learner, saved, retries, faults>>
        /\ \E status \in Terminal : verified' = [verified EXCEPT ![Current] = status]
    BY <1>1, <1>4, VerdictEffect
  <2>2. verified' \in [Checkpoints -> Terminal \cup {None}]
    BY <1>1, <2>1
  <2> QED
    BY <1>1, <1>2, <2>1, <2>2, TypeFollows
<1>5. CASE EnsureEval
  <2>1. /\ at.todo # {} /\ row' = [row EXCEPT ![Current] = [status |-> "pending", attempt |-> 0]]
        /\ at.phase = "publish" /\ intents' = intents \cup {Current}
        /\ UNCHANGED <<published, deadline, result, verified, promotion, cancelAsked, outcome, call,
                       mode, closed, canceled, learner, saved, retries, faults>>
    BY <1>5 DEF EnsureEval, SetRow, At, Only
  <2>2. Current \in published /\ Current \in Checkpoints
    BY <1>1, <1>5, <2>1, Busy DEF Placed, EnsureEval, At
  <2>3. Ledger(row')
    BY <1>1, <2>1, <2>2 DEF Ledger, RowType, MaxAttempts
  <2>4. published' \subseteq Checkpoints /\ intents' \subseteq published'
    BY <1>1, <2>1, <2>2
  <2>5. UNCHANGED <<deadline, result, verified, promotion, cancelAsked, outcome, call, mode, closed,
                    canceled, learner, saved, retries, faults>>
    BY <2>1
  <2> QED
    BY <1>1, <1>2, <2>3, <2>4, <2>5, TypeFollows
<1>6. CASE \/ ResetExpiredEval \/ DeferClosed \/ ReconcileVerified \/ DeferFailed
                \/ MarkSubmitted
           \/ MarkTerminal \/ PrepareAttempt \/ RecoverEval
  <2>1. /\ at.todo # {} /\ at.phase # "publish" /\ canceled' = canceled
        /\ UNCHANGED <<published, intents, result, verified, promotion, cancelAsked, outcome, call,
                       mode, canceled, learner, saved, retries, faults>>
    BY <1>1, <1>6 DEF ResetExpiredEval, DeferClosed, ReconcileVerified, DeferFailed,
       MarkSubmitted,
                MarkTerminal, PrepareAttempt, RecoverEval, At, Only, bucket, Placed
  <2>2. /\ Current \in Checkpoints /\ row[Current].attempt \in 0..2
        /\ at.phase \in {"submit", "settle", "settle again"} => row[Current].attempt < 2
    BY <1>1, <2>1, Rowed
  <2>3. closed' \in BOOLEAN
    BY <1>1, <1>6 DEF ResetExpiredEval, DeferClosed, ReconcileVerified, DeferFailed,
       MarkSubmitted,
                MarkTerminal, PrepareAttempt, RecoverEval, Only
  <2>4. deadline' \in [Checkpoints -> [Attempts -> {"none", "live", "late"}]]
    <3>1. CASE deadline' = deadline
      BY <1>1, <3>1
    <3>2. CASE deadline' = [deadline EXCEPT ![Current][NextAttempt] = "live"]
      BY <1>1, <3>2
    <3> QED
      BY <1>6, <3>1, <3>2 DEF ResetExpiredEval, DeferClosed, ReconcileVerified, DeferFailed,
                MarkSubmitted, MarkTerminal, PrepareAttempt, RecoverEval, Only, bucket
  <2>5. Ledger(row')
    <3>1. CASE row' = row
      BY <1>1, <3>1
    <3>2. CASE \E status \in Settled \cup {"pending", "submitted"}, attempt \in 0..2 :
                 /\ status = "pending" => attempt < 2
                 /\ row' = [row EXCEPT ![Current] = [status |-> status, attempt |-> attempt]]
      BY <1>1, <2>2, <3>2, LedgerUpdate
    <3>3. CASE ResetExpiredEval \/ DeferClosed \/ DeferFailed
      BY <2>2, <3>2, <3>3 DEF ResetExpiredEval, DeferClosed, DeferFailed, SetRow, MaxAttempts,
         Settled
    <3>4. CASE ReconcileVerified \/ MarkTerminal
      <4>1. verified[Current] \in Terminal
        BY <1>1, <2>2, <3>4 DEF ReconcileVerified, MarkTerminal, Placed
      <4> QED
        BY <2>2, <3>2, <3>4, <4>1 DEF ReconcileVerified, MarkTerminal, SetRow, Settled, Terminal
    <3>5. CASE MarkSubmitted \/ PrepareAttempt
      <4>1. NextAttempt \in 0..2
        <5>1. at.phase = "submit"
          BY <3>5 DEF MarkSubmitted, PrepareAttempt, At
        <5> QED
          BY <2>2, <5>1 DEF NextAttempt
      <4> QED
        BY <3>1, <3>2, <3>5, <4>1 DEF MarkSubmitted, PrepareAttempt, SetRow
    <3>6. CASE RecoverEval
      <4> DEFINE last == Max({a \in Attempts : deadline[Current][a] # "none"} \cup {0})
      <4>1. last \in 0..2
        BY LastPrepared
      <4>2. verified[Current] # None => verified[Current] \in Terminal
        BY <1>1, <2>2
      <4> HIDE DEF last
      <4>3. \E status \in Settled \cup {"pending", "submitted"} :
              /\ status = "pending" => last = 0
              /\ row' = [row EXCEPT ![Current] = [status |-> status, attempt |-> last]]
        BY <3>6, <4>2 DEF RecoverEval, SetRow, Settled, Terminal, last
      <4>4. PICK status \in Settled \cup {"pending", "submitted"} :
              /\ status = "pending" => last = 0
              /\ row' = [row EXCEPT ![Current] = [status |-> status, attempt |-> last]]
        BY <4>3
      <4>5. status = "pending" => last < 2
        BY <4>4
      <4> QED
        BY <1>1, <2>2, <4>1, <4>4, <4>5, LedgerUpdate
    <3> QED
      BY <1>6, <3>3, <3>4, <3>5, <3>6
  <2> QED
    BY <1>1, <1>2, <2>1, <2>3, <2>4, <2>5, TypeFollows
<1>7. CASE VerdictConflict \/ IncompleteEvidence \/ Exception
  <2>1. /\ UNCHANGED <<published, intents, deadline, result, verified, promotion, cancelAsked, call, retries>>
        /\ faults' \in 0..MaxFaults
    BY <1>1, <1>7, EvaluationAssumption DEF VerdictConflict, IncompleteEvidence, Exception, Only
  <2>2. \/ /\ mode' = "failing" /\ closed' = TRUE /\ learner' = FALSE
           /\ UNCHANGED <<row, canceled, saved, outcome>>
        \/ Gone("ended") /\ outcome' = "resumable_failure"
    BY <1>7 DEF VerdictConflict, IncompleteEvidence, Exception, Raise
  <2> QED
    BY <1>1, <1>2, <2>1, <2>2, LedgerEmpty, TypeFollows DEF Gone
<1>8. CASE SpawnWorker
  <2>1. /\ UNCHANGED <<bucket, mode, row, closed, canceled, learner, saved, retries, faults>>
        /\ call' = [call EXCEPT ![Current][NextAttempt] = "called"]
    BY <1>8 DEF SpawnWorker
  <2>2. call' \in [Checkpoints -> [Attempts -> {"none", "called", "inTime", "answered"}]]
    BY <1>1, <2>1
  <2> QED
    BY <1>1, <1>2, <2>1, <2>2, TypeFollows DEF bucket
<1>9. CASE CreatePromotion
  <2>1. /\ UNCHANGED <<published, intents, deadline, result, verified, cancelAsked, outcome, call,
                       mode, row, closed, canceled, learner, saved, retries, faults>>
        /\ promotion # None \/ Accepted # {}
        /\ promotion' = IF promotion # None THEN promotion ELSE Min(Accepted)
    BY <1>9 DEF CreatePromotion, Only
  <2>2. Accepted \in SUBSET Nat /\ Accepted \subseteq Checkpoints
    BY EvaluationAssumption DEF Accepted, Rows
  <2>3. promotion' \in Checkpoints \cup {None}
    BY <1>1, <2>1, <2>2, Lowest
  <2> QED
    BY <1>1, <1>2, <2>1, <2>3, TypeFollows
<1>10. CASE Finish \/ Crash
  <2>1. /\ UNCHANGED <<published, intents, deadline, result, verified, promotion, cancelAsked, call, retries>>
        /\ faults' \in 0..MaxFaults
        /\ outcome' \in {"none", "resumable_failure", "succeeded", "failed", "canceled"}
    BY <1>1, <1>10, EvaluationAssumption DEF Finish, Crash, Only, bucket
  <2>2. \E to \in {"ended", "down"} : Gone(to)
    BY <1>10 DEF Finish, Crash
  <2> QED
    BY <1>1, <1>2, <2>1, <2>2, LedgerEmpty, TypeFollows DEF Gone
<1>11. CASE \/ \E c \in Checkpoints : LearnerSaves(c)
            \/ LearnerExits \/ CancelRequest \/ CancelSignal \/ ObserveNothing
            \/ UNCHANGED vars
  <2>1. /\ UNCHANGED <<published, intents, deadline, result, verified, promotion, outcome, call,
                       mode, row, closed, retries, faults>>
        /\ cancelAsked' \in BOOLEAN /\ canceled' \in BOOLEAN /\ learner' \in BOOLEAN
        /\ saved' \subseteq Checkpoints
    BY <1>1, <1>11 DEF LearnerSaves, LearnerExits, CancelRequest, CancelSignal, ObserveNothing,
                 vars, Only, bucket, process
  <2> QED
    BY <1>1, <1>2, <2>1, TypeFollows
<1>12. ASSUME NEW c \in Checkpoints, NEW a \in Attempts, AttemptExpires(c, a)
       PROVE  TypeOK'
  <2>1. UNCHANGED <<published, intents, result, verified, promotion, cancelAsked, outcome, call,
                    process, retries, faults>>
    BY <1>12 DEF AttemptExpires
  <2>2. deadline' \in [Checkpoints -> [Attempts -> {"none", "live", "late"}]]
    BY <1>1, <1>12 DEF AttemptExpires
  <2> QED
    BY <1>1, <1>2, <2>1, <2>2, TypeFollows DEF process
<1>15. ASSUME NEW c \in Checkpoints, NEW a \in Attempts,
              NEW status \in WorkerVerdicts \cup {"expired"}, WorkerAnswers(c, a, status)
       PROVE  TypeOK'
  <2>1. UNCHANGED <<published, intents, deadline, verified, promotion, cancelAsked, outcome,
                    process, retries, faults>>
    BY <1>15 DEF WorkerAnswers
  <2>2. call' \in [Checkpoints -> [Attempts -> {"none", "called", "inTime", "answered"}]]
    BY <1>1, <1>15 DEF WorkerAnswers
  <2>3. result' \in [Checkpoints ->
           {None} \cup [attempt : Attempts, status : WorkerVerdicts \cup {"expired"}]]
    <3>1. result' = result
          \/ result' = [result EXCEPT ![c] = [attempt |-> a, status |-> status]]
      BY <1>15 DEF WorkerAnswers, Upload
    <3> QED
      BY <1>1, <3>1
  <2> QED
    BY <1>1, <1>2, <2>1, <2>2, <2>3, TypeFollows DEF process
<1>13. CASE PublishFails
  <2>1. /\ UNCHANGED <<bucket, call, mode, row, closed, canceled, learner, saved, retries>>
        /\ faults' \in 0..MaxFaults
    BY <1>1, <1>13, EvaluationAssumption DEF PublishFails
  <2> QED
    BY <1>1, <1>2, <2>1, TypeFollows DEF bucket
<1>14. CASE Restart
  <2>1. /\ UNCHANGED <<published, deadline, result, verified, promotion, outcome, call, faults>>
        /\ mode' = "recover" /\ canceled' = FALSE /\ learner' = FALSE /\ saved' = {}
    BY <1>14 DEF Restart
  <2>5. cancelAsked' \in BOOLEAN
    BY <1>1, <1>14 DEF Restart
  <2>6. retries' \in 0..MaxRetries
    BY <1>1, <1>14, EvaluationAssumption DEF Restart
  <2>2. closed' \in BOOLEAN
    BY <1>14 DEF Restart, RecoverInventory, HasAcceptedEval
  <2>3. intents' \subseteq published
    BY <1>1, <1>14 DEF Restart, RecoverInventory
  <2>4. Ledger(row')
    BY <1>14 DEF Restart, RecoverInventory, Ledger, RowType, NoRow, MaxAttempts
  <2> QED
    BY <1>1, <1>2, <2>1, <2>2, <2>3, <2>4, <2>5, <2>6, TypeFollows
<1> QED
  BY <1>3, <1>4, <1>5, <1>6, <1>7, <1>8, <1>9, <1>10, <1>11, <1>12, <1>13, <1>14, <1>15
     DEF Next, Supervisor, Environment

-----------------------------------------------------------------------------
(* The documents of the bucket.                                            *)

LEMMA DocumentsStep ==
  ASSUME IInv, [Next]_vars
  PROVE  Documents'
<1>1. /\ TypeOK /\ Documents /\ Placed /\ Queued /\ Recorded
  BY DEF IInv
<1>2. CASE intents \subseteq intents' /\ UNCHANGED <<call, deadline, result, verified>>
  BY <1>1, <1>2 DEF Documents
<1>3. CASE ObserveResult \/ MarkExpired \/ CancelEval
  <2>1. /\ UNCHANGED <<intents, call, deadline, result>>
        /\ at.todo # {} /\ at.phase # "publish"
        /\ \E status \in Terminal : verified' = [verified EXCEPT ![Current] = status]
    BY <1>1, <1>3, VerdictEffect
  <2>2. Current \in intents /\ \A c \in Checkpoints : c # Current => verified'[c] = verified[c]
    BY <1>1, <2>1, Rowed DEF TypeOK
  <2> QED
    BY <1>1, <2>1, <2>2 DEF Documents
<1>4. CASE PrepareAttempt
  <2>1. /\ UNCHANGED <<intents, call, result, verified>> /\ at.todo # {} /\ at.phase = "submit"
        /\ \/ deadline' = deadline
           \/ /\ deadline[Current][NextAttempt] = "none"
              /\ deadline' = [deadline EXCEPT ![Current][NextAttempt] = "live"]
    BY <1>4 DEF PrepareAttempt, At, Only
  <2>2. PICK c \in Checkpoints : c = Current
    BY <1>1, <2>1, Rowed
  <2>3. PICK n \in Attempts : n = NextAttempt /\ n = row[c].attempt + 1
    BY <1>1, <2>1, <2>2, Rowed DEF NextAttempt, Attempts, MaxAttempts
  <2>4. \A b \in Attempts : b < n => deadline[c][b] = "late"
    <3>1. row[c].status = "pending" /\ row[c].attempt \in 0..2
      BY <1>1, <2>1, <2>2, Rowed
    <3> QED
      BY <1>1, <2>3, <3>1 DEF Recorded, RecordOf, Attempts, MaxAttempts
  <2>5. c \in intents
    BY <1>1, <2>1, <2>2, Rowed
  <2>6. CASE deadline' = deadline
    BY <1>1, <2>1, <2>6 DEF Documents
  <2>7. CASE deadline[c][n] = "none" /\ deadline' = [deadline EXCEPT ![c][n] = "live"]
    <3>1. /\ deadline'[c][n] = "live"
          /\ \A d \in Checkpoints, a \in Attempts : d # c \/ a # n
               => deadline'[d][a] = deadline[d][a]
      BY <1>1, <2>7 DEF TypeOK
    <3>2. \A a \in Attempts : n < a => deadline[c][a] = "none"
      BY <1>1, <2>7 DEF Documents
    <3>3. \A d \in Checkpoints : result[d] # None => result[d].attempt \in Attempts
      BY <1>1 DEF TypeOK
    <3>4. \A d \in Checkpoints, a \in Attempts :
            /\ call[d][a] # "none" => deadline'[d][a] # "none"
            /\ deadline'[d][a] # "none" =>
                 d \in intents /\ \A b \in Attempts : b < a => deadline'[d][b] = "late"
      <4>1. \A a, b \in Attempts : a < b \/ b < a \/ a = b
        BY DEF Attempts, MaxAttempts
      <4> QED
        BY <1>1, <2>4, <2>5, <2>7, <3>1, <3>2, <4>1 DEF Documents
    <3>5. \A d \in Checkpoints : result[d] # None =>
            /\ deadline'[d][result[d].attempt] # "none"
            /\ result[d].status = "expired" => deadline'[d][result[d].attempt] = "late"
      BY <1>1, <2>7, <3>1, <3>3 DEF Documents
    <3> QED
      BY <1>1, <2>1, <3>4, <3>5 DEF Documents
  <2> QED
    BY <2>1, <2>2, <2>3, <2>6, <2>7
<1>5. CASE SpawnWorker
  <2>1. /\ UNCHANGED <<intents, deadline, result, verified>>
        /\ at.todo # {} /\ at.phase = "submit" /\ at.step = "spawn"
        /\ call' = [call EXCEPT ![Current][NextAttempt] = "called"]
    BY <1>5 DEF SpawnWorker, At, bucket
  <2>2. Current \in Checkpoints /\ row[Current].attempt \in 0..2 /\ row[Current].attempt < 2
    BY <1>1, <2>1, Rowed
  <2>3. NextAttempt \in Attempts /\ deadline[Current][NextAttempt] # "none"
    BY <1>1, <2>1, <2>2, Submitting
       DEF Recorded, RecordOf, Rebuilt, InRow, NextAttempt, Attempts, MaxAttempts
  <2>4. \A d \in Checkpoints, a \in Attempts :
          call'[d][a] = call[d][a] \/ (d = Current /\ a = NextAttempt)
    BY <1>1, <2>1, <2>2, <2>3 DEF TypeOK
  <2> QED
    BY <1>1, <2>1, <2>3, <2>4 DEF Documents
<1>6. ASSUME NEW c \in Checkpoints, NEW a \in Attempts, AttemptExpires(c, a)
      PROVE  Documents'
  <2>1. /\ UNCHANGED <<intents, call, result, verified>>
        /\ \A d \in Checkpoints, b \in Attempts :
             /\ deadline'[d][b] # "none" <=> deadline[d][b] # "none"
             /\ deadline[d][b] = "late" => deadline'[d][b] = "late"
    BY <1>1, <1>6 DEF AttemptExpires, TypeOK
  <2>2. \A d \in Checkpoints : result[d] # None => result[d].attempt \in Attempts
    BY <1>1 DEF TypeOK
  <2> QED
    BY <1>1, <2>1, <2>2 DEF Documents
<1>7. ASSUME NEW c \in Checkpoints, NEW a \in Attempts,
             NEW status \in WorkerVerdicts \cup {"expired"}, WorkerAnswers(c, a, status)
      PROVE  Documents'
  <2>1. /\ UNCHANGED <<intents, deadline, verified>> /\ call[c][a] = "called"
        /\ status = "expired" => deadline[c][a] = "late"
        /\ result' = result
             \/ result' = [result EXCEPT ![c] = [attempt |-> a, status |-> status]]
    BY <1>7 DEF WorkerAnswers, Upload
  <2>2. \A d \in Checkpoints, b \in Attempts : call'[d][b] # "none" => call[d][b] # "none"
    BY <1>1, <1>7 DEF WorkerAnswers, TypeOK
  <2>3. deadline[c][a] # "none"
    BY <1>1, <2>1 DEF Documents
  <2>4. \A d \in Checkpoints : result'[d] # None =>
          /\ deadline[d][result'[d].attempt] # "none"
          /\ result'[d].status = "expired" => deadline[d][result'[d].attempt] = "late"
    <3>1. CASE result' = result
      BY <1>1, <3>1 DEF Documents
    <3>2. CASE result' = [result EXCEPT ![c] = [attempt |-> a, status |-> status]]
      BY <1>1, <2>1, <2>3, <3>2 DEF Documents, TypeOK
    <3> QED
      BY <2>1, <3>1, <3>2
  <2> QED
    BY <1>1, <2>1, <2>2, <2>4 DEF Documents
<1>8. CASE Restart
  <2>1. intents \subseteq intents'
    BY <1>1, <1>8 DEF Restart, RecoverInventory, TypeOK
  <2> QED
    BY <1>2, <1>8, <2>1 DEF Restart
<1> QED
  BY <1>2, <1>3, <1>4, <1>5, <1>6, <1>7, <1>8
     DEF Next, Supervisor, Environment, vars, bucket, Only, Begin, PublishCheckpoint,
        EnsureEval,
         ObserveNothing, ResetExpiredEval, VerdictConflict, MarkTerminal, DeferClosed,
         ReconcileVerified, DeferFailed, MarkSubmitted, EndActive, EndDrain, EndFailing,
         CreatePromotion, SkipPromotion, IncompleteEvidence, Finish, RecoverEval, Recovered,
         LearnerSaves, LearnerExits, CancelRequest, CancelSignal, Exception, PublishFails, Crash

-----------------------------------------------------------------------------
(* The ledger and the documents.                                           *)

(* The rows that are not in hand.                                          *)
LEMMA OthersKeep ==
  ASSUME Recorded, NEW c \in Checkpoints, c # Current,
         at'.step = "row" \/ Current' = Current,
         row'[c] = row[c], deadline'[c] = deadline[c], verified'[c] = verified[c],
         call'[c] = call[c], intents \subseteq intents', mode' = mode,
         Rebuilt(c)' => Rebuilt(c)
  PROVE  RecordOf(c)'
<1>1. \A steps : ~InRow(c, steps)
  BY DEF InRow
<1>2. ~InRow(c, {"spawn", "dispatch"})' /\ ~InRow(c, {"verified"})' /\ ~InRow(c, {"spawn"})'
  BY DEF InRow
<1>3. RecordOf(c)
  BY DEF Recorded
<1> QED
  BY <1>1, <1>2, <1>3 DEF RecordOf

(* Nothing happens to the ledger and the documents.                        *)
LEMMA RecordedFrame ==
  ASSUME Recorded, row' = row, deadline' = deadline, verified' = verified, call' = call,
         intents \subseteq intents', mode = "failing" => mode' = "failing",
         at.step \notin {"spawn", "dispatch", "verified"},
         at'.step \notin {"spawn", "dispatch", "verified"},
         \A c \in Checkpoints : Rebuilt(c)' => Rebuilt(c)
  PROVE  Recorded'
<1>1. ASSUME NEW c \in Checkpoints PROVE RecordOf(c)'
  <2>1. ~InRow(c, {"spawn", "dispatch"}) /\ ~InRow(c, {"verified"}) /\ ~InRow(c, {"spawn"})
    BY DEF InRow
  <2>2. ~InRow(c, {"spawn", "dispatch"})' /\ ~InRow(c, {"verified"})' /\ ~InRow(c, {"spawn"})'
    BY DEF InRow
  <2>3. RecordOf(c) /\ (Rebuilt(c)' => Rebuilt(c))
    BY DEF Recorded
  <2> QED
    BY <2>1, <2>2, <2>3 DEF RecordOf
<1> QED
  BY <1>1 DEF Recorded

(* The process is gone, or an exception has left the loop.                 *)
LEMMA RecordedGone ==
  ASSUME Recorded, deadline' = deadline, verified' = verified, intents' = intents,
         \/ mode' \in {"ended", "down"} /\ row' = [c \in Checkpoints |-> NoRow]
         \/ mode' = "failing" /\ row' = row,
         at' = Idle
  PROVE  Recorded'
<1>1. ASSUME NEW c \in Checkpoints PROVE RecordOf(c)'
  <2>1. ~InRow(c, {"spawn", "dispatch"})' /\ ~InRow(c, {"verified"})' /\ ~InRow(c, {"spawn"})'
    BY IdleIsPosition DEF InRow
  <2>2. ~Rebuilt(c)'
    BY DEF Rebuilt
  <2>3. RecordOf(c)
    BY DEF Recorded
  <2>4. \/ row'[c].status = "absent" /\ row'[c].attempt = 0
        \/ row'[c] = row[c] /\ mode' = "failing"
    BY DEF NoRow
  <2> QED
    BY <2>1, <2>2, <2>3, <2>4 DEF RecordOf, Terminal
<1> QED
  BY <1>1 DEF Recorded

(* The row in hand is rewritten.                                           *)
LEMMA RecordedRow ==
  ASSUME TypeOK, Placed, Queued, Recorded, at.todo # {}, NEW status, NEW attempt,
         SetRow(Current, status, attempt, closed'), mode' = mode, canceled' = canceled,
         UNCHANGED <<deadline, verified, call>>,
         intents' = intents \cup {Current},
         closed => closed', at.phase = "submit" => closed' = closed,
         status # "absent",
         status \in Terminal => verified[Current] = status,
         status = "pending" =>
           \A a \in Attempts : a <= attempt => deadline[Current][a] = "late",
         mode # "failing" /\ status = "deferred" => attempt = 0,
         Rebuilt(Current) \/ mode = "recover" =>
           /\ \A a \in Attempts : deadline[Current][a] # "none" <=> a <= attempt
           /\ verified[Current] # None => status = verified[Current]
  PROVE  Recorded'
<1>1. /\ at'.step = "row" /\ row'[Current] = [status |-> status, attempt |-> attempt]
      /\ \A d \in Checkpoints : d # Current => row'[d] = row[d]
      /\ \A c \in Checkpoints : Rebuilt(c)' => Rebuilt(c) \/ (mode = "recover" /\ c = Current)
  BY SetRowEffect
<1>2. ASSUME NEW c \in Checkpoints, c # Current PROVE RecordOf(c)'
  BY <1>1, <1>2, OthersKeep
<1>3. ASSUME NEW c \in Checkpoints, c = Current PROVE RecordOf(c)'
  <2>1. ~InRow(c, {"spawn", "dispatch"})' /\ ~InRow(c, {"verified"})' /\ ~InRow(c, {"spawn"})'
    BY <1>1 DEF InRow
  <2>2. row'[c] = [status |-> status, attempt |-> attempt] /\ c \in intents'
    BY <1>1, <1>3
  <2>3. Rebuilt(c)' =>
           /\ \A a \in Attempts : deadline'[c][a] # "none" <=> a <= attempt
           /\ verified'[c] # None => status = verified'[c]
    BY <1>1, <1>3
  <2> QED
    BY <1>3, <2>1, <2>2, <2>3 DEF RecordOf
<1> QED
  BY <1>2, <1>3 DEF Recorded

(* Something happens that is not a step of the supervisor.                 *)
LEMMA StaysRecorded ==
  ASSUME TypeOK, Placed, Queued, Recorded, at' = at, row' = row, mode' = mode,
         intents' = intents, verified' = verified,
         \A c \in Checkpoints, a \in Attempts :
           /\ deadline'[c][a] # "none" <=> deadline[c][a] # "none"
           /\ deadline[c][a] = "late" => deadline'[c][a] = "late"
           /\ call[c][a] = "none" => call'[c][a] = "none"
  PROVE  Recorded'
<1>1. Current' = Current
  BY SameRow
<1>2. ASSUME NEW c \in Checkpoints PROVE RecordOf(c)'
  <2>1. /\ InRow(c, {"spawn", "dispatch"})' <=> InRow(c, {"spawn", "dispatch"})
        /\ InRow(c, {"verified"})' <=> InRow(c, {"verified"})
        /\ InRow(c, {"spawn"})' <=> InRow(c, {"spawn"})
        /\ Rebuilt(c)' <=> Rebuilt(c)
    BY <1>1 DEF InRow, Rebuilt
  <2>2. RecordOf(c)
    BY DEF Recorded
  <2>3. InRow(c, {"spawn"}) => row[c].attempt + 1 \in Attempts
    <3>1. ASSUME InRow(c, {"spawn"}) PROVE row[c].attempt \in 0..2 /\ row[c].attempt < 2
      <4>1. at.todo # {} /\ at.phase = "submit" /\ c = Current
        BY <3>1 DEF InRow, Placed
      <4> QED
        BY <4>1, Rowed
    <3> QED
      BY <3>1 DEF Attempts, MaxAttempts
  <2> QED
    BY <2>1, <2>2, <2>3 DEF RecordOf
<1> QED
  BY <1>2 DEF Recorded

(* What is recorded of the row in hand.                                    *)
LEMMA InHand ==
  ASSUME TypeOK, Placed, Queued, Recorded, at.todo # {}, at.phase # "publish"
  PROVE  /\ Current \in Checkpoints /\ RecordOf(Current)
         /\ row[Current].status \notin Terminal /\ row[Current].status # "absent"
         /\ intents = intents \cup {Current}
<1>1. Current \in Checkpoints /\ row[Current].status \in {"pending", "submitted"}
      /\ Current \in intents
  BY Rowed
<1> QED
  BY <1>1 DEF Recorded, Terminal

LEMMA RecordedStep ==
  ASSUME IInv, [Next]_vars
  PROVE  Recorded'
<1>1. /\ TypeOK /\ Documents /\ Placed /\ Queued /\ Recorded
  BY DEF IInv
<1>2. CASE Begin \/ EndActive \/ EndDrain \/ CreatePromotion \/ SkipPromotion \/ Recovered
  <2>1. at.todo = {} /\ at.step = "row"
    BY <1>1, <1>2 DEF Begin, EndActive, EndDrain, CreatePromotion, SkipPromotion, Recovered,
       Placed
  <2>2. /\ UNCHANGED <<row, deadline, verified, call, intents>>
        /\ mode = "failing" => mode' = "failing"
        /\ mode' \in {"active", "drain"} => mode \in {"active", "drain", "recover"}
        /\ mode' # "recover"
    BY <1>2 DEF Begin, EndActive, EndDrain, CreatePromotion, SkipPromotion, Recovered, Only,
       bucket
  <2>3. at'.step \notin {"spawn", "dispatch", "verified"}
    <3>1. CASE Begin
      BY <1>1, <3>1, PhaseAfterStarts DEF Begin
    <3>2. CASE ~Begin
      <4>1. \/ at' = Idle \/ at' = [Idle EXCEPT !.phase = "promote"]
            \/ at' = [Idle EXCEPT !.phase = "finish"]
        BY <1>2, <3>2 DEF EndActive, EndDrain, CreatePromotion, SkipPromotion, Recovered
      <4> QED
        BY <4>1 DEF Idle
    <3> QED
      BY <3>1, <3>2
  <2>4. \A c \in Checkpoints : Rebuilt(c)' => Rebuilt(c)
    BY <2>1, <2>2 DEF Rebuilt
  <2> QED
    BY <1>1, <2>1, <2>2, <2>3, <2>4, RecordedFrame
<1>3. CASE PublishCheckpoint \/ PublishFails
  <2>1. /\ at.todo # {} /\ at.phase = "publish" /\ at.step = "row" /\ mode # "recover"
        /\ UNCHANGED <<row, deadline, verified, call, intents, mode>>
        /\ NextRow(row, closed) \/ Step("intent")
    BY <1>1, <1>3 DEF PublishCheckpoint, PublishFails, At, Only, bucket, Placed
  <2>2. at'.step \in {"row", "intent"}
    <3>1. Step("intent") => at'.step = "intent"
      BY <1>1, <2>1, StepEffect DEF Steps
    <3> QED
      BY <1>1, <2>1, <3>1, NextRowEffect
  <2>3. \A c \in Checkpoints : Rebuilt(c)' => Rebuilt(c)
    BY <2>1 DEF Rebuilt
  <2> QED
    BY <1>1, <2>1, <2>2, <2>3, RecordedFrame
<1>4. CASE ObserveNothing
  <2>1. /\ at.todo # {} /\ at.step \in {"row", "observe"} /\ at.phase # "publish"
        /\ UNCHANGED <<row, closed, canceled, deadline, verified, call, intents, mode>>
        /\ at.phase = "recover" => at.step = "observe"
        /\ NextRow(row, closed) \/ (Step("unseen") /\ at.phase # "recover")
    BY <1>1, <1>4 DEF ObserveNothing, ObservesNow, At, Only, bucket
  <2>2. mode = "recover" => at.phase = "recover" /\ at.step = "observe"
    BY <1>1, <2>1 DEF Placed
  <2>3. CASE NextRow(row, closed)
    <3>1. NextRow(row', closed') /\ \A d \in at.todo : d # Current => row'[d] = row[d]
      BY <2>1, <2>3
    <3>2. at'.step = "row" /\ \A c \in Checkpoints :
            Rebuilt(c)' => Rebuilt(c) \/ (mode = "recover" /\ c = Current)
      BY <1>1, <2>1, <3>1, NextRowKeeps
    <3>3. \A c \in Checkpoints : Rebuilt(c)' => Rebuilt(c)
      BY <2>2, <3>2 DEF Rebuilt
    <3> QED
      BY <1>1, <2>1, <3>2, <3>3, RecordedFrame
  <2>4. CASE Step("unseen") /\ at.phase # "recover"
    <3>1. at'.step = "unseen"
      BY <1>1, <2>1, <2>4, StepEffect DEF Steps
    <3>2. \A c \in Checkpoints : Rebuilt(c)' => Rebuilt(c)
      BY <2>1, <2>2, <2>4 DEF Rebuilt
    <3> QED
      BY <1>1, <2>1, <3>1, <3>2, RecordedFrame
  <2> QED
    BY <2>1, <2>3, <2>4
<1>5. CASE Finish \/ Crash \/ VerdictConflict \/ IncompleteEvidence \/ Exception
  <2>1. UNCHANGED <<deadline, verified, intents>>
    BY <1>5 DEF Finish, Crash, VerdictConflict, IncompleteEvidence, Exception, Only, bucket
  <2>2. \/ mode' \in {"ended", "down"} /\ row' = [c \in Checkpoints |-> NoRow] /\ at' = Idle
        \/ mode' = "failing" /\ row' = row /\ at' = Idle
    BY <1>5 DEF Finish, Crash, VerdictConflict, IncompleteEvidence, Exception, Raise, Gone
  <2> QED
    BY <1>1, <2>1, <2>2, RecordedGone
<1>6. CASE EndFailing
  <2>1. at.todo = {} /\ at.step = "row" /\ mode = "failing"
        /\ UNCHANGED <<deadline, verified, intents, call>>
    BY <1>1, <1>6 DEF EndFailing, Placed, Only
  <2>2. CASE Gone("ended")
    BY <1>1, <2>1, <2>2, RecordedGone DEF Gone
  <2>3. CASE UNCHANGED <<mode, row>> /\ at'.step = "row"
    BY <1>1, <2>1, <2>3, RecordedFrame DEF Rebuilt
  <2> QED
    BY <1>6, <2>2, <2>3 DEF EndFailing, Idle
<1>7. CASE ObserveResult \/ MarkExpired \/ CancelEval
  <2>1. /\ at.todo # {} /\ at.phase # "publish" /\ at.step \notin {"spawn", "dispatch"}
        /\ Step("verified") /\ verified[Current] = None
        /\ UNCHANGED <<row, deadline, call, intents, mode>>
        /\ at.step # "row" \/ mode # "recover"
    BY <1>1, <1>7, VerdictEffect
       DEF ObserveResult, MarkExpired, CancelEval, ObservesNow, MustExpire, At, Placed
  <2>2. PICK status \in Terminal : verified' = [verified EXCEPT ![Current] = status]
    BY <1>1, <1>7, VerdictEffect
  <2>3. at'.step = "verified" /\ at'.todo = at.todo /\ Current' = Current
    BY <1>1, <2>1, StepEffect DEF Steps
  <2>4. Current \in Checkpoints /\ RecordOf(Current) /\ row[Current].status \notin Terminal
    BY <1>1, <2>1, InHand
  <2>5. \A c \in Checkpoints : Rebuilt(c)' => Rebuilt(c)
    BY <2>1, <2>3 DEF Rebuilt
  <2>6. ASSUME NEW c \in Checkpoints, c # Current PROVE RecordOf(c)'
    <3>1. verified'[c] = verified[c]
      BY <1>1, <2>2, <2>6 DEF TypeOK
    <3> QED
      BY <1>1, <2>1, <2>3, <2>5, <2>6, <3>1, OthersKeep
  <2>7. ASSUME NEW c \in Checkpoints, c = Current PROVE RecordOf(c)'
    <3>1. InRow(c, {"verified"})' /\ ~InRow(c, {"spawn", "dispatch"})' /\ ~InRow(c, {"spawn"})'
      BY <2>1, <2>3, <2>7 DEF InRow
    <3>2. ~InRow(c, {"spawn", "dispatch"})
      BY <2>1 DEF InRow
    <3> QED
      BY <2>1, <2>4, <2>5, <2>7, <3>1, <3>2 DEF RecordOf
  <2> QED
    BY <2>6, <2>7 DEF Recorded
<1>8. CASE EnsureEval
  <2>1. /\ at.todo # {} /\ at.phase = "publish" /\ SetRow(Current, "pending", 0, closed')
        /\ intents' = intents \cup {Current}
        /\ closed' = closed /\ UNCHANGED <<mode, canceled, deadline, verified, call>>
    BY <1>8 DEF EnsureEval, At, Only
  <2>2. Current \in Checkpoints /\ Current \notin intents
    BY <1>1, <2>1, Busy DEF Queued
  <2>3. verified[Current] = None /\ \A a \in Attempts : deadline[Current][a] = "none"
    BY <1>1, <2>2 DEF Documents
  <2>4. \A a \in Attempts : ~(a <= 0)
    BY DEF Attempts
  <2> QED
    BY <1>1, <2>1, <2>3, <2>4, RecordedRow DEF Terminal
<1>9. CASE \/ ResetExpiredEval \/ DeferClosed \/ ReconcileVerified \/ DeferFailed
           \/ MarkSubmitted \/ MarkTerminal
  <2>1. /\ at.todo # {} /\ at.phase # "publish"
        /\ UNCHANGED <<mode, canceled, intents, deadline, verified, call>>
    BY <1>1, <1>9 DEF ResetExpiredEval, DeferClosed, ReconcileVerified, DeferFailed,
       MarkSubmitted,
                MarkTerminal, At, Only, bucket, Placed
  <2>2. PICK c \in Checkpoints : c = Current
    BY <1>1, <2>1, InHand
  <2>3. mode = "recover" => at.phase = "recover"
    BY <1>1, <2>1 DEF Placed
  <2>4. /\ row[c].status \in {"pending", "submitted"} /\ row[c].attempt \in 0..2
        /\ intents = intents \cup {c}
    BY <1>1, <2>1, <2>2, InHand, Rowed
  <2>5. /\ Rebuilt(c) => \A a \in Attempts :
             deadline[c][a] # "none" <=>
               a <= row[c].attempt \/ (InRow(c, {"spawn", "dispatch"})
                   /\ a = row[c].attempt + 1)
        /\ Rebuilt(c) /\ verified[c] # None => InRow(c, {"verified"})
    <3>1. RecordOf(c)
      BY <1>1 DEF Recorded
    <3>2. verified[c] # None => row[c].status # verified[c]
      BY <1>1, <2>4 DEF TypeOK, Terminal
    <3> QED
      BY <3>1, <3>2 DEF RecordOf
  <2>6. CASE ResetExpiredEval
    <3>1. at.step = "unseen" /\ at.phase = "poll" /\ closed' = closed
      BY <2>6 DEF ResetExpiredEval, At, Only
    <3>2. SetRow(Current, "pending", row[c].attempt, closed')
      BY <2>2, <2>6, <3>1 DEF ResetExpiredEval
    <3>3. row[c].attempt \in Attempts /\ deadline[c][row[c].attempt] = "late"
      BY <1>1, <2>2, <2>4, <3>1 DEF Placed, Late, Attempts, MaxAttempts
    <3>4. \A a \in Attempts : a <= row[c].attempt => deadline[c][a] = "late"
      <4>1. \A a \in Attempts : a <= row[c].attempt => a < row[c].attempt \/ a = row[c].attempt
        BY <2>4 DEF Attempts
      <4> QED
        BY <1>1, <3>3, <4>1 DEF Documents
    <3>5. ~InRow(c, {"verified"}) /\ ~InRow(c, {"spawn", "dispatch"}) /\ mode # "recover"
      BY <2>3, <3>1 DEF InRow
    <3> QED
      BY <1>1, <2>1, <2>2, <2>4, <2>5, <3>1, <3>2, <3>4, <3>5, RecordedRow DEF Terminal
  <2>7. CASE DeferClosed
    <3>1. /\ at.step = "row" /\ at.phase \in {"settle", "settle again"} /\ closed' = closed
          /\ row[c].attempt = 0
      BY <2>2, <2>7 DEF DeferClosed, At, Only
    <3>2. SetRow(Current, "deferred", 0, closed')
      BY <2>2, <2>7, <3>1 DEF DeferClosed
    <3>3. ~InRow(c, {"verified"}) /\ ~InRow(c, {"spawn", "dispatch"}) /\ mode # "recover"
      BY <2>3, <3>1 DEF InRow
    <3> QED
      BY <1>1, <2>1, <2>2, <2>4, <2>5, <3>1, <3>2, <3>3, RecordedRow DEF Terminal
  <2>8. CASE ReconcileVerified \/ MarkTerminal
    <3>1. at.step \in {"unseen", "verified"} /\ at.phase # "submit" /\ (closed => closed')
      BY <1>1, <2>8 DEF ReconcileVerified, MarkTerminal, At, Only, Placed
    <3>2. SetRow(Current, verified[c], row[c].attempt, closed')
      BY <2>2, <2>8 DEF ReconcileVerified, MarkTerminal, Only
    <3>3. verified[c] \in Terminal
      BY <1>1, <2>2, <2>8 DEF ReconcileVerified, MarkTerminal, Placed, TypeOK
    <3>4. ~InRow(c, {"spawn", "dispatch"})
      BY <3>1 DEF InRow
    <3>5. mode = "recover" => Rebuilt(c)
      BY <2>2, <3>1 DEF Rebuilt
    <3>6. verified[c] \notin {"absent", "pending", "deferred"}
      BY <3>3 DEF Terminal
    <3> QED
      BY <1>1, <2>1, <2>2, <2>4, <2>5, <3>1, <3>2, <3>3, <3>4, <3>5, <3>6, RecordedRow
  <2>9. CASE DeferFailed
    <3>1. at.phase = "defer" /\ closed' = closed
      BY <2>9 DEF DeferFailed, At, Only
    <3>2. SetRow(Current, "deferred", row[c].attempt, closed')
      BY <2>2, <2>9, <3>1 DEF DeferFailed
    <3>3. mode = "failing" /\ ~Rebuilt(c)
      BY <1>1, <3>1 DEF Placed, Rebuilt
    <3> QED
      BY <1>1, <2>1, <2>2, <2>4, <3>1, <3>2, <3>3, RecordedRow DEF Terminal
  <2>10. CASE MarkSubmitted
    <3>1. at.step = "dispatch" /\ at.phase = "submit" /\ closed' = closed
      BY <2>10 DEF MarkSubmitted, At, Only
    <3>2. SetRow(Current, "submitted", row[c].attempt + 1, closed')
      BY <2>2, <2>10, <3>1 DEF MarkSubmitted, NextAttempt
    <3>3. ~InRow(c, {"verified"}) /\ InRow(c, {"spawn", "dispatch"}) /\ mode # "recover"
      BY <2>1, <2>2, <2>3, <3>1 DEF InRow
    <3>4. \A a \in Attempts :
            a <= row[c].attempt \/ a = row[c].attempt + 1 <=> a <= row[c].attempt + 1
      BY <2>4 DEF Attempts
    <3> QED
      BY <1>1, <2>1, <2>2, <2>4, <2>5, <3>1, <3>2, <3>3, <3>4, RecordedRow DEF Terminal
  <2> QED
    BY <1>9, <2>6, <2>7, <2>8, <2>9, <2>10
<1>10. CASE PrepareAttempt
  <2>1. /\ at.todo # {} /\ at.phase = "submit" /\ at.step = "row" /\ closed' = closed
        /\ UNCHANGED <<mode, canceled, intents, verified, call>>
    BY <1>10 DEF PrepareAttempt, At, Only
  <2>2. mode \in {"active", "drain"}
    BY <1>1, <2>1, Submitting
  <2>3. PICK c \in Checkpoints : c = Current
    BY <1>1, <2>1, InHand
  <2>4. /\ row[c].status = "pending" /\ row[c].attempt \in 0..2 /\ row[c].attempt < 2
    BY <1>1, <2>1, <2>3, Rowed
  <2>5. PICK n \in Attempts : n = NextAttempt /\ n = row[c].attempt + 1
    BY <2>3, <2>4 DEF NextAttempt, Attempts, MaxAttempts
  <2>6. /\ RecordOf(c) /\ Rebuilt(c)
        /\ ~InRow(c, {"spawn", "dispatch"}) /\ ~InRow(c, {"verified"})
    BY <1>1, <2>1, <2>2 DEF Recorded, Rebuilt, InRow
  <2>7. deadline[c][n] = "none"
    BY <2>4, <2>5, <2>6 DEF RecordOf
  <2>8. deadline' = [deadline EXCEPT ![c][n] = "live"] /\ Step("spawn") /\ row' = row
    BY <1>10, <2>3, <2>5, <2>7 DEF PrepareAttempt
  <2>9. at'.step = "spawn" /\ at'.todo = at.todo /\ Current' = Current
    BY <1>1, <2>8, StepEffect DEF Steps
  <2>10. \A d \in Checkpoints : Rebuilt(d)' => Rebuilt(d)
    BY <2>1, <2>2 DEF Rebuilt
  <2>11. ASSUME NEW d \in Checkpoints, d # c PROVE RecordOf(d)'
    <3>1. deadline'[d] = deadline[d]
      BY <1>1, <2>8, <2>11 DEF TypeOK
    <3> QED
      BY <1>1, <2>1, <2>3, <2>8, <2>9, <2>10, <2>11, <3>1, OthersKeep
  <2>12. RecordOf(c)'
    <3>1. /\ deadline'[c][n] = "live"
          /\ \A a \in Attempts : a # n => deadline'[c][a] = deadline[c][a]
      BY <1>1, <2>8 DEF TypeOK
    <3>2. InRow(c, {"spawn", "dispatch"})' /\ ~InRow(c, {"verified"})'
      BY <2>1, <2>3, <2>9 DEF InRow
    <3>3. call[c][n] = "none"
      BY <1>1, <2>7 DEF Documents
    <3>4. /\ \A a \in Attempts : a <= row[c].attempt => deadline'[c][a] = "late"
          /\ \A a \in Attempts :
               deadline'[c][a] # "none" <=> a <= row[c].attempt \/ a = row[c].attempt + 1
      BY <2>4, <2>5, <2>6, <3>1 DEF RecordOf, Attempts
    <3>5. verified[c] = None
      BY <1>1, <2>4, <2>6 DEF RecordOf, TypeOK, Terminal
    <3> QED
      BY <2>1, <2>4, <2>5, <2>6, <2>8, <3>2, <3>3, <3>4, <3>5 DEF RecordOf, Terminal
  <2> QED
    BY <2>11, <2>12 DEF Recorded
<1>11. CASE SpawnWorker
  <2>1. /\ at.todo # {} /\ at.phase = "submit" /\ at.step = "spawn" /\ Step("dispatch")
        /\ UNCHANGED <<mode, row, intents, verified, deadline>>
        /\ call' = [call EXCEPT ![Current][NextAttempt] = "called"]
    BY <1>11 DEF SpawnWorker, At, bucket
  <2>2. at'.step = "dispatch" /\ at'.todo = at.todo /\ Current' = Current
    BY <1>1, <2>1, StepEffect DEF Steps
  <2>3. mode \in {"active", "drain"} /\ \A d \in Checkpoints : Rebuilt(d)' => Rebuilt(d)
    BY <1>1, <2>1, Submitting DEF Rebuilt
  <2>4. ASSUME NEW d \in Checkpoints, d # Current PROVE RecordOf(d)'
    <3>1. call'[d] = call[d]
      BY <1>1, <2>1, <2>4 DEF TypeOK
    <3> QED
      BY <1>1, <2>1, <2>2, <2>3, <2>4, <3>1, OthersKeep
  <2>5. ASSUME NEW d \in Checkpoints, d = Current PROVE RecordOf(d)'
    <3>1. /\ InRow(d, {"spawn", "dispatch"})' /\ ~InRow(d, {"verified"})'
               /\ ~InRow(d, {"spawn"})'
          /\ InRow(d, {"spawn", "dispatch"}) /\ ~InRow(d, {"verified"})
      BY <2>1, <2>2, <2>5 DEF InRow
    <3>2. RecordOf(d)
      BY <1>1 DEF Recorded
    <3> QED
      BY <2>1, <2>3, <3>1, <3>2 DEF RecordOf
  <2> QED
    BY <2>4, <2>5 DEF Recorded
<1>12. CASE RecoverEval
  <2> DEFINE last == Max({a \in Attempts : deadline[Current][a] # "none"} \cup {0})
  <2>1. /\ at.todo # {} /\ at.phase = "recover" /\ at.step = "row" /\ closed' = closed
        /\ UNCHANGED <<mode, canceled, intents, verified, call, deadline>>
    BY <1>12 DEF RecoverEval, At, Only, bucket
  <2>2. PICK c \in Checkpoints : c = Current
    BY <1>1, <2>1, InHand
  <2>3. mode = "recover" /\ row[c].status \in {"pending", "submitted"}
        /\ intents = intents \cup {c}
        /\ c \in intents
    BY <1>1, <2>1, <2>2, InHand, Rowed DEF Placed
  <2>4. PICK n \in 0..2 : n = last
    BY LastPrepared
  <2>5. /\ n # 0 => deadline[c][n] # "none"
        /\ \A a \in Attempts : deadline[c][a] # "none" => a <= n
    BY <2>2, <2>4, LastPrepared
  <2>6. \/ verified[Current] # None /\ SetRow(Current, verified[Current], n, closed)
        \/ /\ verified[Current] = None /\ Step("observe")
           /\ row' = [row EXCEPT ![Current] =
                        [status |-> IF n = 0 THEN "pending" ELSE "submitted", attempt |-> n]]
    BY <1>12, <2>4 DEF RecoverEval
  <2> HIDE DEF last
  <2>7. \A a \in Attempts : deadline[c][a] # "none" <=> a <= n
    <3>1. n # 0 => n \in Attempts
      BY DEF Attempts, MaxAttempts
    <3>2. \A a \in Attempts : a <= n => n # 0 /\ (a < n \/ a = n)
      BY DEF Attempts
    <3> QED
      BY <1>1, <2>5, <3>1, <3>2 DEF Documents
  <2>8. CASE verified[Current] # None /\ SetRow(Current, verified[Current], n, closed)
    <3>1. verified[Current] \in Terminal
      BY <1>1, <2>2, <2>8 DEF TypeOK
    <3>2. verified[Current] \notin {"absent", "pending", "deferred"}
      BY <3>1 DEF Terminal
    <3>3. SetRow(Current, verified[Current], n, closed')
      BY <2>1, <2>8
    <3> QED
      BY <1>1, <2>1, <2>2, <2>3, <2>7, <3>1, <3>2, <3>3, RecordedRow
  <2>9. CASE /\ verified[Current] = None /\ Step("observe")
             /\ row' = [row EXCEPT ![Current] =
                          [status |-> IF n = 0 THEN "pending" ELSE "submitted", attempt |-> n]]
    <3>1. at'.step = "observe" /\ at'.todo = at.todo /\ Current' = Current
      BY <1>1, <2>1, <2>9, StepEffect DEF Steps
    <3>2. /\ row'[c] = [status |-> IF n = 0 THEN "pending" ELSE "submitted", attempt |-> n]
          /\ \A d \in Checkpoints : d # c => row'[d] = row[d]
      BY <1>1, <2>2, <2>9 DEF TypeOK
    <3>3. \A d \in Checkpoints : d # c /\ Rebuilt(d)' => Rebuilt(d)
      BY <2>1, <2>2, <3>1 DEF Rebuilt
    <3>4. ASSUME NEW d \in Checkpoints, d # c PROVE RecordOf(d)'
      BY <1>1, <2>1, <2>2, <3>1, <3>2, <3>3, <3>4, OthersKeep
    <3>5. RecordOf(c)'
      <4>1. ~InRow(c, {"spawn", "dispatch"})' /\ ~InRow(c, {"verified"})'
            /\ ~InRow(c, {"spawn"})'
        BY <3>1 DEF InRow
      <4>2. /\ row'[c].attempt = n /\ row'[c].status \in {"pending", "submitted"}
            /\ row'[c].status = "pending" => n = 0
        BY <3>2
      <4>3. \A a \in Attempts : ~(a <= 0)
        BY DEF Attempts
      <4> QED
        BY <2>1, <2>2, <2>3, <2>7, <2>9, <4>1, <4>2, <4>3 DEF RecordOf, Terminal
    <3> QED
      BY <3>4, <3>5 DEF Recorded
  <2> QED
    BY <2>6, <2>8, <2>9
<1>13. CASE \/ \E c \in Checkpoints : LearnerSaves(c)
            \/ LearnerExits \/ CancelRequest \/ CancelSignal \/ UNCHANGED vars
  <2>1. UNCHANGED <<at, row, mode, intents, verified, deadline, call>>
    BY <1>13 DEF LearnerSaves, LearnerExits, CancelRequest, CancelSignal, vars, Only, bucket,
       process
  <2> QED
    BY <1>1, <2>1, StaysRecorded
<1>14. ASSUME NEW c \in Checkpoints, NEW a \in Attempts, AttemptExpires(c, a)
       PROVE  Recorded'
  <2>1. /\ UNCHANGED <<at, row, mode, intents, verified, call>>
        /\ \A d \in Checkpoints, b \in Attempts :
             /\ deadline'[d][b] # "none" <=> deadline[d][b] # "none"
             /\ deadline[d][b] = "late" => deadline'[d][b] = "late"
    BY <1>1, <1>14 DEF AttemptExpires, process, TypeOK
  <2> QED
    BY <1>1, <2>1, StaysRecorded
<1>15. ASSUME NEW c \in Checkpoints, NEW a \in Attempts,
              NEW status \in WorkerVerdicts \cup {"expired"}, WorkerAnswers(c, a, status)
       PROVE  Recorded'
  <2>1. UNCHANGED <<at, row, mode, intents, verified, deadline>>
    BY <1>15 DEF WorkerAnswers, process
  <2>2. \A d \in Checkpoints, b \in Attempts : call[d][b] = "none" => call'[d][b] = "none"
    BY <1>1, <1>15 DEF WorkerAnswers, TypeOK
  <2> QED
    BY <1>1, <2>1, <2>2, StaysRecorded
<1>16. CASE Restart
  <2> DEFINE known == intents' \cap published
  <2>1. /\ mode' = "recover" /\ UNCHANGED <<deadline, verified>>
        /\ row' = [c \in Checkpoints |->
                     IF c \in known THEN [status |-> "pending", attempt |-> 0] ELSE NoRow]
        /\ at' = IF known = {} THEN [Idle EXCEPT !.phase = "end"]
                 ELSE [phase |-> "recover", todo |-> known, step |-> "row"]
    BY <1>16 DEF Restart, RecoverInventory
  <2>2. intents \subseteq known
    BY <1>1, <1>16 DEF Restart, RecoverInventory, TypeOK
  <2>3. at'.step = "row" /\ at'.todo = known
    BY <2>1 DEF Idle
  <2>4. ASSUME NEW c \in Checkpoints PROVE RecordOf(c)'
    <3>1. ~InRow(c, {"spawn", "dispatch"})' /\ ~InRow(c, {"verified"})' /\ ~InRow(c, {"spawn"})'
      BY <2>3 DEF InRow
    <3>2. Rebuilt(c)' => c \notin known
      BY <2>1, <2>3 DEF Rebuilt
    <3>3. c \notin known =>
            verified[c] = None /\ \A a \in Attempts : deadline[c][a] = "none"
      BY <1>1, <2>2 DEF Documents
    <3>4. /\ c \in known => row'[c].status = "pending"
          /\ c \notin known => row'[c].status = "absent"
          /\ row'[c].attempt = 0
      BY <2>1 DEF NoRow
    <3>5. \A a \in Attempts : ~(a <= 0)
      BY DEF Attempts
    <3>6. c \in known => c \in intents'
      OBVIOUS
    <3> HIDE DEF known
    <3> QED
      BY <2>1, <3>1, <3>2, <3>3, <3>4, <3>5, <3>6 DEF RecordOf, Terminal
  <2> QED
    BY <2>4 DEF Recorded
<1> QED
  BY <1>2, <1>3, <1>4, <1>5, <1>6, <1>7, <1>8, <1>9, <1>10, <1>11, <1>12, <1>13, <1>14, <1>15,
     <1>16
     DEF Next, Supervisor, Environment

-----------------------------------------------------------------------------
(* Admission and promotion.                                                *)

LEMMA AdmissionStep ==
  ASSUME IInv, [Next]_vars
  PROVE  Admission'
<1>1. TypeOK /\ Placed /\ Queued /\ Recorded /\ Admission
  BY DEF IInv
<1>2. CASE /\ at.step # "verified" /\ verified' = verified /\ closed' = closed
           /\ Running' => Running
  BY <1>1, <1>2 DEF Admission, HasAcceptedEval
<1>3. CASE UNCHANGED <<at, row, mode, closed, verified>>
  <2>1. Current' = Current
    BY <1>3, SameRow
  <2> QED
    BY <1>1, <1>3, <2>1 DEF Admission, HasAcceptedEval, Running
<1>4. CASE ~Running' \/ closed'
  BY <1>4 DEF Admission
<1>5. CASE PublishCheckpoint \/ PublishFails \/ EnsureEval \/ ObserveNothing \/ ResetExpiredEval
        \/ DeferClosed \/ ReconcileVerified \/ DeferFailed \/ PrepareAttempt \/ SpawnWorker
        \/ MarkSubmitted \/ RecoverEval
  <2>1. at.step # "verified"
    BY <1>5 DEF PublishCheckpoint, PublishFails, EnsureEval, ObserveNothing, ObservesNow,
                ResetExpiredEval, DeferClosed, ReconcileVerified, DeferFailed, PrepareAttempt,
                SpawnWorker, MarkSubmitted, RecoverEval, At
  <2>2. verified' = verified /\ closed' = closed /\ mode' = mode
    BY <1>5 DEF PublishCheckpoint, PublishFails, EnsureEval, ObserveNothing,
                ResetExpiredEval, DeferClosed, ReconcileVerified, DeferFailed, PrepareAttempt,
                SpawnWorker, MarkSubmitted, RecoverEval, Only, bucket
  <2> QED
    BY <1>2, <2>1, <2>2 DEF Running
<1>6. CASE Begin \/ EndActive \/ EndDrain \/ EndFailing \/ CreatePromotion \/ SkipPromotion
           \/ Recovered
  <2>1. at.step = "row" /\ Running
    BY <1>1, <1>6 DEF Begin, EndActive, EndDrain, EndFailing, CreatePromotion, SkipPromotion,
                      Recovered, Placed, Running
  <2>2. verified' = verified /\ (closed' = closed \/ mode' = "ended")
    BY <1>6 DEF Begin, EndActive, EndDrain, EndFailing, CreatePromotion, SkipPromotion,
                Recovered, Gone, Only, bucket
  <2> QED
    BY <1>2, <1>4, <2>1, <2>2 DEF Running
<1>7. CASE VerdictConflict \/ IncompleteEvidence \/ Exception \/ Finish \/ Crash
  BY <1>4, <1>7 DEF VerdictConflict, IncompleteEvidence, Exception, Finish, Crash, Raise, Gone,
     Running
<1>8. CASE MarkTerminal
  <2>1. /\ at.step = "verified" /\ verified' = verified /\ mode' = mode
        /\ closed' = (closed \/ verified[Current] = "accepted")
    BY <1>8 DEF MarkTerminal, Only, bucket
  <2> QED
    BY <1>1, <2>1 DEF Admission, HasAcceptedEval, Running
<1>9. CASE ObserveResult \/ MarkExpired \/ CancelEval
  <2>1. /\ at.todo # {} /\ Step("verified") /\ UNCHANGED <<mode, row, closed>>
        /\ at.step # "verified"
    BY <1>1, <1>9, VerdictEffect
       DEF ObserveResult, MarkExpired, CancelEval, ObservesNow, MustExpire, At
  <2>2. PICK status \in Terminal : verified' = [verified EXCEPT ![Current] = status]
    BY <1>1, <1>9, VerdictEffect
  <2>3. at'.step = "verified" /\ Current' = Current
    BY <1>1, <2>1, StepEffect DEF Steps
  <2>4. Current \in Checkpoints
    BY <1>1, <2>1, Busy
  <2>5. HasAcceptedEval' => HasAcceptedEval \/ verified'[Current] = "accepted"
    BY <1>1, <2>2, <2>4 DEF HasAcceptedEval, TypeOK
  <2> QED
    BY <1>1, <2>1, <2>3, <2>5 DEF Admission, Running
<1>10. CASE Restart
  <2>1. closed' = HasAcceptedEval /\ verified' = verified
    BY <1>10 DEF Restart, RecoverInventory
  <2> QED
    BY <2>1 DEF Admission, HasAcceptedEval
<1>11. CASE \/ \E c \in Checkpoints : LearnerSaves(c)
            \/ LearnerExits \/ CancelRequest \/ CancelSignal \/ UNCHANGED vars
            \/ \E c \in Checkpoints, a \in Attempts :
                 \/ AttemptExpires(c, a)
                 \/ \E status \in WorkerVerdicts \cup {"expired"} : WorkerAnswers(c, a, status)
  BY <1>3, <1>11 DEF LearnerSaves, LearnerExits, CancelRequest, CancelSignal, AttemptExpires,
                     WorkerAnswers, vars, Only, bucket, process
<1> QED
  BY <1>5, <1>6, <1>7, <1>8, <1>9, <1>10, <1>11 DEF Next, Supervisor, Environment

(* An acceptance that is stored forbids the submission phase.              *)
LEMMA NothingSubmitted ==
  ASSUME IInv, at.todo # {}, at.phase = "submit"
  PROVE  ~HasAcceptedEval /\ promotion = None
<1>1. TypeOK /\ Placed /\ Admission /\ Promoted
  BY DEF IInv
<1>2. ~closed /\ Running /\ at.step # "verified"
  BY <1>1, Submitting DEF Running, Placed
<1> QED
  BY <1>1, <1>2 DEF Admission, Promoted, HasAcceptedEval

(* After the drain the accepted rows are the accepted verdicts.            *)
LEMMA Drained ==
  ASSUME IInv, mode = "drain", at.phase = "promote"
  PROVE  /\ Accepted = {c \in Checkpoints : verified[c] = "accepted"}
         /\ \A c \in Checkpoints : verified[c] = None
              => \A a \in Attempts : deadline[c][a] = "none"
<1>1. TypeOK /\ Placed /\ Recorded /\ at.todo = {} /\ AllSettled
  BY DEF IInv, Placed
<1>2. ASSUME NEW c \in Checkpoints
      PROVE  /\ row[c].status = "accepted" <=> verified[c] = "accepted"
             /\ verified[c] = None => \A a \in Attempts : deadline[c][a] = "none"
  <2>1. RecordOf(c) /\ Rebuilt(c) /\ row[c].status \in Settled \cup {"absent"}
    BY <1>1 DEF Recorded, Rebuilt, AllSettled
  <2>2. ~InRow(c, {"verified"}) /\ ~InRow(c, {"spawn", "dispatch"})
    BY <1>1 DEF InRow
  <2>3. row[c].status = "accepted" <=> verified[c] = "accepted"
    BY <2>1, <2>2, NoneAssumption DEF RecordOf, Terminal
  <2>4. verified[c] = None => row[c].attempt = 0
    BY <2>1, NoneAssumption DEF RecordOf, Settled
  <2>5. \A a \in Attempts : ~(a <= 0)
    BY DEF Attempts
  <2>6. \A a \in Attempts : deadline[c][a] # "none" => a <= row[c].attempt
    BY <2>1, <2>2 DEF RecordOf
  <2> QED
    BY <2>3, <2>4, <2>5, <2>6
<1> QED
  BY <1>2 DEF Accepted, Rows

LEMMA PromotedStep ==
  ASSUME IInv, [Next]_vars
  PROVE  Promoted'
<1>1. TypeOK /\ Placed /\ Recorded /\ Promoted
  BY DEF IInv
<1>2. CASE UNCHANGED <<promotion, verified, deadline>>
  BY <1>1, <1>2 DEF Promoted
<1>3. CASE ObserveResult \/ MarkExpired \/ CancelEval
  <2>1. /\ at.todo # {} /\ verified[Current] = None /\ UNCHANGED <<promotion, deadline>>
        /\ \E status \in Terminal : verified' = [verified EXCEPT ![Current] = status]
    BY <1>1, <1>3, VerdictEffect
  <2>2. Current \in Checkpoints
    BY <1>1, <2>1, Busy
  <2>3. \A c \in Checkpoints : verified[c] # None => verified'[c] = verified[c]
    BY <1>1, <2>1, <2>2 DEF TypeOK
  <2>4. \A c \in Checkpoints : verified'[c] = None => verified[c] = None
    BY <1>1, <2>1, <2>2, NoneAssumption DEF TypeOK
  <2> QED
    BY <1>1, <2>1, <2>3, <2>4, NoneAssumption DEF Promoted, Terminal
<1>4. CASE PrepareAttempt
  <2>1. at.todo # {} /\ at.phase = "submit" /\ promotion' = promotion
    BY <1>4 DEF PrepareAttempt, At, Only
  <2> QED
    BY <2>1, NothingSubmitted DEF Promoted
<1>5. ASSUME NEW c \in Checkpoints, NEW a \in Attempts, AttemptExpires(c, a)
      PROVE  Promoted'
  <2>1. /\ UNCHANGED <<promotion, verified>>
        /\ \A d \in Checkpoints, b \in Attempts : deadline[d][b] = "none"
             => deadline'[d][b] = "none"
    BY <1>1, <1>5 DEF AttemptExpires, TypeOK
  <2> QED
    BY <1>1, <2>1 DEF Promoted
<1>6. CASE CreatePromotion
  <2>1. /\ mode = "drain" /\ at.phase = "promote" /\ UNCHANGED <<verified, deadline>>
        /\ promotion # None \/ Accepted # {}
        /\ promotion' = IF promotion # None THEN promotion ELSE Min(Accepted)
    BY <1>6 DEF CreatePromotion, Only
  <2>2. Accepted \in SUBSET Nat /\ Accepted \subseteq Checkpoints
    BY EvaluationAssumption DEF Accepted, Rows
  <2>3. Accepted # {} => Min(Accepted) \in Accepted
    BY <2>2, Lowest
  <2>4. promotion = None => promotion' \in Checkpoints /\ verified[promotion'] = "accepted"
    BY <2>1, <2>2, <2>3, Drained
  <2> QED
    BY <1>1, <2>1, <2>4, Drained DEF Promoted
<1> QED
  BY <1>2, <1>3, <1>4, <1>5, <1>6
     DEF Next, Supervisor, Environment, vars, bucket, Only, Begin, PublishCheckpoint,
        EnsureEval,
         ObserveNothing, ResetExpiredEval, VerdictConflict, MarkTerminal, DeferClosed,
         ReconcileVerified, DeferFailed, SpawnWorker, MarkSubmitted, EndActive, EndDrain,
             EndFailing,
         SkipPromotion, IncompleteEvidence, Finish, RecoverEval, Recovered, LearnerSaves,
         LearnerExits, CancelRequest, CancelSignal, WorkerAnswers, Exception, PublishFails,
             Crash,
         Restart

-----------------------------------------------------------------------------
(* The inductive invariant.                                                *)

LEMMA InitInv == Init => IInv
<1> SUFFICES ASSUME Init PROVE IInv
  OBVIOUS
<1>1. at \in Positions /\ at.todo = {} /\ at.step = "row" /\ at.phase = "begin"
  BY IdleIsPosition DEF Init
<1>2. at \in [phase : {Phases[i] : i \in DOMAIN Phases}
                        \cup {"begin", "end", "recover", "defer", "promote", "finish"},
              todo : SUBSET Checkpoints, step : Steps]
  BY <1>1, AtIsTyped
<1>3. TypeOK
  <2>1. /\ deadline \in [Checkpoints -> [Attempts -> {"none", "live", "late"}]]
        /\ result \in [Checkpoints ->
             {None} \cup [attempt : Attempts, status : WorkerVerdicts \cup {"expired"}]]
        /\ verified \in [Checkpoints -> Terminal \cup {None}]
        /\ call \in [Checkpoints -> [Attempts -> {"none", "called", "inTime", "answered"}]]
    BY DEF Init
  <2>2. /\ row \in [Checkpoints -> [status : Settled \cup {"absent", "pending", "submitted"},
                                   attempt : 0..MaxAttempts]]
        /\ \A c \in Rows(row, {"pending"}) : row[c].attempt < MaxAttempts
    BY DEF Init, NoRow, Rows, MaxAttempts
  <2>3. retries \in 0..MaxRetries /\ faults \in 0..MaxFaults
    BY EvaluationAssumption DEF Init
  <2>4. /\ published = {} /\ intents = {} /\ promotion = None /\ cancelAsked = FALSE
        /\ outcome = "none" /\ mode = "active" /\ closed = FALSE /\ canceled = FALSE
        /\ learner = TRUE /\ saved = {}
    BY DEF Init
  <2> QED
    BY <1>2, <2>1, <2>2, <2>3, <2>4 DEF TypeOK
<1>4. Documents
  BY DEF Init, Documents
<1>5. Placed /\ Queued
  BY <1>1 DEF Init, Placed, Queued
<1>6. Recorded
  <2>1. ASSUME NEW c \in Checkpoints PROVE RecordOf(c)
    <3>1. ~InRow(c, {"spawn", "dispatch"}) /\ ~InRow(c, {"verified"}) /\ ~InRow(c, {"spawn"})
      BY <1>1 DEF InRow
    <3>2. /\ row[c].status = "absent" /\ row[c].attempt = 0 /\ verified[c] = None
          /\ \A a \in Attempts : deadline[c][a] = "none"
      BY DEF Init, NoRow
    <3>3. \A a \in Attempts : ~(a <= 0)
      BY DEF Attempts
    <3> QED
      BY <3>1, <3>2, <3>3 DEF RecordOf, Terminal
  <2> QED
    BY <2>1 DEF Recorded
<1>7. Admission /\ Promoted
  BY NoneAssumption DEF Init, Admission, Promoted, HasAcceptedEval, Terminal
<1> QED
  BY <1>3, <1>4, <1>5, <1>6, <1>7 DEF IInv

LEMMA StepInv == IInv /\ [Next]_vars => IInv'
<1> SUFFICES ASSUME IInv, [Next]_vars PROVE IInv'
  OBVIOUS
<1> QED
  BY TypeStep, DocumentsStep, PositionStep, RecordedStep, AdmissionStep, PromotedStep DEF IInv

LEMMA Inductive == Spec => []IInv
  BY InitInv, StepInv, PTL DEF Spec

-----------------------------------------------------------------------------
(* What the evaluation promises.                                           *)

(* Every variable keeps its kind of value, and a pending row always has an *)
(* attempt left (supervisor_ledger.py, run_supervisor.py).                 *)
THEOREM EvaluationTypeCorrect == Spec => []TypeOK
<1>1. IInv => TypeOK
  BY DEF IInv
<1> QED
  BY <1>1, Inductive, PTL

LEMMA DispatchIsNew ==
  ASSUME IInv, NEW c \in Checkpoints, NEW a \in Attempts, Dispatch(c, a)
  PROVE  /\ call[c][a] = "none" /\ ~HasAcceptedEval
         /\ \A b \in Attempts : b < a => deadline[c][b] = "late"
<1>1. TypeOK /\ Placed /\ Queued /\ Recorded
  BY DEF IInv
<1>2. /\ at.todo # {} /\ at.phase = "submit" /\ at.step = "spawn" /\ c = Current
           /\ a = NextAttempt
  BY DEF Dispatch, At
<1>3. row[c].status = "pending" /\ row[c].attempt \in 0..2 /\ a = row[c].attempt + 1
  BY <1>1, <1>2, Rowed DEF NextAttempt
<1>4. InRow(c, {"spawn"}) /\ RecordOf(c)
  BY <1>1, <1>2 DEF InRow, Recorded
<1>5. call[c][a] = "none"
  BY <1>3, <1>4 DEF RecordOf
<1>6. \A b \in Attempts : b < a => deadline[c][b] = "late"
  BY <1>3, <1>4 DEF RecordOf, Attempts
<1> QED
  BY <1>2, <1>5, <1>6, NothingSubmitted

(* No attempt is dispatched twice, whatever restarts come between, and the *)
(* second only after the deadline of the first (run_supervisor.py,         *)
(* _submit_pending_evals and _recover_durable_state).                      *)
THEOREM DispatchIsSequential == Spec => AttemptsAreSequential
<1>1. IInv /\ [Next]_vars =>
        [\A c \in Checkpoints, a \in Attempts :
           Dispatch(c, a) => /\ call[c][a] = "none"
                             /\ \A b \in Attempts : b < a => deadline[c][b] = "late"]_vars
  BY DispatchIsNew
<1> QED
  BY <1>1, Inductive, PTL DEF Spec, AttemptsAreSequential

(* Once an acceptance is stored nothing is dispatched any more, not even   *)
(* by a supervisor restarted right after storing it (run_supervisor.py,    *)
(* _observe_result and _recover_durable_state).                            *)
THEOREM AcceptanceStopsDispatch == Spec => AcceptanceClosesAdmission
<1>1. IInv /\ [Next]_vars =>
        [\A c \in Checkpoints, a \in Attempts : Dispatch(c, a) => ~HasAcceptedEval]_vars
  BY DispatchIsNew
<1> QED
  BY <1>1, Inductive, PTL DEF Spec, AcceptanceClosesAdmission

(* An evaluation that is declared expired has no attempt left in time.     *)
LEMMA ExpiryIsLate ==
  ASSUME IInv, [Next]_vars, mode \in {"active", "drain"}, NEW c \in Checkpoints,
         verified[c] = None, verified'[c] = "expired", NEW a \in Attempts
  PROVE  deadline[c][a] # "live"
<1>1. TypeOK /\ Documents /\ Placed /\ Queued /\ Recorded
  BY DEF IInv
<1>2. ObserveResult \/ MarkExpired \/ CancelEval \/ verified' = verified
  BY DEF Next, Supervisor, Environment, vars, bucket, Only, Begin, PublishCheckpoint,
     EnsureEval,
         ObserveNothing, ResetExpiredEval, VerdictConflict, MarkTerminal, DeferClosed,
         ReconcileVerified, DeferFailed, PrepareAttempt, SpawnWorker, MarkSubmitted, EndActive,
         EndDrain, EndFailing, CreatePromotion, SkipPromotion, IncompleteEvidence, Finish,
         RecoverEval, Recovered, LearnerSaves, LearnerExits, CancelRequest, CancelSignal,
         AttemptExpires, WorkerAnswers, Exception, PublishFails, Crash, Restart
<1>3. None # "expired"
  BY NoneAssumption DEF Terminal
<1>4. ObserveResult \/ MarkExpired \/ CancelEval
  BY <1>2, <1>3
<1>5. /\ at.todo # {} /\ at.phase # "publish" /\ at.step \notin {"spawn", "dispatch"}
      /\ \E status \in Terminal : verified' = [verified EXCEPT ![Current] = status]
  BY <1>1, <1>4, VerdictEffect
<1>6. c = Current
  BY <1>1, <1>3, <1>5 DEF TypeOK
<1>7. RecordOf(c) /\ Rebuilt(c) /\ ~InRow(c, {"spawn", "dispatch"}) /\ row[c].attempt \in 0..2
  BY <1>1, <1>5, <1>6, Rowed DEF Recorded, Rebuilt, InRow
<1>8. a <= row[c].attempt \/ deadline[c][a] = "none"
  BY <1>7 DEF RecordOf
<1>9. row[c].attempt \in Attempts /\ deadline[c][row[c].attempt] = "late"
      => deadline[c][a] # "live"
  <2>1. a < row[c].attempt \/ a = row[c].attempt \/ ~(a <= row[c].attempt)
    BY <1>7 DEF Attempts
  <2> QED
    BY <1>1, <1>8, <2>1 DEF Documents
<1>10. CASE ObserveResult
  <2>1. /\ result[c] # None /\ result[c].attempt = row[c].attempt
        /\ verified' = [verified EXCEPT ![c] = result[c].status]
    BY <1>6, <1>10 DEF ObserveResult, Verifiable, PutVerified
  <2>2. result[c].status = "expired" /\ result[c].attempt \in Attempts
    BY <1>1, <2>1 DEF TypeOK
  <2> QED
    BY <1>1, <1>9, <2>1, <2>2 DEF Documents
<1>11. CASE MarkExpired
  <2>1. CASE at.phase \in {"settle", "settle again"}
    <3>1. row[c].status = "pending"
      BY <1>1, <1>5, <1>6, <2>1, Rowed
    <3> QED
      BY <1>7, <1>8, <3>1 DEF RecordOf
  <2>2. CASE at.phase = "poll" /\ at.step = "unseen"
    <3>1. row[c].attempt \in Attempts /\ deadline[c][row[c].attempt] = "late"
      BY <1>1, <1>6, <1>7, <2>2 DEF Placed, Late, Attempts, MaxAttempts
    <3> QED
      BY <1>9, <3>1
  <2> QED
    BY <1>11, <2>1, <2>2 DEF MarkExpired, MustExpire, At
<1>12. CASE CancelEval
  BY <1>1, <1>6, <1>12 DEF CancelEval, PutVerified, TypeOK
<1> QED
  BY <1>4, <1>10, <1>11, <1>12

LEMMA QueuedNext == (TypeOK /\ at.todo # {} => Current \in at.todo)'
<1>1. TypeOK /\ at.todo # {} => Current \in at.todo
  BY CurrentIsQueued
<1> QED
  BY <1>1, PTL

(* An evaluation that is deferred was never dispatched.                    *)
LEMMA DeferredIsNew ==
  ASSUME IInv, IInv', [Next]_vars, mode \in {"active", "drain"}, NEW c \in Checkpoints,
         row[c].status # "deferred", row'[c].status = "deferred", NEW a \in Attempts
  PROVE  call[c][a] = "none"
<1>1. \/ mode' = mode \/ row' = row \/ \A d \in Checkpoints : row'[d] = NoRow
  BY DEF Raise, Gone, SpawnWorker, WorkerAnswers, ObserveResult, MarkExpired, CancelEval,
         Next, Supervisor, Environment, vars, bucket, process, Only, Begin, PublishCheckpoint,
         EnsureEval, ObserveNothing, ResetExpiredEval, VerdictConflict, MarkTerminal,
             DeferClosed,
         ReconcileVerified, DeferFailed, PrepareAttempt, MarkSubmitted, EndActive,
         EndDrain, EndFailing, CreatePromotion, SkipPromotion, IncompleteEvidence, Finish,
         RecoverEval, Recovered, LearnerSaves, LearnerExits, CancelRequest, CancelSignal,
         AttemptExpires, Exception, PublishFails, Crash, Restart
<1>2. mode' \in {"active", "drain"}
  BY <1>1 DEF NoRow
<1>3. \/ call' = call
      \/ \E d \in Checkpoints, b \in Attempts, new \in {"called", "inTime", "answered"} :
           call' = [call EXCEPT ![d][b] = new]
  <2>1. CASE SpawnWorker
    <3>1. at.todo # {} /\ at.phase = "submit" /\ TypeOK /\ Placed /\ Queued /\ Recorded
      BY <2>1 DEF SpawnWorker, At, IInv
    <3>2. row[Current].attempt \in 0..2 /\ row[Current].attempt < 2 /\ Current \in Checkpoints
      BY <3>1, Rowed
    <3>3. NextAttempt \in Attempts
      BY <3>2 DEF NextAttempt, Attempts, MaxAttempts
    <3> QED
      BY <2>1, <3>2, <3>3 DEF SpawnWorker
  <2>2. ASSUME NEW d \in Checkpoints, NEW b \in Attempts,
               NEW status \in WorkerVerdicts \cup {"expired"}, WorkerAnswers(d, b, status)
        PROVE  \E new \in {"inTime", "answered"} : call' = [call EXCEPT ![d][b] = new]
    BY <2>2 DEF WorkerAnswers
  <2>3. \/ call' = call \/ SpawnWorker
        \/ \E d \in Checkpoints, b \in Attempts, status \in WorkerVerdicts \cup {"expired"} :
             WorkerAnswers(d, b, status)
    BY DEF ObserveResult, MarkExpired, CancelEval,
         Next, Supervisor, Environment, vars, bucket, process, Only, Begin, PublishCheckpoint,
         EnsureEval, ObserveNothing, ResetExpiredEval, VerdictConflict, MarkTerminal,
             DeferClosed,
         ReconcileVerified, DeferFailed, PrepareAttempt, MarkSubmitted, EndActive,
         EndDrain, EndFailing, CreatePromotion, SkipPromotion, IncompleteEvidence, Finish,
         RecoverEval, Recovered, LearnerSaves, LearnerExits, CancelRequest, CancelSignal,
         AttemptExpires, Exception, PublishFails, Crash, Restart
  <2> QED
    BY <2>1, <2>2, <2>3
<1>4. call'[c][a] = "none" => call[c][a] = "none"
  <2>1. call \in [Checkpoints -> [Attempts -> {"none", "called", "inTime", "answered"}]]
    BY DEF IInv, TypeOK
  <2>2. ASSUME NEW d \in Checkpoints, NEW b \in Attempts,
               NEW new \in {"called", "inTime", "answered"},
               call' = [call EXCEPT ![d][b] = new]
        PROVE  call'[c][a] = "none" => call[c][a] = "none"
    BY <2>1, <2>2
  <2> QED
    BY <1>3, <2>2
<1>5. /\ RecordOf(c)' /\ Rebuilt(c)' /\ Queued' /\ Placed' /\ Documents'
  BY <1>2 DEF IInv, Recorded, Rebuilt
<1>6. ~InRow(c, {"spawn", "dispatch"})'
  <2>1. ASSUME InRow(c, {"spawn", "dispatch"})' PROVE at'.phase = "submit" /\ c \in at'.todo
    <3>1. TypeOK' /\ at'.todo # {}
      BY <2>1 DEF IInv, InRow
    <3>2. (Current \in at.todo)'
      BY <3>1, QueuedNext
    <3> QED
      BY <1>5, <2>1, <3>2 DEF InRow, Placed
  <2> QED
    BY <1>5, <2>1 DEF Queued
<1>7. deadline'[c][a] = "none"
  <2>1. row'[c].attempt = 0 /\ ~(a <= 0)
    BY <1>2, <1>5 DEF RecordOf, Attempts
  <2> QED
    BY <1>5, <1>6, <2>1 DEF RecordOf
<1> QED
  BY <1>4, <1>5, <1>7 DEF Documents

(* Unless the Attempt has failed, an evaluation is not declared expired    *)
(* before the deadline of its attempts, nor deferred after a dispatch      *)
(* (run_supervisor.py, _poll_evals and _settle_pending_evals_after_close). *)
THEOREM DispatchedMayFinish == Spec => SubmittedMayFinish
<1>1. IInv /\ IInv' /\ [Next]_vars =>
        [(mode \in {"active", "drain"}) => \A c \in Checkpoints :
           /\ verified[c] = None /\ verified'[c] = "expired" =>
                \A a \in Attempts : deadline[c][a] # "live"
           /\ row[c].status # "deferred" /\ row'[c].status = "deferred" =>
                \A a \in Attempts : call[c][a] = "none"]_vars
  BY ExpiryIsLate, DeferredIsNew
<1> QED
  BY <1>1, Inductive, PTL DEF Spec, SubmittedMayFinish

-----------------------------------------------------------------------------
(* The evaluation implements the evaluation record.                        *)

LEMMA RecordInit == Init => Record!Init
  BY DEF Init, Record!Init

LEMMA RecordStep == IInv /\ [Next]_vars => [Record!Next]_<<verified, promotion>>
<1> SUFFICES ASSUME IInv, [Next]_vars
             PROVE  Record!Next \/ UNCHANGED <<verified, promotion>>
  OBVIOUS
<1>1. TypeOK /\ Documents /\ Placed /\ Promoted
  BY DEF IInv
<1>2. CASE ObserveResult \/ MarkExpired \/ CancelEval
  <2>1. /\ at.todo # {} /\ verified[Current] = None /\ promotion' = promotion
    BY <1>1, <1>2, VerdictEffect
  <2>2. PICK status \in Terminal : verified' = [verified EXCEPT ![Current] = status]
    BY <1>1, <1>2, VerdictEffect
  <2>3. PICK c \in Checkpoints : c = Current
    BY <1>1, <2>1, Busy
  <2>4. ASSUME status = "accepted", promotion # None PROVE FALSE
    <3>1. verified'[c] = "accepted"
      BY <1>1, <2>2, <2>3, <2>4 DEF TypeOK
    <3>2. ObserveResult
      BY <1>1, <1>2, <2>3, <3>1 DEF MarkExpired, CancelEval, PutVerified, TypeOK
    <3>3. result[c] # None /\ result[c].attempt \in Attempts
      BY <1>1, <2>3, <3>2 DEF ObserveResult, Verifiable, TypeOK
    <3> QED
      BY <1>1, <2>1, <2>3, <2>4, <3>3 DEF Documents, Promoted
  <2>5. Record!Judge(c, status)
    BY <2>1, <2>2, <2>3, <2>4 DEF Record!Judge
  <2>6. status \in Record!Verdicts
    BY DEF Record!Verdicts, Terminal
  <2> QED
    BY <2>5, <2>6 DEF Record!Next
<1>3. CASE CreatePromotion
  <2>1. /\ mode = "drain" /\ at.phase = "promote" /\ verified' = verified
        /\ promotion # None \/ Accepted # {}
        /\ promotion' = IF promotion # None THEN promotion ELSE Min(Accepted)
    BY <1>3 DEF CreatePromotion, Only
  <2>2. Accepted = {c \in Checkpoints : verified[c] = "accepted"}
    BY <2>1, Drained
  <2>3. CASE promotion # None
    BY <2>1, <2>3
  <2>4. CASE promotion = None
    <3>1. Record!Promote
      BY <2>1, <2>2, <2>4, Zenon DEF Record!Promote, Record!Min, Min
    <3> QED
      BY <3>1 DEF Record!Next
  <2> QED
    BY <2>3, <2>4
<1>4. ObserveResult \/ MarkExpired \/ CancelEval \/ CreatePromotion
      \/ UNCHANGED <<verified, promotion>>
  BY DEF SpawnWorker, WorkerAnswers,
         Next, Supervisor, Environment, vars, bucket, process, Only, Begin, PublishCheckpoint,
         EnsureEval, ObserveNothing, ResetExpiredEval, VerdictConflict, MarkTerminal,
             DeferClosed,
         ReconcileVerified, DeferFailed, PrepareAttempt, MarkSubmitted, EndActive,
         EndDrain, EndFailing, CreatePromotion, SkipPromotion, IncompleteEvidence, Finish,
         RecoverEval, Recovered, LearnerSaves, LearnerExits, CancelRequest, CancelSignal,
         AttemptExpires, Exception, PublishFails, Crash, Restart
<1> QED
  BY <1>2, <1>3, <1>4

(* A verdict is final, and the promotion stays the lowest acceptance,      *)
(* through every restart and failure (run_authority.py, create_terminal).  *)
THEOREM EvaluationImplementsRecord == Spec => ImplementsRecord
<1> QED
  BY RecordInit, RecordStep, Inductive, PTL DEF Spec, ImplementsRecord, Record!Spec

-----------------------------------------------------------------------------
(* Only a straggler costs an evaluation the verdict it reached in time.    *)

(* What an answer leaves in the bucket.  A result is the answer of its     *)
(* attempt; an answer in time finds it taken only by an earlier attempt,   *)
(* for the later one is prepared after the deadline.                       *)
Answered(c) ==
  /\ result[c] # None => call[c][result[c].attempt] \in {"inTime", "answered"}
  /\ \A a \in Attempts : call[c][a] = "inTime" =>
       /\ result[c] # None /\ result[c].attempt <= a
       /\ result[c].attempt = a => result[c].status # "expired"

Answers == \A c \in Checkpoints : Answered(c)

(* The supervisor has looked for a result, found none it may use, and is   *)
(* about to record the evaluation as expired.                              *)
Expiring ==
  /\ mode \in {"active", "drain"}
  /\ at.todo # {} /\ at.step = "unseen" /\ at.phase \in {"poll", "settle", "settle again"}

InTime(c) == \E a \in Attempts : call[c][a] = "inTime"

Missed == Expiring => (InTime(Current) => Straggled(Current))

CallType == [Checkpoints -> [Attempts -> {"none", "called", "inTime", "answered"}]]
ResultType == [attempt : Attempts, status : WorkerVerdicts \cup {"expired"}]

LEMMA AnswersInit == Init => Answers
  BY DEF Init, Answers, Answered

(* The documents of an answer.                                             *)
LEMMA AnswerEffect ==
  ASSUME TypeOK, NEW c \in Checkpoints, NEW a \in Attempts, NEW status,
         WorkerAnswers(c, a, status)
  PROVE  /\ call[c][a] = "called" /\ UNCHANGED <<deadline, mode, at, row>>
         /\ \A d \in Checkpoints, b \in Attempts :
              ~(d = c /\ b = a) => call'[d][b] = call[d][b]
         /\ call'[c][a] = IF deadline[c][a] = "live" /\ status # "failed"
                          THEN "inTime" ELSE "answered"
         /\ status = "expired" => deadline[c][a] = "late"
         /\ \A d \in Checkpoints : d # c \/ result[d] # None => result'[d] = result[d]
         /\ result[c] = None => result'[c] = [attempt |-> a, status |-> status]
<1> DEFINE new == IF deadline[c][a] = "live" /\ status # "failed" THEN "inTime" ELSE "answered"
<1>1. /\ call[c][a] = "called" /\ UNCHANGED <<deadline, mode, at, row>>
      /\ status = "expired" => deadline[c][a] = "late"
      /\ call' = [call EXCEPT ![c][a] = new]
  BY DEF WorkerAnswers, process
<1>2. call \in CallType
  BY DEF TypeOK, CallType
<1>3. Upload(c, a, status)
  BY DEF WorkerAnswers
<1> HIDE DEF new
<1>4. /\ call'[c][a] = new
      /\ \A d \in Checkpoints, b \in Attempts : ~(d = c /\ b = a) => call'[d][b] = call[d][b]
  BY <1>1, <1>2 DEF CallType
<1>5. DOMAIN result = Checkpoints
  BY DEF TypeOK
<1>6. /\ \A d \in Checkpoints : d # c \/ result[d] # None => result'[d] = result[d]
      /\ result[c] = None => result'[c] = [attempt |-> a, status |-> status]
  <2>1. CASE result[c] = None
    <3>1. result' = [result EXCEPT ![c] = [attempt |-> a, status |-> status]]
      BY <1>3, <2>1 DEF Upload
    <3> QED
      BY <1>5, <2>1, <3>1
  <2>2. CASE result[c] # None
    BY <1>3, <2>2 DEF Upload
  <2> QED
    BY <2>1, <2>2
<1> QED
  BY <1>1, <1>4, <1>6 DEF new

LEMMA AnsweredAfterAnswer ==
  ASSUME TypeOK, Documents, Answers, NEW c \in Checkpoints, NEW a \in Attempts,
         NEW status \in WorkerVerdicts \cup {"expired"}, WorkerAnswers(c, a, status)
  PROVE  Answers'
<1> SUFFICES ASSUME NEW d \in Checkpoints PROVE Answered(d)'
  BY DEF Answers
<1> DEFINE new == IF deadline[c][a] = "live" /\ status # "failed" THEN "inTime" ELSE "answered"
<1>1. /\ call[c][a] = "called"
      /\ \A e \in Checkpoints, b \in Attempts : ~(e = c /\ b = a) => call'[e][b] = call[e][b]
      /\ call'[c][a] = new /\ (new = "inTime" => deadline[c][a] = "live")
      /\ new \in {"inTime", "answered"}
      /\ status = "expired" => deadline[c][a] = "late"
      /\ \A e \in Checkpoints : e # c \/ result[e] # None => result'[e] = result[e]
      /\ result[c] = None => result'[c] = [attempt |-> a, status |-> status]
  BY AnswerEffect
<1> HIDE DEF new
<1>2. Answered(d)
  BY DEF Answers
<1>3. result[d] # None => result[d] \in ResultType
  BY DEF TypeOK, ResultType
<1>4. CASE d # c
  BY <1>1, <1>2, <1>3, <1>4 DEF Answered, ResultType
<1>5. CASE d = c /\ result[c] # None
  <2>1. result'[c] = result[c] /\ result[c].attempt \in Attempts /\ result[c].attempt # a
    BY <1>1, <1>2, <1>3, <1>5 DEF Answered, ResultType
  <2>2. call'[c][result[c].attempt] \in {"inTime", "answered"}
    BY <1>1, <1>2, <1>5, <2>1 DEF Answered
  <2>3. new = "inTime" => result[c].attempt <= a
    <3> SUFFICES ASSUME deadline[c][a] = "live" PROVE result[c].attempt <= a
      BY <1>1
    <3>1. ~(a < result[c].attempt)
      BY <1>5, <2>1 DEF Documents
    <3> QED
      BY <2>1, <3>1 DEF Attempts, MaxAttempts
  <2>4. ASSUME NEW b \in Attempts, call'[c][b] = "inTime"
        PROVE  result[c].attempt <= b /\ (result[c].attempt = b => result[c].status # "expired")
    <3>1. CASE b = a
      BY <1>1, <2>1, <2>3, <2>4, <3>1
    <3>2. CASE b # a
      BY <1>1, <1>2, <1>5, <2>4, <3>2 DEF Answered
    <3> QED
      BY <3>1, <3>2
  <2> QED
    BY <1>5, <2>1, <2>2, <2>4 DEF Answered
<1>6. CASE d = c /\ result[c] = None
  <2>1. result'[c].attempt = a /\ result'[c].status = status
    BY <1>1, <1>6
  <2>2. result'[c] # None
    <3>1. result'[c] = [attempt |-> a, status |-> status]
      BY <1>1, <1>6
    <3>2. None \notin ResultType
      BY NoneAssumption, EvaluationAssumption DEF ResultType, Terminal
    <3> QED
      BY <3>1, <3>2 DEF ResultType
  <2>3. \A b \in Attempts : b # a => call'[c][b] # "inTime"
    BY <1>1, <1>2, <1>6 DEF Answered
  <2>4. new = "inTime" => status # "expired"
    BY <1>1
  <2>5. a <= a
    BY DEF Attempts
  <2> QED
    BY <1>1, <1>6, <2>1, <2>2, <2>3, <2>4, <2>5 DEF Answered
<1> QED
  BY <1>4, <1>5, <1>6

(* Apart from the answer of a worker the results and the calls change only *)
(* when a worker is called.                                                *)
LEMMA AnswersStep == IInv /\ Answers /\ [Next]_vars => Answers'
<1> SUFFICES ASSUME IInv, Answers, [Next]_vars PROVE Answers'
  OBVIOUS
<1>1. TypeOK /\ Documents /\ Placed /\ Queued /\ Recorded
  BY DEF IInv
<1>2. CASE \E c \in Checkpoints, a \in Attempts, status \in WorkerVerdicts \cup {"expired"} :
             WorkerAnswers(c, a, status)
  BY <1>1, <1>2, AnsweredAfterAnswer
<1>3. CASE SpawnWorker
  <2>1. /\ at.todo # {} /\ at.phase = "submit" /\ at.step = "spawn" /\ result' = result
        /\ call' = [call EXCEPT ![Current][NextAttempt] = "called"]
    BY <1>3 DEF SpawnWorker, At, bucket
  <2>2. row[Current].attempt \in 0..2 /\ row[Current].attempt < 2 /\ Current \in Checkpoints
    BY <1>1, <2>1, Rowed
  <2>3. PICK c \in Checkpoints : c = Current
    BY <2>2
  <2>4. PICK a \in Attempts : a = NextAttempt
    BY <2>2 DEF NextAttempt, Attempts, MaxAttempts
  <2>5. call[c][a] = "none"
    BY <1>1, <2>1, <2>2, <2>3, <2>4 DEF Recorded, RecordOf, InRow, NextAttempt
  <2>6. call \in CallType
    BY <1>1 DEF TypeOK, CallType
  <2>7. /\ call' = [call EXCEPT ![c][a] = "called"]
    BY <2>1, <2>3, <2>4
  <2>8. /\ call'[c][a] = "called"
        /\ \A d \in Checkpoints, b \in Attempts : ~(d = c /\ b = a) => call'[d][b] = call[d][b]
    BY <2>6, <2>7 DEF CallType
  <2>9. ASSUME NEW d \in Checkpoints PROVE Answered(d)'
    <3>1. Answered(d)
      BY DEF Answers
    <3>2. result[d] # None => result[d].attempt \in Attempts
      BY <1>1 DEF TypeOK
    <3>3. CASE d = c
      BY <2>1, <2>5, <2>8, <3>1, <3>2, <3>3 DEF Answered
    <3>4. CASE d # c
      BY <2>1, <2>8, <3>1, <3>2, <3>4 DEF Answered
    <3> QED
      BY <3>3, <3>4
  <2> QED
    BY <2>9 DEF Answers
<1>4. \/ SpawnWorker \/ UNCHANGED <<call, result>>
      \/ \E c \in Checkpoints, a \in Attempts, status \in WorkerVerdicts \cup {"expired"} :
           WorkerAnswers(c, a, status)
  BY DEF ObserveResult, MarkExpired, CancelEval,
         Next, Supervisor, Environment, vars, bucket, process, Only, Begin, PublishCheckpoint,
         EnsureEval, ObserveNothing, ResetExpiredEval, VerdictConflict, MarkTerminal,
             DeferClosed,
         ReconcileVerified, DeferFailed, PrepareAttempt, MarkSubmitted, EndActive,
         EndDrain, EndFailing, CreatePromotion, SkipPromotion, IncompleteEvidence, Finish,
         RecoverEval, Recovered, LearnerSaves, LearnerExits, CancelRequest, CancelSignal,
         AttemptExpires, Exception, PublishFails, Crash, Restart
<1>5. CASE UNCHANGED <<call, result>>
  BY <1>5 DEF Answers, Answered
<1> QED
  BY <1>2, <1>3, <1>4, <1>5

(* A straggler stays one: results are written once, and a prepared attempt *)
(* stays prepared.                                                         *)
LEMMA PreparedStays ==
  ASSUME IInv, [Next]_vars, NEW c \in Checkpoints, NEW a \in Attempts,
         deadline[c][a] # "none"
  PROVE  deadline'[c][a] # "none"
<1>1. deadline \in [Checkpoints -> [Attempts -> {"none", "live", "late"}]]
  BY DEF IInv, TypeOK
<1>2. ASSUME NEW d \in Checkpoints, NEW b \in Attempts, AttemptExpires(d, b)
      PROVE  deadline'[c][a] # "none"
  BY <1>1, <1>2 DEF AttemptExpires
<1>3. CASE PrepareAttempt
  BY <1>1, <1>3 DEF PrepareAttempt
<1>4. \/ PrepareAttempt \/ deadline' = deadline
      \/ \E d \in Checkpoints, b \in Attempts : AttemptExpires(d, b)
  BY DEF ObserveResult, MarkExpired, CancelEval, SpawnWorker, WorkerAnswers,
         Next, Supervisor, Environment, vars, bucket, process, Only, Begin, PublishCheckpoint,
         EnsureEval, ObserveNothing, ResetExpiredEval, VerdictConflict, MarkTerminal,
             DeferClosed,
         ReconcileVerified, DeferFailed, MarkSubmitted, EndActive,
         EndDrain, EndFailing, CreatePromotion, SkipPromotion, IncompleteEvidence, Finish,
         RecoverEval, Recovered, LearnerSaves, LearnerExits, CancelRequest, CancelSignal,
         Exception, PublishFails, Crash, Restart
<1> QED
  BY <1>2, <1>3, <1>4

LEMMA ResultStays ==
  ASSUME IInv, [Next]_vars, NEW c \in Checkpoints, result[c] # None
  PROVE  result'[c] = result[c]
<1>1. ASSUME NEW d \in Checkpoints, NEW b \in Attempts, NEW status, WorkerAnswers(d, b, status)
      PROVE  result'[c] = result[c]
  <2>1. TypeOK
    BY DEF IInv
  <2> QED
    BY <1>1, <2>1, AnswerEffect
<1>2. \/ result' = result
      \/ \E d \in Checkpoints, b \in Attempts, status \in WorkerVerdicts \cup {"expired"} :
           WorkerAnswers(d, b, status)
  BY DEF ObserveResult, MarkExpired, CancelEval, SpawnWorker,
         Next, Supervisor, Environment, vars, bucket, process, Only, Begin, PublishCheckpoint,
         EnsureEval, ObserveNothing, ResetExpiredEval, VerdictConflict, MarkTerminal,
             DeferClosed,
         ReconcileVerified, DeferFailed, PrepareAttempt, MarkSubmitted, EndActive,
         EndDrain, EndFailing, CreatePromotion, SkipPromotion, IncompleteEvidence, Finish,
         RecoverEval, Recovered, LearnerSaves, LearnerExits, CancelRequest, CancelSignal,
         AttemptExpires, Exception, PublishFails, Crash, Restart
<1> QED
  BY <1>1, <1>2

LEMMA StraggledStays ==
  ASSUME IInv, [Next]_vars, NEW c \in Checkpoints, Straggled(c)
  PROVE  Straggled(c)'
<1>1. PICK a \in Attempts : deadline[c][a] # "none" /\ result[c].attempt < a
  BY DEF Straggled
<1>2. result'[c] = result[c] /\ result[c] # None
  BY ResultStays DEF Straggled
<1>3. deadline'[c][a] # "none"
  BY <1>1, PreparedStays
<1> QED
  BY <1>1, <1>2, <1>3 DEF Straggled

(* While a row waits to be recorded as expired no attempt of it is within  *)
(* its deadline any more, and the ledger has the last one that was made.   *)
LEMMA ExpiringIsOver ==
  ASSUME IInv, Expiring
  PROVE  /\ Current \in Checkpoints /\ row[Current].attempt \in 0..2
         /\ \A a \in Attempts : /\ deadline[Current][a] # "live"
                                /\ deadline[Current][a] # "none" <=> a <= row[Current].attempt
<1>1. TypeOK /\ Documents /\ Placed /\ Queued /\ Recorded
  BY DEF IInv
<1>2. PICK c \in Checkpoints : c = Current
  BY <1>1, CurrentIsQueued DEF Expiring
<1>3. /\ RecordOf(c) /\ Rebuilt(c) /\ ~InRow(c, {"spawn", "dispatch"}) /\ row[c].attempt \in 0..2
      /\ at.phase \in {"settle", "settle again"} => row[c].status = "pending"
  BY <1>1, <1>2, Rowed DEF Expiring, Recorded, Rebuilt, InRow
<1>4. ASSUME NEW a \in Attempts
      PROVE  deadline[c][a] # "live" /\ (deadline[c][a] # "none" <=> a <= row[c].attempt)
  <2>1. deadline[c][a] # "none" <=> a <= row[c].attempt
    BY <1>3 DEF RecordOf
  <2>2. CASE at.phase \in {"settle", "settle again"}
    BY <1>3, <2>1, <2>2 DEF RecordOf
  <2>3. CASE at.phase = "poll"
    <3>1. row[c].attempt \in Attempts /\ deadline[c][row[c].attempt] = "late"
      BY <1>1, <1>2, <1>3, <2>3 DEF Expiring, Placed, Late, Attempts, MaxAttempts
    <3>2. a < row[c].attempt \/ a = row[c].attempt \/ ~(a <= row[c].attempt)
      <4>1. a \in Nat /\ row[c].attempt \in Nat
        <5>1. row[c].attempt \in 0..2
          BY <1>3
        <5> QED
          BY <5>1 DEF Attempts, MaxAttempts
      <4> QED
        BY <4>1
    <3> QED
      BY <1>1, <2>1, <3>1, <3>2 DEF Documents
  <2> QED
    BY <2>1, <2>2, <2>3 DEF Expiring
<1> QED
  BY <1>2, <1>3, <1>4

(* Only an unsuccessful look for a result leads to a row that expires.     *)
LEMMA StepIs == ASSUME TypeOK, NEW s, Step(s) PROVE at'.step = s
  BY TypeOfAt DEF Step, Positions

LEMMA RowStepIs ==
  ASSUME TypeOK, Placed, at.todo # {}, NEW ledger, NEW shut, NextRow(ledger, shut)
  PROVE  at'.step = "row"
  BY Busy, NextRowEffect

LEMMA BeginningIs ==
  /\ Idle.step = "row" /\ [Idle EXCEPT !.phase = "end"].step = "row"
  /\ [Idle EXCEPT !.phase = "promote"].step = "row" /\ [Idle EXCEPT !.phase = "finish"].step = "row"
  BY DEF Idle

LEMMA UnseenFrame ==
  ASSUME IInv, [Next]_vars, Expiring', ~ObserveNothing
  PROVE  \/ UNCHANGED <<mode, at, row, call>>
         \/ UNCHANGED <<mode, at, row>> /\ \E c \in Checkpoints, a \in Attempts,
              status \in WorkerVerdicts \cup {"expired"} : WorkerAnswers(c, a, status)
<1>1. TypeOK /\ Placed
  BY DEF IInv
<1>2. at'.step = "unseen" /\ "unseen" # "row"
  BY DEF Expiring
<1>3. CASE \/ PublishCheckpoint \/ EnsureEval \/ ObserveResult
           \/ ResetExpiredEval \/ MarkExpired \/ MarkTerminal \/ DeferClosed
           \/ ReconcileVerified \/ CancelEval \/ DeferFailed
           \/ PrepareAttempt \/ SpawnWorker \/ MarkSubmitted \/ RecoverEval \/ PublishFails
  <2>1. at.todo # {}
    BY <1>3 DEF At, PublishCheckpoint, EnsureEval, ObserveResult, ObservesNow, ResetExpiredEval,
       MarkExpired, MustExpire, MarkTerminal, DeferClosed, ReconcileVerified, CancelEval,
       DeferFailed, PrepareAttempt, SpawnWorker, MarkSubmitted, RecoverEval, PublishFails
  <2>2. \/ \E s \in Steps \ {"unseen"} : Step(s)
        \/ \E ledger, shut : NextRow(ledger, shut)
    <3>1. {"intent", "verified", "spawn", "dispatch", "observe"} \subseteq Steps \ {"unseen"}
      BY DEF Steps
    <3>2. CASE PublishCheckpoint \/ PublishFails
      BY <3>1, <3>2, Zenon DEF PublishCheckpoint, PublishFails
    <3>3. CASE EnsureEval \/ ResetExpiredEval \/ MarkTerminal \/ DeferClosed \/ ReconcileVerified
               \/ DeferFailed \/ MarkSubmitted
      BY <3>3, Zenon DEF EnsureEval, ResetExpiredEval, MarkTerminal, DeferClosed,
         ReconcileVerified, DeferFailed, MarkSubmitted, SetRow
    <3>4. CASE ObserveResult \/ MarkExpired \/ CancelEval \/ SpawnWorker
      BY <3>1, <3>4 DEF ObserveResult, MarkExpired, CancelEval, SpawnWorker
    <3>5. CASE PrepareAttempt
      BY <3>1, <3>5, Zenon DEF PrepareAttempt, SetRow
    <3>6. CASE RecoverEval
      BY <3>1, <3>6, Zenon DEF RecoverEval, SetRow
    <3> QED
      BY <1>3, <3>2, <3>3, <3>4, <3>5, <3>6
  <2> QED
    BY <1>1, <1>2, <2>1, <2>2, StepIs, RowStepIs
<1>4. CASE \/ EndActive \/ EndDrain \/ EndFailing \/ CreatePromotion \/ SkipPromotion \/ Finish
           \/ Recovered \/ Crash
  <2>1. at'.step = "row" \/ (mode' = "failing" /\ ~(mode' \in {"active", "drain"}))
    BY <1>4, BeginningIs DEF EndActive, EndDrain, EndFailing, CreatePromotion, SkipPromotion,
       Finish, Recovered, Crash, Gone
  <2> QED
    BY <1>2, <2>1 DEF Expiring
<1>5. CASE VerdictConflict \/ IncompleteEvidence \/ Exception
  <2>1. at' = Idle
    BY <1>5 DEF VerdictConflict, IncompleteEvidence, Exception, Raise, Gone
  <2> QED
    BY <1>2, <2>1, BeginningIs
<1>6. CASE Restart
  BY <1>6 DEF Restart, Expiring
<1>7. CASE Begin
  <2>1. at' = PhaseAfter(0, row, closed, canceled')
    BY <1>7 DEF Begin
  <2> QED
    BY <1>1, <1>2, <2>1, PhaseAfterStarts
<1>8. CASE \/ \E c \in Checkpoints : LearnerSaves(c)
           \/ LearnerExits \/ CancelRequest \/ CancelSignal
           \/ \E c \in Checkpoints, a \in Attempts : AttemptExpires(c, a)
           \/ UNCHANGED vars
  BY <1>8 DEF LearnerSaves, LearnerExits, CancelRequest, CancelSignal, AttemptExpires, Only,
     process, vars
<1>9. CASE \E c \in Checkpoints, a \in Attempts, status \in WorkerVerdicts \cup {"expired"} :
             WorkerAnswers(c, a, status)
  BY <1>9 DEF WorkerAnswers, process
<1> QED
  BY <1>3, <1>4, <1>5, <1>6, <1>7, <1>8, <1>9, Zenon DEF Next, Supervisor, Environment

(* A look that finds no usable result misses one only behind a straggler.  *)
LEMMA MissedStep == IInv /\ Answers /\ Missed /\ [Next]_vars => Missed'
<1> SUFFICES ASSUME IInv, Answers, Missed, [Next]_vars, Expiring', InTime(Current)'
             PROVE  Straggled(Current)'
  BY DEF Missed
<1>1. TypeOK /\ Documents /\ Placed
  BY DEF IInv
<1>2. CASE ObserveNothing
  <2>1. /\ ~Verifiable(Current) /\ at.todo # {}
        /\ \/ NextRow(row, closed) \/ Step("unseen")
        /\ UNCHANGED <<deadline, result, call, mode, row>>
    BY <1>2 DEF ObserveNothing, ObservesNow, At, Only, bucket
  <2>2. Step("unseen")
    BY <1>1, <2>1, RowStepIs DEF Expiring
  <2>3. at'.todo = at.todo /\ at'.phase = at.phase /\ Current' = Current
    BY <1>1, <2>1, <2>2, StepEffect DEF Steps
  <2>4. PICK c \in Checkpoints : c = Current
    BY <1>1, <2>1, CurrentIsQueued
  <2>5. /\ RecordOf(c) /\ Rebuilt(c) /\ row[c].attempt \in 0..2
        /\ at.phase \in {"settle", "settle again"} => row[c].attempt > 0
        /\ at.phase = "poll" => row[c].attempt > 0
    <3>1. at.phase # "publish" /\ at.phase \in {"poll", "settle", "settle again"}
      BY <2>3 DEF Expiring
    <3>2. RecordOf(c) /\ Rebuilt(c) /\ row[c].attempt \in 0..2
      BY <2>1, <2>4, <3>1, Rowed DEF IInv, Recorded, Rebuilt, Expiring
    <3>3. at.phase \in {"settle", "settle again"} => row[c].attempt > 0
      BY <1>2, <2>4 DEF ObserveNothing, ObservesNow, At
    <3>4. at.phase = "poll" => row[c].attempt > 0
      <4> SUFFICES ASSUME at.phase = "poll" PROVE row[c].attempt > 0
        OBVIOUS
      <4>1. ~Late(Current) => NextRow(row, closed)
        BY <1>2 DEF ObserveNothing
      <4>2. Late(Current)
        BY <1>1, <2>1, <4>1, RowStepIs DEF Expiring
      <4> QED
        BY <2>4, <4>2 DEF Late
    <3> QED
      BY <3>2, <3>3, <3>4
  <2>6. PICK a \in Attempts : call[c][a] = "inTime"
    BY <2>1, <2>3, <2>4 DEF InTime
  <2>7. /\ result[c] # None /\ result[c].attempt <= a /\ result[c].attempt \in Attempts
        /\ deadline[c][a] # "none"
    BY <1>1, <2>6 DEF Answers, Answered, Documents, TypeOK
  <2>8. result[c].attempt # row[c].attempt
    BY <2>1, <2>4, <2>7 DEF Verifiable
  <2>9. at.step \notin {"spawn", "dispatch"}
    BY <1>2 DEF ObserveNothing, ObservesNow, At
  <2>10. \A b \in Attempts : deadline[c][b] # "none" <=> b <= row[c].attempt
    BY <2>5, <2>9 DEF RecordOf, InRow
  <2>11. row[c].attempt \in Attempts /\ a <= row[c].attempt
    <3>1. at.phase \in {"poll", "settle", "settle again"}
      BY <2>3 DEF Expiring
    <3>2. row[c].attempt \in 0..2 /\ row[c].attempt > 0
      BY <2>5, <3>1
    <3>3. row[c].attempt \in Attempts
      BY <3>2 DEF Attempts, MaxAttempts
    <3> QED
      BY <2>7, <2>10, <3>3
  <2>12. result[c].attempt < row[c].attempt /\ deadline[c][row[c].attempt] # "none"
    <3>1. result[c].attempt \in Nat /\ a \in Nat /\ row[c].attempt \in Nat
          /\ row[c].attempt <= row[c].attempt
      BY <2>7, <2>11 DEF Attempts, MaxAttempts
    <3> QED
      BY <2>7, <2>8, <2>10, <2>11, <3>1
  <2>13. Straggled(c)
    BY <2>7, <2>11, <2>12 DEF Straggled
  <2> QED
    BY <2>3, <2>4, <2>13, StraggledStays
<1>3. CASE UNCHANGED <<mode, at, row, call>>
  <2>1. Expiring /\ Current' = Current /\ InTime(Current)
    BY <1>3 DEF Expiring, InTime, Current, Rows
  <2>2. Straggled(Current) /\ Current \in Checkpoints
    BY <2>1, ExpiringIsOver DEF Missed
  <2>3. PICK c \in Checkpoints : c = Current /\ Straggled(c)
    BY <2>2
  <2> QED
    BY <2>1, <2>3, StraggledStays
<1>4. ASSUME NEW c \in Checkpoints, NEW a \in Attempts, NEW status, WorkerAnswers(c, a, status),
             UNCHANGED <<mode, at, row>>
      PROVE  Straggled(Current)'
  <2>1. Expiring /\ Current' = Current
    BY <1>4 DEF Expiring, Current, Rows
  <2>2. PICK d \in Checkpoints : d = Current
    BY <2>1, ExpiringIsOver
  <2>3. \A b \in Attempts : deadline[d][b] # "live"
    BY <2>1, <2>2, ExpiringIsOver
  <2>4. PICK b \in Attempts : call'[d][b] = "inTime"
    BY <2>1, <2>2 DEF InTime
  <2>5. call[d][b] = "inTime"
    <3>1. CASE d = c /\ b = a
      BY <1>1, <1>4, <2>3, <2>4, <3>1, AnswerEffect
    <3>2. CASE ~(d = c /\ b = a)
      <4>1. call'[d][b] = call[d][b]
        <5>1. \A e \in Checkpoints, f \in Attempts :
                ~(e = c /\ f = a) => call'[e][f] = call[e][f]
          BY <1>1, <1>4, AnswerEffect
        <5> QED
          BY <3>2, <5>1
      <4> QED
        BY <2>4, <4>1
    <3> QED
      BY <3>1, <3>2
  <2>6. Straggled(d)
    BY <2>1, <2>2, <2>5 DEF Missed, InTime
  <2> QED
    BY <2>1, <2>2, <2>6, StraggledStays
<1> QED
  BY <1>2, <1>3, <1>4, UnseenFrame

(* The verdict "expired" comes from a result, or from a row that waits.    *)
LEMMA LossIsMissed ==
  ASSUME IInv, Answers, Missed, [Next]_vars, mode \in {"active", "drain"},
         NEW c \in Checkpoints, verified[c] = None, verified'[c] = "expired", InTime(c)
  PROVE  Straggled(c)
<1>1. TypeOK /\ Documents /\ Placed
  BY DEF IInv
<1>2. None # "expired"
  BY NoneAssumption DEF Terminal
<1>3. ObserveResult \/ MarkExpired \/ CancelEval \/ verified' = verified
  BY DEF Next, Supervisor, Environment, vars, bucket, Only, Begin, PublishCheckpoint,
     EnsureEval,
         ObserveNothing, ResetExpiredEval, VerdictConflict, MarkTerminal, DeferClosed,
         ReconcileVerified, DeferFailed, PrepareAttempt, SpawnWorker, MarkSubmitted, EndActive,
         EndDrain, EndFailing, CreatePromotion, SkipPromotion, IncompleteEvidence, Finish,
         RecoverEval, Recovered, LearnerSaves, LearnerExits, CancelRequest, CancelSignal,
         AttemptExpires, WorkerAnswers, Exception, PublishFails, Crash, Restart
<1>4. ObserveResult \/ MarkExpired \/ CancelEval
  BY <1>2, <1>3
<1>5. at.todo # {} /\ \E status \in Terminal : verified' = [verified EXCEPT ![Current] = status]
  BY <1>1, <1>4, VerdictEffect
<1>6. c = Current
  BY <1>1, <1>2, <1>5 DEF TypeOK
<1>7. CASE ObserveResult
  <2>1. /\ result[c] # None /\ verified' = [verified EXCEPT ![c] = result[c].status]
    BY <1>6, <1>7 DEF ObserveResult, Verifiable, PutVerified
  <2>2. result[c].status = "expired" /\ result[c].attempt \in Attempts
    BY <1>1, <2>1 DEF TypeOK
  <2>3. PICK a \in Attempts : call[c][a] = "inTime"
    BY DEF InTime
  <2>4. result[c].attempt <= a /\ result[c].attempt # a /\ deadline[c][a] # "none"
    BY <1>1, <2>2, <2>3 DEF Answers, Answered, Documents
  <2>5. result[c].attempt < a
    BY <2>2, <2>4 DEF Attempts, MaxAttempts
  <2> QED
    BY <2>1, <2>4, <2>5 DEF Straggled
<1>8. CASE MarkExpired
  <2>1. Expiring
    BY <1>5, <1>8 DEF MarkExpired, MustExpire, At, Expiring
  <2> QED
    BY <1>6, <2>1 DEF Missed
<1>9. CASE CancelEval
  BY <1>1, <1>6, <1>9 DEF CancelEval, PutVerified, TypeOK
<1> QED
  BY <1>4, <1>7, <1>8, <1>9

(* Unless the Attempt has failed, an evaluation that was answered in time  *)
(* is stored as expired only if a late answer of an earlier attempt took   *)
(* its result object (modal_eval_worker.py uploads with If-None-Match).    *)
THEOREM LossNeedsAStraggler == Spec => OnlyStragglersCost
<1>1. Init => Answers /\ Missed
  BY AnswersInit DEF Init, Missed, Expiring, Idle
<1>2. IInv /\ Answers /\ Missed /\ [Next]_vars => Answers' /\ Missed'
  BY AnswersStep, MissedStep
<1>3. IInv /\ Answers /\ Missed /\ [Next]_vars =>
        [(mode \in {"active", "drain"}) => \A c \in Checkpoints :
           /\ verified[c] = None /\ verified'[c] = "expired"
           /\ \E a \in Attempts : call[c][a] = "inTime"
           => Straggled(c)]_vars
  BY LossIsMissed DEF InTime
<1> QED
  BY <1>1, <1>2, <1>3, Inductive, PTL DEF Spec, OnlyStragglersCost
=============================================================================
