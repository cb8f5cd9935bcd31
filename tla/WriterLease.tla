----------------------------- MODULE WriterLease -----------------------------
(***************************************************************************)
(* The per-Run writer lease of GradLab: one JSON object in the private     *)
(* control bucket, runs/<id>/writer-lease.json, taken, renewed and freed   *)
(* with conditional requests (run_authority.py: acquire_lease,             *)
(* renew_lease, release_lease; r2_store.py: put_bytes, delete, head).      *)
(*                                                                         *)
(* Two kinds of process take it.  A training supervisor renews it from a   *)
(* background thread and from its own loop, tolerates one failed renewal   *)
(* and never frees it (run_supervisor.py: _renew_lease).  An operator tool *)
(* (sync-run, local publication) renews it from a thread that gives up at  *)
(* the first error, and frees it when it ends.                             *)
(*                                                                         *)
(* Every request to the bucket is a step of its own, so that other         *)
(* processes and the clock move between the two reads of acquire_lease,    *)
(* between a read and the write it justifies, and between the moment a     *)
(* write takes effect and the moment its reply is seen.                    *)
(***************************************************************************)
EXTENDS Integers

CONSTANTS
  Supervisors,  \* training supervisors (one per Attempt of the Run)
  Tools,        \* operator processes that also write the Run
  Ttl,          \* LEASE_TTL_SECONDS, in clock ticks
  RenewEvery,   \* LEASE_RENEW_SECONDS, in clock ticks
  MissLimit,    \* LEASE_MISSES_BEFORE_STOP
  Ahead,        \* how far the UTC clock of each process's host is ahead
  MaxClock,     \* bound of the model: time stops here
  NoLease       \* the object does not exist

Holders == Supervisors \cup Tools

(* The constants of run_authority.py:65-67 are 60 s, 15 s and 2 misses.    *)
ASSUME LeaseAssumption ==
  /\ Supervisors \cap Tools = {}
  /\ Ttl \in Nat /\ RenewEvery \in Nat /\ MaxClock \in Nat
  /\ 0 < RenewEvery /\ RenewEvery < Ttl
  /\ MissLimit = 2
  /\ Ahead \in [Holders -> Nat]

(* What the UTC clock of h's host shows at time t.  Expiry times are       *)
(* written and read by the clocks of different hosts; intervals are        *)
(* measured by the monotonic clock of one.                                 *)
Utc(h, t) == t + Ahead[h]

(* The lease document.  Its ETag is a digest of its content, so comparing  *)
(* ETags is comparing documents.                                           *)
Document == [holder : Holders, generation : Nat, expires : Nat]

ASSUME NoLeaseAssumption == NoLease \notin Document

VARIABLES
  now,         \* time, as every monotonic clock measures it
  object,      \* the stored document, or NoLease
  pc,          \* where each process is
  seen,        \* acquire_lease: the document its GET returned
  etag,        \* acquire_lease: the document whose ETag its HEAD returned
  instant,     \* the time whose reading the current request is based on
  lease,       \* the Lease the process holds: document and ETag
  last,        \* last_lease_renewal
  misses,      \* lease_misses
  trusted      \* history: when the process last had a reply that confirmed its
               \*   lease, or, if later, when another document replaced it

vars == <<now, object, pc, seen, etag, instant, lease, last, misses, trusted>>

PC == {"idle", "got", "ready", "acquired", "holding", "renewing", "renewed",
       "lost", "gone"}

Init ==
  /\ now = 0
  /\ object = NoLease
  /\ pc = [h \in Holders |-> "idle"]
  /\ seen = [h \in Holders |-> NoLease]
  /\ etag = [h \in Holders |-> NoLease]
  /\ instant = [h \in Holders |-> 0]
  /\ lease = [h \in Holders |-> NoLease]
  /\ last = [h \in Holders |-> 0]
  /\ misses = [h \in Holders |-> 0]
  /\ trusted = [h \in Holders |-> 0]

Move(h, from, to) ==
  /\ pc[h] = from
  /\ pc' = [pc EXCEPT ![h] = to]

(* Local variables that go out of scope when a call returns or a process   *)
(* ends are reset.                                                         *)
EndCall(h) ==
  /\ seen' = [seen EXCEPT ![h] = NoLease]
  /\ etag' = [etag EXCEPT ![h] = NoLease]
  /\ instant' = [instant EXCEPT ![h] = 0]

End(h) ==
  /\ pc' = [pc EXCEPT ![h] = "gone"]
  /\ EndCall(h)
  /\ lease' = [lease EXCEPT ![h] = NoLease]
  /\ last' = [last EXCEPT ![h] = 0]
  /\ misses' = [misses EXCEPT ![h] = 0]
  /\ trusted' = [trusted EXCEPT ![h] = 0]

Stored(h) == object # NoLease /\ object.holder = h

(* Faulty variant: the lifetime is subtracted.                             *)
Successor_Backdated(h, previous) ==
  [holder     |-> h,
   generation |-> IF previous = NoLease THEN 1 ELSE previous.generation + 1,
   expires    |-> Utc(h, instant[h]) - Ttl]

(* The document h writes next: acquire_lease counts on from the document   *)
(* its GET returned, renew_lease from its own lease.                       *)
Successor(h, previous) ==
  [holder     |-> h,
   generation |-> IF previous = NoLease THEN 1 ELSE previous.generation + 1,
   expires    |-> Utc(h, instant[h]) + Ttl]

(* h's document replaces what is stored; whoever owned that is stale.      *)
Overwrite(h, document) ==
  /\ object' = document
  /\ trusted' = [g \in Holders |->
                   IF g # h /\ Stored(g) /\ pc[g] # "gone" THEN now ELSE trusted[g]]

-----------------------------------------------------------------------------
(* acquire_lease                                                           *)

(* GET of the current document.                                            *)
AcquireGet(h) ==
  /\ Move(h, "idle", "got")
  /\ seen' = [seen EXCEPT ![h] = object]
  /\ instant' = [instant EXCEPT ![h] = now]
  /\ UNCHANGED <<now, object, etag, lease, last, misses, trusted>>

(* Faulty variant: the expiry comparison is turned round.                  *)
HeldByAnother_Inverted(h) ==
  /\ seen[h] # NoLease
  /\ seen[h].expires < Utc(h, instant[h])
  /\ seen[h].holder # h

HeldByAnother(h) ==
  /\ seen[h] # NoLease
  /\ seen[h].expires > Utc(h, instant[h])
  /\ seen[h].holder # h

(* A second request reads the ETag, if the GET found a document.  The      *)
(* expiry test is about the document of the GET.                           *)
AcquireHead(h) ==
  /\ seen[h] # NoLease => object # NoLease
  /\ ~HeldByAnother(h)
  /\ Move(h, "got", "ready")
  /\ etag' = [etag EXCEPT ![h] = IF seen[h] = NoLease THEN NoLease ELSE object]
  /\ UNCHANGED <<now, object, seen, instant, lease, last, misses, trusted>>

(* ObjectNotFound from the HEAD, or LeaseUnavailable from the expiry test. *)
AcquireRefused(h) ==
  /\ pc[h] = "got"
  /\ (seen[h] # NoLease /\ object = NoLease) \/ HeldByAnother(h)
  /\ End(h)
  /\ UNCHANGED <<now, object>>

(* The conditional PUT takes effect: create-only (etag is NoLease) or      *)
(* If-Match.                                                               *)
AcquirePut(h) ==
  /\ object = etag[h]
  /\ Move(h, "ready", "acquired")
  /\ Overwrite(h, Successor(h, seen[h]))
  /\ lease' = [lease EXCEPT ![h] = Successor(h, seen[h])]
  /\ UNCHANGED <<now, seen, etag, instant, last, misses>>

AcquireConflict(h) ==
  /\ pc[h] = "ready"
  /\ object # etag[h]
  /\ End(h)
  /\ UNCHANGED <<now, object>>

(* The reply arrives; it may be late, and the lease already replaced.      *)
AcquireReply(h) ==
  /\ Move(h, "acquired", "holding")
  /\ last' = [last EXCEPT ![h] = now]
  /\ misses' = [misses EXCEPT ![h] = 0]
  /\ trusted' = [trusted EXCEPT ![h] = now]
  /\ EndCall(h)
  /\ UNCHANGED <<now, object, lease>>

-----------------------------------------------------------------------------
(* renew_lease and the loops that call it                                  *)

Expired(h) == lease[h].expires <= Utc(h, now)

(* The supervisor also tests expiry; a tool's thread only waits.           *)
Due(h) ==
  \/ now - last[h] >= RenewEvery
  \/ h \in Supervisors /\ Expired(h)

RenewStart(h) ==
  /\ Move(h, "holding", "renewing")
  /\ Due(h)
  /\ ~Expired(h)
  /\ instant' = [instant EXCEPT ![h] = now]
  /\ UNCHANGED <<now, object, seen, etag, lease, last, misses, trusted>>

(* renew_lease refuses an expired lease before any request.                *)
RenewExpired(h) ==
  /\ Move(h, "holding", "lost")
  /\ Due(h)
  /\ Expired(h)
  /\ UNCHANGED <<now, object, seen, etag, instant, lease, last, misses, trusted>>

(* Faulty variant: the renewal is not conditional.                         *)
RenewPut_Unconditional(h) ==
  /\ Move(h, "renewing", "renewed")
  /\ Overwrite(h, Successor(h, lease[h]))
  /\ UNCHANGED <<now, seen, etag, instant, lease, last, misses>>

(* The PUT with If-Match takes effect.                                     *)
RenewPut(h) ==
  /\ object = lease[h]
  /\ Move(h, "renewing", "renewed")
  /\ Overwrite(h, Successor(h, lease[h]))
  /\ UNCHANGED <<now, seen, etag, instant, lease, last, misses>>

(* Another document is stored: definitive loss.                            *)
RenewConflict(h) ==
  /\ object # lease[h]
  /\ Move(h, "renewing", "lost")
  /\ EndCall(h)
  /\ UNCHANGED <<now, object, lease, last, misses, trusted>>

(* The reply arrives.  The supervisor dates the renewal from its start and *)
(* tests the expiry again; a tool's next wait starts now.                  *)
RenewReply(h) ==
  LET renewal == Successor(h, lease[h])
      tooLate == h \in Supervisors /\ renewal.expires <= Utc(h, now) IN
  /\ Move(h, "renewed", IF tooLate THEN "lost" ELSE "holding")
  /\ lease' = [lease EXCEPT ![h] = renewal]
  /\ last' = [last EXCEPT ![h] = IF h \in Supervisors THEN instant[h] ELSE now]
  /\ misses' = [misses EXCEPT ![h] = IF tooLate THEN @ + 1 ELSE 0]
  /\ trusted' = [trusted EXCEPT ![h] = now]
  /\ EndCall(h)
  /\ UNCHANGED <<now, object>>

(* Faulty variant: misses are not counted, only expiry ends the lease.     *)
RenewMissed_Uncounted(h) ==
  /\ pc[h] \in {"renewing", "renewed"}
  /\ pc' = [pc EXCEPT ![h] = IF h \in Tools \/ Expired(h) THEN "lost" ELSE "holding"]
  /\ last' = [last EXCEPT ![h] = instant[h]]
  /\ EndCall(h)
  /\ UNCHANGED <<now, object, lease, misses, trusted>>

(* The request fails or its reply is lost, before or after it took effect. *)
(* A supervisor tries again unless it missed too often or its old lease    *)
(* ran out; a tool gives up.                                               *)
RenewMissed(h) ==
  LET missed == misses[h] + 1 IN
  /\ pc[h] \in {"renewing", "renewed"}
  /\ pc' = [pc EXCEPT ![h] = IF h \in Tools \/ missed >= MissLimit \/ Expired(h)
                               THEN "lost" ELSE "holding"]
  /\ misses' = [misses EXCEPT ![h] = missed]
  /\ last' = [last EXCEPT ![h] = instant[h]]
  /\ EndCall(h)
  /\ UNCHANGED <<now, object, lease, trusted>>

-----------------------------------------------------------------------------
(* release_lease, the end of a process, and time                           *)

(* Faulty variant: the object is deleted without If-Match.                 *)
Release_Unconditional(h) ==
  /\ h \in Tools
  /\ pc[h] \in {"holding", "lost"}
  /\ object' = NoLease
  /\ End(h)
  /\ UNCHANGED now

(* A tool frees the lease when it ends, whether it still trusts it or not. *)
Release(h) ==
  /\ h \in Tools
  /\ pc[h] \in {"holding", "lost"}
  /\ object' = IF object = lease[h] THEN NoLease ELSE object
  /\ End(h)
  /\ UNCHANGED now

(* A process is killed, or a supervisor that lost its lease stops; the     *)
(* object stays.                                                           *)
Crash(h) ==
  /\ pc[h] \notin {"idle", "gone"}
  /\ End(h)
  /\ UNCHANGED <<now, object>>

(* The renewal threads poll once a second, far below a tick: a renewal     *)
(* that is due starts before the clock moves on.  How long a request then  *)
(* takes is not bounded.                                                   *)
Tick ==
  /\ now < MaxClock
  /\ \A h \in Holders : pc[h] = "holding" => ~Due(h)
  /\ now' = now + 1
  /\ UNCHANGED <<object, pc, seen, etag, instant, lease, last, misses, trusted>>

Next ==
  \/ \E h \in Holders :
       \/ AcquireGet(h) \/ AcquireHead(h) \/ AcquireRefused(h)
       \/ AcquirePut(h) \/ AcquireConflict(h) \/ AcquireReply(h)
       \/ RenewStart(h) \/ RenewExpired(h) \/ RenewPut(h) \/ RenewConflict(h)
       \/ RenewReply(h) \/ RenewMissed(h)
       \/ Release(h) \/ Crash(h)
  \/ Tick

Spec == Init /\ [][Next]_vars
-----------------------------------------------------------------------------
(* What the lease has to give                                              *)

TypeOK ==
  /\ now \in Nat
  /\ object \in Document \cup {NoLease}
  /\ pc \in [Holders -> PC]
  /\ seen \in [Holders -> Document \cup {NoLease}]
  /\ etag \in [Holders -> Document \cup {NoLease}]
  /\ instant \in [Holders -> Nat]
  /\ lease \in [Holders -> Document \cup {NoLease}]
  /\ last \in [Holders -> Nat]
  /\ misses \in [Holders -> Nat]
  /\ trusted \in [Holders -> Nat]

(* _lease_heartbeat (supervisor) or check_lease (tool) lets the process go *)
(* on to its next write.  Both wait for a renewal in flight.               *)
MayWrite(h) ==
  /\ pc[h] = "holding"
  /\ ~Expired(h)
  /\ h \in Supervisors => ~Due(h)

(* The Run has one writer at a time: run_authority.py:1149 relies on "the  *)
(* exclusive Run writer lease" to delete recovery bytes.                   *)
ExclusiveWriter ==
  \A g, h \in Holders : MayWrite(g) /\ MayWrite(h) => g = h

(* Safety that remains although the two reads of acquire_lease are not     *)
(* atomic and the clocks of the hosts differ: a lease that has not expired *)
(* by the clock of the process that replaces it is replaced only by one    *)
(* that read an older document, never by one that saw the live lease.      *)
LiveLeaseReplacedOnlyAcrossReads ==
  [][\A h \in Holders :
       /\ object # NoLease /\ object.expires > Utc(h, now) /\ object.holder # h
       /\ object' # NoLease /\ object' # object /\ object'.holder = h
       => seen[h] # object]_vars

(* A process whose lease was replaced passes no heartbeat once MissLimit   *)
(* renewal intervals have gone by: this bounds how long two writers can    *)
(* both go on, however slow the requests are.  It rests on MissLimit = 2:  *)
(* a third tolerated miss would let one slow request stretch the time      *)
(* without limit.                                                          *)
StaleWriterFencedInTime ==
  \A h \in Holders :
    MayWrite(h) /\ ~Stored(h) => now < trusted[h] + MissLimit * RenewEvery

(* A process whose lease was replaced never gets it back by renewing: its  *)
(* stale If-Match cannot overwrite the successor.                          *)
StaleWriterCannotReturn ==
  [][\A h \in Holders :
       pc[h] \in {"holding", "renewing", "renewed", "lost"} /\ ~Stored(h)
         => ~Stored(h)']_vars

(* A tool that ends frees its own lease and nobody else's.                 *)
ReleaseFreesOwnLease ==
  [][object # NoLease /\ object' = NoLease => pc'[object.holder] = "gone"]_vars
=============================================================================
