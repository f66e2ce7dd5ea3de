----------------------------- MODULE LeaseTerms -----------------------------
(***************************************************************************)
(* What the election promises, with no coordinators, caches or requests:   *)
(* one Lease that a DataKit may take when it is missing or has not been    *)
(* written for Duration, and whose term only its holder extends.           *)
(***************************************************************************)
EXTENDS Integers

CONSTANTS
  Ids,       \* DataKits
  Nobody,    \* the holder of a missing Lease
  Duration   \* how long a write keeps others away

VARIABLES
  lease,     \* [uid, epoch, holder, at], `at` being the time of the last write
  used,      \* the uids that Leases have had
  now

vars == <<lease, used, now>>

Missing == lease.uid = 0
Expired == now >= lease.at + Duration
NoLease == [uid |-> 0, epoch |-> 0, holder |-> Nobody, at |-> 0]

Init == lease = NoLease /\ used = {} /\ now = 0

\* The first term of a Lease that has never existed.
Create(d) ==
  /\ Missing
  /\ lease'.uid \notin used \cup {0}
  /\ lease' = [uid |-> lease'.uid, epoch |-> 1, holder |-> d, at |-> now]
  /\ used' = used \cup {lease'.uid}
  /\ UNCHANGED now

\* The next term: never while somebody may still rely on the present one.
Acquire(d) ==
  /\ ~Missing
  /\ Expired
  /\ lease' = [lease EXCEPT !.epoch = @ + 1, !.holder = d, !.at = now]
  /\ UNCHANGED <<used, now>>

Renew ==
  /\ ~Missing
  /\ lease' = [lease EXCEPT !.at = now]
  /\ UNCHANGED <<used, now>>

Delete ==
  /\ ~Missing
  /\ lease' = NoLease
  /\ UNCHANGED <<used, now>>

Tick == now' = now + 1 /\ UNCHANGED <<lease, used>>

Next ==
  \/ \E d \in Ids : Create(d) \/ Acquire(d)
  \/ Renew \/ Delete \/ Tick

Spec == Init /\ [][Next]_vars
=============================================================================
