------------------------------ MODULE Election ------------------------------
(***************************************************************************)
(* The DataKit election coordinator of src/apis/election for ONE scope: a  *)
(* token and namespace, whose Lease name is a hash of the pair, so that    *)
(* scopes share no state.  Coordinators are operator processes.  Each has  *)
(* an informer cache that trails the API server, a pair of observations    *)
(* from which it measures the age of a Lease on its own monotonic clock,   *)
(* and concurrent HTTP requests.  A request advances one call at a time:   *)
(* the cache read, the observation under the lock, the GET, the            *)
(* observation, the CAS write, the last observation, the reply.            *)
(***************************************************************************)
EXTENDS Integers, Sequences, FiniteSets

CONSTANTS
  Coordinators,    \* operator processes (replicas, or old and new of a rollout)
  MayCrash,        \* the coordinators that crash and restart
  Ids,             \* DataKits
  Nobody,          \* the holder of a missing Lease
  Requests,        \* slots for campaigns and heartbeats in flight
  Scrapes,         \* slots for /metrics scrapes in flight
  Duration,        \* leaseDuration
  Interval,        \* requestInterval
  MaxCASAttempts,  \* maxCASAttempts
  MaxVersions,     \* bound: writes and deletions of the Lease
  MaxDeletes,      \* bound: deletions by an administrator
  MaxLate,         \* bound: writes in the network that nobody waits for
  MaxClock         \* bound: elapsed time

ASSUME ProcessAssumption ==
  /\ Coordinators # {}
  /\ MayCrash \subseteq Coordinators
  /\ Nobody \notin Ids
  /\ Requests \cap Scrapes = {}

ASSUME DurationAssumption ==
  /\ Duration \in Nat \ {0}
  /\ Interval \in 0..Duration

ASSUME BoundAssumption ==
  /\ MaxCASAttempts \in Nat
  /\ MaxVersions \in Nat
  /\ MaxDeletes \in Nat
  /\ MaxLate \in Nat
  /\ MaxClock \in Nat

VARIABLES
  history,   \* what the API server stored for the scope; history[v] is resourceVersion v
  late,      \* writes sent whose sender has given up or crashed
  clock,     \* elapsed time: every process's monotonic clock runs at this rate
  ready,     \* ready[c]: Ready() of c's informer cache
  cachePos,  \* cachePos[c]: the version c's cache has reached
  obs,       \* obs[c]: c's leaseObservations for this scope
  req,       \* req[p]: the progress of the request in slot p
  safe       \* safe[d]: the end of the time in which DataKit d may collect

vars == <<history, late, clock, ready, cachePos, obs, req, safe>>

-----------------------------------------------------------------------------
(* Data *)

Slots   == Requests \cup Scrapes
Sources == {"cache", "store"}
Other(s) == IF s = "cache" THEN "store" ELSE "cache"

\* The uid of a Lease is the version that created it; `at` is the time the API
\* server committed the version.  A deletion is stored as NoLease.
Lease   == [uid: Nat, epoch: Nat, holder: Ids \cup {Nobody}, at: Nat]
NoLease == [uid |-> 0, epoch |-> 0, holder |-> Nobody, at |-> 0]
Missing(l) == l.uid = 0

At(v)   == IF v = 0 THEN NoLease ELSE history[v]
Current == At(Len(history))

\* A resourceVersion determines the uid and the epoch stored beside it; rv = 0
\* is an observation that is not known.
Observation == [rv: Nat, at: Nat]
Unknown     == [rv |-> 0, at |-> 0]
NothingSeen == [s \in Sources |-> Unknown]

Ops      == {"campaign", "heartbeat", "scrape"}
Statuses == {"none", "success", "defeat", "error"}
Points   == {"idle", "cached", "get", "got", "write", "written", "reply"}

\* seen: the version held in `lease` (or `updated`); read: when it was read;
\* sent: when the client sent the request.
Request == [pc: Points, op: Ops, id: Ids \cup {Nobody}, to: Coordinators,
            seen: Nat, read: Nat, attempt: Nat, sent: Nat, status: Statuses]
SomeCoordinator == CHOOSE c \in Coordinators : TRUE
Idle    == [pc |-> "idle", op |-> "scrape", id |-> Nobody,
            to |-> SomeCoordinator,
            seen |-> 0, read |-> 0, attempt |-> 0, sent |-> 0, status |-> "none"]
Write   == [op: Ops, id: Ids \cup {Nobody}, seen: Nat]

TypeOK ==
  /\ history \in Seq(Lease)
  /\ late \subseteq Write
  /\ clock \in Nat
  /\ ready \in [Coordinators -> BOOLEAN]
  /\ cachePos \in [Coordinators -> Nat]
  /\ obs \in [Coordinators -> [Sources -> Observation]]
  /\ req \in [Slots -> Request]
  /\ safe \in [Ids -> Int]

-----------------------------------------------------------------------------
(* leaseObservations.remaining: pair is o.leases[name], v the version passed *)

\* Mutant of Superseded: epochs are not compared.
SupersededByUidOnly(pair, v, s) ==
  pair["store"].rv # 0 /\ s = "cache" /\ At(v).uid # At(pair["store"].rv).uid

\* A version of a term that a store observation has superseded.
Superseded(pair, v, s) ==
  /\ pair["store"].rv # 0
  /\ LET lease  == At(v)
         stored == At(pair["store"].rv)
     IN  \/ lease.uid = stored.uid /\ lease.epoch < stored.epoch
         \/ s = "cache" /\ lease.uid # stored.uid

Ignored(pair, v, s) == Missing(At(v)) \/ Superseded(pair, v, s)

\* Mutant of FirstSeen: a new version is dated by a wall clock that is behind.
FirstSeenByWallClock(pair, v, s, elapsed) ==
  IF pair[s].rv = v THEN pair[s] ELSE [rv |-> v, at |-> elapsed - 1]

\* A version seen for the first time starts its timer, unless the other source
\* has already started it.
FirstSeen(pair, v, s, elapsed) ==
  IF pair[s].rv = v THEN pair[s]
  ELSE IF pair[Other(s)].rv = v THEN pair[Other(s)]
  ELSE [rv |-> v, at |-> elapsed]

\* Mutant of Observed: cache and API server share one observation.
ObservedInOnePlace(pair, v, s, elapsed) ==
  IF Ignored(pair, v, s) THEN pair
  ELSE [t \in Sources |-> FirstSeen(pair, v, s, elapsed)]

Observed(pair, v, s, elapsed) ==
  IF Ignored(pair, v, s) THEN pair
  ELSE [pair EXCEPT ![s] = FirstSeen(pair, v, s, elapsed)]

\* Mutant of Active: the last unit of the lease duration is lost.
ActiveTooShort(pair, v, s, elapsed) ==
  ~Ignored(pair, v, s) /\ elapsed - FirstSeen(pair, v, s, elapsed).at < Duration - 1

\* remaining(...) > 0
Active(pair, v, s, elapsed) ==
  /\ ~Ignored(pair, v, s)
  /\ elapsed - FirstSeen(pair, v, s, elapsed).at < Duration

-----------------------------------------------------------------------------
(* The API server: optimistic concurrency on the resourceVersion *)

\* Mutant of Written: a takeover does not begin a new epoch.
WrittenInSameEpoch(op, id, v) ==
  IF Missing(At(v))
  THEN [uid |-> Len(history) + 1, epoch |-> 1, holder |-> id, at |-> clock]
  ELSE [uid |-> At(v).uid, epoch |-> At(v).epoch, at |-> clock,
        holder |-> IF op = "campaign" THEN id ELSE At(v).holder]

\* The Lease that a campaign or a heartbeat of id writes over version v.
Written(op, id, v) ==
  IF Missing(At(v))
  THEN [uid |-> Len(history) + 1, epoch |-> 1, holder |-> id, at |-> clock]
  ELSE IF op = "campaign"
       THEN [uid |-> At(v).uid, epoch |-> At(v).epoch + 1, holder |-> id, at |-> clock]
       ELSE [At(v) EXCEPT !.at = clock]

\* Mutant of CASHolds: an Update that does not carry the resourceVersion.
UpdateHolds(v) == Missing(At(v)) = Missing(Current)

\* Create needs the Lease absent, Update needs it still at the version read.
CASHolds(v) == IF Missing(At(v)) THEN Missing(Current) ELSE v = Len(history)

Deletions == {v \in 1..Len(history) : Missing(history[v])}

\* Each request in flight writes at most once more: no write is ever blocked.
Writers == {p \in Requests : req[p].pc \notin {"idle", "reply"}}
HasRoom == Len(history) + Cardinality(Writers) + Cardinality(late) < MaxVersions

\* An administrator deletes the Lease (a later Create gives it a new uid).
Delete ==
  /\ ~Missing(Current)
  /\ HasRoom
  /\ Cardinality(Deletions) < MaxDeletes
  /\ history' = Append(history, NoLease)
  /\ UNCHANGED <<late, clock, ready, cachePos, obs, req, safe>>

\* A write nobody waits for reaches the API server, or is dropped on the way.
ApplyLate ==
  \E w \in late :
    /\ late' = late \ {w}
    /\ history' = IF CASHolds(w.seen)
                  THEN Append(history, Written(w.op, w.id, w.seen)) ELSE history
    /\ UNCHANGED <<clock, ready, cachePos, obs, req, safe>>

DropLate ==
  \E w \in late :
    /\ late' = late \ {w}
    /\ UNCHANGED <<history, clock, ready, cachePos, obs, req, safe>>

-----------------------------------------------------------------------------
(* The informer cache of coordinator c *)

\* The cache advances, by watch events or by a relist, which never goes back.
CatchUp(c) ==
  /\ \E v \in cachePos[c] + 1..Len(history) : cachePos' = [cachePos EXCEPT ![c] = v]
  /\ UNCHANGED <<history, late, clock, ready, obs, req, safe>>

\* LIST, then WATCH: the first LIST may be served by an API server that lags.
OpenWatch(c) ==
  /\ ~ready[c]
  /\ ready' = [ready EXCEPT ![c] = TRUE]
  /\ UNCHANGED <<history, late, clock, cachePos, obs, req, safe>>

BreakWatch(c) ==
  /\ ready[c]
  /\ ready' = [ready EXCEPT ![c] = FALSE]
  /\ UNCHANGED <<history, late, clock, cachePos, obs, req, safe>>

-----------------------------------------------------------------------------
(* Coordinator.elect, one action per call *)

\* The request of slot p goes on to another call, its last Lease forgotten.
GoTo(p, point) == [req EXCEPT ![p].pc = point, ![p].seen = 0, ![p].read = 0]

\* A negative answer: only its status matters to the client.
Answer(p, status) == [req EXCEPT ![p] = [Idle EXCEPT !.pc = "reply", !.status = status]]

\* A request, or a scrape, that has just read the cache.
Started(c, op, id) ==
  [pc |-> "cached", op |-> op, id |-> id, to |-> c, seen |-> cachePos[c], read |-> clock,
   attempt |-> 0, sent |-> clock, status |-> "none"]

\* The client sends a request; the handler checks Ready() and reads the cache.
Begin(p, c, op, id) ==
  /\ req[p].pc = "idle"
  /\ HasRoom
  /\ req' = IF ready[c] THEN [req EXCEPT ![p] = Started(c, op, id)] ELSE Answer(p, "error")
  /\ UNCHANGED <<history, late, clock, ready, cachePos, obs, safe>>

\* Mutant of ObserveCache: the cache also answers the holder.
ObserveCacheForHolder(p) ==
  /\ p \in Requests
  /\ req[p].pc = "cached"
  /\ \E elapsed \in req[p].read..clock :
       LET c == req[p].to
           v == req[p].seen
       IN  /\ obs' = [obs EXCEPT ![c] = Observed(@, v, "cache", elapsed)]
           /\ req' = IF ~Active(obs[c], v, "cache", elapsed) THEN GoTo(p, "get")
                     ELSE IF req[p].op = "heartbeat" /\ At(v).holder = req[p].id
                     THEN [req EXCEPT ![p].pc = "reply", ![p].status = "success"]
                     ELSE Answer(p, "defeat")
  /\ UNCHANGED <<history, late, clock, ready, cachePos, safe>>

\* elapsed() is sampled after the read and before the lock is taken.
ObserveCache(p) ==
  /\ p \in Requests
  /\ req[p].pc = "cached"
  /\ \E elapsed \in req[p].read..clock :
       LET c == req[p].to
           v == req[p].seen
       IN  /\ obs' = [obs EXCEPT ![c] = Observed(@, v, "cache", elapsed)]
           /\ req' = IF /\ Active(obs[c], v, "cache", elapsed)
                        /\ req[p].op = "campaign" \/ At(v).holder # req[p].id
                     THEN Answer(p, "defeat")
                     ELSE GoTo(p, "get")
  /\ UNCHANGED <<history, late, clock, ready, cachePos, safe>>

Get(p) ==
  /\ req[p].pc = "get"
  /\ req' = [req EXCEPT ![p].pc = "got", ![p].seen = Len(history), ![p].read = clock]
  /\ UNCHANGED <<history, late, clock, ready, cachePos, obs, safe>>

GetFails(p) ==
  /\ req[p].pc = "get"
  /\ req' = Answer(p, "error")
  /\ UNCHANGED <<history, late, clock, ready, cachePos, obs, safe>>

\* Mutant of Refused: a heartbeat does not look at the holder.
RefusedByAge(r, active) == IF r.op = "campaign" THEN active ELSE ~active

\* Who may go on to write, given that the Lease read is active or not.
Refused(r, active) ==
  IF r.op = "campaign" THEN active ELSE ~active \/ At(r.seen).holder # r.id

ObserveStore(p) ==
  /\ req[p].pc = "got"
  /\ \E elapsed \in req[p].read..clock :
       LET c == req[p].to
           v == req[p].seen
       IN  /\ obs' = [obs EXCEPT ![c] = Observed(@, v, "store", elapsed)]
           /\ req' = IF Refused(req[p], Active(obs[c], v, "store", elapsed))
                     THEN Answer(p, "defeat")
                     ELSE IF req[p].attempt = MaxCASAttempts
                     THEN Answer(p, "error")
                     ELSE [req EXCEPT ![p].pc = "write", ![p].read = 0]
  /\ UNCHANGED <<history, late, clock, ready, cachePos, safe>>

WriteApplied(p) ==
  /\ req[p].pc = "write"
  /\ CASHolds(req[p].seen)
  /\ history' = Append(history, Written(req[p].op, req[p].id, req[p].seen))
  /\ req' = [req EXCEPT ![p].pc = "written", ![p].seen = Len(history) + 1, ![p].read = clock]
  /\ UNCHANGED <<late, clock, ready, cachePos, obs, safe>>

\* Conflict, AlreadyExists or NotFound: read again.
WriteConflict(p) ==
  /\ req[p].pc = "write"
  /\ ~CASHolds(req[p].seen)
  /\ req' = [req EXCEPT ![p].pc = "get", ![p].seen = 0, ![p].read = 0,
                        ![p].attempt = req[p].attempt + 1]
  /\ UNCHANGED <<history, late, clock, ready, cachePos, obs, safe>>

\* Mutant of WriteFails: every error is retried, and not counted.
WriteFailsRetried(p) ==
  /\ req[p].pc = "write"
  /\ req' = GoTo(p, "get")
  /\ UNCHANGED <<history, late, clock, ready, cachePos, obs, safe>>

\* Any other error: the write was refused, or is still on its way.
WriteFails(p) ==
  /\ req[p].pc = "write"
  /\ req' = Answer(p, "error")
  /\ \/ UNCHANGED late
     \/ /\ Cardinality(late) < MaxLate
        /\ late' = late \cup {[op |-> req[p].op, id |-> req[p].id, seen |-> req[p].seen]}
  /\ UNCHANGED <<history, clock, ready, cachePos, obs, safe>>

Succeed(p) ==
  /\ req[p].pc = "written"
  /\ \E elapsed \in req[p].read..clock :
       obs' = [obs EXCEPT ![req[p].to] = Observed(@, req[p].seen, "store", elapsed)]
  /\ req' = [req EXCEPT ![p].pc = "reply", ![p].status = "success",
                        ![p].read = 0, ![p].attempt = 0]
  /\ UNCHANGED <<history, late, clock, ready, cachePos, safe>>

\* renderMetrics lists the cache and takes the remaining life of each Lease.
Scrape(p, c) ==
  /\ req[p].pc = "idle"
  /\ req' = [req EXCEPT ![p] = Started(c, "scrape", Nobody)]
  /\ UNCHANGED <<history, late, clock, ready, cachePos, obs, safe>>

ObserveScrape(p) ==
  /\ p \in Scrapes
  /\ req[p].pc = "cached"
  /\ \E elapsed \in req[p].read..clock :
       obs' = [obs EXCEPT ![req[p].to] = Observed(@, req[p].seen, "cache", elapsed)]
  /\ req' = [req EXCEPT ![p] = Idle]
  /\ UNCHANGED <<history, late, clock, ready, cachePos, safe>>

\* A crash loses the process's memory and its requests, but not the writes it
\* has sent.  The process that replaces it starts with an empty cache.
Crash(c) ==
  /\ c \in MayCrash
  /\ LET lost == {p \in Slots : req[p].pc # "idle" /\ req[p].to = c}
         sent == {[op |-> req[p].op, id |-> req[p].id, seen |-> req[p].seen] :
                    p \in {q \in lost : req[q].pc = "write"}}
     IN  /\ req' = [p \in Slots |-> IF p \in lost THEN Idle ELSE req[p]]
         /\ \E some \in SUBSET sent :
              /\ some # {} => Cardinality(late \cup some) <= MaxLate
              /\ late' = late \cup some
  /\ ready' = [ready EXCEPT ![c] = FALSE]
  /\ cachePos' = [cachePos EXCEPT ![c] = 0]
  /\ obs' = [obs EXCEPT ![c] = NothingSeen]
  /\ UNCHANGED <<history, clock, safe>>

-----------------------------------------------------------------------------
(* The DataKit: it collects for LeaseDuration - Interval from the moment it *)
(* sent the request that succeeded, or until it gives up earlier.           *)

Deliver(p) ==
  /\ req[p].pc = "reply"
  /\ LET r     == req[p]
         until == r.sent + Duration - Interval
     IN  safe' = IF r.status = "success" /\ until > safe[r.id]
                 THEN [safe EXCEPT ![r.id] = until] ELSE safe
  /\ req' = [req EXCEPT ![p] = Idle]
  /\ UNCHANGED <<history, late, clock, ready, cachePos, obs>>

LoseReply(p) ==
  /\ req[p].pc = "reply"
  /\ req' = [req EXCEPT ![p] = Idle]
  /\ UNCHANGED <<history, late, clock, ready, cachePos, obs, safe>>

Tick ==
  /\ clock < MaxClock
  /\ clock' = clock + 1
  /\ UNCHANGED <<history, late, ready, cachePos, obs, req, safe>>

-----------------------------------------------------------------------------

Init ==
  /\ history = <<>>
  /\ late = {}
  /\ clock = 0
  /\ ready = [c \in Coordinators |-> FALSE]
  /\ cachePos = [c \in Coordinators |-> 0]
  /\ obs = [c \in Coordinators |-> NothingSeen]
  /\ req = [p \in Slots |-> Idle]
  /\ safe = [d \in Ids |-> 0]

Informer(c) == CatchUp(c) \/ OpenWatch(c) \/ BreakWatch(c)

Handle(p) ==
  \/ ObserveCache(p) \/ Get(p) \/ GetFails(p) \/ ObserveStore(p)
  \/ WriteApplied(p) \/ WriteConflict(p) \/ WriteFails(p) \/ Succeed(p)

Client(p) == Deliver(p) \/ LoseReply(p)

Next ==
  \/ \E c \in Coordinators : Informer(c) \/ Crash(c)
  \/ \E p \in Requests : \/ Handle(p) \/ Client(p)
                         \/ \E c \in Coordinators, op \in {"campaign", "heartbeat"}, id \in Ids :
                              Begin(p, c, op, id)
  \/ \E p \in Scrapes : ObserveScrape(p) \/ \E c \in Coordinators : Scrape(p, c)
  \/ Delete \/ ApplyLate \/ DropLate
  \/ Tick

Spec == Init /\ [][Next]_vars

\* A handler runs until it has replied, and its HTTP exchange ends.
Fairness == \A p \in Requests : WF_vars(Handle(p)) /\ WF_vars(Client(p))

FairSpec == Spec /\ Fairness

-----------------------------------------------------------------------------
(* Safety *)

\* A term of a Lease (uid, epoch) belongs to one DataKit, whatever replicas,
\* restarts, conflicts and delayed writes made it: an epoch can be used as a
\* fencing token (acquireLease, and the CAS in elect).
OneHolderPerTerm ==
  \A v, w \in 1..Len(history) :
    /\ ~Missing(history[v])
    /\ history[v].uid = history[w].uid
    /\ history[v].epoch = history[w].epoch
    => history[v].holder = history[w].holder

\* A coordinator never believes that it saw a version before the API server
\* stored it, on either source and however late the answer was: the age it
\* measures is never more than the true age (lease_observation.go:36-42).
SeenAfterWrite(o) == o.rv # 0 => o.rv <= Len(history) /\ At(o.rv).at <= o.at

ObservationNotBeforeWrite ==
  \A c \in Coordinators, s \in Sources : SeenAfterWrite(obs[c][s])

\* A Lease changes hands only after it has gone without a write for the whole
\* lease duration, by any coordinator's decision and whenever its write lands:
\* every version of a term is that much younger than every version of the next.
NoEarlyTakeover ==
  \A v, w \in 1..Len(history) :
    v < w /\ ~Missing(history[v]) /\ history[v].uid = history[w].uid =>
      \/ history[v].epoch = history[w].epoch
      \/ history[w].at >= history[v].at + Duration

\* While nobody deletes the Lease, at most one DataKit is within the time it
\* may collect (lease_clock_test.go:30-32).
AtMostOneCollector ==
  Deletions = {} =>
    \A d, e \in Ids : clock < safe[d] /\ clock < safe[e] => d = e

\* A success is backed by a write that happened during the request and made or
\* kept the caller the holder (coordinator.go:89: "Only negative replies use
\* cached state. A success always requires a CAS write.").
SuccessIsBacked ==
  \A p \in Requests :
    req[p].status = "success" =>
      /\ At(req[p].seen).holder = req[p].id
      /\ At(req[p].seen).at >= req[p].sent

(* Action properties *)

\* A DataKit that holds the Lease and is still within the time it may collect is
\* not told "defeat" from cached state, however far the cache lags.
HolderNotRefusedByCache ==
  [][\A p \in Requests :
       (req[p].pc = "cached" /\ req[p].op = "heartbeat" /\ req'[p].status = "defeat")
         => ~(Current.holder = req[p].id /\ clock < safe[req[p].id])]_vars

\* Once a coordinator has read the newest version from the API server, nothing
\* it sees in its cache, in elections or scrapes, restarts that version's timer
\* (lease_observation.go:40-42).
TimerNotRestarted ==
  [][\A c \in Coordinators \ MayCrash :
       (obs[c]["store"].rv = Len(history) /\ obs[c]["store"].rv # 0 /\ history' = history)
         => obs'[c]["store"] = obs[c]["store"]]_vars

\* What a coordinator has read from or written to the API server is never
\* replaced by an older term (lease_observation.go:56-58).
NoTermRevived ==
  [][\A c \in Coordinators \ MayCrash :
       obs[c]["store"].rv # 0 =>
         LET before == At(obs[c]["store"].rv)
             after  == At(obs'[c]["store"].rv)
         IN  /\ after.uid >= before.uid
             /\ after.uid = before.uid => after.epoch >= before.epoch]_vars

(* Refinement: the newest version of the Lease behaves as LeaseTerms says *)

Terms == INSTANCE LeaseTerms WITH
           lease <- Current,
           used  <- {history[v].uid : v \in 1..Len(history)} \ {0},
           now   <- clock

\* However requests, replicas, caches, crashes and writes interleave, the Lease
\* is created once, taken over only when expired, and else only renewed.
ImplementsLeaseTerms == Terms!Spec

(* Liveness *)

\* Every election request is answered and its slot freed, whatever the conflicts.
EveryRequestEnds == \A p \in Requests : req[p].pc # "idle" ~> req[p].pc = "idle"

-----------------------------------------------------------------------------
(* The inductive invariant behind the safety properties *)

\* Along the versions of one Lease, epochs and commit times do not decrease;
\* a Lease is replaced by another only after a deletion.
HistoryInv ==
  /\ \A v \in 1..Len(history) : history[v].at <= clock /\ history[v].uid <= v
  /\ \A v, w \in 1..Len(history) :
       v < w /\ ~Missing(history[v]) /\ history[v].uid = history[w].uid =>
         history[v].epoch <= history[w].epoch /\ history[v].at <= history[w].at
  /\ \A v, w \in 1..Len(history) :
       v < w /\ history[v].uid # history[w].uid =>
         \E u \in v..w : Missing(history[u])

\* A write decided on version v: a heartbeat's by its holder, a campaign's on a
\* version whose time is over (or on no Lease).
Decided(op, id, v) ==
  /\ op \in {"campaign", "heartbeat"} /\ id \in Ids
  /\ v <= Len(history)
  /\ op = "heartbeat" => ~Missing(At(v)) /\ At(v).holder = id
  /\ op = "campaign" => Missing(At(v)) \/ clock >= At(v).at + Duration

LateInv == \A w \in late : Decided(w.op, w.id, w.seen)

Elects(r) == r.op \in {"campaign", "heartbeat"} /\ r.id \in Ids

\* What the request of slot p relies on at each point, its last read being of
\* version r.seen.
SlotInv(p) ==
  LET r == req[p]
  IN  /\ r.seen <= Len(history)
      /\ r.read <= clock
      /\ r.sent <= clock
      /\ r.pc \in {"cached", "got", "written"} => At(r.seen).at <= r.read
      /\ r.pc \in {"get", "got", "write", "written"} => Elects(r)
      /\ p \in Requests /\ r.pc = "cached" => Elects(r)
      /\ r.pc = "write" => Decided(r.op, r.id, r.seen)
      /\ r.status # "none" => r.pc = "reply"
      /\ r.pc = "written" \/ r.status = "success" =>
           /\ Elects(r)
           /\ ~Missing(At(r.seen))
           /\ At(r.seen).holder = r.id
           /\ At(r.seen).at >= r.sent

RequestInv == \A p \in Slots : SlotInv(p)

CacheInv == \A c \in Coordinators : cachePos[c] <= Len(history)

\* The time a DataKit may collect rests on a write of its own.
SafeInv ==
  \A d \in Ids :
    safe[d] > 0 => \E v \in 1..Len(history) :
                     /\ ~Missing(history[v])
                     /\ history[v].holder = d
                     /\ safe[d] <= history[v].at + Duration - Interval

ElectionInv ==
  /\ TypeOK
  /\ HistoryInv
  /\ OneHolderPerTerm
  /\ NoEarlyTakeover
  /\ ObservationNotBeforeWrite
  /\ CacheInv
  /\ LateInv
  /\ RequestInv
  /\ SafeInv
=============================================================================
