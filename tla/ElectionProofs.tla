--------------------------- MODULE ElectionProofs ---------------------------
(***************************************************************************)
(* Election's safety for any coordinators, DataKits, requests, scrapes,    *)
(* durations and bounds.  ElectionInv is inductive; the first lemmas say how the   *)
(* parts of it that speak of one version, one slot or one observation      *)
(* survive the growth of history, the rest treats the steps one by one.    *)
(***************************************************************************)
EXTENDS Election, FiniteSetTheorems, TLAPS

LEMMA NoLeaseType == NoLease \in Lease /\ Missing(NoLease)
BY DEF NoLease, Lease, Missing

LEMMA IdleType == Idle \in Request
<1>1. SomeCoordinator \in Coordinators
  BY ProcessAssumption DEF SomeCoordinator
<1> QED BY <1>1 DEF Idle, Request, Points, Ops, Statuses

LEMMA AtType ==
  ASSUME TypeOK, NEW v \in 0..Len(history)
  PROVE  At(v) \in Lease
<1>1. CASE v = 0
  BY <1>1, NoLeaseType DEF At
<1>2. CASE v # 0
  BY <1>2 DEF At, TypeOK
<1> QED BY <1>1, <1>2

\* Stored versions do not change, and there may be new ones.
Grows ==
  /\ Len(history) <= Len(history')
  /\ \A v \in 0..Len(history) : At(v)' = At(v)
  /\ clock <= clock'
  /\ clock' \in Nat

LEMMA AppendGrows ==
  ASSUME TypeOK, NEW l \in Lease, history' = Append(history, l), clock' = clock
  PROVE  /\ Grows
         /\ history' \in Seq(Lease)
         /\ Len(history') = Len(history) + 1
         /\ history'[Len(history) + 1] = l
         /\ \A v \in 1..Len(history) : history'[v] = history[v]
BY DEF TypeOK, Grows, At

LEMMA SameGrows ==
  ASSUME TypeOK, UNCHANGED <<history, clock>>
  PROVE  Grows
BY DEF TypeOK, Grows, At

LEMMA DecidedStable ==
  ASSUME TypeOK, Grows, NEW op, NEW id, NEW v \in Nat, Decided(op, id, v)
  PROVE  Decided(op, id, v)'
<1>1. v \in 0..Len(history)
  BY DEF Decided, TypeOK
<1>2. At(v)' = At(v) /\ At(v) \in Lease
  BY <1>1, AtType DEF Grows
<1>3. v <= Len(history')
  BY <1>1, Len(history) \in Nat, Len(history') \in Nat DEF Grows, TypeOK
<1> QED BY <1>2, <1>3, DurationAssumption DEF Decided, Grows, Missing, Lease, TypeOK

\* An observation and a slot that a step leaves alone stay sound.
LEMMA SeenStable ==
  ASSUME TypeOK, Grows, NEW o \in Observation, SeenAfterWrite(o)
  PROVE  SeenAfterWrite(o)'
<1>1. CASE o.rv = 0
  BY <1>1 DEF SeenAfterWrite
<1>2. CASE o.rv # 0
  <2>1. o.rv \in 0..Len(history)
    BY <1>2 DEF SeenAfterWrite, Observation, TypeOK
  <2>2. At(o.rv)' = At(o.rv)
    BY <2>1 DEF Grows
  <2> QED BY <1>2, <2>1, <2>2 DEF SeenAfterWrite, Grows, TypeOK
<1> QED BY <1>1, <1>2

LEMMA SlotStable ==
  ASSUME TypeOK, Grows, NEW p \in Slots, SlotInv(p), req'[p] = req[p]
  PROVE  SlotInv(p)'
<1> DEFINE r == req[p]
<1>1. r \in Request /\ r.seen \in 0..Len(history) /\ r.read \in Nat /\ r.sent \in Nat
  BY DEF TypeOK, SlotInv, Request
<1>2. At(r.seen)' = At(r.seen)
  BY <1>1 DEF Grows
<1>3. r.pc = "write" => Decided(r.op, r.id, r.seen)'
  <2> SUFFICES ASSUME r.pc = "write" PROVE Decided(r.op, r.id, r.seen)'
    OBVIOUS
  <2>1. Decided(r.op, r.id, r.seen)
    BY DEF SlotInv
  <2> QED BY <1>1, <2>1, DecidedStable
<1>4. r.seen <= Len(history') /\ r.read <= clock' /\ r.sent <= clock'
  BY <1>1 DEF SlotInv, Grows, TypeOK
<1> QED BY <1>2, <1>3, <1>4 DEF SlotInv, Elects, Missing

\* A slot with no request asks for nothing.
LEMMA IdleSlot ==
  ASSUME TypeOK, clock' \in Nat, Len(history') \in Nat, NEW p \in Slots, NEW status \in {"none", "defeat", "error"},
         \/ req'[p] = Idle
         \/ req'[p] = [Idle EXCEPT !.pc = "reply", !.status = status]
  PROVE  SlotInv(p)'
<1>1. /\ req'[p].seen = 0 /\ req'[p].read = 0 /\ req'[p].sent = 0
      /\ req'[p].pc \in {"idle", "reply"} /\ req'[p].status # "success"
      /\ req'[p].status # "none" => req'[p].pc = "reply"
  <2>1. CASE req'[p] = Idle
    BY <2>1 DEF Idle
  <2>2. CASE req'[p] = [Idle EXCEPT !.pc = "reply", !.status = status]
    BY <2>2 DEF Idle
  <2> QED BY <2>1, <2>2
<1> QED BY <1>1 DEF SlotInv

-----------------------------------------------------------------------------
(* What the API server may append to history *)

Created(l)  == /\ Missing(Current) /\ l.at = clock
               /\ l.uid = Len(history) + 1 /\ l.epoch = 1 /\ l.holder \in Ids
Renewed(l)  == /\ ~Missing(Current) /\ l.at = clock
               /\ l.uid = Current.uid /\ l.epoch = Current.epoch /\ l.holder = Current.holder
Acquired(l) == /\ ~Missing(Current) /\ l.at = clock
               /\ l.uid = Current.uid /\ l.epoch = Current.epoch + 1 /\ l.holder \in Ids
               /\ clock >= Current.at + Duration
Deleted(l)  == ~Missing(Current) /\ l = NoLease

Legal(l) == Created(l) \/ Renewed(l) \/ Acquired(l) \/ Deleted(l)

LEMMA WrittenLegal ==
  ASSUME TypeOK, NEW op, NEW id, NEW v \in Nat, Decided(op, id, v), CASHolds(v)
  PROVE  /\ Written(op, id, v) \in Lease
         /\ Legal(Written(op, id, v))
         /\ ~Missing(Written(op, id, v))
         /\ Written(op, id, v).holder = id
         /\ Written(op, id, v).at = clock
<1> DEFINE l == Written(op, id, v)
<1>1. At(v) \in Lease /\ id \in Ids /\ clock \in Nat /\ Len(history) \in Nat
  BY AtType DEF Decided, TypeOK
<1>2. CASE Missing(At(v))
  <2>1. l = [uid |-> Len(history) + 1, epoch |-> 1, holder |-> id, at |-> clock]
    BY <1>2 DEF Written
  <2>2. Missing(Current)
    BY <1>2 DEF CASHolds
  <2> QED BY <1>1, <2>1, <2>2 DEF Legal, Created, Lease, Missing
<1>3. CASE ~Missing(At(v)) /\ op = "campaign"
  <2>1. l = [uid |-> At(v).uid, epoch |-> At(v).epoch + 1, holder |-> id, at |-> clock]
    BY <1>3 DEF Written
  <2>2. Current = At(v) /\ clock >= At(v).at + Duration
    BY <1>3 DEF CASHolds, Current, Decided
  <2>3. /\ l \in Lease /\ l.uid = At(v).uid /\ l.epoch = At(v).epoch + 1
        /\ l.holder = id /\ l.at = clock
    BY <1>1, <2>1 DEF Lease
  <2>4. Acquired(l)
    BY <1>1, <1>3, <2>2, <2>3 DEF Acquired
  <2> QED BY <1>3, <2>3, <2>4 DEF Legal, Missing
<1>4. CASE ~Missing(At(v)) /\ op # "campaign"
  <2>1. l = [At(v) EXCEPT !.at = clock]
    BY <1>4 DEF Written
  <2>2. Current = At(v) /\ At(v).holder = id
    BY <1>4 DEF CASHolds, Current, Decided
  <2> QED BY <1>1, <1>4, <2>1, <2>2 DEF Legal, Renewed, Lease, Missing
<1> QED BY <1>2, <1>3, <1>4

HistoryParts == HistoryInv /\ OneHolderPerTerm /\ NoEarlyTakeover

\* Whatever the API server legally appends, the versions stay in order.
LEMMA AppendHistory ==
  ASSUME TypeOK, HistoryParts, NEW l \in Lease, Legal(l),
         history' = Append(history, l), clock' = clock
  PROVE  HistoryParts'
<1> DEFINE n == Len(history)
<1>0. n \in Nat /\ clock \in Nat /\ Duration \in Nat \ {0}
  BY DurationAssumption DEF TypeOK
<1>1. /\ Len(history') = n + 1 /\ history'[n + 1] = l
      /\ \A v \in 1..n : history'[v] = history[v] /\ history[v] \in Lease
  BY AppendGrows DEF TypeOK
<1>2. n # 0 => Current = history[n] /\ Current \in Lease
  BY <1>0, <1>1 DEF Current, At
<1>3. n = 0 => Missing(Current)
  BY NoLeaseType DEF Current, At
<1>4. l.at <= clock /\ l.uid <= n + 1
  BY <1>0, <1>1, <1>2, <1>3 DEF Legal, Created, Renewed, Acquired, Deleted, NoLease, HistoryParts, HistoryInv, Lease
<1>5. ASSUME NEW v \in 1..n, ~Missing(history[v]), history[v].uid = l.uid
      PROVE  /\ history[v].epoch <= l.epoch /\ history[v].at <= l.at
             /\ history[v].epoch = l.epoch => history[v].holder = l.holder
             /\ history[v].epoch = l.epoch \/ l.at >= history[v].at + Duration
  <2>1. history[v] \in Lease /\ history[v].at <= clock /\ history[v].uid <= v
    BY <1>1 DEF HistoryParts, HistoryInv
  <2>2. ~Created(l) /\ ~Deleted(l)
    BY <1>0, <1>5, <2>1 DEF Created, Deleted, NoLease, Missing
  <2>3. ~Missing(Current) /\ l.uid = Current.uid /\ l.at = clock
    BY <2>2 DEF Legal, Renewed, Acquired
  <2>4. n # 0 /\ Current = history[n] /\ history[v].uid = history[n].uid
    BY <1>2, <1>3, <1>5, <2>3
  <2>5. /\ history[v].epoch <= Current.epoch
        /\ history[v].at <= Current.at
        /\ history[v].epoch = Current.epoch => history[v].holder = Current.holder
        /\ history[v].epoch = Current.epoch \/ Current.at >= history[v].at + Duration
    <3>1. CASE v = n
      BY <3>1, <2>1, <2>4 DEF Lease
    <3>2. CASE v < n
      BY <3>2, <1>0, <1>5, <2>4 DEF HistoryParts, HistoryInv, OneHolderPerTerm, NoEarlyTakeover
    <3> QED BY <3>1, <3>2, <1>0
  <2>6. Current \in Lease /\ Current.at <= clock
    BY <1>0, <1>2, <2>4 DEF HistoryParts, HistoryInv
  <2>7. CASE Renewed(l)
    BY <1>0, <2>1, <2>5, <2>6, <2>7 DEF Renewed, Lease
  <2>8. CASE Acquired(l)
    <3>1. l.epoch = Current.epoch + 1 /\ l.at = clock /\ clock >= Current.at + Duration
      BY <2>3, <2>8 DEF Acquired
    <3>2. /\ history[v].epoch \in Nat /\ history[v].at \in Nat
          /\ Current.epoch \in Nat /\ Current.at \in Nat
      BY <2>1, <2>6 DEF Lease
    <3>3. history[v].epoch < l.epoch /\ l.at >= history[v].at + Duration
      BY <1>0, <2>5, <3>1, <3>2
    <3> QED BY <1>0, <2>1, <3>1, <3>2, <3>3
  <2> QED BY <2>2, <2>7, <2>8 DEF Legal
<1>6. ASSUME NEW v \in 1..n, history[v].uid # l.uid
      PROVE  \E u \in v..n + 1 : Missing(history'[u])
  <2>1. CASE Deleted(l)
    BY <2>1, <1>0, <1>1, NoLeaseType DEF Deleted
  <2>2. CASE Created(l)
    BY <2>2, <1>0, <1>1, <1>2 DEF Created
  <2>3. CASE Renewed(l) \/ Acquired(l)
    <3>1. history[v].uid # history[n].uid /\ v < n
      BY <1>0, <1>2, <1>6, <2>3 DEF Renewed, Acquired
    <3>2. \E u \in v..n : Missing(history[u])
      BY <3>1, <1>0 DEF HistoryParts, HistoryInv
    <3> QED BY <3>2, <1>0, <1>1
  <2> QED BY <2>1, <2>2, <2>3 DEF Legal
<1>7. HistoryInv'
  <2>1. \A v \in 1..n + 1 : history'[v].at <= clock /\ history'[v].uid <= v
    BY <1>0, <1>1, <1>4 DEF HistoryParts, HistoryInv
  <2>2. ASSUME NEW v \in 1..n + 1, NEW w \in 1..n + 1, v < w,
               ~Missing(history'[v]), history'[v].uid = history'[w].uid
        PROVE  history'[v].epoch <= history'[w].epoch /\ history'[v].at <= history'[w].at
    <3>1. CASE w = n + 1
      BY <3>1, <2>2, <1>0, <1>1, <1>5
    <3>2. CASE w \in 1..n
      BY <3>2, <2>2, <1>0, <1>1 DEF HistoryParts, HistoryInv
    <3> QED BY <3>1, <3>2, <1>0
  <2>3. ASSUME NEW v \in 1..n + 1, NEW w \in 1..n + 1, v < w, history'[v].uid # history'[w].uid
        PROVE  \E u \in v..w : Missing(history'[u])
    <3>1. CASE w = n + 1
      BY <3>1, <2>3, <1>0, <1>1, <1>6
    <3>2. CASE w \in 1..n
      <4>1. \E u \in v..w : Missing(history[u])
        BY <3>2, <2>3, <1>0, <1>1 DEF HistoryParts, HistoryInv
      <4> QED BY <4>1, <3>2, <1>0, <1>1
    <3> QED BY <3>1, <3>2, <1>0
  <2> QED BY <1>1, <2>1, <2>2, <2>3 DEF HistoryInv, Missing
<1>8. OneHolderPerTerm'
  <2>1. ASSUME NEW v \in 1..n + 1, NEW w \in 1..n + 1, ~Missing(history'[v]),
               history'[v].uid = history'[w].uid, history'[v].epoch = history'[w].epoch
        PROVE  history'[v].holder = history'[w].holder
    <3>1. CASE v \in 1..n /\ w \in 1..n
      BY <3>1, <2>1, <1>1 DEF HistoryParts, OneHolderPerTerm
    <3>2. CASE v \in 1..n /\ w = n + 1
      BY <3>2, <2>1, <1>1, <1>5
    <3>3. CASE v = n + 1 /\ w \in 1..n
      BY <3>3, <2>1, <1>1, <1>5 DEF Missing
    <3> QED BY <3>1, <3>2, <3>3, <1>0
  <2> QED BY <1>1, <2>1 DEF OneHolderPerTerm, Missing
<1>9. NoEarlyTakeover'
  <2>1. ASSUME NEW v \in 1..n + 1, NEW w \in 1..n + 1, v < w, ~Missing(history'[v]),
               history'[v].uid = history'[w].uid
        PROVE  \/ history'[v].epoch = history'[w].epoch
               \/ history'[w].at >= history'[v].at + Duration
    <3>1. CASE w \in 1..n
      BY <3>1, <2>1, <1>0, <1>1 DEF HistoryParts, NoEarlyTakeover
    <3>2. CASE w = n + 1
      BY <3>2, <2>1, <1>0, <1>1, <1>5
    <3> QED BY <3>1, <3>2, <1>0
  <2> QED BY <1>1, <2>1 DEF NoEarlyTakeover, Missing
<1> QED BY <1>7, <1>8, <1>9 DEF HistoryParts

-----------------------------------------------------------------------------
(* What a step leaves alone *)

LEMMA HistoryStable ==
  ASSUME TypeOK, HistoryParts, Grows, history' = history
  PROVE  HistoryParts'
<1>1. ASSUME NEW v \in 1..Len(history) PROVE history[v].at <= clock'
  <2>1. history[v] \in Lease /\ history[v].at <= clock
    BY DEF TypeOK, HistoryParts, HistoryInv
  <2> QED BY <2>1 DEF Lease, Grows, TypeOK
<1> QED BY <1>1 DEF HistoryParts, HistoryInv, OneHolderPerTerm, NoEarlyTakeover, Missing

LEMMA ObsStable ==
  ASSUME TypeOK, Grows, ObservationNotBeforeWrite, obs' = obs
  PROVE  ObservationNotBeforeWrite'
<1> SUFFICES ASSUME NEW c \in Coordinators, NEW s \in Sources
             PROVE  SeenAfterWrite(obs[c][s])'
  BY DEF ObservationNotBeforeWrite
<1>1. obs[c][s] \in Observation /\ SeenAfterWrite(obs[c][s])
  BY DEF TypeOK, ObservationNotBeforeWrite
<1> QED BY <1>1, SeenStable

LEMMA LateStable ==
  ASSUME TypeOK, Grows, LateInv, late' \subseteq late
  PROVE  LateInv'
<1> SUFFICES ASSUME NEW w \in late PROVE Decided(w.op, w.id, w.seen)'
  BY DEF LateInv
<1>1. Decided(w.op, w.id, w.seen) /\ w.seen \in Nat
  BY DEF LateInv, TypeOK, Write
<1> QED BY <1>1, DecidedStable

LEMMA SafeStable ==
  ASSUME TypeOK, Grows, SafeInv, safe' = safe
  PROVE  SafeInv'
<1> SUFFICES ASSUME NEW d \in Ids, safe[d] > 0
             PROVE  \E v \in 1..Len(history') :
                      /\ ~Missing(history'[v])
                      /\ history'[v].holder = d
                      /\ safe[d] <= history'[v].at + Duration - Interval
  BY DEF SafeInv, Missing
<1>1. PICK v \in 1..Len(history) :
        /\ ~Missing(history[v])
        /\ history[v].holder = d
        /\ safe[d] <= history[v].at + Duration - Interval
  BY DEF SafeInv
<1>2. history'[v] = history[v] /\ v \in 1..Len(history')
  BY DEF Grows, At, TypeOK
<1> QED BY <1>1, <1>2

LEMMA CacheStable ==
  ASSUME TypeOK, Grows, CacheInv, cachePos' = cachePos
  PROVE  CacheInv'
BY DEF CacheInv, Grows, TypeOK

LEMMA RequestStable ==
  ASSUME TypeOK, Grows, RequestInv, req' = req
  PROVE  RequestInv'
BY SlotStable DEF RequestInv

LEMMA OneSlotStep ==
  ASSUME TypeOK, Grows, RequestInv, NEW p \in Slots, NEW r \in Request,
         req' = [req EXCEPT ![p] = r], SlotInv(p)'
  PROVE  RequestInv' /\ req' \in [Slots -> Request]
<1>1. ASSUME NEW q \in Slots PROVE SlotInv(q)'
  <2>1. CASE q = p
    BY <2>1
  <2>2. CASE q # p
    <3>1. req'[q] = req[q]
      BY <2>2 DEF TypeOK
    <3> QED BY <3>1, SlotStable DEF RequestInv
  <2> QED BY <2>1, <2>2
<1> QED BY <1>1 DEF RequestInv, TypeOK

-----------------------------------------------------------------------------
(* leaseObservations.remaining *)

\* Observing a version, at a time no earlier than its commit, keeps every
\* observation of the coordinator no earlier than the version's commit.
LEMMA ObservedAfterWrite ==
  ASSUME TypeOK, ObservationNotBeforeWrite, NEW c \in Coordinators, NEW s \in Sources,
         NEW v \in 0..Len(history), NEW elapsed \in Nat, At(v).at <= elapsed,
         obs' = [obs EXCEPT ![c] = Observed(@, v, s, elapsed)],
         UNCHANGED <<history, clock>>
  PROVE  /\ ObservationNotBeforeWrite'
         /\ obs' \in [Coordinators -> [Sources -> Observation]]
<1> DEFINE first == FirstSeen(obs[c], v, s, elapsed)
<1>1. Other(s) \in Sources
  BY DEF Other, Sources
<1>2. obs[c] \in [Sources -> Observation]
  BY DEF TypeOK
<1>3. first \in Observation /\ SeenAfterWrite(first)
  <2>1. CASE first = obs[c][s] \/ first = obs[c][Other(s)]
    BY <1>1, <1>2, <2>1 DEF ObservationNotBeforeWrite
  <2>2. CASE first = [rv |-> v, at |-> elapsed]
    BY <2>2 DEF Observation, SeenAfterWrite, TypeOK
  <2> QED BY <2>1, <2>2 DEF FirstSeen
<1>4. Observed(obs[c], v, s, elapsed) \in {obs[c], [obs[c] EXCEPT ![s] = first]}
  BY DEF Observed
<1>5. Observed(obs[c], v, s, elapsed) \in [Sources -> Observation]
  BY <1>2, <1>3, <1>4
<1>6. obs' \in [Coordinators -> [Sources -> Observation]]
  BY <1>5 DEF TypeOK
<1>7. ASSUME NEW d \in Coordinators, NEW t \in Sources
      PROVE  SeenAfterWrite(obs'[d][t])
  <2>1. obs'[d][t] \in {obs[d][t], first}
    BY <1>2, <1>4 DEF TypeOK
  <2> QED BY <1>3, <2>1 DEF ObservationNotBeforeWrite
<1> QED BY <1>6, <1>7 DEF ObservationNotBeforeWrite, SeenAfterWrite, At

-----------------------------------------------------------------------------
(* The initial states, and the steps one by one *)

LEMMA InitInv == Init => ElectionInv
<1> SUFFICES ASSUME Init PROVE ElectionInv
  OBVIOUS
<1>1. TypeOK
  BY IdleType DEF Init, TypeOK, NothingSeen, Unknown, Observation, Sources
<1>2. RequestInv
  BY DEF Init, RequestInv, SlotInv, Idle, At
<1>3. ObservationNotBeforeWrite
  BY DEF Init, ObservationNotBeforeWrite, SeenAfterWrite, NothingSeen, Unknown
<1>4. HistoryInv /\ OneHolderPerTerm /\ NoEarlyTakeover /\ CacheInv /\ LateInv /\ SafeInv
  BY DEF Init, HistoryInv, OneHolderPerTerm, NoEarlyTakeover, CacheInv, LateInv, SafeInv
<1> QED BY <1>1, <1>2, <1>3, <1>4 DEF ElectionInv

\* A step that changes only slot p, and leaves history and the clock alone.
LEMMA SlotOnlyStep ==
  ASSUME ElectionInv, NEW p \in Slots, NEW r \in Request, req' = [req EXCEPT ![p] = r], SlotInv(p)',
         UNCHANGED <<history, late, clock, ready, cachePos, obs, safe>>
  PROVE  ElectionInv'
<1>1. TypeOK /\ HistoryParts /\ Grows
  BY SameGrows DEF ElectionInv, HistoryParts
<1>2. RequestInv' /\ req' \in [Slots -> Request]
  BY <1>1, OneSlotStep DEF ElectionInv
<1>3. TypeOK'
  BY <1>1, <1>2 DEF TypeOK
<1> QED BY <1>1, <1>2, <1>3, HistoryStable, ObsStable, CacheStable, LateStable, SafeStable
        DEF ElectionInv, HistoryParts

\* The same, with an observation of version v by coordinator c.
LEMMA ObservingStep ==
  ASSUME ElectionInv, NEW p \in Slots, NEW r \in Request, req' = [req EXCEPT ![p] = r], SlotInv(p)',
         NEW c \in Coordinators, NEW s \in Sources, NEW v \in 0..Len(history),
         NEW elapsed \in Nat, At(v).at <= elapsed,
         obs' = [obs EXCEPT ![c] = Observed(@, v, s, elapsed)],
         UNCHANGED <<history, late, clock, ready, cachePos, safe>>
  PROVE  ElectionInv'
<1>1. TypeOK /\ HistoryParts /\ Grows
  BY SameGrows DEF ElectionInv, HistoryParts
<1>2. RequestInv' /\ req' \in [Slots -> Request]
  BY <1>1, OneSlotStep DEF ElectionInv
<1>3. ObservationNotBeforeWrite' /\ obs' \in [Coordinators -> [Sources -> Observation]]
  BY <1>1, ObservedAfterWrite DEF ElectionInv
<1>4. TypeOK'
  BY <1>1, <1>2, <1>3 DEF TypeOK
<1> QED BY <1>1, <1>2, <1>3, <1>4, HistoryStable, CacheStable, LateStable, SafeStable
        DEF ElectionInv, HistoryParts

LEMMA InformerStep ==
  ASSUME ElectionInv, NEW c \in Coordinators, Informer(c)
  PROVE  ElectionInv'
<1>1. TypeOK /\ HistoryParts /\ Grows /\ UNCHANGED <<history, late, clock, obs, req, safe>>
  BY SameGrows DEF ElectionInv, HistoryParts, Informer, CatchUp, OpenWatch, BreakWatch
<1>2. /\ ready' \in [Coordinators -> BOOLEAN]
      /\ cachePos' \in [Coordinators -> Nat]
      /\ \A d \in Coordinators : cachePos'[d] <= Len(history)
  <2>1. CASE CatchUp(c)
    BY <2>1 DEF CatchUp, ElectionInv, TypeOK, CacheInv
  <2>2. CASE OpenWatch(c)
    BY <2>2 DEF OpenWatch, ElectionInv, TypeOK, CacheInv
  <2>3. CASE BreakWatch(c)
    BY <2>3 DEF BreakWatch, ElectionInv, TypeOK, CacheInv
  <2> QED BY <2>1, <2>2, <2>3 DEF Informer
<1>3. TypeOK' /\ CacheInv'
  BY <1>1, <1>2 DEF TypeOK, CacheInv
<1> QED BY <1>1, <1>3, HistoryStable, ObsStable, LateStable, RequestStable, SafeStable
        DEF ElectionInv, HistoryParts

LEMMA CrashStep ==
  ASSUME ElectionInv, NEW c \in Coordinators, Crash(c)
  PROVE  ElectionInv'
<1> DEFINE lost == {p \in Slots : req[p].pc # "idle" /\ req[p].to = c}
           sent == {[op |-> req[p].op, id |-> req[p].id, seen |-> req[p].seen] :
                      p \in {q \in lost : req[q].pc = "write"}}
<1>1. TypeOK /\ HistoryParts /\ Grows /\ UNCHANGED <<history, clock, safe>>
  BY SameGrows DEF ElectionInv, HistoryParts, Crash
<1>2. ASSUME NEW w \in sent PROVE w \in Write /\ Decided(w.op, w.id, w.seen)
  <2>1. PICK p \in Slots : req[p].pc = "write" /\ w = [op |-> req[p].op, id |-> req[p].id, seen |-> req[p].seen]
    OBVIOUS
  <2>2. req[p] \in Request /\ Decided(req[p].op, req[p].id, req[p].seen)
    BY <2>1, <1>1 DEF ElectionInv, RequestInv, SlotInv, TypeOK
  <2> QED BY <2>1, <2>2 DEF Request, Write
<1>3. late' \subseteq late \cup sent
  BY DEF Crash
<1>4. LateInv' /\ late' \subseteq Write
  <2>1. ASSUME NEW w \in late' PROVE w \in Write /\ Decided(w.op, w.id, w.seen)
    BY <1>1, <1>2, <1>3 DEF ElectionInv, LateInv, TypeOK
  <2> QED BY <2>1, <1>1 DEF LateInv, Decided, Missing, At
<1>5. \A p \in Slots : req'[p] = Idle \/ req'[p] = req[p]
  BY DEF Crash
<1>6. req' \in [Slots -> Request]
  BY <1>1, IdleType DEF Crash, TypeOK
<1>7. RequestInv'
  <2>1. ASSUME NEW p \in Slots PROVE SlotInv(p)'
    <3>1. CASE req'[p] = Idle
      BY <3>1, <1>1, IdleSlot DEF TypeOK
    <3>2. CASE req'[p] = req[p]
      BY <3>2, <1>1, SlotStable DEF ElectionInv, RequestInv
    <3> QED BY <3>1, <3>2, <1>5
  <2> QED BY <2>1 DEF RequestInv
<1>8. ready' \in [Coordinators -> BOOLEAN] /\ cachePos' \in [Coordinators -> Nat] /\ CacheInv'
  BY <1>1 DEF Crash, ElectionInv, TypeOK, CacheInv
<1>9. ObservationNotBeforeWrite' /\ obs' \in [Coordinators -> [Sources -> Observation]]
  <2>1. NothingSeen \in [Sources -> Observation] /\ \A s \in Sources : NothingSeen[s].rv = 0
    BY DEF NothingSeen, Unknown, Observation
  <2>2. obs' = [obs EXCEPT ![c] = NothingSeen]
    BY DEF Crash
  <2>3. ASSUME NEW d \in Coordinators, NEW s \in Sources PROVE SeenAfterWrite(obs[d][s])'
    <3>1. CASE d = c
      BY <3>1, <2>1, <2>2, <1>1 DEF SeenAfterWrite, TypeOK
    <3>2. CASE d # c
      BY <3>2, <2>2, <1>1 DEF SeenAfterWrite, ElectionInv, ObservationNotBeforeWrite, TypeOK, At
    <3> QED BY <3>1, <3>2
  <2> QED BY <2>1, <2>2, <2>3, <1>1 DEF ObservationNotBeforeWrite, TypeOK
<1>10. TypeOK'
  BY <1>1, <1>4, <1>6, <1>8, <1>9 DEF TypeOK
<1> QED BY <1>1, <1>4, <1>7, <1>8, <1>9, <1>10, HistoryStable, SafeStable DEF ElectionInv, HistoryParts

\* Slot p returns to rest, or answers "defeat" or "error".
LEMMA RestType ==
  ASSUME NEW status \in {"none", "defeat", "error"}
  PROVE  [Idle EXCEPT !.pc = "reply", !.status = status] \in Request
BY IdleType DEF Request, Points, Statuses

LEMMA BeginStep ==
  ASSUME ElectionInv, NEW p \in Requests, NEW c \in Coordinators, NEW id \in Ids,
         NEW op \in {"campaign", "heartbeat"}, Begin(p, c, op, id)
  PROVE  ElectionInv'
<1> DEFINE r == Started(c, op, id)
<1>1. p \in Slots /\ TypeOK /\ cachePos[c] \in 0..Len(history)
  BY DEF Slots, ElectionInv, TypeOK, CacheInv
<1>2. UNCHANGED <<history, late, clock, ready, cachePos, obs, safe>>
  BY DEF Begin
<1>3. CASE ready[c]
  <2>1. req' = [req EXCEPT ![p] = r]
    BY <1>3 DEF Begin
  <2>2. r \in Request
    BY <1>1 DEF Started, Request, Points, Ops, Statuses, TypeOK
  <2>3. At(r.seen).at <= clock
    <3>1. CASE r.seen = 0
      BY <3>1, <1>1 DEF At, NoLease, TypeOK
    <3>2. CASE r.seen # 0
      BY <3>2, <1>1 DEF Started, At, ElectionInv, HistoryInv
    <3> QED BY <3>1, <3>2
  <2>4. SlotInv(p)'
    BY <2>1, <2>3, <1>1, <1>2 DEF Started, SlotInv, Elects, At, TypeOK
  <2> QED BY <2>1, <2>2, <2>4, <1>1, <1>2, SlotOnlyStep
<1>4. CASE ~ready[c]
  <2>1. req' = [req EXCEPT ![p] = [Idle EXCEPT !.pc = "reply", !.status = "error"]]
    BY <1>4 DEF Begin, Answer
  <2>2. SlotInv(p)'
    BY <2>1, <1>1, <1>2, IdleSlot DEF TypeOK
  <2> QED BY <2>1, <2>2, <1>1, <1>2, SlotOnlyStep, RestType
<1> QED BY <1>3, <1>4

\* What the invariant says of the version a slot holds when it observes it.
LEMMA HeldVersion ==
  ASSUME ElectionInv, NEW p \in Slots, req[p].pc \in {"cached", "got", "written"},
         NEW elapsed \in req[p].read..clock
  PROVE  /\ req[p] \in Request
         /\ req[p].seen \in 0..Len(history)
         /\ elapsed \in Nat
         /\ At(req[p].seen) \in Lease
         /\ At(req[p].seen).at <= elapsed
<1>1. req[p] \in Request /\ SlotInv(p) /\ TypeOK
  BY DEF ElectionInv, TypeOK, RequestInv
<1>2. req[p].seen \in 0..Len(history) /\ elapsed \in Nat /\ req[p].read <= elapsed /\ req[p].read \in Nat
  BY <1>1 DEF SlotInv, Request, TypeOK
<1>3. At(req[p].seen) \in Lease /\ At(req[p].seen).at <= req[p].read
  BY <1>1, <1>2, AtType DEF SlotInv
<1> QED BY <1>1, <1>2, <1>3 DEF Lease

LEMMA GoToType ==
  ASSUME TypeOK, NEW p \in Slots, NEW point \in Points
  PROVE  /\ [req[p] EXCEPT !.pc = point, !.seen = 0, !.read = 0] \in Request
         /\ GoTo(p, point) = [req EXCEPT ![p] = [req[p] EXCEPT !.pc = point, !.seen = 0, !.read = 0]]
BY DEF TypeOK, GoTo, Request

LEMMA ObserveCacheStep ==
  ASSUME ElectionInv, NEW p \in Slots, ObserveCache(p)
  PROVE  ElectionInv'
<1> DEFINE c == req[p].to
           v == req[p].seen
<1>1. PICK elapsed \in req[p].read..clock :
        /\ obs' = [obs EXCEPT ![c] = Observed(@, v, "cache", elapsed)]
        /\ req' = IF /\ Active(obs[c], v, "cache", elapsed)
                     /\ req[p].op = "campaign" \/ At(v).holder # req[p].id
                  THEN Answer(p, "defeat")
                  ELSE GoTo(p, "get")
  BY DEF ObserveCache
<1>2. /\ req[p].pc = "cached" /\ p \in Requests
      /\ UNCHANGED <<history, late, clock, ready, cachePos, safe>>
  BY DEF ObserveCache
<1>3. /\ req[p] \in Request /\ c \in Coordinators /\ v \in 0..Len(history)
      /\ elapsed \in Nat /\ At(v).at <= elapsed
      /\ TypeOK /\ SlotInv(p)
  BY <1>2, HeldVersion DEF Request, ElectionInv, RequestInv
<1>4. CASE req' = Answer(p, "defeat")
  <2>1. req' = [req EXCEPT ![p] = [Idle EXCEPT !.pc = "reply", !.status = "defeat"]]
    BY <1>4 DEF Answer
  <2>2. SlotInv(p)'
    BY <2>1, <1>2, <1>3, IdleSlot DEF TypeOK
  <2> QED BY <2>1, <2>2, <1>1, <1>2, <1>3, ObservingStep, RestType DEF Sources
<1>5. CASE req' = GoTo(p, "get")
  <2> DEFINE r == [req[p] EXCEPT !.pc = "get", !.seen = 0, !.read = 0]
  <2>1. r \in Request /\ req' = [req EXCEPT ![p] = r]
    BY <1>3, <1>5, GoToType DEF Points
  <2>2. /\ req'[p].pc = "get" /\ req'[p].seen = 0 /\ req'[p].read = 0
        /\ req'[p].op = req[p].op /\ req'[p].id = req[p].id
        /\ req'[p].sent = req[p].sent /\ req'[p].status = req[p].status
    BY <2>1, <1>3 DEF Request, TypeOK
  <2>3. SlotInv(p)'
    BY <2>2, <1>2, <1>3 DEF SlotInv, Elects, Request, TypeOK
  <2> QED BY <2>1, <2>3, <1>1, <1>2, <1>3, ObservingStep DEF Sources
<1> QED BY <1>1, <1>4, <1>5

LEMMA GetStep ==
  ASSUME ElectionInv, NEW p \in Slots, Get(p)
  PROVE  ElectionInv'
<1> DEFINE r == [req[p] EXCEPT !.pc = "got", !.seen = Len(history), !.read = clock]
<1>1. /\ req[p] \in Request /\ SlotInv(p) /\ TypeOK /\ req[p].pc = "get"
      /\ Len(history) \in Nat /\ clock \in Nat
  BY DEF Get, ElectionInv, TypeOK, RequestInv
<1>2. UNCHANGED <<history, late, clock, ready, cachePos, obs, safe>>
  BY DEF Get
<1>3. r \in Request /\ req' = [req EXCEPT ![p] = r]
  BY <1>1 DEF Get, Request, Points, TypeOK
<1>4. /\ req'[p].pc = "got" /\ req'[p].seen = Len(history) /\ req'[p].read = clock
      /\ req'[p].op = req[p].op /\ req'[p].id = req[p].id
      /\ req'[p].sent = req[p].sent /\ req'[p].status = req[p].status
  BY <1>1, <1>3 DEF Request, TypeOK
<1>5. At(Len(history)).at <= clock
  BY <1>1 DEF At, NoLease, ElectionInv, HistoryInv
<1>6. SlotInv(p)'
  BY <1>1, <1>2, <1>4, <1>5 DEF SlotInv, Elects, At
<1> QED BY <1>2, <1>3, <1>6, SlotOnlyStep

LEMMA GetFailsStep ==
  ASSUME ElectionInv, NEW p \in Slots, GetFails(p)
  PROVE  ElectionInv'
<1>1. /\ req' = [req EXCEPT ![p] = [Idle EXCEPT !.pc = "reply", !.status = "error"]]
      /\ UNCHANGED <<history, late, clock, ready, cachePos, obs, safe>>
      /\ TypeOK
  BY DEF GetFails, Answer, ElectionInv
<1>2. SlotInv(p)'
  BY <1>1, IdleSlot DEF TypeOK
<1> QED BY <1>1, <1>2, RestType, SlotOnlyStep

\* An inactive version is one whose true age has reached Duration, or one that
\* somebody has superseded: then it is not the newest, but its age has too.
LEMMA InactiveIsOld ==
  ASSUME ElectionInv, NEW c \in Coordinators, NEW v \in 0..Len(history), ~Missing(At(v)),
         NEW elapsed \in Nat, elapsed <= clock, At(v).at <= elapsed,
         ~Active(obs[c], v, "store", elapsed)
  PROVE  clock >= At(v).at + Duration
<1>1. TypeOK /\ At(v) \in Lease /\ v # 0 /\ At(v) = history[v]
  BY AtType, NoLeaseType DEF ElectionInv, At
<1>2. CASE Superseded(obs[c], v, "store")
  <2> DEFINE w == obs[c]["store"].rv
  <2>1. w # 0 /\ At(v).uid = At(w).uid /\ At(v).epoch < At(w).epoch
    BY <1>2 DEF Superseded
  <2>2. w \in 1..Len(history) /\ At(w) = history[w] /\ history[w] \in Lease /\ history[w].at <= clock
    BY <2>1, <1>1 DEF ElectionInv, TypeOK, ObservationNotBeforeWrite, SeenAfterWrite, Observation, Sources, At, HistoryInv
  <2>3. v < w
    <3>1. v \in 1..Len(history) /\ w # v /\ Len(history) \in Nat
      <4>1. At(v).epoch \in Nat /\ At(w).epoch \in Nat
        BY <1>1, <2>2 DEF Lease
      <4>2. w # v
        BY <4>1, <2>1
      <4> QED BY <4>2, <1>1 DEF TypeOK
    <3>2. CASE w < v
      <4>1. ~Missing(history[w]) /\ history[w].uid = history[v].uid
        BY <1>1, <2>1, <2>2 DEF Missing
      <4>2. history[w].epoch <= history[v].epoch
        BY <3>1, <3>2, <4>1, <2>2 DEF ElectionInv, HistoryInv
      <4> QED BY <4>2, <2>1, <2>2, <1>1 DEF Lease
    <3> QED BY <3>1, <3>2, <2>2
  <2>4. history[w].at >= history[v].at + Duration
    <3>1. /\ v \in 1..Len(history)
          /\ ~Missing(history[v]) /\ history[v].uid = history[w].uid
          /\ history[v].epoch \in Nat /\ history[w].epoch \in Nat
          /\ history[v].epoch < history[w].epoch
      BY <1>1, <2>1, <2>2 DEF Lease
    <3>2. history[v].epoch # history[w].epoch
      BY <3>1
    <3>3. NoEarlyTakeover
      BY DEF ElectionInv
    <3> QED BY <2>2, <2>3, <3>1, <3>2, <3>3 DEF NoEarlyTakeover
  <2>5. history[v].at \in Nat /\ history[w].at \in Nat /\ clock \in Nat
    BY <1>1, <2>2 DEF Lease, TypeOK
  <2>6. At(v) = history[v] /\ history[w].at <= clock
    BY <1>1, <2>2
  <2> QED BY <2>4, <2>5, <2>6, DurationAssumption
<1>3. CASE ~Superseded(obs[c], v, "store")
  <2> DEFINE first == FirstSeen(obs[c], v, "store", elapsed)
  <2>1. elapsed - first.at >= Duration
    <3>1. first \in Observation
      BY <1>1 DEF FirstSeen, ElectionInv, TypeOK, Observation, Sources, Other
    <3>2. ~(elapsed - first.at < Duration)
      BY <1>3 DEF Active, Ignored
    <3> QED BY <3>1, <3>2, DurationAssumption DEF Observation
  <2>2. first \in Observation /\ At(v).at <= first.at
    <3>1. CASE obs[c]["store"].rv = v
      BY <3>1, <1>1 DEF FirstSeen, ElectionInv, TypeOK, ObservationNotBeforeWrite, SeenAfterWrite, Sources
    <3>2. CASE obs[c]["store"].rv # v /\ obs[c]["cache"].rv = v
      BY <3>2, <1>1 DEF FirstSeen, Other, ElectionInv, TypeOK, ObservationNotBeforeWrite, SeenAfterWrite, Sources
    <3>3. CASE obs[c]["store"].rv # v /\ obs[c]["cache"].rv # v
      BY <3>3 DEF FirstSeen, Other, Observation
    <3> QED BY <3>1, <3>2, <3>3
  <2>3. first.at \in Nat /\ At(v).at \in Nat /\ clock \in Nat
    BY <2>2, <1>1 DEF Observation, Lease, TypeOK
  <2> QED BY <2>1, <2>2, <2>3, DurationAssumption
<1> QED BY <1>2, <1>3

LEMMA ObserveStoreStep ==
  ASSUME ElectionInv, NEW p \in Slots, ObserveStore(p)
  PROVE  ElectionInv'
<1> DEFINE c == req[p].to
           v == req[p].seen
<1>1. PICK elapsed \in req[p].read..clock :
        /\ obs' = [obs EXCEPT ![c] = Observed(@, v, "store", elapsed)]
        /\ req' = IF Refused(req[p], Active(obs[c], v, "store", elapsed))
                  THEN Answer(p, "defeat")
                  ELSE IF req[p].attempt = MaxCASAttempts
                  THEN Answer(p, "error")
                  ELSE [req EXCEPT ![p].pc = "write", ![p].read = 0]
  BY DEF ObserveStore
<1>2. /\ req[p].pc = "got"
      /\ UNCHANGED <<history, late, clock, ready, cachePos, safe>>
  BY DEF ObserveStore
<1>3. /\ req[p] \in Request /\ c \in Coordinators /\ v \in 0..Len(history)
      /\ elapsed \in Nat /\ elapsed <= clock /\ At(v).at <= elapsed
      /\ TypeOK /\ SlotInv(p)
  BY <1>2, HeldVersion DEF Request, ElectionInv, RequestInv, TypeOK
<1>4. ASSUME NEW status \in {"none", "defeat", "error"}, req' = Answer(p, status)
      PROVE  ElectionInv'
  <2>1. req' = [req EXCEPT ![p] = [Idle EXCEPT !.pc = "reply", !.status = status]]
    BY <1>4 DEF Answer
  <2>2. SlotInv(p)'
    <3>1. req'[p] = [Idle EXCEPT !.pc = "reply", !.status = status]
      BY <2>1, <1>3 DEF TypeOK
    <3>2. clock' \in Nat /\ Len(history') \in Nat
      BY <1>2, <1>3 DEF TypeOK
    <3> QED BY <3>1, <3>2, <1>3, IdleSlot
  <2> QED BY <2>1, <2>2, <1>1, <1>2, <1>3, ObservingStep, RestType DEF Sources
<1>5. CASE /\ ~Refused(req[p], Active(obs[c], v, "store", elapsed))
           /\ req' = [req EXCEPT ![p].pc = "write", ![p].read = 0]
  <2> DEFINE r == [req[p] EXCEPT !.pc = "write", !.read = 0]
  <2>1. r \in Request /\ req' = [req EXCEPT ![p] = r]
    BY <1>3, <1>5 DEF Request, Points, TypeOK
  <2>2. /\ req'[p].pc = "write" /\ req'[p].seen = v /\ req'[p].read = 0
        /\ req'[p].op = req[p].op /\ req'[p].id = req[p].id
        /\ req'[p].sent = req[p].sent /\ req'[p].status = req[p].status
    BY <2>1, <1>3 DEF Request, TypeOK
  <2>3. Decided(req[p].op, req[p].id, v)
    <3>1. Elects(req[p]) /\ v <= Len(history)
      BY <1>2, <1>3 DEF SlotInv
    <3>2. CASE req[p].op = "campaign"
      BY <3>1, <3>2, <1>3, <1>5, InactiveIsOld DEF Refused, Decided, Elects
    <3>3. CASE req[p].op = "heartbeat"
      BY <3>1, <3>3, <1>3, <1>5 DEF Refused, Decided, Elects, Active, Ignored
    <3> QED BY <3>1, <3>2, <3>3 DEF Elects
  <2>4. SlotInv(p)'
    <3>1. Decided(req[p].op, req[p].id, v)'
      BY <2>2, <2>3, <1>2, <1>3, SameGrows, DecidedStable
    <3>2. Elects(req[p]) /\ req[p].status # "success" /\ v <= Len(history) /\ req[p].sent <= clock
      BY <1>2, <1>3 DEF SlotInv
    <3> QED BY <2>2, <3>1, <3>2, <1>2, <1>3 DEF SlotInv, Elects, TypeOK
  <2> QED BY <2>1, <2>4, <1>1, <1>2, <1>3, ObservingStep DEF Sources
<1> QED BY <1>1, <1>4, <1>5

LEMMA WriteAppliedStep ==
  ASSUME ElectionInv, NEW p \in Slots, WriteApplied(p)
  PROVE  ElectionInv'
<1> DEFINE l == Written(req[p].op, req[p].id, req[p].seen)
           r == [req[p] EXCEPT !.pc = "written", !.seen = Len(history) + 1, !.read = clock]
<1>1. /\ req[p] \in Request /\ SlotInv(p) /\ TypeOK /\ HistoryParts
      /\ req[p].pc = "write" /\ CASHolds(req[p].seen) /\ req[p].seen \in Nat
      /\ Len(history) \in Nat /\ clock \in Nat
  BY DEF WriteApplied, ElectionInv, HistoryParts, TypeOK, RequestInv, Request
<1>2. history' = Append(history, l) /\ UNCHANGED <<late, clock, ready, cachePos, obs, safe>>
  BY DEF WriteApplied
<1>3. Decided(req[p].op, req[p].id, req[p].seen)
  BY <1>1 DEF SlotInv
<1>4. l \in Lease /\ Legal(l) /\ ~Missing(l) /\ l.holder = req[p].id /\ l.at = clock
  BY <1>1, <1>3, WrittenLegal
<1>5. /\ Grows /\ history' \in Seq(Lease) /\ Len(history') = Len(history) + 1
      /\ history'[Len(history) + 1] = l
  <2> HIDE DEF l
  <2> QED BY <1>1, <1>2, <1>4, AppendGrows
<1>6. HistoryParts'
  <2> HIDE DEF l
  <2> QED BY <1>1, <1>2, <1>4, AppendHistory
<1>7. r \in Request /\ req' = [req EXCEPT ![p] = r]
  <2>1. Len(history) + 1 \in Nat
    BY <1>1
  <2>2. r \in Request
    BY <2>1, <1>1 DEF Request, Points
  <2>3. req' = [req EXCEPT ![p] = r]
    BY <1>1 DEF WriteApplied, TypeOK
  <2> QED BY <2>2, <2>3
<1>8. /\ req'[p].pc = "written" /\ req'[p].seen = Len(history) + 1 /\ req'[p].read = clock
      /\ req'[p].op = req[p].op /\ req'[p].id = req[p].id
      /\ req'[p].sent = req[p].sent /\ req'[p].status = req[p].status
  BY <1>1, <1>7 DEF Request, TypeOK
<1>9. SlotInv(p)'
  <2>1. At(req[p].seen)' = l
    BY <1>5, <1>8, <1>1 DEF At
  <2>2. Elects(req[p]) /\ req[p].status # "success" /\ req[p].sent <= clock
    BY <1>1 DEF SlotInv
  <2>3. ~Missing(At(req[p].seen))' /\ At(req[p].seen)'.holder = req[p].id /\ At(req[p].seen)'.at = clock
    <3> HIDE DEF l
    <3> QED BY <2>1, <1>4 DEF Missing
  <2> QED BY <2>2, <2>3, <1>1, <1>2, <1>5, <1>8 DEF SlotInv, Elects
<1>10. RequestInv' /\ req' \in [Slots -> Request]
  BY <1>1, <1>5, <1>7, <1>9, OneSlotStep DEF ElectionInv
<1>11. TypeOK'
  BY <1>1, <1>2, <1>5, <1>10 DEF TypeOK
<1> QED BY <1>1, <1>2, <1>5, <1>6, <1>10, <1>11, ObsStable, CacheStable, LateStable, SafeStable
        DEF ElectionInv, HistoryParts

LEMMA WriteConflictStep ==
  ASSUME ElectionInv, NEW p \in Slots, WriteConflict(p)
  PROVE  ElectionInv'
<1> DEFINE r == [req[p] EXCEPT !.pc = "get", !.seen = 0, !.read = 0, !.attempt = req[p].attempt + 1]
<1>1. /\ req[p] \in Request /\ SlotInv(p) /\ TypeOK /\ req[p].pc = "write" /\ clock \in Nat
      /\ Len(history) \in Nat
  BY DEF WriteConflict, ElectionInv, TypeOK, RequestInv
<1>2. UNCHANGED <<history, late, clock, ready, cachePos, obs, safe>>
  BY DEF WriteConflict
<1>3. r \in Request /\ req' = [req EXCEPT ![p] = r]
  <2>1. req[p].attempt + 1 \in Nat
    BY <1>1 DEF Request
  <2>2. r \in Request
    BY <2>1, <1>1 DEF Request, Points
  <2>3. req' = [req EXCEPT ![p] = r]
    BY <1>1 DEF WriteConflict, TypeOK
  <2> QED BY <2>2, <2>3
<1>4. /\ req'[p].pc = "get" /\ req'[p].seen = 0 /\ req'[p].read = 0
      /\ req'[p].op = req[p].op /\ req'[p].id = req[p].id
      /\ req'[p].sent = req[p].sent /\ req'[p].status = req[p].status
  BY <1>1, <1>3 DEF Request, TypeOK
<1>5. Elects(req[p]) /\ req[p].status # "success" /\ req[p].sent <= clock
  BY <1>1 DEF SlotInv
<1>6. SlotInv(p)'
  BY <1>1, <1>2, <1>4, <1>5 DEF SlotInv, Elects
<1> QED BY <1>2, <1>3, <1>6, SlotOnlyStep

LEMMA WriteFailsStep ==
  ASSUME ElectionInv, NEW p \in Slots, WriteFails(p)
  PROVE  ElectionInv'
<1> DEFINE w == [op |-> req[p].op, id |-> req[p].id, seen |-> req[p].seen]
           r == [Idle EXCEPT !.pc = "reply", !.status = "error"]
<1>1. /\ req[p] \in Request /\ SlotInv(p) /\ TypeOK /\ HistoryParts /\ Grows /\ req[p].pc = "write"
  BY SameGrows DEF WriteFails, ElectionInv, TypeOK, RequestInv, HistoryParts
<1>2. /\ req' = [req EXCEPT ![p] = r]
      /\ late' \subseteq late \cup {w}
      /\ UNCHANGED <<history, clock, ready, cachePos, obs, safe>>
  BY DEF WriteFails, Answer
<1>3. SlotInv(p)'
  BY <1>1, <1>2, IdleSlot DEF TypeOK
<1>4. RequestInv' /\ req' \in [Slots -> Request]
  BY <1>1, <1>2, <1>3, OneSlotStep, RestType DEF ElectionInv
<1>5. w \in Write /\ Decided(w.op, w.id, w.seen)
  BY <1>1 DEF SlotInv, Request, Write
<1>6. LateInv' /\ late' \subseteq Write
  <2>1. ASSUME NEW x \in late' PROVE x \in Write /\ Decided(x.op, x.id, x.seen)
    BY <1>1, <1>2, <1>5 DEF ElectionInv, LateInv, TypeOK
  <2> QED BY <2>1, <1>2 DEF LateInv, Decided, Missing, At
<1>7. TypeOK'
  BY <1>1, <1>2, <1>4, <1>6 DEF TypeOK
<1> QED BY <1>1, <1>2, <1>4, <1>6, <1>7, HistoryStable, ObsStable, CacheStable, SafeStable
        DEF ElectionInv, HistoryParts

LEMMA SucceedStep ==
  ASSUME ElectionInv, NEW p \in Slots, Succeed(p)
  PROVE  ElectionInv'
<1> DEFINE v == req[p].seen
           r == [req[p] EXCEPT !.pc = "reply", !.status = "success", !.read = 0, !.attempt = 0]
<1>1. PICK elapsed \in req[p].read..clock :
        obs' = [obs EXCEPT ![req[p].to] = Observed(@, v, "store", elapsed)]
  BY DEF Succeed
<1>2. /\ req[p].pc = "written"
      /\ UNCHANGED <<history, late, clock, ready, cachePos, safe>>
  BY DEF Succeed
<1>3. /\ req[p] \in Request /\ req[p].to \in Coordinators /\ v \in 0..Len(history)
      /\ elapsed \in Nat /\ At(v).at <= elapsed /\ TypeOK /\ SlotInv(p)
  BY <1>2, HeldVersion DEF Request, ElectionInv, RequestInv
<1>4. r \in Request /\ req' = [req EXCEPT ![p] = r]
  BY <1>3 DEF Succeed, Request, Points, Statuses, TypeOK
<1>5. /\ req'[p].pc = "reply" /\ req'[p].seen = v /\ req'[p].read = 0
      /\ req'[p].op = req[p].op /\ req'[p].id = req[p].id
      /\ req'[p].sent = req[p].sent /\ req'[p].status = "success"
  BY <1>3, <1>4 DEF Request, TypeOK
<1>6. /\ Elects(req[p]) /\ ~Missing(At(v)) /\ At(v).holder = req[p].id /\ At(v).at >= req[p].sent
      /\ v <= Len(history) /\ req[p].sent <= clock
  BY <1>2, <1>3 DEF SlotInv
<1>7. SlotInv(p)'
  BY <1>2, <1>3, <1>5, <1>6 DEF SlotInv, Elects, At, Missing, TypeOK
<1> QED BY <1>1, <1>2, <1>3, <1>4, <1>7, ObservingStep DEF Sources

LEMMA HandleStep ==
  ASSUME ElectionInv, NEW p \in Requests, Handle(p)
  PROVE  ElectionInv'
<1>1. p \in Slots
  BY DEF Slots
<1> QED BY <1>1, ObserveCacheStep, GetStep, GetFailsStep, ObserveStoreStep, WriteAppliedStep,
           WriteConflictStep, WriteFailsStep, SucceedStep DEF Handle

LEMMA ClientStep ==
  ASSUME ElectionInv, NEW p \in Requests, Client(p)
  PROVE  ElectionInv'
<1>1. /\ p \in Slots /\ req[p] \in Request /\ SlotInv(p) /\ TypeOK /\ HistoryParts /\ Grows
      /\ req' = [req EXCEPT ![p] = Idle]
      /\ UNCHANGED <<history, late, clock, ready, cachePos, obs>>
  BY SameGrows DEF Client, Deliver, LoseReply, Slots, ElectionInv, TypeOK, RequestInv, HistoryParts
<1>2. SlotInv(p)'
  BY <1>1, IdleSlot DEF TypeOK
<1>3. RequestInv' /\ req' \in [Slots -> Request]
  BY <1>1, <1>2, OneSlotStep, IdleType DEF ElectionInv
<1>4. SafeInv' /\ safe' \in [Ids -> Int]
  <2> DEFINE r     == req[p]
             until == r.sent + Duration - Interval
  <2>1. CASE safe' = safe
    BY <2>1, <1>1, SafeStable DEF ElectionInv, TypeOK
  <2>2. CASE r.status = "success" /\ safe' = [safe EXCEPT ![r.id] = until]
    <3>1. /\ r.id \in Ids /\ ~Missing(At(r.seen)) /\ At(r.seen).holder = r.id
          /\ At(r.seen).at >= r.sent /\ r.seen <= Len(history) /\ r.seen \in Nat /\ r.sent \in Nat
      BY <1>1, <2>2 DEF SlotInv, Elects, Request
    <3>2. r.seen \in 1..Len(history) /\ At(r.seen) = history[r.seen] /\ history[r.seen] \in Lease
      BY <3>1, <1>1, NoLeaseType DEF At, TypeOK
    <3>3. until \in Int /\ until <= history[r.seen].at + Duration - Interval
      BY <3>1, <3>2, DurationAssumption DEF Lease
    <3>4. safe' \in [Ids -> Int]
      BY <2>2, <3>3, <1>1 DEF TypeOK
    <3>5. ASSUME NEW d \in Ids, safe'[d] > 0
          PROVE  \E v \in 1..Len(history) : /\ ~Missing(history[v])
                                            /\ history[v].holder = d
                                            /\ safe'[d] <= history[v].at + Duration - Interval
      <4>1. CASE d = r.id
        BY <4>1, <2>2, <3>1, <3>2, <3>3, <1>1 DEF TypeOK
      <4>2. CASE d # r.id
        BY <4>2, <2>2, <3>5, <1>1 DEF TypeOK, ElectionInv, SafeInv
      <4> QED BY <4>1, <4>2
    <3> QED BY <3>4, <3>5, <1>1 DEF SafeInv, Missing
  <2> QED BY <2>1, <2>2 DEF Client, Deliver, LoseReply
<1>5. TypeOK'
  BY <1>1, <1>3, <1>4 DEF TypeOK
<1> QED BY <1>1, <1>3, <1>4, <1>5, HistoryStable, ObsStable, CacheStable, LateStable
        DEF ElectionInv, HistoryParts

LEMMA ScrapeStep ==
  ASSUME ElectionInv, NEW p \in Scrapes, NEW c \in Coordinators, Scrape(p, c)
  PROVE  ElectionInv'
<1> DEFINE r == Started(c, "scrape", Nobody)
<1>1. p \in Slots /\ p \notin Requests /\ TypeOK /\ cachePos[c] \in 0..Len(history)
  BY ProcessAssumption DEF Slots, ElectionInv, TypeOK, CacheInv
<1>2. req' = [req EXCEPT ![p] = r] /\ UNCHANGED <<history, late, clock, ready, cachePos, obs, safe>>
  BY DEF Scrape
<1>3. r \in Request
  BY <1>1 DEF Started, Request, Points, Ops, Statuses, TypeOK
<1>4. At(cachePos[c]).at <= clock
  <2>1. CASE cachePos[c] = 0
    BY <2>1, <1>1 DEF At, NoLease, TypeOK
  <2>2. CASE cachePos[c] # 0
    BY <2>2, <1>1 DEF At, ElectionInv, HistoryInv
  <2> QED BY <2>1, <2>2
<1>5. SlotInv(p)'
  BY <1>1, <1>2, <1>4 DEF Started, SlotInv, At, TypeOK
<1> QED BY <1>1, <1>2, <1>3, <1>5, SlotOnlyStep

LEMMA ObserveScrapeStep ==
  ASSUME ElectionInv, NEW p \in Scrapes, ObserveScrape(p)
  PROVE  ElectionInv'
<1>1. PICK elapsed \in req[p].read..clock :
        obs' = [obs EXCEPT ![req[p].to] = Observed(@, req[p].seen, "cache", elapsed)]
  BY DEF ObserveScrape
<1>2. /\ req[p].pc = "cached" /\ p \in Slots /\ req' = [req EXCEPT ![p] = Idle]
      /\ UNCHANGED <<history, late, clock, ready, cachePos, safe>>
  BY DEF ObserveScrape, Slots
<1>3. /\ req[p].to \in Coordinators /\ req[p].seen \in 0..Len(history)
      /\ elapsed \in Nat /\ At(req[p].seen).at <= elapsed /\ TypeOK
  BY <1>2, HeldVersion DEF Request, ElectionInv
<1>4. SlotInv(p)'
  BY <1>2, <1>3, IdleSlot DEF TypeOK
<1> QED BY <1>1, <1>2, <1>3, <1>4, IdleType, ObservingStep DEF Sources

\* A step that only adds a legal version.
LEMMA AppendStep ==
  ASSUME ElectionInv, NEW l \in Lease, Legal(l), history' = Append(history, l),
         late' \subseteq late, UNCHANGED <<clock, ready, cachePos, obs, req, safe>>
  PROVE  ElectionInv'
<1>1. TypeOK /\ HistoryParts
  BY DEF ElectionInv, HistoryParts
<1>2. Grows /\ history' \in Seq(Lease)
  BY <1>1, AppendGrows
<1>3. HistoryParts'
  BY <1>1, AppendHistory
<1>4. TypeOK'
  BY <1>1, <1>2 DEF TypeOK
<1> QED BY <1>1, <1>2, <1>3, <1>4, ObsStable, CacheStable, LateStable, RequestStable, SafeStable
        DEF ElectionInv, HistoryParts

LEMMA StoreStep ==
  ASSUME ElectionInv, Delete \/ ApplyLate \/ DropLate
  PROVE  ElectionInv'
<1>1. CASE Delete
  <2> DEFINE l == NoLease
  <2>1. l \in Lease /\ Legal(l)
    BY <1>1, NoLeaseType DEF Delete, Legal, Deleted
  <2>2. /\ history' = Append(history, l) /\ late' \subseteq late
        /\ UNCHANGED <<clock, ready, cachePos, obs, req, safe>>
    BY <1>1 DEF Delete
  <2> HIDE DEF l
  <2> QED BY <2>1, <2>2, AppendStep
<1>2. ASSUME NEW w \in late, late' \subseteq late, UNCHANGED <<clock, ready, cachePos, obs, req, safe>>,
             CASHolds(w.seen), history' = Append(history, Written(w.op, w.id, w.seen))
      PROVE  ElectionInv'
  <2> DEFINE l == Written(w.op, w.id, w.seen)
  <2>1. TypeOK /\ w.seen \in Nat /\ Decided(w.op, w.id, w.seen)
    BY DEF ElectionInv, TypeOK, LateInv, Write
  <2>2. l \in Lease /\ Legal(l)
    BY <2>1, <1>2, WrittenLegal
  <2>3. history' = Append(history, l)
    BY <1>2
  <2> HIDE DEF l
  <2> QED BY <1>2, <2>2, <2>3, AppendStep
<1>3. ASSUME late' \subseteq late, UNCHANGED <<history, clock, ready, cachePos, obs, req, safe>>
      PROVE  ElectionInv'
  <2>1. TypeOK /\ HistoryParts /\ Grows
    BY <1>3, SameGrows DEF ElectionInv, HistoryParts
  <2>2. TypeOK'
    BY <1>3, <2>1 DEF TypeOK
  <2> QED BY <1>3, <2>1, <2>2, HistoryStable, ObsStable, CacheStable, LateStable, RequestStable, SafeStable
          DEF ElectionInv, HistoryParts
<1>4. CASE ApplyLate
  BY <1>4, <1>2, <1>3 DEF ApplyLate
<1>5. CASE DropLate
  BY <1>5, <1>3 DEF DropLate
<1> QED BY <1>1, <1>4, <1>5

LEMMA TickStep ==
  ASSUME ElectionInv, Tick
  PROVE  ElectionInv'
<1>1. TypeOK /\ HistoryParts /\ Grows /\ UNCHANGED <<history, late, ready, cachePos, obs, req, safe>>
  BY DEF Tick, ElectionInv, HistoryParts, Grows, TypeOK, At
<1>2. TypeOK'
  BY <1>1 DEF Tick, TypeOK
<1> QED BY <1>1, <1>2, HistoryStable, ObsStable, CacheStable, LateStable, RequestStable, SafeStable
        DEF ElectionInv, HistoryParts

LEMMA StutterStep ==
  ASSUME ElectionInv, UNCHANGED vars
  PROVE  ElectionInv'
<1>1. TypeOK /\ HistoryParts /\ Grows /\ UNCHANGED <<history, late, clock, ready, cachePos, obs, req, safe>>
  BY SameGrows DEF ElectionInv, HistoryParts, vars
<1>2. TypeOK'
  BY <1>1 DEF TypeOK
<1> QED BY <1>1, <1>2, HistoryStable, ObsStable, CacheStable, LateStable, RequestStable, SafeStable
        DEF ElectionInv, HistoryParts

\* The invariant behind every safety property of the election.
THEOREM Invariance == Spec => []ElectionInv
<1>1. Init => ElectionInv
  BY InitInv
<1>2. ElectionInv /\ [Next]_vars => ElectionInv'
  <2> SUFFICES ASSUME ElectionInv, [Next]_vars PROVE ElectionInv'
    OBVIOUS
  <2>1. CASE \E c \in Coordinators : Informer(c) \/ Crash(c)
    BY <2>1, InformerStep, CrashStep
  <2>2. CASE \E p \in Requests : Handle(p) \/ Client(p)
    BY <2>2, HandleStep, ClientStep
  <2>3. CASE \E p \in Requests, c \in Coordinators, op \in {"campaign", "heartbeat"}, id \in Ids :
               Begin(p, c, op, id)
    BY <2>3, BeginStep
  <2>4. CASE \E p \in Scrapes : ObserveScrape(p) \/ \E c \in Coordinators : Scrape(p, c)
    BY <2>4, ScrapeStep, ObserveScrapeStep
  <2>5. CASE Delete \/ ApplyLate \/ DropLate
    BY <2>5, StoreStep
  <2>6. CASE Tick
    BY <2>6, TickStep
  <2>7. CASE UNCHANGED vars
    BY <2>7, StutterStep
  <2> QED BY <2>1, <2>2, <2>3, <2>4, <2>5, <2>6, <2>7 DEF Next
<1> QED BY <1>1, <1>2, PTL DEF Spec

\* Every variable keeps its type, with any number of coordinators, requests,
\* conflicts, crashes and late writes.
THEOREM TypeCorrect == Spec => []TypeOK
<1>1. ElectionInv => TypeOK
  BY DEF ElectionInv
<1> QED BY <1>1, Invariance, PTL

\* An epoch of a Lease names one DataKit: nothing is ever granted twice.
THEOREM Fencing == Spec => []OneHolderPerTerm
<1>1. ElectionInv => OneHolderPerTerm
  BY DEF ElectionInv
<1> QED BY <1>1, Invariance, PTL

\* No coordinator measures an age that is more than the true age of a version.
THEOREM AgesAreSafe == Spec => []ObservationNotBeforeWrite
<1>1. ElectionInv => ObservationNotBeforeWrite
  BY DEF ElectionInv
<1> QED BY <1>1, Invariance, PTL

\* No term begins before the one it replaces has been silent for Duration.
THEOREM TakeoverIsSafe == Spec => []NoEarlyTakeover
<1>1. ElectionInv => NoEarlyTakeover
  BY DEF ElectionInv
<1> QED BY <1>1, Invariance, PTL

\* Every success that a coordinator answers rests on a write of this request.
THEOREM SuccessIsSafe == Spec => []SuccessIsBacked
<1>1. ElectionInv => SuccessIsBacked
  BY DEF ElectionInv, RequestInv, SlotInv, SuccessIsBacked, Slots
<1> QED BY <1>1, Invariance, PTL

\* Two DataKits never collect at the same time, unless the Lease was deleted.
THEOREM OneCollector == Spec => []AtMostOneCollector
<1>1. ElectionInv => AtMostOneCollector
  <2> SUFFICES ASSUME ElectionInv, Deletions = {}, NEW d \in Ids, NEW e \in Ids,
                      clock < safe[d], clock < safe[e], d # e
               PROVE  FALSE
    BY DEF AtMostOneCollector
  <2>1. clock \in Nat /\ safe[d] \in Int /\ safe[e] \in Int /\ history \in Seq(Lease)
    BY DEF ElectionInv, TypeOK
  <2>2. PICK v \in 1..Len(history) : ~Missing(history[v]) /\ history[v].holder = d
                                    /\ safe[d] <= history[v].at + Duration - Interval
    BY <2>1 DEF ElectionInv, SafeInv
  <2>3. PICK w \in 1..Len(history) : ~Missing(history[w]) /\ history[w].holder = e
                                    /\ safe[e] <= history[w].at + Duration - Interval
    BY <2>1 DEF ElectionInv, SafeInv
  <2>4. v # w /\ history[v] \in Lease /\ history[w] \in Lease
        /\ history[v].at <= clock /\ history[w].at <= clock
    BY <2>1, <2>2, <2>3 DEF ElectionInv, HistoryInv
  <2>5. history[v].uid = history[w].uid
    <3>0. HistoryInv /\ Len(history) \in Nat
      BY <2>1 DEF ElectionInv
    <3>1. \A u \in 1..Len(history) : ~Missing(history[u])
      BY DEF Deletions
    <3>2. ASSUME NEW i \in 1..Len(history), NEW j \in 1..Len(history),
                 i < j, history[i].uid # history[j].uid
          PROVE  FALSE
      <4>1. \E u \in i..j : Missing(history[u])
        BY <3>0, <3>2 DEF HistoryInv
      <4>2. i..j \subseteq 1..Len(history)
        BY <3>0, <3>2
      <4> QED BY <4>1, <4>2, <3>1
    <3>3. v < w \/ w < v
      BY <2>4, <3>0
    <3> QED BY <3>2, <3>3
  <2>6. history[v].epoch # history[w].epoch
    BY <2>2, <2>3, <2>5 DEF ElectionInv, OneHolderPerTerm
  <2>0. history[v].at \in Nat /\ history[w].at \in Nat /\ Duration \in Nat /\ Interval \in 0..Duration
    BY <2>4, DurationAssumption DEF Lease
  <2>7. CASE v < w
    <3>1. history[w].at >= history[v].at + Duration
      BY <2>2, <2>5, <2>6, <2>7 DEF ElectionInv, NoEarlyTakeover
    <3> QED BY <3>1, <2>0, <2>1, <2>2, <2>4
  <2>8. CASE w < v
    <3>1. history[v].at >= history[w].at + Duration
      BY <2>3, <2>5, <2>6, <2>8 DEF ElectionInv, NoEarlyTakeover
    <3> QED BY <3>1, <2>0, <2>1, <2>3, <2>4
  <2> QED BY <2>4, <2>7, <2>8
<1> QED BY <1>1, Invariance, PTL


(***************************************************************************)
(* Election implements LeaseTerms: the newest version of the Lease, the    *)
(* uids it has had and the clock are a LeaseTerms behaviour.               *)
(***************************************************************************)
Uids == {history[v].uid : v \in 1..Len(history)} \ {0}

LEMMA InitTerms == Init => Terms!Init
BY DEF Init, Terms!Init, Current, At, NoLease, Terms!NoLease

\* Whatever is legally appended is a step of LeaseTerms.
LEMMA LegalTerms ==
  ASSUME ElectionInv, NEW l \in Lease, Legal(l), history' = Append(history, l), clock' = clock
  PROVE  Terms!Next
<1> DEFINE n == Len(history)
<1>1. /\ TypeOK /\ n \in Nat /\ Len(history') = n + 1 /\ history'[n + 1] = l
      /\ \A v \in 1..n : history'[v] = history[v] /\ history[v] \in Lease /\ history[v].uid <= v
  BY AppendGrows DEF ElectionInv, TypeOK, HistoryInv
<1>2. Current' = l
  BY <1>1 DEF Current, At
<1>3. Uids' = (Uids \cup {l.uid}) \ {0}
  <2>1. Uids' = {history'[v].uid : v \in 1..n + 1} \ {0}
    BY <1>1 DEF Uids
  <2>2. 1..n + 1 = 1..n \cup {n + 1}
    BY <1>1
  <2> QED BY <1>1, <2>1, <2>2 DEF Uids
<1>4. Current \in Lease /\ (~Missing(Current) => Current.uid \in Uids)
  BY <1>1, NoLeaseType DEF Current, At, Uids, Missing
<1>5. CASE Created(l)
  <2>1. l.uid \notin Uids \cup {0} /\ Uids' = Uids \cup {l.uid}
    BY <1>1, <1>3, <1>5 DEF Created, Uids, Lease
  <2>2. l = [uid |-> l.uid, epoch |-> 1, holder |-> l.holder, at |-> clock]
    BY <1>5 DEF Created, Lease
  <2>3. Terms!Create(l.holder)
    BY <2>1, <2>2, <1>2, <1>5 DEF Terms!Create, Terms!Missing, Created, Missing, Uids
  <2> QED BY <2>3, <1>5 DEF Terms!Next, Created
<1>6. CASE Renewed(l)
  <2>1. l = [Current EXCEPT !.at = clock] /\ Uids' = Uids
    BY <1>3, <1>4, <1>6 DEF Renewed, Lease, Missing, Uids
  <2>2. Terms!Renew
    BY <2>1, <1>2, <1>6 DEF Terms!Renew, Terms!Missing, Renewed, Missing, Uids
  <2> QED BY <2>2 DEF Terms!Next
<1>7. CASE Acquired(l)
  <2>1. l = [Current EXCEPT !.epoch = @ + 1, !.holder = l.holder, !.at = clock] /\ Uids' = Uids
    BY <1>3, <1>4, <1>7 DEF Acquired, Lease, Missing, Uids
  <2>2. Terms!Acquire(l.holder)
    BY <2>1, <1>2, <1>7 DEF Terms!Acquire, Terms!Missing, Terms!Expired, Acquired, Missing, Uids
  <2> QED BY <2>2, <1>7 DEF Terms!Next, Acquired
<1>8. CASE Deleted(l)
  <2>1. Uids' = Uids
    BY <1>3, <1>8 DEF Deleted, NoLease, Uids
  <2>2. Terms!Delete
    BY <2>1, <1>2, <1>8 DEF Terms!Delete, Terms!Missing, Terms!NoLease, Deleted, NoLease, Missing, Uids
  <2> QED BY <2>2 DEF Terms!Next
<1> QED BY <1>5, <1>6, <1>7, <1>8 DEF Legal

\* A step that leaves history and the clock alone is a stutter.
LEMMA QuietStep ==
  ASSUME UNCHANGED <<history, clock>>
  PROVE  UNCHANGED Terms!vars
BY DEF Terms!vars, Current, At

LEMMA StepTerms ==
  ASSUME ElectionInv, [Next]_vars
  PROVE  [Terms!Next]_(Terms!vars)
<1>1. ASSUME NEW op, NEW id, NEW v \in Nat, Decided(op, id, v), CASHolds(v),
             history' = Append(history, Written(op, id, v)), clock' = clock
      PROVE  Terms!Next
  <2> DEFINE l == Written(op, id, v)
  <2>1. l \in Lease /\ Legal(l) /\ history' = Append(history, l)
    BY <1>1, WrittenLegal DEF ElectionInv
  <2> HIDE DEF l
  <2> QED BY <2>1, <1>1, LegalTerms
<1>2. CASE UNCHANGED <<history, clock>>
  BY <1>2, QuietStep
<1>3. ASSUME NEW p \in Requests, WriteApplied(p)
      PROVE  Terms!Next
  <2>1. /\ Decided(req[p].op, req[p].id, req[p].seen) /\ req[p].seen \in Nat
        /\ CASHolds(req[p].seen) /\ clock' = clock
        /\ history' = Append(history, Written(req[p].op, req[p].id, req[p].seen))
    BY <1>3 DEF WriteApplied, ElectionInv, TypeOK, RequestInv, SlotInv, Slots, Request
  <2> QED BY <2>1, <1>1
<1>4. CASE ApplyLate
  <2>1. PICK w \in late :
          /\ clock' = clock
          /\ history' = IF CASHolds(w.seen)
                        THEN Append(history, Written(w.op, w.id, w.seen)) ELSE history
    BY <1>4 DEF ApplyLate
  <2>2. Decided(w.op, w.id, w.seen) /\ w.seen \in Nat
    BY DEF ElectionInv, LateInv, TypeOK, Write
  <2> QED BY <2>1, <2>2, <1>1, <1>2
<1>5. CASE Delete
  <2> DEFINE l == NoLease
  <2>1. l \in Lease /\ Legal(l) /\ history' = Append(history, l) /\ clock' = clock
    BY <1>5, NoLeaseType DEF Delete, Legal, Deleted
  <2> HIDE DEF l
  <2> QED BY <2>1, LegalTerms
<1>6. CASE Tick
  <2>1. Terms!Tick
    BY <1>6 DEF Tick, Terms!Tick, Current, At
  <2> QED BY <2>1 DEF Terms!Next
<1>7. CASE UNCHANGED vars
  BY <1>7, <1>2 DEF vars
<1>8. ASSUME NEW p \in Requests, Handle(p) \/ Client(p)
      PROVE  [Terms!Next]_(Terms!vars)
  <2>1. WriteApplied(p) \/ UNCHANGED <<history, clock>>
    BY <1>8 DEF Handle, Client, ObserveCache, Get, GetFails, ObserveStore, WriteConflict,
                WriteFails, Succeed, Deliver, LoseReply
  <2> QED BY <2>1, <1>2, <1>3
<1>9. CASE \/ \E c \in Coordinators : Informer(c) \/ Crash(c)
           \/ \E p \in Requests, c \in Coordinators, op \in {"campaign", "heartbeat"}, id \in Ids :
                Begin(p, c, op, id)
           \/ \E p \in Scrapes : ObserveScrape(p) \/ \E c \in Coordinators : Scrape(p, c)
           \/ DropLate
  <2>1. UNCHANGED <<history, clock>>
    BY <1>9 DEF Informer, CatchUp, OpenWatch, BreakWatch, Crash, Begin, ObserveScrape, Scrape, DropLate
  <2> QED BY <2>1, <1>2
<1> QED BY <1>4, <1>5, <1>6, <1>7, <1>8, <1>9 DEF Next

\* The coordinators implement the abstract election: a Lease is created once,
\* taken over only after Duration of silence, and otherwise only renewed.
THEOREM Refinement == Spec => ImplementsLeaseTerms
<1>1. Init => Terms!Init
  BY InitTerms
<1>2. ElectionInv /\ [Next]_vars => [Terms!Next]_(Terms!vars)
  BY StepTerms
<1> QED BY <1>1, <1>2, Invariance, PTL DEF Spec, Terms!Spec, ImplementsLeaseTerms

(***************************************************************************)
(* What a coordinator remembers of the API server (leaseObservations) and  *)
(* what its cache may no longer tell it: the two action properties of      *)
(* Election that the inductive invariant alone does not give.  Each holds  *)
(* under a condition that the runs show it needs: one process that stays   *)
(* up (stale_replica), requests that come one at a time (delayed_get).     *)
(***************************************************************************)
-----------------------------------------------------------------------------
(* One process: what it was told by the API server outlives its cache *)

\* c has read or written the term of version v, or a later one.
Knows(c, v) ==
  /\ obs[c]["store"].rv # 0
  /\ At(obs[c]["store"].rv).epoch >= At(v).epoch

\* No version is a deletion, and c knows the term of every success that it
\* answered and of the write that each DataKit's time to collect rests on.
KnownInv(c) ==
  /\ \A v \in 1..Len(history) : ~Missing(history[v])
  /\ \A p \in Slots : req[p].status = "success" => Knows(c, req[p].seen)
  /\ \A d \in Ids :
       safe[d] > 0 => \E v \in 1..Len(history) :
                        /\ history[v].holder = d
                        /\ safe[d] <= history[v].at + Duration - Interval
                        /\ Knows(c, v)

\* The only process does not crash, and nobody deletes the Lease.
OneProcess(c) == Coordinators = {c} /\ MayCrash = {} /\ MaxDeletes = 0

LEMMA SameLease ==
  ASSUME ElectionInv, \A v \in 1..Len(history) : ~Missing(history[v]),
         NEW v \in 1..Len(history), NEW w \in 1..Len(history)
  PROVE  history[v].uid = history[w].uid
<1>0. HistoryInv /\ Len(history) \in Nat
  BY DEF ElectionInv, TypeOK
<1>1. ASSUME NEW i \in 1..Len(history), NEW j \in 1..Len(history),
             i < j, history[i].uid # history[j].uid
      PROVE  FALSE
  <2>1. \E u \in i..j : Missing(history[u])
    BY <1>0, <1>1 DEF HistoryInv
  <2>2. i..j \subseteq 1..Len(history)
    BY <1>0, <1>1
  <2> QED BY <1>0, <2>1, <2>2
<1>2. v < w \/ w < v \/ v = w
  BY <1>0
<1> QED BY <1>1, <1>2

\* Without deletions a version that is observed at the API server is there, of
\* the one Lease.
LEMMA ObservedEpochs ==
  ASSUME ElectionInv, NEW c \in Coordinators, KnownInv(c),
         NEW v \in 0..Len(history), NEW w \in 1..Len(history),
         NEW s \in Sources, NEW elapsed \in Nat
  PROVE  /\ Knows(c, w) => LET o == Observed(obs[c], v, s, elapsed)["store"]
                           IN  o.rv # 0 /\ At(o.rv).epoch >= At(w).epoch
         /\ v # 0 => LET o == Observed(obs[c], v, "store", elapsed)["store"]
                     IN  o.rv # 0 /\ At(o.rv).epoch >= At(v).epoch
<1> DEFINE pair == obs[c]
           rv   == pair["store"].rv
<1>1. /\ TypeOK /\ Len(history) \in Nat /\ pair \in [Sources -> Observation] /\ rv \in Nat
      /\ rv # 0 => rv \in 1..Len(history)
      /\ pair["store"] \in Observation /\ pair["cache"] \in Observation
  BY DEF ElectionInv, TypeOK, ObservationNotBeforeWrite, SeenAfterWrite, Sources, Observation
<1>2. \A i \in 1..Len(history) : At(i) = history[i] /\ history[i] \in Lease /\ ~Missing(At(i))
  BY <1>1 DEF At, TypeOK, KnownInv
<1>3. \A i, j \in 1..Len(history) : At(i).uid = At(j).uid
  BY <1>2, SameLease DEF KnownInv
<1>4. v = 0 => Ignored(pair, v, s)
  BY DEF Ignored, Missing, At, NoLease
<1>5. \A t \in Sources : v # 0 =>
        (Ignored(pair, v, t) <=> rv # 0 /\ At(v).epoch < At(rv).epoch)
  BY <1>1, <1>2, <1>3 DEF Ignored, Superseded
<1>6. FirstSeen(pair, v, "store", elapsed).rv = v
  BY DEF FirstSeen, Other
<1>7. \A i \in 1..Len(history) : At(i).epoch \in Nat
  BY <1>2 DEF Lease
<1>8. Observed(pair, v, "store", elapsed)["store"] =
        IF Ignored(pair, v, "store") THEN pair["store"] ELSE FirstSeen(pair, v, "store", elapsed)
  BY <1>1 DEF Observed, Sources
<1>9. s = "cache" => Observed(pair, v, s, elapsed)["store"] = pair["store"]
  BY <1>1 DEF Observed, Sources
<1>10. v # 0 => LET o == Observed(pair, v, "store", elapsed)["store"]
                IN  o.rv # 0 /\ At(o.rv).epoch >= At(v).epoch
  BY <1>1, <1>5, <1>6, <1>7, <1>8 DEF Sources
<1>11. Knows(c, w) => LET o == Observed(pair, v, s, elapsed)["store"]
                      IN  o.rv # 0 /\ At(o.rv).epoch >= At(w).epoch
  <2>1. CASE s = "cache"
    BY <2>1, <1>9 DEF Knows
  <2>2. CASE s = "store"
    BY <2>2, <1>1, <1>4, <1>5, <1>6, <1>7, <1>8 DEF Knows, Sources
  <2> QED BY <2>1, <2>2 DEF Sources
<1> QED BY <1>10, <1>11

\* A step that observes at most one version, and deletes nothing.
Observes(c) ==
  \/ obs' = obs
  \/ \E v \in 0..Len(history), s \in Sources, elapsed \in Nat :
       obs' = [obs EXCEPT ![c] = Observed(@, v, s, elapsed)]

LEMMA KnowledgeStays ==
  ASSUME ElectionInv, NEW c \in Coordinators, KnownInv(c), Grows, Observes(c)
  PROVE  \A v \in 1..Len(history) : Knows(c, v) => Knows(c, v)'
<1> SUFFICES ASSUME NEW w \in 1..Len(history), Knows(c, w) PROVE Knows(c, w)'
  OBVIOUS
<1>1. TypeOK /\ Len(history) \in Nat /\ obs[c]["store"].rv \in 0..Len(history)
  BY DEF ElectionInv, TypeOK, ObservationNotBeforeWrite, SeenAfterWrite, Sources, Observation
<1>2. At(w)' = At(w)
  BY <1>1 DEF Grows
<1>3. CASE obs' = obs
  <2>1. PICK k \in 0..Len(history) : k = obs[c]["store"].rv
    BY <1>1
  <2>2. At(k)' = At(k) /\ k = obs'[c]["store"].rv
    BY <1>3, <2>1 DEF Grows
  <2> QED BY <1>2, <2>1, <2>2 DEF Knows, At
<1>4. ASSUME NEW v \in 0..Len(history), NEW s \in Sources, NEW elapsed \in Nat,
             obs' = [obs EXCEPT ![c] = Observed(@, v, s, elapsed)]
      PROVE  Knows(c, w)'
  <2> DEFINE o == Observed(obs[c], v, s, elapsed)["store"]
  <2>1. o.rv # 0 /\ At(o.rv).epoch >= At(w).epoch
    BY ObservedEpochs
  <2>2. obs'[c]["store"] = o
    BY <1>1, <1>4 DEF TypeOK
  <2>3. o.rv \in 0..Len(history)
    <3>1. o \in {obs[c]["store"], obs[c]["cache"], [rv |-> v, at |-> elapsed]}
      BY <1>1 DEF Observed, FirstSeen, Other, Sources, TypeOK
    <3>2. obs[c]["cache"].rv \in 0..Len(history)
      BY <1>1 DEF ElectionInv, TypeOK, ObservationNotBeforeWrite, SeenAfterWrite, Sources, Observation
    <3> QED BY <1>1, <3>1, <3>2
  <2>4. PICK k \in 0..Len(history) : k = o.rv
    BY <2>3
  <2>5. At(k)' = At(k) /\ k = obs'[c]["store"].rv
    BY <2>2, <2>4 DEF Grows
  <2> HIDE DEF o
  <2> QED BY <1>2, <2>1, <2>4, <2>5 DEF Knows, At
<1> QED BY <1>3, <1>4 DEF Observes

\* What a step may do to what c knows, apart from crashing and deleting.
Answers(q) == req'[q].status = "success" => req'[q] = req[q] \/ (q \in Requests /\ Succeed(q))

Learns(c) ==
  /\ Grows
  /\ \A v \in 1..Len(history') : ~Missing(history'[v])
  /\ Observes(c)
  /\ \A q \in Slots : Answers(q)
  /\ safe' = safe \/ \E p \in Requests : Deliver(p)

LEMMA WrittenPresent ==
  ASSUME ElectionInv, \A v \in 1..Len(history) : ~Missing(history[v]),
         NEW op, NEW id, NEW w \in Nat, Decided(op, id, w), CASHolds(w),
         history' = Append(history, Written(op, id, w)), clock' = clock
  PROVE  Grows /\ \A v \in 1..Len(history') : ~Missing(history'[v])
<1> DEFINE l == Written(op, id, w)
<1>1. TypeOK /\ Len(history) \in Nat
  BY DEF ElectionInv, TypeOK
<1>2. l \in Lease /\ Legal(l) /\ history' = Append(history, l)
  BY <1>1, WrittenLegal
<1>3. ~Missing(l)
  <2>1. CASE w = 0 \/ Missing(At(w))
    BY <2>1, <1>1 DEF Written, Missing, At, NoLease
  <2>2. CASE w # 0 /\ ~Missing(At(w))
    BY <2>2, <1>1 DEF Written, Missing, Decided, At, TypeOK, Lease
  <2> QED BY <2>1, <2>2
<1> HIDE DEF l
<1> QED BY <1>1, <1>2, <1>3, AppendGrows

LEMMA HandleLearns ==
  ASSUME ElectionInv, NEW c, OneProcess(c), KnownInv(c), NEW p \in Requests, Handle(p)
  PROVE  Learns(c)
<1>1. /\ TypeOK /\ SlotInv(p) /\ p \in Slots /\ req[p] \in Request /\ req[p].to = c
      /\ \A v \in 1..Len(history) : ~Missing(history[v])
      /\ Len(history) \in Nat /\ clock \in Nat /\ req[p].attempt \in Nat
  BY DEF ElectionInv, TypeOK, RequestInv, Slots, OneProcess, KnownInv, Request
<1>2. ASSUME UNCHANGED <<history, clock>>
      PROVE  Grows /\ \A v \in 1..Len(history') : ~Missing(history'[v])
  BY <1>1, <1>2, SameGrows
<1>3. ASSUME NEW r \in Request, req' = [req EXCEPT ![p] = r], r.status # "success"
      PROVE  \A q \in Slots : Answers(q)
  BY <1>1, <1>3 DEF Answers, TypeOK
<1>4. \A st \in {"defeat", "error"} :
        /\ [Idle EXCEPT !.pc = "reply", !.status = st] \in Request
        /\ [Idle EXCEPT !.pc = "reply", !.status = st].status = st
  BY IdleType DEF Request, Points, Statuses, Idle
<1>5. req[p].status = "success" => req[p].pc = "reply"
  BY <1>1 DEF SlotInv
<1>6. CASE ObserveCache(p)
  <2>1. PICK elapsed \in req[p].read..clock :
          /\ obs' = [obs EXCEPT ![c] = Observed(@, req[p].seen, "cache", elapsed)]
          /\ req' = Answer(p, "defeat") \/ req' = GoTo(p, "get")
    BY <1>1, <1>6 DEF ObserveCache
  <2>2. req[p].pc = "cached" /\ UNCHANGED <<history, clock, safe>>
    BY <1>6 DEF ObserveCache
  <2>3. Observes(c)
    BY <1>1, <2>1, <2>2, HeldVersion DEF Observes, Sources
  <2> DEFINE r == [req[p] EXCEPT !.pc = "get", !.seen = 0, !.read = 0]
  <2>4. r \in Request /\ r.status = req[p].status
    BY <1>1 DEF Request, Points
  <2>5. \A q \in Slots : Answers(q)
    <3>1. CASE req' = Answer(p, "defeat")
      BY <1>3, <1>4, <3>1 DEF Answer
    <3>2. CASE req' = GoTo(p, "get")
      <4>1. req' = [req EXCEPT ![p] = r]
        BY <1>1, <3>2, GoToType DEF Points
      <4> HIDE DEF r
      <4> QED BY <1>3, <1>5, <2>2, <2>4, <4>1
    <3> QED BY <2>1, <3>1, <3>2
  <2> QED BY <1>2, <2>2, <2>3, <2>5 DEF Learns
<1>7. CASE Get(p) \/ GetFails(p)
  <2>1. req[p].pc = "get" /\ UNCHANGED <<history, clock, obs, safe>>
    BY <1>7 DEF Get, GetFails
  <2>2. CASE Get(p)
    <3>1. [req[p] EXCEPT !.pc = "got", !.seen = Len(history), !.read = clock] \in Request
      BY <1>1 DEF Request, Points
    <3> QED BY <1>1, <1>2, <1>3, <1>5, <2>1, <2>2, <3>1 DEF Get, Learns, Observes, TypeOK, Request
  <2>3. CASE GetFails(p)
    BY <1>2, <1>3, <1>4, <2>1, <2>3 DEF GetFails, Answer, Learns, Observes
  <2> QED BY <1>7, <2>2, <2>3
<1>8. CASE ObserveStore(p)
  <2> DEFINE r == [req[p] EXCEPT !.pc = "write", !.read = 0]
  <2>1. PICK elapsed \in req[p].read..clock :
          /\ obs' = [obs EXCEPT ![c] = Observed(@, req[p].seen, "store", elapsed)]
          /\ req' = Answer(p, "defeat") \/ req' = Answer(p, "error") \/ req' = [req EXCEPT ![p] = r]
    BY <1>1, <1>8 DEF ObserveStore, TypeOK
  <2>2. req[p].pc = "got" /\ UNCHANGED <<history, clock, safe>>
    BY <1>8 DEF ObserveStore
  <2>3. Observes(c)
    BY <1>1, <2>1, <2>2, HeldVersion DEF Observes, Sources
  <2>4. r \in Request /\ r.status = req[p].status
    BY <1>1 DEF Request, Points
  <2>5. \A q \in Slots : Answers(q)
    <3> HIDE DEF r
    <3> QED BY <1>3, <1>4, <1>5, <2>1, <2>2, <2>4 DEF Answer
  <2> QED BY <1>2, <2>2, <2>3, <2>5 DEF Learns
<1>9. CASE WriteApplied(p)
  <2> DEFINE r == [req[p] EXCEPT !.pc = "written", !.seen = Len(history) + 1, !.read = clock]
  <2>1. /\ req[p].pc = "write" /\ UNCHANGED <<clock, obs, safe>> /\ CASHolds(req[p].seen)
        /\ history' = Append(history, Written(req[p].op, req[p].id, req[p].seen))
        /\ req' = [req EXCEPT ![p] = r]
    BY <1>1, <1>9 DEF WriteApplied, TypeOK
  <2>2. req[p].seen \in Nat /\ Decided(req[p].op, req[p].id, req[p].seen)
    BY <1>1, <2>1 DEF SlotInv, Request
  <2>3. Grows /\ \A v \in 1..Len(history') : ~Missing(history'[v])
    BY <1>1, <2>1, <2>2, WrittenPresent
  <2>4. r \in Request /\ r.status = req[p].status
    <3>1. Len(history) + 1 \in Nat
      BY <1>1
    <3> QED BY <1>1, <3>1 DEF Request, Points
  <2> HIDE DEF r
  <2> QED BY <1>3, <1>5, <2>1, <2>3, <2>4 DEF Learns, Observes
<1>10. CASE WriteConflict(p)
  <2> DEFINE r == [req[p] EXCEPT !.pc = "get", !.seen = 0, !.read = 0, !.attempt = req[p].attempt + 1]
  <2>1. /\ req[p].pc = "write" /\ UNCHANGED <<history, clock, obs, safe>>
        /\ req' = [req EXCEPT ![p] = r]
    BY <1>1, <1>10 DEF WriteConflict, TypeOK
  <2>2. r \in Request /\ r.status = req[p].status
    <3>1. req[p].attempt + 1 \in Nat
      BY <1>1
    <3> QED BY <1>1, <3>1 DEF Request, Points
  <2> HIDE DEF r
  <2> QED BY <1>2, <1>3, <1>5, <2>1, <2>2 DEF Learns, Observes
<1>11. CASE WriteFails(p)
  BY <1>2, <1>3, <1>4, <1>11 DEF WriteFails, Answer, Learns, Observes
<1>12. CASE Succeed(p)
  <2>1. /\ req[p].pc = "written" /\ UNCHANGED <<history, clock, safe>>
        /\ \E elapsed \in req[p].read..clock :
             obs' = [obs EXCEPT ![c] = Observed(@, req[p].seen, "store", elapsed)]
    BY <1>1, <1>12 DEF Succeed
  <2>2. Observes(c)
    BY <1>1, <2>1, HeldVersion DEF Observes, Sources
  <2>3. \A q \in Slots : Answers(q)
    BY <1>1, <1>12 DEF Answers, Succeed, TypeOK
  <2> QED BY <1>2, <2>1, <2>2, <2>3 DEF Learns
<1> QED BY <1>6, <1>7, <1>8, <1>9, <1>10, <1>11, <1>12 DEF Handle

LEMMA NextLearns ==
  ASSUME ElectionInv, NEW c, OneProcess(c), KnownInv(c), [Next]_vars
  PROVE  Learns(c)
<1>1. /\ TypeOK /\ \A v \in 1..Len(history) : ~Missing(history[v])
      /\ Coordinators = {c} /\ MayCrash = {}
  BY DEF ElectionInv, OneProcess, KnownInv
<1>2. ASSUME UNCHANGED <<history, clock>>
      PROVE  Grows /\ \A v \in 1..Len(history') : ~Missing(history'[v])
  BY <1>1, <1>2, SameGrows
<1>3. ASSUME NEW p \in Slots, NEW r \in Request, req' = [req EXCEPT ![p] = r], r.status # "success"
      PROVE  \A q \in Slots : Answers(q)
  BY <1>1, <1>3 DEF Answers, TypeOK
<1>4. Idle \in Request /\ Idle.status = "none"
  BY IdleType DEF Idle
<1>5. CASE \E d \in Coordinators : Informer(d) \/ Crash(d)
  BY <1>1, <1>2, <1>5 DEF Informer, CatchUp, OpenWatch, BreakWatch, Crash, Learns, Observes, Answers
<1>6. CASE \E p \in Requests : Handle(p)
  BY <1>6, HandleLearns
<1>7. CASE \E p \in Requests : Client(p)
  <2>1. PICK p \in Requests : Client(p)
    BY <1>7
  <2>2. /\ req' = [req EXCEPT ![p] = Idle] /\ UNCHANGED <<history, clock, obs>> /\ p \in Slots
        /\ safe' = safe \/ Deliver(p)
    BY <2>1 DEF Client, Deliver, LoseReply, Slots
  <2> QED BY <1>2, <1>3, <1>4, <2>2 DEF Learns, Observes
<1>8. ASSUME NEW p \in Requests, NEW d \in Coordinators, NEW op \in {"campaign", "heartbeat"},
             NEW id \in Ids, Begin(p, d, op, id)
      PROVE  Learns(c)
  <2>1. UNCHANGED <<history, clock, obs, safe>> /\ p \in Slots
    BY <1>8 DEF Begin, Slots
  <2>2. \A q \in Slots : Answers(q)
    <3>1. Started(d, op, id).status = "none"
      BY DEF Started
    <3>2. [Idle EXCEPT !.pc = "reply", !.status = "error"].status = "error"
      BY DEF Idle
    <3> QED BY <1>1, <1>8, <2>1, <3>1, <3>2 DEF Begin, Answer, Answers, TypeOK
  <2> QED BY <1>2, <2>1, <2>2 DEF Learns, Observes
<1>9. CASE \E p \in Scrapes : ObserveScrape(p)
  <2>1. PICK p \in Scrapes : ObserveScrape(p)
    BY <1>9
  <2>2. /\ req[p].pc = "cached" /\ p \in Slots /\ UNCHANGED <<history, clock, safe>>
        /\ req' = [req EXCEPT ![p] = Idle] /\ req[p].to = c
        /\ \E elapsed \in req[p].read..clock :
             obs' = [obs EXCEPT ![c] = Observed(@, req[p].seen, "cache", elapsed)]
    BY <1>1, <2>1 DEF ObserveScrape, Slots, TypeOK, Request
  <2>3. Observes(c)
    BY <2>2, HeldVersion DEF Observes, Sources
  <2> QED BY <1>2, <1>3, <1>4, <2>2, <2>3 DEF Learns
<1>10. CASE \E p \in Scrapes, d \in Coordinators : Scrape(p, d)
  <2>1. PICK p \in Scrapes, d \in Coordinators : Scrape(p, d)
    BY <1>10
  <2>2. UNCHANGED <<history, clock, obs, safe>> /\ Started(d, "scrape", Nobody).status = "none"
    BY <2>1 DEF Scrape, Started
  <2>3. \A q \in Slots : Answers(q)
    BY <1>1, <2>1, <2>2 DEF Scrape, Answers, TypeOK, Slots
  <2> QED BY <1>2, <2>2, <2>3 DEF Learns, Observes
<1>11. CASE Delete
  <2>1. IsFiniteSet(1..Len(history)) /\ Deletions \subseteq 1..Len(history)
    BY <1>1, FS_Interval DEF Deletions, TypeOK
  <2>2. Cardinality(Deletions) \in Nat
    BY <2>1, FS_Subset, FS_CardinalityType
  <2> QED BY <1>11, <2>2 DEF Delete, OneProcess
<1>12. CASE ApplyLate
  <2>1. PICK w \in late : history' = IF CASHolds(w.seen)
                                     THEN Append(history, Written(w.op, w.id, w.seen)) ELSE history
    BY <1>12 DEF ApplyLate
  <2>2. UNCHANGED <<clock, obs, req, safe>>
    BY <1>12 DEF ApplyLate
  <2>3. w.seen \in Nat /\ Decided(w.op, w.id, w.seen)
    BY <1>1 DEF ElectionInv, LateInv, TypeOK, Write
  <2>4. Grows /\ \A v \in 1..Len(history') : ~Missing(history'[v])
    BY <1>1, <1>2, <2>1, <2>2, <2>3, WrittenPresent
  <2> QED BY <2>2, <2>4 DEF Learns, Observes, Answers
<1>13. CASE DropLate \/ UNCHANGED vars
  BY <1>2, <1>13 DEF DropLate, vars, Learns, Observes, Answers
<1>14. CASE Tick
  <2>1. Grows /\ UNCHANGED <<history, obs, req, safe>>
    BY <1>1, <1>14 DEF Tick, Grows, TypeOK, At
  <2> QED BY <1>1, <2>1 DEF Learns, Observes, Answers
<1> QED BY <1>5, <1>6, <1>7, <1>8, <1>9, <1>10, <1>11, <1>12, <1>13, <1>14 DEF Next

LEMMA KnownInitially == ASSUME Init, NEW c PROVE KnownInv(c)
BY DEF Init, KnownInv, Idle

LEMMA KnownInductive ==
  ASSUME ElectionInv, ElectionInv', NEW c, OneProcess(c), KnownInv(c), [Next]_vars
  PROVE  KnownInv(c)'
<1>1. Learns(c)
  BY NextLearns
<1>2. c \in Coordinators /\ TypeOK /\ Len(history) \in Nat /\ Len(history') \in Nat
  BY DEF OneProcess, ElectionInv, TypeOK
<1>3. \A v \in 1..Len(history) : Knows(c, v) => Knows(c, v)'
  BY <1>1, <1>2, KnowledgeStays DEF Learns
<1>4. ASSUME NEW p \in Slots, req[p].status = "success"
      PROVE  /\ req[p].seen \in 1..Len(history) /\ Knows(c, req[p].seen) /\ req[p].pc = "reply"
             /\ history[req[p].seen].holder = req[p].id /\ history[req[p].seen].at >= req[p].sent
             /\ req[p].id \in Ids
  <2>1. SlotInv(p) /\ req[p] \in Request
    BY DEF ElectionInv, RequestInv, TypeOK
  <2>2. req[p].seen \in 0..Len(history) /\ ~Missing(At(req[p].seen)) /\ req[p].pc = "reply"
    BY <1>2, <1>4, <2>1 DEF SlotInv, Request
  <2>3. req[p].seen # 0
    BY <2>2 DEF At, NoLease, Missing
  <2> QED BY <1>4, <2>1, <2>2, <2>3 DEF KnownInv, SlotInv, At, Elects
<1>5. ASSUME NEW p \in Slots, req'[p].status = "success"
      PROVE  Knows(c, req[p].seen)'
  <2>1. CASE req'[p] = req[p]
    <3>1. PICK k \in 1..Len(history) : k = req[p].seen /\ Knows(c, k)
      BY <1>4, <1>5, <2>1
    <3>2. Knows(c, k)' /\ k = req'[p].seen
      BY <1>3, <2>1, <3>1
    <3> QED BY <3>2 DEF Knows
  <2>2. CASE p \in Requests /\ Succeed(p)
    <3>1. /\ SlotInv(p) /\ req[p] \in Request /\ req[p].to = c /\ req[p].pc = "written"
          /\ UNCHANGED history
      BY <2>2 DEF ElectionInv, RequestInv, TypeOK, Request, OneProcess, Succeed
    <3>2. PICK k \in 1..Len(history) : k = req[p].seen
      BY <1>2, <3>1 DEF SlotInv, Request, At, NoLease, Missing
    <3>3. req'[p].seen = k
      BY <1>2, <2>2, <3>1, <3>2 DEF Succeed, TypeOK, Request
    <3>4. PICK elapsed \in req[p].read..clock :
            obs' = [obs EXCEPT ![c] = Observed(@, k, "store", elapsed)]
      BY <2>2, <3>1, <3>2 DEF Succeed
    <3>5. elapsed \in Nat
      BY <1>2, <3>1, <3>4, HeldVersion
    <3>6. LET o == Observed(obs[c], k, "store", elapsed)["store"]
          IN  o.rv # 0 /\ At(o.rv).epoch >= At(k).epoch
      BY <1>2, <3>5, ObservedEpochs DEF Sources
    <3>7. obs'[c]["store"] = Observed(obs[c], k, "store", elapsed)["store"]
      BY <1>2, <3>4 DEF TypeOK
    <3> QED BY <3>1, <3>3, <3>6, <3>7 DEF Knows, At
  <2> QED BY <1>1, <1>5, <2>1, <2>2 DEF Learns, Answers
<1>6. ASSUME NEW v \in 1..Len(history), Knows(c, v)
      PROVE  v \in 1..Len(history') /\ Knows(c, v)' /\ history'[v] = history[v]
  <2>1. v \in 1..Len(history') /\ At(v)' = At(v)
    BY <1>1, <1>2 DEF Learns, Grows
  <2> QED BY <1>3, <1>6, <2>1 DEF At
<1>7. ASSUME NEW d \in Ids, safe'[d] > 0
      PROVE  \E v \in 1..Len(history') : /\ history'[v].holder = d
                                         /\ safe'[d] <= history'[v].at + Duration - Interval
                                         /\ Knows(c, v)'
  <2>1. CASE safe'[d] = safe[d]
    <3>1. PICK v \in 1..Len(history) : /\ history[v].holder = d
                                       /\ safe[d] <= history[v].at + Duration - Interval
                                       /\ Knows(c, v)
      BY <1>7, <2>1 DEF KnownInv
    <3> QED BY <1>6, <2>1, <3>1
  <2>2. CASE safe'[d] # safe[d]
    <3>1. PICK p \in Requests : Deliver(p)
      BY <1>1, <2>2 DEF Learns
    <3>2. p \in Slots
      BY DEF Slots
    <3>3. /\ req[p].status = "success" /\ d = req[p].id
          /\ safe'[d] = req[p].sent + Duration - Interval
      BY <1>2, <2>2, <3>1 DEF Deliver, TypeOK
    <3>4. PICK k \in 1..Len(history) : k = req[p].seen
      BY <1>4, <3>2, <3>3
    <3>5. Knows(c, k) /\ history[k].holder = d /\ history[k].at >= req[p].sent
      BY <1>4, <3>2, <3>3, <3>4
    <3>6. safe'[d] <= history[k].at + Duration - Interval
      <4>1. history[k] \in Lease /\ req[p] \in Request
        BY <1>2, <3>2 DEF TypeOK
      <4>2. history[k].at \in Nat /\ req[p].sent \in Nat
        BY <4>1 DEF Lease, Request
      <4> QED BY <3>3, <3>5, <4>2, DurationAssumption
    <3> QED BY <1>6, <3>5, <3>6
  <2> QED BY <2>1, <2>2
<1> QED BY <1>1, <1>5, <1>7 DEF Learns, KnownInv

\* The DataKit that a heartbeat is refused for from the cache is not the holder
\* any more, or is past its time.
LEMMA RefusalIsRight ==
  ASSUME ElectionInv, NEW c, OneProcess(c), KnownInv(c), [Next]_vars,
         NEW p \in Requests, req[p].pc = "cached", req[p].op = "heartbeat",
         req'[p].status = "defeat", Current.holder = req[p].id, clock < safe[req[p].id]
  PROVE  FALSE
<1> DEFINE d == req[p].id
           n == Len(history)
<1>1. /\ TypeOK /\ n \in Nat /\ c \in Coordinators /\ p \in Slots /\ SlotInv(p) /\ d \in Ids
      /\ req[p] \in Request /\ req[p].to = c /\ clock \in Nat /\ safe[d] \in Int
      /\ req[p].seen \in 0..n /\ p \notin Scrapes
  BY ProcessAssumption DEF OneProcess, ElectionInv, TypeOK, RequestInv, SlotInv, Slots, Elects, Request
<1>2. PICK elapsed \in req[p].read..clock :
        Active(obs[c], req[p].seen, "cache", elapsed) /\ At(req[p].seen).holder # d
  <2>1. req[p].status = "none" /\ req'[p] # req[p]
    BY <1>1 DEF SlotInv
  <2>2. ObserveCache(p)
    <3>1. \A r : \A q \in Slots : q # p /\ req' = [req EXCEPT ![q] = r] => req'[p] = req[p]
      BY <1>1 DEF TypeOK
    <3>2. \A op, id : \A e \in Coordinators : ~Begin(p, e, op, id)
      BY DEF Begin
    <3>3. Next /\ req' # req
      BY <2>1 DEF vars
    <3>4. ~Crash(c)
      BY DEF Crash, OneProcess
    <3>5. ASSUME NEW q \in Requests, q # p, Handle(q) \/ Client(q) \/ \E op, id : \E e \in Coordinators : Begin(q, e, op, id)
          PROVE  FALSE
      <4>1. q \in Slots /\ req \in [Slots -> Request]
        BY <1>1 DEF Slots, TypeOK
      <4>2. CASE ObserveCache(q) \/ ObserveStore(q)
        BY <1>1, <2>1, <3>5, <4>1, <4>2 DEF ObserveCache, ObserveStore, Answer, GoTo
      <4>3. CASE Get(q) \/ GetFails(q) \/ WriteApplied(q) \/ WriteConflict(q) \/ WriteFails(q) \/ Succeed(q)
        BY <1>1, <2>1, <3>5, <4>1, <4>3
           DEF Get, GetFails, WriteApplied, WriteConflict, WriteFails, Succeed, Answer
      <4>4. CASE Client(q) \/ \E op, id : \E e \in Coordinators : Begin(q, e, op, id)
        BY <1>1, <2>1, <3>5, <4>1, <4>4 DEF Client, Deliver, LoseReply, Begin, Answer
      <4> QED BY <3>5, <4>2, <4>3, <4>4 DEF Handle
    <3>6. Handle(p) \/ Client(p)
      <4> SUFFICES ASSUME ~(Handle(p) \/ Client(p)) PROVE FALSE
        OBVIOUS
      <4>1. ASSUME NEW e \in Coordinators, Informer(e) \/ Crash(e) PROVE FALSE
        BY <3>3, <3>4, <4>1 DEF OneProcess, Informer, CatchUp, OpenWatch, BreakWatch
      <4>2. ASSUME NEW q \in Requests,
                   Handle(q) \/ Client(q) \/ \E op, id : \E e \in Coordinators : Begin(q, e, op, id)
            PROVE  FALSE
        BY <3>2, <3>5, <4>2
      <4>3. ASSUME NEW q \in Scrapes, ObserveScrape(q) \/ \E e \in Coordinators : Scrape(q, e) PROVE FALSE
        <5>1. q # p /\ q \in Slots
          BY <1>1 DEF Slots
        <5> QED BY <2>1, <3>1, <4>3, <5>1 DEF ObserveScrape, Scrape
      <4>4. ASSUME Delete \/ ApplyLate \/ DropLate \/ Tick PROVE FALSE
        BY <3>3, <4>4 DEF Delete, ApplyLate, DropLate, Tick
      <4> QED BY <3>3, <4>1, <4>2, <4>3, <4>4 DEF Next
    <3> QED BY <3>6 DEF Handle, Client, Get, GetFails, ObserveStore, WriteApplied, WriteConflict,
                        WriteFails, Succeed, Deliver, LoseReply
  <2>3. PICK elapsed \in req[p].read..clock :
          req' = IF /\ Active(obs[c], req[p].seen, "cache", elapsed)
                    /\ req[p].op = "campaign" \/ At(req[p].seen).holder # d
                 THEN Answer(p, "defeat") ELSE GoTo(p, "get")
    BY <1>1, <2>2 DEF ObserveCache
  <2>4. ASSUME req' = GoTo(p, "get") PROVE FALSE
    <3>1. req'[p].status = req[p].status
      BY <1>1, <2>4 DEF GoTo, TypeOK, Request
    <3> QED BY <2>1, <3>1
  <2> QED BY <2>3, <2>4
<1>3. PICK v \in 1..n : /\ history[v].holder = d
                        /\ safe[d] <= history[v].at + Duration - Interval
                        /\ Knows(c, v)
  BY <1>1 DEF KnownInv
<1>4. n \in 1..n /\ Current = history[n] /\ At(v) = history[v]
  BY <1>1, <1>3 DEF Current, At
<1>5. /\ \A i \in 1..n : ~Missing(history[i]) /\ At(i) = history[i] /\ history[i] \in Lease
      /\ \A i, j \in 1..n : history[i].uid = history[j].uid
  BY <1>1, SameLease DEF KnownInv, At, TypeOK
<1>6. history[v].epoch = history[n].epoch
  <2>1. v = n \/ v < n
    BY <1>1, <1>3
  <2>2. CASE v < n /\ history[n].at >= history[v].at + Duration
    <3>1. history[n].at <= clock /\ history[n].at \in Nat /\ history[v].at \in Nat
      BY <1>1, <1>4, <1>5 DEF ElectionInv, HistoryInv, Lease
    <3> QED BY <1>1, <1>3, <2>2, <3>1, DurationAssumption
  <2> QED BY <1>4, <1>5, <2>1, <2>2 DEF ElectionInv, NoEarlyTakeover
<1>7. PICK k \in 1..n : k = obs[c]["store"].rv /\ history[k].epoch >= history[n].epoch
  <2>1. obs[c]["store"].rv \in 1..n
    BY <1>1, <1>3 DEF Knows, ElectionInv, TypeOK, ObservationNotBeforeWrite, SeenAfterWrite, Sources, Observation
  <2>2. At(obs[c]["store"].rv).epoch >= At(v).epoch
    BY <1>3 DEF Knows
  <2>3. PICK k \in 1..n : k = obs[c]["store"].rv
    BY <2>1
  <2> QED BY <1>4, <1>5, <1>6, <2>2, <2>3
<1>8. req[p].seen \in 1..n
  BY <1>1, <1>2 DEF Active, Ignored, Missing, At, NoLease
<1>9. history[req[p].seen].epoch >= history[k].epoch
  <2>1. /\ At(req[p].seen) = history[req[p].seen] /\ At(k) = history[k]
        /\ history[req[p].seen].epoch \in Nat /\ history[k].epoch \in Nat
        /\ history[req[p].seen].uid = history[k].uid
    BY <1>5, <1>7, <1>8 DEF Lease
  <2>2. ~Superseded(obs[c], req[p].seen, "cache")
    BY <1>2 DEF Active, Ignored
  <2> QED BY <1>7, <2>1, <2>2 DEF Superseded
<1>10. history[req[p].seen].epoch = history[n].epoch
  <2>1. req[p].seen < n => history[req[p].seen].epoch <= history[n].epoch
    BY <1>4, <1>5, <1>8 DEF ElectionInv, HistoryInv
  <2>2. /\ history[req[p].seen].epoch \in Nat /\ history[n].epoch \in Nat
        /\ history[k].epoch \in Nat
    BY <1>4, <1>5, <1>7, <1>8 DEF Lease
  <2>3. req[p].seen < n \/ req[p].seen = n
    BY <1>1, <1>8
  <2> QED BY <1>7, <1>9, <2>1, <2>2, <2>3
<1>11. history[req[p].seen].holder = history[n].holder
  BY <1>4, <1>5, <1>8, <1>10 DEF ElectionInv, OneHolderPerTerm
<1> QED BY <1>2, <1>4, <1>5, <1>8, <1>11

\* The fix that the CHANGELOG announces holds for a process that is alone and
\* stays up, however its cache lags and whatever requests, scrapes and delayed
\* writes there are.
THEOREM HolderIsNotRefused ==
  ASSUME NEW c, OneProcess(c)
  PROVE  Spec => HolderNotRefusedByCache
<1>1. Init => KnownInv(c)
  BY KnownInitially
<1>2. ElectionInv /\ ElectionInv' /\ KnownInv(c) /\ [Next]_vars => KnownInv(c)'
  BY KnownInductive
<1>3. ElectionInv /\ KnownInv(c) /\ [Next]_vars =>
        [\A p \in Requests :
           (req[p].pc = "cached" /\ req[p].op = "heartbeat" /\ req'[p].status = "defeat")
             => ~(Current.holder = req[p].id /\ clock < safe[req[p].id])]_vars
  BY RefusalIsRight
<1> QED BY <1>1, <1>2, <1>3, Invariance, PTL DEF Spec, HolderNotRefusedByCache

-----------------------------------------------------------------------------
(* One request at a time: nothing that was read is older than what was observed *)

\* The version that the request is about to observe at the API server is not
\* older than the one that its coordinator has observed there.
ReadInOrder(r) ==
  req[r].pc \in {"got", "written"} => obs[req[r].to]["store"].rv <= req[r].seen

\* Observing in the cache leaves the other observation alone; so does observing at
\* the API server the version that is observed there.
LEMMA StoreObserved ==
  ASSUME TypeOK, NEW c \in Coordinators, NEW v, NEW elapsed
  PROVE  /\ Observed(obs[c], v, "cache", elapsed)["store"] = obs[c]["store"]
         /\ obs[c]["store"].rv = v => Observed(obs[c], v, "store", elapsed) = obs[c]
BY DEF TypeOK, Observed, FirstSeen, Sources

LEMMA ReadInOrderStays ==
  ASSUME ElectionInv, NEW r, Requests = {r}, ReadInOrder(r), [Next]_vars
  PROVE  ReadInOrder(r)'
<1>1. /\ TypeOK /\ r \in Slots /\ r \notin Scrapes /\ Len(history) \in Nat /\ req[r] \in Request
      /\ \A c \in Coordinators : obs[c]["store"].rv \in 0..Len(history)
  BY ProcessAssumption DEF ElectionInv, TypeOK, ObservationNotBeforeWrite, SeenAfterWrite, Sources, Observation, Slots
<1>2. CASE req'[r] = req[r] /\ \A c \in Coordinators : obs'[c]["store"] = obs[c]["store"]
  BY <1>1, <1>2 DEF ReadInOrder, Request
<1>3. CASE req'[r].pc \notin {"got", "written"}
  BY <1>3 DEF ReadInOrder
<1>4. CASE Handle(r)
  <2>1. CASE Get(r)
    <3>1. obs' = obs /\ req'[r].to = req[r].to /\ req'[r].seen = Len(history)
      BY <1>1, <2>1 DEF Get, TypeOK
    <3> QED BY <1>1, <3>1 DEF ReadInOrder, Request
  <2>2. CASE WriteApplied(r)
    <3>1. obs' = obs /\ req'[r].to = req[r].to /\ req'[r].seen = Len(history) + 1
      BY <1>1, <2>2 DEF WriteApplied, TypeOK
    <3> QED BY <1>1, <3>1 DEF ReadInOrder, Request
  <2>3. CASE GetFails(r) \/ WriteConflict(r) \/ WriteFails(r) \/ Succeed(r)
    <3>1. req'[r].pc \in {"get", "reply"}
      <4>1. CASE GetFails(r) \/ WriteFails(r)
        <5>1. [Idle EXCEPT !.pc = "reply", !.status = "error"].pc = "reply"
          BY DEF Idle
        <5>2. Answer(r, "error")[r].pc = "reply"
          BY <1>1, <5>1 DEF TypeOK, Answer
        <5> QED BY <4>1, <5>2 DEF GetFails, WriteFails
      <4>2. CASE WriteConflict(r)
        BY <1>1, <4>2 DEF WriteConflict, TypeOK, Request
      <4>3. CASE Succeed(r)
        BY <1>1, <4>3 DEF Succeed, TypeOK, Request
      <4> QED BY <2>3, <4>1, <4>2, <4>3
    <3> QED BY <1>3, <3>1
  <2>4. CASE ObserveCache(r) \/ ObserveStore(r)
    <3>1. \A status : Answer(r, status)[r].pc = "reply"
      BY <1>1 DEF Answer, TypeOK, Idle
    <3>2. GoTo(r, "get")[r].pc = "get" /\ [req EXCEPT ![r].pc = "write", ![r].read = 0][r].pc = "write"
      BY <1>1 DEF GoTo, TypeOK, Request
    <3>3. req'[r].pc \in {"get", "reply", "write"}
      BY <2>4, <3>1, <3>2 DEF ObserveCache, ObserveStore
    <3> QED BY <1>3, <3>3
  <2> QED BY <1>4, <2>1, <2>2, <2>3, <2>4 DEF Handle
<1>5. CASE Client(r) \/ \E op, id : \E c \in Coordinators : Begin(r, c, op, id)
  <2>1. \A op, id : \A c \in Coordinators : Started(c, op, id).pc = "cached"
    BY DEF Started
  <2>2. req'[r].pc \in {"idle", "cached", "reply"}
    <3>1. CASE Client(r)
      BY <1>1, <3>1 DEF Client, Deliver, LoseReply, Idle, TypeOK
    <3>2. CASE \E op, id : \E c \in Coordinators : Begin(r, c, op, id)
      <4>1. [Idle EXCEPT !.pc = "reply", !.status = "error"].pc = "reply"
        BY DEF Idle
      <4> QED BY <1>1, <2>1, <3>2, <4>1 DEF Begin, Answer, TypeOK
    <3> QED BY <1>5, <3>1, <3>2
  <2> QED BY <1>3, <2>2
<1>6. CASE \E c \in Coordinators : Informer(c)
  BY <1>2, <1>6 DEF Informer, CatchUp, OpenWatch, BreakWatch
<1>7. CASE \E c \in Coordinators : Crash(c)
  <2>1. PICK c \in Coordinators : Crash(c)
    BY <1>7
  <2>2. req'[r] = Idle \/ (req'[r] = req[r] /\ (req[r].pc = "idle" \/ req[r].to # c))
    <3> DEFINE lost == {p \in Slots : req[p].pc # "idle" /\ req[p].to = c}
    <3>1. req' = [p \in Slots |-> IF p \in lost THEN Idle ELSE req[p]]
      BY <2>1 DEF Crash
    <3> QED BY <1>1, <3>1
  <2>3. \A d \in Coordinators : d # c => obs'[d] = obs[d]
    BY <1>1, <2>1 DEF Crash, TypeOK
  <2> QED BY <1>1, <1>3, <2>2, <2>3 DEF ReadInOrder, Request, Idle
<1>8. CASE \E p \in Scrapes : ObserveScrape(p) \/ \E c \in Coordinators : Scrape(p, c)
  <2>1. PICK p \in Scrapes : ObserveScrape(p) \/ \E c \in Coordinators : Scrape(p, c)
    BY <1>8
  <2>2. p # r /\ p \in Slots /\ req[p].to \in Coordinators /\ req'[r] = req[r]
    BY <1>1, <2>1 DEF Slots, ObserveScrape, Scrape, TypeOK, Request
  <2>3. \A c \in Coordinators : obs'[c]["store"] = obs[c]["store"]
    <3>1. ASSUME NEW elapsed,
                 obs' = [obs EXCEPT ![req[p].to] = Observed(@, req[p].seen, "cache", elapsed)],
                 NEW c \in Coordinators
          PROVE  obs'[c]["store"] = obs[c]["store"]
      <4>1. CASE c = req[p].to
        <5>1. obs'[c] = Observed(obs[c], req[p].seen, "cache", elapsed)
          BY <1>1, <3>1, <4>1 DEF TypeOK
        <5> QED BY <1>1, <5>1, StoreObserved
      <4>2. CASE c # req[p].to
        BY <1>1, <2>2, <3>1, <4>2 DEF TypeOK
      <4> QED BY <4>1, <4>2
    <3> QED BY <2>1, <3>1 DEF ObserveScrape, Scrape
  <2> QED BY <1>2, <2>2, <2>3
<1>9. CASE Delete \/ ApplyLate \/ DropLate \/ Tick \/ UNCHANGED vars
  BY <1>2, <1>9 DEF Delete, ApplyLate, DropLate, Tick, vars
<1> QED BY <1>4, <1>5, <1>6, <1>7, <1>8, <1>9 DEF Next

LEMMA TimerStays ==
  ASSUME ElectionInv, NEW r, Requests = {r}, ReadInOrder(r), [Next]_vars, NEW c \in Coordinators \ MayCrash,
         obs[c]["store"].rv = Len(history)
  PROVE  obs'[c]["store"] = obs[c]["store"]
<1>1. /\ TypeOK /\ r \in Slots /\ c \in Coordinators /\ Len(history) \in Nat /\ req[r] \in Request
      /\ req[r].to \in Coordinators /\ SlotInv(r)
  BY DEF ElectionInv, TypeOK, RequestInv, Slots, Request
<1>2. CASE obs' = obs
  BY <1>2
<1>3. ASSUME NEW p \in Slots, NEW elapsed, NEW v,
             obs' = [obs EXCEPT ![req[p].to] = Observed(@, v, "cache", elapsed)]
      PROVE  obs'[c]["store"] = obs[c]["store"]
  BY <1>1, <1>3, StoreObserved DEF TypeOK
<1>4. ASSUME NEW elapsed, req[r].pc \in {"got", "written"},
             obs' = [obs EXCEPT ![req[r].to] = Observed(@, req[r].seen, "store", elapsed)]
      PROVE  obs'[c]["store"] = obs[c]["store"]
  <2>1. CASE req[r].to = c
    <3>1. req[r].seen = Len(history)
      BY <1>1, <1>4, <2>1 DEF ReadInOrder, SlotInv, Request
    <3>2. obs'[c] = Observed(obs[c], req[r].seen, "store", elapsed)
      BY <1>1, <1>4, <2>1 DEF TypeOK
    <3> QED BY <1>1, <3>1, <3>2, StoreObserved
  <2>2. CASE req[r].to # c
    BY <1>1, <1>4, <2>2 DEF TypeOK
  <2> QED BY <2>1, <2>2
<1>5. CASE \E p \in Requests : Handle(p)
  <2>1. Handle(r)
    BY <1>5
  <2>2. CASE ObserveCache(r)
    BY <1>1, <1>3, <2>2 DEF ObserveCache
  <2>3. CASE ObserveStore(r) \/ Succeed(r)
    BY <1>4, <2>3 DEF ObserveStore, Succeed
  <2> QED BY <1>2, <2>1, <2>2, <2>3 DEF Handle, Get, GetFails, WriteApplied, WriteConflict, WriteFails
<1>6. CASE \E p \in Requests : Client(p) \/ \E op, id : \E d \in Coordinators : Begin(p, d, op, id)
  BY <1>2, <1>6 DEF Client, Deliver, LoseReply, Begin
<1>7. CASE \E d \in Coordinators : Informer(d) \/ Crash(d)
  BY <1>1, <1>7 DEF Informer, CatchUp, OpenWatch, BreakWatch, Crash, TypeOK
<1>8. CASE \E p \in Scrapes : ObserveScrape(p) \/ \E d \in Coordinators : Scrape(p, d)
  BY <1>2, <1>3, <1>8 DEF ObserveScrape, Scrape, Slots
<1>9. CASE Delete \/ ApplyLate \/ DropLate \/ Tick \/ UNCHANGED vars
  BY <1>2, <1>9 DEF Delete, ApplyLate, DropLate, Tick, vars
<1> QED BY <1>5, <1>6, <1>7, <1>8, <1>9 DEF Next

\* Requests that come one at a time never restart the timer of the newest
\* version, with any number of processes and scrapes, any crashes of the other
\* processes, any deletions and delayed writes.
THEOREM TimerIsNotRestarted ==
  ASSUME NEW r, Requests = {r}
  PROVE  Spec => TimerNotRestarted
<1>1. Init => ReadInOrder(r)
  BY DEF Init, ReadInOrder, Idle, Slots
<1>2. ElectionInv /\ ReadInOrder(r) /\ [Next]_vars => ReadInOrder(r)'
  BY ReadInOrderStays
<1>3. ElectionInv /\ ReadInOrder(r) /\ [Next]_vars =>
        [\A c \in Coordinators \ MayCrash :
           (obs[c]["store"].rv = Len(history) /\ obs[c]["store"].rv # 0 /\ history' = history)
             => obs'[c]["store"] = obs[c]["store"]]_vars
  BY TimerStays
<1> QED BY <1>1, <1>2, <1>3, Invariance, PTL DEF Spec, TimerNotRestarted
=============================================================================
