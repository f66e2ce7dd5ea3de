---------------------------- MODULE ServerProofs ----------------------------
(***************************************************************************)
(* Theorems about LeaseInformer, for any bounds: readiness is withdrawn    *)
(* whenever no watch feeds the cache, and the cache only moves forward.    *)
(***************************************************************************)
EXTENDS Server, SequenceTheorems, TLAPS

\* A version received goes to the end of the queue.
LEMMA AppendContinues ==
  ASSUME TypeOK, Continues, NEW v \in Nat, v <= stored, Received <= v,
         fifo' = Append(fifo, v), shown' = shown, stored' = stored
  PROVE  fifo' \in Seq(Nat) /\ Continues' /\ Received' # NotListed
<1>1. /\ fifo' \in Seq(Nat)
      /\ Len(fifo') = Len(fifo) + 1
      /\ fifo'[Len(fifo) + 1] = v
      /\ \A i \in 1..Len(fifo) : fifo'[i] = fifo[i]
  BY DEF TypeOK
<1>2. Len(fifo) \in Nat /\ \A i \in 1..Len(fifo) : fifo[i] \in Nat
  BY DEF TypeOK
<1>3. Received' = v
  BY <1>1, <1>2 DEF Received
<1>4. shown <= v /\ \A i \in 1..Len(fifo) : fifo[i] <= v
  <2>1. CASE fifo = <<>>
    BY <2>1, <1>2 DEF Received
  <2>2. CASE fifo # <<>>
    <3>1. Len(fifo) \in 1..Len(fifo) /\ Received = fifo[Len(fifo)]
      BY <2>2, <1>2 DEF Received, TypeOK
    <3> QED
      BY <3>1, <1>2 DEF Continues, TypeOK, NotListed
  <2> QED
    BY <2>1, <2>2
<1>5. Continues'
  <2>1. ASSUME NEW i \in 1..Len(fifo'), NEW j \in 1..Len(fifo'), i <= j
        PROVE  shown' <= fifo'[i] /\ fifo'[i] <= fifo'[j]
    <3>1. CASE j \in 1..Len(fifo)
      BY <3>1, <2>1, <1>1, <1>2 DEF Continues
    <3>2. CASE j = Len(fifo) + 1
      BY <3>2, <2>1, <1>1, <1>2, <1>4 DEF Continues
    <3> QED
      BY <3>1, <3>2, <1>1, <1>2
  <2> QED
    BY <2>1, <1>3 DEF Continues
<1> QED
  BY <1>1, <1>3, <1>5 DEF NotListed

\* Moving the oldest version into the indexer leaves the newest received alone.
LEMMA PopContinues ==
  ASSUME TypeOK, Continues, fifo # <<>>,
         shown' = Head(fifo), fifo' = Tail(fifo), stored' = stored
  PROVE  /\ fifo' \in Seq(Nat) /\ shown' \in Nat /\ shown <= shown' /\ shown' <= stored
         /\ Continues' /\ Received' = Received
<1>1. /\ Len(fifo) \in Nat /\ Len(fifo) > 0
      /\ \A i \in 1..Len(fifo) : fifo[i] \in Nat
      /\ Head(fifo) = fifo[1]
      /\ Tail(fifo) \in Seq(Nat)
      /\ Len(Tail(fifo)) = Len(fifo) - 1
      /\ \A i \in 1..Len(Tail(fifo)) : Tail(fifo)[i] = fifo[i + 1]
  BY DEF TypeOK
<1>2. Received' = Received
  <2>1. CASE Len(fifo) = 1
    BY <2>1, <1>1 DEF Received
  <2>2. CASE Len(fifo) > 1
    <3>1. Tail(fifo) # <<>> /\ Len(fifo) - 1 \in 1..Len(Tail(fifo))
      <4>1. Len(Tail(fifo)) = Len(fifo) - 1 /\ Len(fifo) - 1 > 0
        BY <2>2, <1>1
      <4>2. Tail(fifo) # <<>>
        BY <4>1, Len(<<>>) = 0
      <4> QED
        BY <4>1, <4>2, <1>1
    <3>2. Tail(fifo)[Len(Tail(fifo))] = fifo[Len(fifo)]
      BY <3>1, <1>1
    <3> QED
      BY <3>1, <3>2 DEF Received
  <2> QED
    BY <2>1, <2>2, <1>1
<1>3. shown <= fifo[1] /\ fifo[1] <= fifo[Len(fifo)] /\ Received = fifo[Len(fifo)]
  BY <1>1 DEF Continues, Received
<1>4. Continues'
  <2>1. ASSUME NEW i \in 1..Len(fifo'), NEW j \in 1..Len(fifo'), i <= j
        PROVE  shown' <= fifo'[i] /\ fifo'[i] <= fifo'[j]
    <3>1. i + 1 \in 1..Len(fifo) /\ j + 1 \in 1..Len(fifo) /\ 1 \in 1..Len(fifo)
      BY <1>1
    <3> QED
      BY <3>1, <2>1, <1>1 DEF Continues
  <2> QED
    BY <2>1, <1>2 DEF Continues
<1> QED
  BY <1>1, <1>2, <1>3, <1>4 DEF Continues, TypeOK

-----------------------------------------------------------------------------

LEMMA Initially == Init => Inv
<1> SUFFICES ASSUME Init PROVE Inv
  OBVIOUS
<1>1. fifo = <<>> /\ Len(fifo) = 0 /\ fifo \in Seq(Nat)
  BY DEF Init
<1>2. TypeOK
  BY <1>1 DEF Init, TypeOK, NotListed, Points
<1>3. Received <= stored
  BY DEF Init, Received, NotListed
<1>4. Continues
  BY <1>1, <1>3 DEF Continues
<1> QED
  BY <1>2, <1>4 DEF Init, Inv

LEMMA Inductive == Inv /\ [Next]_vars => Inv'
<1> SUFFICES ASSUME Inv, [Next]_vars PROVE Inv'
  OBVIOUS
<1> USE DEF Inv
<1>0. Received \in Nat \cup {NotListed} /\ stored \in Nat
  BY DEF TypeOK, Received
<1>1. CASE Start
  BY <1>1 DEF Start, TypeOK, Points, Continues, Received
<1>2. CASE List
  BY <1>2 DEF List, Call, TypeOK, Points, Continues, Received
<1>3. CASE ListAnswered
  <2>1. PICK v \in Listable : fifo' = Append(fifo, v)
    BY <1>3 DEF ListAnswered
  <2>2. v \in Nat /\ v <= stored /\ Received <= v
    BY <2>1, <1>0 DEF Listable, NotListed
  <2>3. shown' = shown /\ stored' = stored
    BY <1>3 DEF ListAnswered
  <2>4. fifo' \in Seq(Nat) /\ Continues' /\ Received' # NotListed
    BY <2>1, <2>2, <2>3, AppendContinues
  <2> QED
    BY <1>3, <2>4 DEF ListAnswered, TypeOK, Points
<1>4. CASE ListFailed
  BY <1>4 DEF ListFailed, CanFail, TypeOK, Points, Continues, Received
<1>5. CASE Watch
  BY <1>5 DEF Watch, Call, TypeOK, Points, Continues, Received
<1>6. CASE WatchOpened
  BY <1>6 DEF WatchOpened, TypeOK, Points, Continues, Received
<1>7. CASE WatchFailed
  <2>1. failures' \in Nat /\ UNCHANGED <<stored, fifo, shown, watchReady, cancelled>>
    BY <1>7 DEF WatchFailed, CanFail, TypeOK
  <2>2. reflector = "opening" /\ reflector' \in {"watch", "list"}
    BY <1>7 DEF WatchFailed
  <2> QED
    BY <2>1, <2>2 DEF TypeOK, Points, Continues, Received
<1>8. CASE WatchEvent
  <2>1. Received \in Nat /\ Received + 1 \in Nat /\ Received + 1 <= stored /\ Received <= Received + 1
    BY <1>8, <1>0 DEF WatchEvent
  <2>2. fifo' \in Seq(Nat) /\ Continues' /\ Received' # NotListed
    BY <1>8, <2>1, AppendContinues DEF WatchEvent
  <2> QED
    BY <1>8, <2>2 DEF WatchEvent, TypeOK, Points
<1>9. CASE WatchEnded
  <2>1. failures' \in Nat /\ UNCHANGED <<stored, fifo, shown, cancelled>>
    BY <1>9 DEF WatchEnded, CanFail, TypeOK
  <2>2. reflector = "streaming" /\ reflector' \in {"watch", "list"} /\ watchReady' = FALSE
    BY <1>9 DEF WatchEnded
  <2> QED
    BY <2>1, <2>2 DEF TypeOK, Points, Continues, Received
<1>10. CASE Pop
  <2>1. /\ fifo' \in Seq(Nat) /\ shown' \in Nat
        /\ Continues' /\ Received' = Received
    BY <1>10, PopContinues DEF Pop
  <2> QED
    BY <1>10, <2>1 DEF Pop, TypeOK, Points
<1>11. CASE Cancel
  BY <1>11 DEF Cancel, TypeOK, Points, Continues, Received
<1>12. CASE Exit
  BY <1>12 DEF Exit, TypeOK, Points, Continues, Received
<1>13. CASE RunReturned
  BY <1>13 DEF RunReturned, TypeOK, Points, Continues, Received
<1>14. CASE Store
  <2>1. Received' = Received /\ Received <= stored' /\ stored' \in Nat
    BY <1>14, <1>0 DEF Store, Received, Continues, NotListed
  <2> QED
    BY <1>14, <2>1 DEF Store, TypeOK, Continues
<1>15. CASE UNCHANGED vars
  BY <1>15 DEF vars, TypeOK, Points, Continues, Received
<1> QED
  BY <1>1, <1>2, <1>3, <1>4, <1>5, <1>6, <1>7, <1>8, <1>9, <1>10, <1>11, <1>12, <1>13,
     <1>14, <1>15 DEF Next, Reflector

\* The invariant of the informer.
THEOREM InformerInvariance == Spec => []Inv
  BY Initially, Inductive, PTL DEF Spec

\* Whenever Ready() says so, a watch feeds the cache (leaseWatch.Stop, and the
\* flag withdrawn before every LIST and WATCH).
THEOREM ReadyIsWatched == Spec => []ReadyMeansStreaming
<1>1. Inv => ReadyMeansStreaming
  BY DEF Inv, ReadyMeansStreaming, Ready
<1> QED
  BY <1>1, InformerInvariance, PTL

\* Whatever is relisted, lost or late, the cache shows stored versions in order:
\* the informer is the cache that the coordinator relies on.
THEOREM InformerIsLeaseCache == Spec => ImplementsLeaseCache
<1>1. Init => Cache!Init
  BY DEF Init, Cache!Init, Ready, NotListed
<1>2. Inv /\ Inv' /\ [Next]_vars => [Cache!Next]_(Cache!vars)
  <2> SUFFICES ASSUME Inv, Inv', [Next]_vars PROVE [Cache!Next]_(Cache!vars)
    OBVIOUS
  <2> DEFINE view == IF shown = NotListed THEN 0 ELSE shown
  <2>1. Ready \in BOOLEAN /\ Ready' \in BOOLEAN
    BY DEF Inv, TypeOK, Ready, HasSynced
  <2>2. view \in Nat /\ view <= stored /\ view' \in Nat /\ view' <= stored'
    <3>1. ASSUME TypeOK, Continues PROVE view \in Nat /\ view <= stored
      <4>1. CASE fifo = <<>>
        BY <3>1, <4>1 DEF TypeOK, Continues, Received, NotListed
      <4>2. CASE fifo # <<>>
        <5>1. Len(fifo) \in 1..Len(fifo) /\ fifo[Len(fifo)] \in Nat
          BY <3>1, <4>2 DEF TypeOK
        <5> QED
          BY <3>1, <4>2, <5>1 DEF TypeOK, Continues, Received, NotListed
      <4> QED
        BY <4>1, <4>2
    <3>2. ASSUME TypeOK', Continues' PROVE view' \in Nat /\ view' <= stored'
      <4>1. CASE fifo' = <<>>
        BY <3>2, <4>1 DEF TypeOK, Continues, Received, NotListed
      <4>2. CASE fifo' # <<>>
        <5>1. Len(fifo') \in 1..Len(fifo') /\ fifo'[Len(fifo')] \in Nat
          BY <3>2, <4>2 DEF TypeOK
        <5> QED
          BY <3>2, <4>2, <5>1 DEF TypeOK, Continues, Received, NotListed
      <4> QED
        BY <4>1, <4>2
    <3> QED
      BY <3>1, <3>2 DEF Inv
  <2>3. CASE Pop
    <3>1. shown <= shown' /\ stored' = stored
      BY <2>3, PopContinues DEF Pop, Inv
    <3>2. view <= view'
      BY <3>1, <2>2 DEF Inv, TypeOK, NotListed
    <3>3. view' \in view..stored
      BY <3>1, <3>2, <2>2 DEF Inv, TypeOK
    <3> QED
      BY <3>1, <3>3, <2>1 DEF Cache!Next, Cache!Move
  <2>4. CASE Store
    BY <2>4 DEF Store, Cache!Next, Cache!Store, Ready, HasSynced
  <2>5. CASE stored' = stored /\ shown' = shown
    <3>1. view' = view /\ view \in view..stored
      BY <2>5, <2>2 DEF Inv, TypeOK
    <3> QED
      BY <3>1, <2>5, <2>1 DEF Cache!Next, Cache!Move
  <2>6. Pop \/ Store \/ (stored' = stored /\ shown' = shown)
    BY DEF Next, Reflector, vars, Start, List, Watch, Call, ListAnswered, ListFailed, WatchOpened,
           WatchFailed, WatchEvent, WatchEnded, Cancel, Exit, RunReturned
  <2> QED
    BY <2>3, <2>4, <2>5, <2>6
<1> QED
  BY <1>1, <1>2, InformerInvariance, PTL DEF Spec, Cache!Spec, ImplementsLeaseCache

(***************************************************************************)
(* Theorems about Server, for any bounds and any grace.  The Lease         *)
(* informer keeps its own invariant inside the process, because every step *)
(* of the process is one of its steps or leaves it alone; the invariant of *)
(* the Pod cache and of the shutdown is added to it.                       *)
(***************************************************************************)
USE GraceAssumption DEF GraceAssumption

\* Every step of the process is a step of the Lease informer or stutters for it.
LEMMA StepOfInformer == [ServerNext]_allVars => [Next]_vars
BY DEF ServerNext, Beside, Run, LoggingChecked, PodsChecked, Opened, Failed,
       PodsMove, HandlerStart, Arrive, RequireReady, AnswerPods, Shutdown,
       DrainTick, Drained, ExitProcess, allVars, vars

\* What the Lease informer does alone is what it does in the process.
THEOREM ServerRunsInformer == ServerSpec => Spec
<1>1. ServerInit => Init
  BY DEF ServerInit
<1> QED
  BY <1>1, StepOfInformer, PTL DEF ServerSpec, Spec

LEMMA ServerInitially == ServerInit => ServerInv
<1> SUFFICES ASSUME ServerInit PROVE ServerInv
  OBVIOUS
<1>1. Inv
  BY Initially DEF ServerInit
<1>2. ServerTypeOK
  <2>1. TypeOK /\ podsReady \in BOOLEAN
    BY <1>1 DEF ServerInit, Inv
  <2>2. drained \in 0..Grace
    BY DEF ServerInit
  <2> QED
    BY <2>1, <2>2 DEF ServerInit, ServerTypeOK, ServerPoints, HandlerPoints, RequestPoints
<1>3. PodCacheInv
  BY DEF ServerInit, Init, PodCacheInv, NotListed
<1>4. DrainInv
  BY DEF ServerInit, DrainInv
<1> QED
  BY <1>1, <1>2, <1>3, <1>4 DEF ServerInv

\* The API server's counter only grows.
LEMMA StoredGrows == Inv /\ [Next]_vars => stored' \in Nat /\ stored <= stored'
<1> SUFFICES ASSUME Inv, [Next]_vars PROVE stored' \in Nat /\ stored <= stored'
  OBVIOUS
<1> stored \in Nat
  BY DEF Inv, TypeOK
<1> QED
  BY DEF Next, Start, Reflector, List, Watch, Call, ListAnswered, ListFailed,
         WatchOpened, WatchFailed, WatchEvent, WatchEnded, Pop, Cancel, Store,
         Exit, RunReturned, vars

LEMMA ServerInductive == ServerInv /\ [ServerNext]_allVars => ServerInv'
<1> SUFFICES ASSUME ServerInv, [ServerNext]_allVars PROVE ServerInv'
  OBVIOUS
<1>i. Inv'
  BY StepOfInformer, Inductive DEF ServerInv
<1>s. stored \in Nat /\ stored' \in Nat /\ stored <= stored'
  BY StepOfInformer, StoredGrows DEF ServerInv, Inv, TypeOK
<1>t. TypeOK'
  BY <1>i DEF Inv
<1> SUFFICES ServerTypeOK' /\ PodCacheInv' /\ DrainInv'
  BY <1>i DEF ServerInv
<1> USE DEF ServerInv, ServerTypeOK, PodCacheInv, DrainInv,
            ServerPoints, HandlerPoints, RequestPoints, Nothing, NotListed
<1>1. CASE Beside(Next) \/ UNCHANGED allVars
  <2> UNCHANGED serverVars
    BY <1>1 DEF Beside, allVars
  <2>1. ServerTypeOK'
    BY <1>t DEF serverVars
  <2>2. PodCacheInv'
    BY <1>s DEF serverVars
  <2>3. DrainInv'
    BY DEF serverVars
  <2> QED
    BY <2>1, <2>2, <2>3
<1>2. CASE LoggingChecked \/ PodsChecked \/ Opened \/ Failed
  BY <1>2, <1>t DEF LoggingChecked, PodsChecked, Opened, Failed, vars
<1>3. CASE PodsMove
  <2>1. podsShown' \in Nat /\ podsShown <= podsShown' /\ podsShown' <= stored'
    BY <1>3, <1>s DEF PodsMove, vars
  <2> QED
    BY <2>1, <1>3, <1>t DEF PodsMove, vars
<1>4. CASE HandlerStart
  <2>1. CASE podsShown # NotListed /\ podsReady' = TRUE
    BY <2>1, <1>4, <1>t DEF HandlerStart, vars
  <2>2. CASE UNCHANGED podsReady
    BY <2>2, <1>4, <1>t DEF HandlerStart, vars
  <2> QED
    BY <1>4, <2>1, <2>2 DEF HandlerStart
<1>5. CASE Arrive
  BY <1>5, <1>t DEF Arrive, vars
<1>6. CASE RequireReady
  BY <1>6, <1>t DEF RequireReady, vars
<1>7. CASE AnswerPods
  BY <1>7, <1>t DEF AnswerPods, vars
<1>8. CASE Shutdown
  BY <1>8, <1>t DEF Shutdown, vars
<1>9. CASE DrainTick
  BY <1>9, <1>t DEF DrainTick, vars
<1>10. CASE Drained
  BY <1>10, <1>t DEF Drained, vars
<1>11. CASE ExitProcess
  BY <1>11, <1>t DEF ExitProcess, vars
<1> QED
  BY <1>1, <1>2, <1>3, <1>4, <1>5, <1>6, <1>7, <1>8, <1>9, <1>10, <1>11
  DEF ServerNext, Run

\* The process, whatever the bounds and the grace, keeps its inductive invariant.
THEOREM ServerInvariance == ServerSpec => []ServerInv
BY ServerInitially, ServerInductive, PTL DEF ServerSpec

\* In the process too, a Lease cache that says it is ready is fed by a watch.
THEOREM ServedLeaseIsWatched == ServerSpec => []ReadyMeansStreaming
BY ServerRunsInformer, ReadyIsWatched, PTL

\* Pods are answered only from a synced cache, and never older than before
\* (Handler.Start, requireReady and the lister, at any moment of a shutdown).
THEOREM PodAnswers == ServerSpec => PodAnswersMoveForward
<1>1. ServerInv /\ [ServerNext]_allVars
      => [told' # told => told' # NotListed /\ told <= told']_told
  <2> SUFFICES ASSUME ServerInv, [ServerNext]_allVars, told' # told
               PROVE  told' # NotListed /\ told <= told'
    OBVIOUS
  <2>1. AnswerPods
    BY DEF ServerNext, Beside, Run, LoggingChecked, PodsChecked, Opened, Failed,
           PodsMove, HandlerStart, Arrive, RequireReady, Shutdown,
           DrainTick, Drained, ExitProcess, allVars, serverVars
  <2> QED
    BY <2>1 DEF AnswerPods, ServerInv, ServerTypeOK, PodCacheInv, Nothing, NotListed
<1> QED
  BY <1>1, ServerInvariance, PTL DEF ServerSpec, PodAnswersMoveForward

\* Requests in flight at the shutdown are cut off only after the whole grace.
THEOREM GraceIsGiven == ServerSpec => RequestsGetTheGrace
<1>1. ServerInv /\ [ServerNext]_allVars
      => [server' = "exited" /\ server # "exited" /\ request # "none"
          => drained = Grace \/ server = "failed"]_server
  <2> SUFFICES ASSUME ServerInv, [ServerNext]_allVars,
                      server' = "exited", server # "exited", request # "none"
               PROVE  drained = Grace \/ server = "failed"
    OBVIOUS
  <2>1. ExitProcess
    BY DEF ServerNext, Beside, Run, LoggingChecked, PodsChecked, Opened, Failed,
           PodsMove, HandlerStart, Arrive, RequireReady, AnswerPods, Shutdown,
           DrainTick, Drained, allVars, serverVars
  <2> QED
    BY <2>1 DEF ExitProcess, ServerInv, DrainInv
<1> QED
  BY <1>1, ServerInvariance, PTL DEF ServerSpec, RequestsGetTheGrace
=============================================================================
