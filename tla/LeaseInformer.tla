--------------------------- MODULE LeaseInformer ---------------------------
(***************************************************************************)
(* The Lease informer of src/apis/election/kubernetes.go for one Lease:    *)
(* the reflector goroutine that calls ListFunc and WatchFunc, the queue it *)
(* fills, the indexer that requests read, and the two flags that Ready()   *)
(* reads.  The reflector and its queue are client-go's; the code decides   *)
(* what each call does to the flags.  Server runs it in the operator's     *)
(* process and states its liveness.                                        *)
(***************************************************************************)
EXTENDS Integers, Sequences

CONSTANTS
  NamespaceKnown,  \* the operator's namespace was resolved
  MaxVersions,     \* bound: versions of the Lease
  MaxFailures      \* bound: calls that fail and watches that end

ASSUME InformerAssumption ==
  /\ NamespaceKnown \in BOOLEAN
  /\ MaxVersions \in Nat
  /\ MaxFailures \in Nat

VARIABLES
  stored,      \* the newest version of the Lease at the API server
  reflector,   \* where the reflector goroutine is
  fifo,        \* versions received and not yet in the indexer
  shown,       \* the version the indexer shows, NotListed before the first LIST
  watchReady,  \* informerLeaseCache.watchReady
  cancelled,   \* the context of Start is done
  failures     \* failures so far

vars == <<stored, reflector, fifo, shown, watchReady, cancelled, failures>>

NotListed == -1

\* off: not started.  listing, opening: ListFunc or WatchFunc awaits its answer.
\* exited: the reflector has returned.  over: so has informer.Run.
Points == {"off", "list", "listing", "watch", "opening", "streaming", "exited", "over"}

TypeOK ==
  /\ stored \in Nat
  /\ reflector \in Points
  /\ fifo \in Seq(Nat)
  /\ shown \in Nat \cup {NotListed}
  /\ watchReady \in BOOLEAN
  /\ cancelled \in BOOLEAN
  /\ failures \in Nat

HasSynced == shown # NotListed

\* informerLeaseCache.Ready
Ready == HasSynced /\ watchReady

\* The newest version the reflector has received.
Received == IF fifo = <<>> THEN shown ELSE fifo[Len(fifo)]

-----------------------------------------------------------------------------
(* The API server *)

Store ==
  /\ stored < MaxVersions
  /\ stored' = stored + 1
  /\ UNCHANGED <<reflector, fifo, shown, watchReady, cancelled, failures>>

CanFail == failures < MaxFailures /\ failures' = failures + 1

-----------------------------------------------------------------------------
(* Start, and what the reflector calls *)

Start ==
  /\ NamespaceKnown
  /\ reflector = "off"
  /\ reflector' = "list"
  /\ UNCHANGED <<stored, fifo, shown, watchReady, cancelled, failures>>

\* ListFunc, WatchFunc: readiness is withdrawn before the call is made.
Call(from, to) ==
  /\ reflector = from
  /\ ~cancelled
  /\ reflector' = to
  /\ watchReady' = FALSE
  /\ UNCHANGED <<stored, fifo, shown, cancelled, failures>>

List  == Call("list", "listing")
Watch == Call("watch", "opening")

\* Mutant of Listable: ListFunc does not pass on the resourceVersion.
ListableFromAnyServer == 0..stored

\* The options carry the last resourceVersion received, so that a lagging API
\* server does not answer with an older list.
Listable == (IF Received = NotListed THEN 0 ELSE Received)..stored

ListAnswered ==
  /\ reflector = "listing"
  /\ \E v \in Listable : fifo' = Append(fifo, v)
  /\ reflector' = "watch"
  /\ UNCHANGED <<stored, shown, watchReady, cancelled, failures>>

ListFailed ==
  /\ reflector = "listing"
  /\ CanFail
  /\ reflector' = "list"
  /\ UNCHANGED <<stored, fifo, shown, watchReady, cancelled>>

\* Mutant of WatchOpened: readiness is not restored by a later watch.
WatchOpenedOnce ==
  /\ reflector = "opening"
  /\ reflector' = "streaming"
  /\ watchReady' = (failures = 0)
  /\ UNCHANGED <<stored, fifo, shown, cancelled, failures>>

WatchOpened ==
  /\ reflector = "opening"
  /\ reflector' = "streaming"
  /\ watchReady' = TRUE
  /\ UNCHANGED <<stored, fifo, shown, cancelled, failures>>

\* The reflector watches again, or lists again, as the error says.
WatchFailed ==
  /\ reflector = "opening"
  /\ \/ CanFail
     \/ cancelled /\ UNCHANGED failures
  /\ reflector' \in {"watch", "list"}
  /\ UNCHANGED <<stored, fifo, shown, watchReady, cancelled>>

WatchEvent ==
  /\ reflector = "streaming"
  /\ Received < stored
  /\ fifo' = Append(fifo, Received + 1)
  /\ UNCHANGED <<stored, reflector, shown, watchReady, cancelled, failures>>

\* Mutant of WatchEnded: the watch is stopped without withdrawing readiness.
WatchEndedQuietly ==
  /\ reflector = "streaming"
  /\ CanFail
  /\ reflector' \in {"watch", "list"}
  /\ UNCHANGED <<stored, fifo, shown, watchReady, cancelled>>

\* The stream ends or fails: leaseWatch.Stop.
WatchEnded ==
  /\ reflector = "streaming"
  /\ CanFail
  /\ reflector' \in {"watch", "list"}
  /\ watchReady' = FALSE
  /\ UNCHANGED <<stored, fifo, shown, cancelled>>

\* The controller moves the oldest version received into the indexer.
Pop ==
  /\ fifo # <<>>
  /\ reflector # "over"
  /\ shown' = Head(fifo)
  /\ fifo' = Tail(fifo)
  /\ UNCHANGED <<stored, reflector, watchReady, cancelled, failures>>

-----------------------------------------------------------------------------
(* Shutdown *)

Cancel ==
  /\ ~cancelled
  /\ cancelled' = TRUE
  /\ UNCHANGED <<stored, reflector, fifo, shown, watchReady, failures>>

\* The reflector notices the stop everywhere but inside WatchFunc; a watch that
\* was streaming is stopped.
Exit ==
  /\ cancelled
  /\ reflector \in {"list", "listing", "watch", "streaming"}
  /\ reflector' = "exited"
  /\ watchReady' = (watchReady /\ reflector # "streaming")
  /\ UNCHANGED <<stored, fifo, shown, cancelled, failures>>

\* The deferred Store(false) after informer.Run.
RunReturned ==
  /\ reflector = "exited"
  /\ reflector' = "over"
  /\ watchReady' = FALSE
  /\ UNCHANGED <<stored, fifo, shown, cancelled, failures>>

-----------------------------------------------------------------------------

Init ==
  /\ stored = 0
  /\ reflector = "off"
  /\ fifo = <<>>
  /\ shown = NotListed
  /\ watchReady = FALSE
  /\ cancelled = FALSE
  /\ failures = 0

Reflector ==
  \/ List \/ ListAnswered \/ ListFailed
  \/ Watch \/ WatchOpened \/ WatchFailed
  \/ Exit \/ RunReturned

Next ==
  \/ Start \/ Reflector \/ WatchEvent \/ WatchEnded \/ Pop
  \/ Cancel \/ Store

Spec == Init /\ [][Next]_vars

-----------------------------------------------------------------------------
(* Safety *)

\* Whenever the cache says it is ready, a watch that the reflector has not given
\* up feeds it: not while it waits to list or watch again, nor after shutdown
\* (leaseWatch, and both calls withdrawing readiness).
ReadyMeansStreaming == Ready => reflector = "streaming"

(* Refinement *)

Cache == INSTANCE LeaseCache WITH
           shown <- IF shown = NotListed THEN 0 ELSE shown,
           ready <- Ready

\* Through relists and broken watches the cache only moves forward, which is all
\* that the coordinator (Election's Informer) relies on.
ImplementsLeaseCache == Cache!Spec

-----------------------------------------------------------------------------
(* The inductive invariant *)

\* What is queued continues what is shown, and nothing is newer than the server.
Continues ==
  /\ Received <= stored
  /\ \A i, j \in 1..Len(fifo) : i <= j => shown <= fifo[i] /\ fifo[i] <= fifo[j]

Inv ==
  /\ TypeOK
  /\ Continues
  /\ watchReady => reflector = "streaming"
  /\ reflector \in {"watch", "opening", "streaming"} => Received # NotListed
=============================================================================
