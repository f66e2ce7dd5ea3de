------------------------------- MODULE Server -------------------------------
(***************************************************************************)
(* The life of the operator process: apis.Run of src/apis/server.go and    *)
(* main of src/cmd/main.go, from the start of the election coordinator to  *)
(* the exit of the process, with the Pod API of src/apis/cluster and one   *)
(* of its requests.  The Lease informer runs beside it (LeaseInformer) and *)
(* shares with it the API server, whose counter `stored' is the resource   *)
(* version of the Pods too, and the context that a signal cancels.         *)
(***************************************************************************)
EXTENDS LeaseInformer

CONSTANTS
  Grace      \* the time that Shutdown waits for requests in flight

ASSUME GraceAssumption == Grace \in Nat

VARIABLES
  server,     \* where Run and main are
  handler,    \* where the goroutine of Handler.Start is
  podsShown,  \* the version of the Pods that the lister reads
  podsReady,  \* Handler.ready
  request,    \* where a request for Pods is
  told,       \* the version that the last request was answered from
  drained     \* time since Shutdown was called

serverVars == <<server, handler, podsShown, podsReady, request, told, drained>>
allVars == <<vars, serverVars>>

Nothing == -2

\* logging, pods: the answer to the permission check is awaited.  opening: Run
\* waits in its select, the socket is not yet open.  returned, failed: Run is
\* over, after Shutdown or because the server failed; main is about to exit.
ServerPoints == {"logging", "pods", "opening", "serving", "draining",
                 "returned", "failed", "exited"}

\* off: the Pod API is disabled, or not yet checked.
HandlerPoints == {"off", "waiting", "done"}

\* arrived: the connection is accepted.  passed: requireReady let it through.
RequestPoints == {"none", "arrived", "passed"}

ServerTypeOK ==
  /\ TypeOK
  /\ server \in ServerPoints
  /\ handler \in HandlerPoints
  /\ podsShown \in Nat \cup {NotListed}
  /\ podsReady \in BOOLEAN
  /\ request \in RequestPoints
  /\ told \in Nat \cup {NotListed, Nothing}
  /\ drained \in 0..Grace

Running == server # "exited"

-----------------------------------------------------------------------------
(* Startup *)

\* CheckClusterLoggingConfigRBAC was answered: the logging API is registered or
\* disabled (its watcher is LoggingConfig), and the Pod check is made.
LoggingChecked ==
  /\ server = "logging"
  /\ server' = "pods"
  /\ UNCHANGED <<vars, handler, podsShown, podsReady, request, told, drained>>

\* CheckPodRBAC: any error disables the Pod API for the life of the process.
PodsChecked ==
  /\ server = "pods"
  /\ server' = "opening"
  /\ handler' \in {"off", "waiting"}
  /\ UNCHANGED <<vars, podsShown, podsReady, request, told, drained>>

\* Mutant of Opened: the Pod cache is awaited in Run and not in a goroutine.
OpenedAfterSync ==
  /\ server = "opening"
  /\ handler # "waiting"
  /\ server' = "serving"
  /\ UNCHANGED <<vars, handler, podsShown, podsReady, request, told, drained>>

Opened ==
  /\ server = "opening"
  /\ server' = "serving"
  /\ UNCHANGED <<vars, handler, podsShown, podsReady, request, told, drained>>

\* ListenAndServeTLS fails: no certificate, no port, or an Accept that fails.
Failed ==
  /\ server \in {"opening", "serving"}
  /\ server' = "failed"
  /\ UNCHANGED <<vars, handler, podsShown, podsReady, request, told, drained>>

-----------------------------------------------------------------------------
(* The Pod cache *)

\* What client-go's Pod informer may do to the indexer: the first LIST, an event,
\* a relist from the last version on.  A broken watch just delays it; after the
\* context is done it goes on until its goroutines have noticed.
PodsMove ==
  /\ Running
  /\ handler # "off"
  /\ podsShown' \in (IF podsShown = NotListed THEN 0 ELSE podsShown)..stored
  /\ UNCHANGED <<vars, server, handler, podsReady, request, told, drained>>

\* Mutant of HandlerStart: what WaitForCacheSync returns is not looked at.
HandlerStartUnsynced ==
  /\ Running
  /\ handler = "waiting"
  /\ podsShown # NotListed \/ cancelled
  /\ podsReady' = TRUE
  /\ handler' = "done"
  /\ UNCHANGED <<vars, server, podsShown, request, told, drained>>

\* Handler.Start after WaitForCacheSync: ready once, for good, if it synced.
HandlerStart ==
  /\ Running
  /\ handler = "waiting"
  /\ \/ podsShown # NotListed /\ podsReady' = TRUE
     \/ cancelled /\ UNCHANGED podsReady
  /\ handler' = "done"
  /\ UNCHANGED <<vars, server, podsShown, request, told, drained>>

-----------------------------------------------------------------------------
(* A request for Pods *)

Arrive ==
  /\ server = "serving"
  /\ request = "none"
  /\ request' = "arrived"
  /\ UNCHANGED <<vars, server, handler, podsShown, podsReady, told, drained>>

\* requireReady; 503 if not, and 404 if the route was not registered.
RequireReady ==
  /\ Running
  /\ request = "arrived"
  /\ request' = IF podsReady THEN "passed" ELSE "none"
  /\ UNCHANGED <<vars, server, handler, podsShown, podsReady, told, drained>>

\* ListAllPods, ListPods, GetPod: the lister is read, and the answer written.
AnswerPods ==
  /\ Running
  /\ request = "passed"
  /\ request' = "none"
  /\ told' = podsShown
  /\ UNCHANGED <<vars, server, handler, podsShown, podsReady, drained>>

-----------------------------------------------------------------------------
(* Shutdown *)

\* Run is told in its select, and only there.
Shutdown ==
  /\ server \in {"opening", "serving"}
  /\ cancelled
  /\ server' = "draining"
  /\ UNCHANGED <<vars, handler, podsShown, podsReady, request, told, drained>>

DrainTick ==
  /\ server = "draining"
  /\ request # "none"
  /\ drained < Grace
  /\ drained' = drained + 1
  /\ UNCHANGED <<vars, server, handler, podsShown, podsReady, request, told>>

\* Mutant of Drained: the deadline is derived from the context that is done.
DrainedAtOnce ==
  /\ server = "draining"
  /\ request = "none" \/ drained = Grace \/ cancelled
  /\ server' = "returned"
  /\ UNCHANGED <<vars, handler, podsShown, podsReady, request, told, drained>>

\* Mutant of Drained: Shutdown is given a context without a deadline.
DrainedOnly ==
  /\ server = "draining"
  /\ request = "none"
  /\ server' = "returned"
  /\ UNCHANGED <<vars, handler, podsShown, podsReady, request, told, drained>>

\* Shutdown returns: no request is left, or the deadline has passed.
Drained ==
  /\ server = "draining"
  /\ request = "none" \/ drained = Grace
  /\ server' = "returned"
  /\ UNCHANGED <<vars, handler, podsShown, podsReady, request, told, drained>>

\* main returns a moment after Run; the goroutines end wherever they are.
ExitProcess ==
  /\ server \in {"returned", "failed"}
  /\ server' = "exited"
  /\ UNCHANGED <<vars, handler, podsShown, podsReady, request, told, drained>>

-----------------------------------------------------------------------------

\* Run has started the election coordinator.
ServerInit ==
  /\ Init
  /\ server = "logging"
  /\ handler = "off"
  /\ podsShown = NotListed
  /\ podsReady = FALSE
  /\ request = "none"
  /\ told = Nothing
  /\ drained = 0

\* A step of a goroutine of the Lease informer, or of what it talks to.
Beside(A) == Running /\ A /\ UNCHANGED serverVars

Run == \/ LoggingChecked \/ PodsChecked \/ Opened
       \/ Shutdown \/ Drained \/ ExitProcess

ServerNext ==
  \/ Beside(Next)
  \/ Run \/ Failed \/ DrainTick
  \/ PodsMove \/ HandlerStart
  \/ Arrive \/ RequireReady \/ AnswerPods

ServerSpec == ServerInit /\ [][ServerNext]_allVars

\* The goroutines run, time passes, and the API server answers the checks and the
\* Lease informer.  Nothing is assumed of the Pod informer, of Handler.Start or of
\* the requests.
ServerFairness ==
  /\ WF_allVars(Beside(Start))
  /\ WF_allVars(Beside(Reflector))
  /\ WF_allVars(Beside(WatchEvent))
  /\ WF_allVars(Beside(Pop))
  /\ WF_allVars(Run)
  /\ WF_allVars(DrainTick)

FairServerSpec == ServerSpec /\ ServerFairness

-----------------------------------------------------------------------------
(* Safety *)

\* The Pod API answers only from a cache that has synced, even when the context
\* ends before the first LIST and requests are still served, and no answer is
\* older than one given before (Handler.Start, requireReady).
PodAnswersMoveForward ==
  [][told' # told => told' # NotListed /\ told <= told']_told

\* A request in flight when the operator is told to stop is cut off only when the
\* whole grace of Shutdown has passed (or when the server itself had failed).
RequestsGetTheGrace ==
  [][server' = "exited" /\ server # "exited" /\ request # "none"
     => drained = Grace \/ server = "failed"]_server

(* Liveness *)

\* The webhook's port is opened, or the process ends, whatever the Pod and logging
\* checks answer and even if the Pods are never listed: an optional API does not
\* keep the operator from serving.
ListensInAnyCase == <>(cancelled \/ server \in {"serving", "failed"})

\* Told to stop at any moment, of startup too, the process exits, even if a request
\* never ends, the Pod cache never syncs or the Lease informer is in a call.
ExitsWhenTold == cancelled ~> server = "exited"

\* When calls fail and watches end only finitely often, the Lease cache of a
\* process that goes on becomes ready for good and shows the newest version.
LeaseCacheBecomesReady ==
  NamespaceKnown =>
    \/ <>(cancelled \/ server = "failed")
    \/ <>[](Ready /\ shown = stored)

-----------------------------------------------------------------------------
(* The inductive invariant *)

PodCacheInv ==
  /\ podsShown <= stored
  /\ podsReady => podsShown # NotListed
  /\ request = "passed" => podsReady
  /\ told # Nothing => told # NotListed /\ told <= podsShown

\* Requests and shutdown: what is left in flight when Shutdown has returned.
DrainInv ==
  /\ server \in {"logging", "pods", "opening"} => request = "none"
  /\ server = "returned" => request = "none" \/ drained = Grace

ServerInv ==
  /\ ServerTypeOK
  /\ Inv
  /\ PodCacheInv
  /\ DrainInv
=============================================================================
