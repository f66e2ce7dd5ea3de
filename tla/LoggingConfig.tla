--------------------------- MODULE LoggingConfig ---------------------------
(***************************************************************************)
(* The logging configurations of src/apis/logging: how a change of a       *)
(* ClusterLoggingConfig travels from the API server through the informer   *)
(* store, the delaying work queue and the worker into the ordered list     *)
(* that HTTP lookups search, and how the watcher starts and stops.         *)
(*                                                                         *)
(* Event handlers put only the NAME of what changed in the queue, and one  *)
(* second later; the worker reads the store when the name's turn comes.    *)
(***************************************************************************)
EXTENDS Integers, Sequences, FiniteSets

CONSTANTS
  Names,       \* names of ClusterLoggingConfigs
  Specs,       \* their specs, see Pattern
  Gone,        \* the spec of one that is deleted
  Pods,        \* what lookups ask about: [namespace, name, labels]
  NoLabels,    \* the labels of a lookup that gives none
  MaxChanges   \* bound: changes of the API server's objects

ASSUME ConfigAssumption ==
  /\ Names # {} /\ IsFiniteSet(Names)
  /\ Gone \notin Specs
  /\ MaxChanges \in Nat

VARIABLES
  changes,     \* what the API server has stored, in order: [name, spec]
  received,    \* how many of them the informer's store reflects
  notices,     \* names the event handlers have still to be called for
  waiting,     \* names in the delaying queue, their second not over
  queue,       \* names to process, in order
  dirty,       \* the work queue's set of names that need processing
  worker,      \* [at, name, found]: the goroutine of processQueue
  configs,     \* globalCache.configs: a sequence of [name, version]
  watcher,     \* where start() is
  cancelled    \* the context of start() is done

vars == <<changes, received, notices, waiting, queue, dirty, worker, configs, watcher, cancelled>>

-----------------------------------------------------------------------------
(* Data.  A version is a position in `changes`; 0 is "never existed". *)

Change == [name: Names, spec: Specs \cup {Gone}]

\* start(): not begun, waiting for the first LIST, running, returned before the
\* informer was set up, returned without having synced, stopped in order.
WatcherPoints == {"preflight", "syncing", "running", "refused", "unsynced", "stopped"}

\* processQueue: at the select, in queue.Get, holding a name, holding what the
\* store has under it, returned.
WorkerPoints == {"select", "get", "read", "apply", "returned"}

Entry == [name: Names, version: Nat]

TypeOK ==
  /\ changes \in Seq(Change)
  /\ received \in 0..Len(changes)
  /\ notices \in Seq(Names)
  /\ waiting \subseteq Names
  /\ queue \in Seq(Names)
  /\ dirty \subseteq Names
  /\ worker \in [at: WorkerPoints, name: Names, found: Nat]
  /\ configs \in Seq(Entry)
  /\ watcher \in WatcherPoints
  /\ cancelled \in BOOLEAN

SomeName == CHOOSE n \in Names : TRUE

\* The last of the first v changes in a log that is about n, 0 if none is.
LastOf(log, n, v) ==
  LET of == {i \in 1..v : log[i].name = n}
  IN  IF of = {} THEN 0 ELSE CHOOSE i \in of : \A j \in of : j <= i

\* The version of n that a store which reflects the first v changes holds.
VersionAt(n, v) == LastOf(changes, n, v)

Exists(i) == i # 0 /\ changes[i].spec # Gone
InStore(n) == VersionAt(n, received)
Processing(n) == worker.at \in {"read", "apply"} /\ worker.name = n
ShutDown == watcher = "stopped"

-----------------------------------------------------------------------------
(* The API server and the informer *)

ApiChange(n, spec) ==
  /\ Len(changes) < MaxChanges
  /\ spec = Gone => Exists(VersionAt(n, Len(changes)))
  /\ changes' = Append(changes, [name |-> n, spec |-> spec])
  /\ UNCHANGED <<received, notices, waiting, queue, dirty, worker, configs, watcher, cancelled>>

\* Mutant of Announced: there is no handler for deletions.
AnnouncedWrites(v, w) ==
  {n \in Names : VersionAt(n, v) # VersionAt(n, w) /\ Exists(VersionAt(n, w))}

\* The names whose handlers are called when the store moves from v to w.
Announced(v, w) ==
  {n \in Names : /\ VersionAt(n, v) # VersionAt(n, w)
                 /\ Exists(VersionAt(n, v)) \/ Exists(VersionAt(n, w))}

\* One call for each of the names, in some order.
Calls(names) ==
  {s \in [1..Cardinality(names) -> names] : {s[i] : i \in DOMAIN s} = names}

\* The store moves on, by one watch event or by a LIST that skips versions; the
\* handlers are called afterwards.
Receive ==
  /\ watcher \in {"syncing", "running"}
  /\ \E v \in received + 1..Len(changes) :
       /\ received' = v
       /\ \E calls \in Calls(Announced(received, v)) : notices' = notices \o calls
  /\ UNCHANGED <<changes, waiting, queue, dirty, worker, configs, watcher, cancelled>>

-----------------------------------------------------------------------------
(* The work queue *)

\* enqueue: AddAfter(key, time.Second), which keeps one entry per key.
Enqueue ==
  /\ notices # <<>>
  /\ notices' = Tail(notices)
  /\ waiting' = IF ShutDown THEN waiting ELSE waiting \cup {Head(notices)}
  /\ UNCHANGED <<changes, received, queue, dirty, worker, configs, watcher, cancelled>>

\* A name is queued once, and not while it is processed.
Add(n) ==
  /\ dirty' = dirty \cup {n}
  /\ queue' = IF n \in dirty \/ Processing(n) THEN queue ELSE Append(queue, n)

\* The second is over.  Two names that are due may be added in any order.
Due(n) ==
  /\ n \in waiting
  /\ ~ShutDown
  /\ waiting' = waiting \ {n}
  /\ Add(n)
  /\ UNCHANGED <<changes, received, notices, worker, configs, watcher, cancelled>>

-----------------------------------------------------------------------------
(* The worker *)

\* The goroutine exists once the informer has been set up.
WorkerRuns == watcher \notin {"preflight", "refused"}

Select ==
  /\ WorkerRuns
  /\ worker.at = "select"
  /\ worker' = [worker EXCEPT !.at = IF cancelled THEN "returned" ELSE "get"]
  /\ UNCHANGED <<changes, received, notices, waiting, queue, dirty, configs, watcher, cancelled>>

Take ==
  /\ worker.at = "get"
  /\ queue # <<>>
  /\ worker' = [worker EXCEPT !.at = "read", !.name = Head(queue)]
  /\ queue' = Tail(queue)
  /\ dirty' = dirty \ {Head(queue)}
  /\ UNCHANGED <<changes, received, notices, waiting, configs, watcher, cancelled>>

Quit ==
  /\ worker.at = "get"
  /\ queue = <<>>
  /\ ShutDown
  /\ worker' = [worker EXCEPT !.at = "returned"]
  /\ UNCHANGED <<changes, received, notices, waiting, queue, dirty, configs, watcher, cancelled>>

\* store.GetByKey
Read ==
  /\ worker.at = "read"
  /\ worker' = [worker EXCEPT !.at = "apply", !.found = InStore(worker.name)]
  /\ UNCHANGED <<changes, received, notices, waiting, queue, dirty, configs, watcher, cancelled>>

Position(list, n) == {i \in 1..Len(list) : list[i].name = n}
First(positions) == CHOOSE i \in positions : \A j \in positions : i <= j

\* Mutant of Put: an update goes to the end of the list.
PutLast(list, n, version) ==
  Append(SelectSeq(list, LAMBDA e : e.name # n), [name |-> n, version |-> version])

\* Mutant of Put: an entry that is there already is not looked for.
PutAlways(list, n, version) == Append(list, [name |-> n, version |-> version])

\* addOrUpdateConfig: in place, or at the end.
Put(list, n, version) ==
  LET entry == [name |-> n, version |-> version]
  IN  IF Position(list, n) = {} THEN Append(list, entry)
      ELSE [list EXCEPT ![First(Position(list, n))] = entry]

\* removeConfig
Drop(list, n) ==
  IF Position(list, n) = {} THEN list
  ELSE LET i == First(Position(list, n))
       IN  SubSeq(list, 1, i - 1) \o SubSeq(list, i + 1, Len(list))

\* Mutant of Apply: what is not in the store any more stays in the list.
ApplyWrites ==
  /\ worker.at = "apply"
  /\ LET n == worker.name
     IN  /\ configs' = IF Exists(worker.found) THEN Put(configs, n, worker.found) ELSE configs
         /\ queue' = IF n \in dirty THEN Append(queue, n) ELSE queue
  /\ worker' = [worker EXCEPT !.at = "select", !.found = 0]
  /\ UNCHANGED <<changes, received, notices, waiting, dirty, watcher, cancelled>>

\* The list is changed under its lock, and queue.Done puts back a name that has
\* become due meanwhile.
Apply ==
  /\ worker.at = "apply"
  /\ LET n == worker.name
     IN  /\ configs' = IF Exists(worker.found) THEN Put(configs, n, worker.found)
                       ELSE Drop(configs, n)
         /\ queue' = IF n \in dirty THEN Append(queue, n) ELSE queue
  /\ worker' = [worker EXCEPT !.at = "select", !.found = 0]
  /\ UNCHANGED <<changes, received, notices, waiting, dirty, watcher, cancelled>>

-----------------------------------------------------------------------------
(* start() and the end of its context *)

\* The List of one object that must succeed before anything is set up.
Preflight ==
  /\ watcher = "preflight"
  /\ watcher' \in {"syncing", "refused"}
  /\ UNCHANGED <<changes, received, notices, waiting, queue, dirty, worker, configs, cancelled>>

Synced ==
  /\ watcher = "syncing"
  /\ ~cancelled
  /\ watcher' = "running"
  /\ UNCHANGED <<changes, received, notices, waiting, queue, dirty, worker, configs, cancelled>>

Cancel ==
  /\ ~cancelled
  /\ cancelled' = TRUE
  /\ UNCHANGED <<changes, received, notices, waiting, queue, dirty, worker, configs, watcher>>

\* Mutant of Stop: the queue is not shut down.
StopWithoutShutDown ==
  /\ cancelled
  /\ watcher \in {"syncing", "running"}
  /\ watcher' = "unsynced"
  /\ UNCHANGED <<changes, received, notices, waiting, queue, dirty, worker, configs, cancelled>>

\* start() shuts the queue down only if it had synced.
Stop ==
  /\ cancelled
  /\ \/ watcher = "running" /\ watcher' = "stopped"
     \/ watcher = "syncing" /\ watcher' = "unsynced"
  /\ UNCHANGED <<changes, received, notices, waiting, queue, dirty, worker, configs, cancelled>>

-----------------------------------------------------------------------------
(* Lookups: GET /v1/logging/configs *)

\* matchesSelector.  The selector of a spec has three sets; one that is empty in
\* the source, or does not compile, is NIL there and matches everything, and a
\* lookup that gives no labels is not held to a label selector.
Selects(spec, pod) ==
  /\ pod.namespace \in spec.namespaces
  /\ pod.name \in spec.pods
  /\ pod.labels = NoLabels \/ pod.labels \in spec.labels

\* findMatchingConfigs: the version of the first entry that matches, 0 if none does.
Found(pod) ==
  LET matching == {i \in 1..Len(configs) : Selects(changes[configs[i].version].spec, pod)}
  IN  IF matching = {} THEN 0 ELSE configs[First(matching)].version

-----------------------------------------------------------------------------

Init ==
  /\ changes = <<>>
  /\ received = 0
  /\ notices = <<>>
  /\ waiting = {}
  /\ queue = <<>>
  /\ dirty = {}
  /\ worker = [at |-> "select", name |-> SomeName, found |-> 0]
  /\ configs = <<>>
  /\ watcher = "preflight"
  /\ cancelled = FALSE

Worker == Select \/ Take \/ Quit \/ Read \/ Apply

Next ==
  \/ \E n \in Names, spec \in Specs \cup {Gone} : ApiChange(n, spec)
  \/ Receive \/ Enqueue
  \/ \E n \in Names : Due(n)
  \/ Worker
  \/ Preflight \/ Synced \/ Cancel \/ Stop

Spec == Init /\ [][Next]_vars

\* The informer, the queue and the worker run, and start() goes on.
Fairness ==
  /\ WF_vars(Receive) /\ WF_vars(Enqueue)
  /\ \A n \in Names : WF_vars(Due(n))
  /\ WF_vars(Worker)
  /\ WF_vars(Preflight) /\ WF_vars(Synced) /\ WF_vars(Stop)

FairSpec == Spec /\ Fairness

-----------------------------------------------------------------------------
(* Safety *)

\* What the list shows of n.
ShownIn(list, n) ==
  IF Position(list, n) = {} THEN 0 ELSE list[First(Position(list, n))].version
Shown(n) == ShownIn(configs, n)

\* The list agrees with the store on n.
Agrees(n) == IF Exists(InStore(n)) THEN Shown(n) = InStore(n) ELSE Shown(n) = 0

\* Something will still bring the worker to look at n.
Pending(n) ==
  \/ \E i \in 1..Len(notices) : notices[i] = n
  \/ n \in waiting \cup dirty
  \/ worker.at = "read" /\ worker.name = n
  \/ /\ worker.at = "apply" /\ worker.name = n
     /\ \/ worker.found = InStore(n)
        \/ ~Exists(worker.found) /\ ~Exists(InStore(n))

\* No change is lost between the informer's store and the list, whatever keys the
\* queue merges and whatever arrives while the worker is busy.
NothingLost == ~ShutDown => \A n \in Names : Agrees(n) \/ Pending(n)

\* The list has one entry per name, each of a version that has existed.
ListIsMap ==
  /\ \A i, j \in 1..Len(configs) : configs[i].name = configs[j].name => i = j
  /\ \A i \in 1..Len(configs) :
       /\ configs[i].version <= received
       /\ Exists(configs[i].version)
       /\ changes[configs[i].version].name = configs[i].name

(* Action properties *)

\* The first match answers a lookup, so that the order of the list decides between
\* overlapping selectors: an update never changes the order of two entries, and
\* never brings back an older version.
OrderKept ==
  [][\A i, j \in 1..Len(configs), k, l \in 1..Len(configs)' :
       /\ configs'[k].name = configs[i].name
       /\ configs'[l].name = configs[j].name
       => /\ i < j => k < l
          /\ configs'[k].version >= configs[i].version]_vars

(* Liveness *)

\* Once the resources stop changing, every lookup is answered from a resource that
\* the API server has and that selects it, if there is one, unless the watcher
\* was refused at its start (HandleConfigs).
Current == {v \in 1..Len(changes) :
              /\ v = VersionAt(changes[v].name, Len(changes))
              /\ Exists(v)}

AnsweredFromApi(pod) ==
  LET candidates == {v \in Current : Selects(changes[v].spec, pod)}
  IN  IF candidates = {} THEN Found(pod) = 0 ELSE Found(pod) \in candidates

Settles ==
  <>(cancelled \/ watcher = "refused") \/ <>[](\A pod \in Pods : AnsweredFromApi(pod))

\* After the context is done the worker returns, if the watcher had synced.
WorkerStops == (cancelled /\ watcher = "running") ~> worker.at = "returned"

-----------------------------------------------------------------------------
(* The inductive invariant *)

\* Every name that needs processing is in the queue, once, or held by the worker.
QueueMatchesDirty ==
  /\ \A n \in dirty : Processing(n) \/ \E i \in 1..Len(queue) : queue[i] = n
  /\ \A i \in 1..Len(queue) : queue[i] \in dirty /\ ~Processing(queue[i])
  /\ \A i, j \in 1..Len(queue) : queue[i] = queue[j] => i = j

\* What the worker is about to put in the list is a version of its name that the
\* store has had, and newer than what the list has.
WorkerInv ==
  (worker.at = "apply" /\ worker.found # 0) =>
    /\ worker.found <= received
    /\ changes[worker.found].name = worker.name
    /\ \A i \in 1..Len(configs) :
         configs[i].name = worker.name => configs[i].version <= worker.found

\* What it is about to do with its name is what the store asks for, or the name
\* will come up again.
HeldIsPending == (worker.at = "apply" /\ ~ShutDown) => Pending(worker.name)

Inv ==
  /\ TypeOK
  /\ QueueMatchesDirty
  /\ WorkerInv
  /\ HeldIsPending
  /\ ListIsMap
  /\ NothingLost
=============================================================================
