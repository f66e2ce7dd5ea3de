# Verification of datakit-operator

TLA+ models of the DataKit operator, the TLC runs that check them on small
instances, and TLAPS proofs about them for every instance. All paths below are
relative to the repository root. Every definition that stands for code is tied
to the lines it models in `PROJECT.json` (`map`).

## 1. The system

The operator is one HTTPS server (`apis/server.go`) with four independent
services behind it. Each keeps its state in memory only; what survives a crash
is what the Kubernetes API server stores.

| Component | Source | State | Operations | Interacts with |
|---|---|---|---|---|
| Election coordinator | `apis/election/coordinator.go`, `lease_observation.go` | per scope: the last version seen in the cache and at the API server, and when (under a mutex) | campaign, heartbeat | Lease cache, API server (GET, create, update), DataKits |
| Lease informer | `apis/election/kubernetes.go` | `watchReady`, `HasSynced`, the indexer | LIST, WATCH, watch stop, shutdown, `Ready` | API server; read by elections, scrapes and the status probe |
| Election HTTP surface | `apis/election/handler.go`, `metrics.go`, `namespace.go` | counters (under a mutex) | routes, status probe, `/metrics` | coordinator, cache |
| Logging configuration | `apis/logging/config/crd_watcher.go`, `cache.go`, `apis/logging/handle.go` | informer store, delaying work queue, ordered list of compiled configurations (RW mutex) | watch event, delayed add, worker step, HTTP lookup, shutdown | API server (ClusterLoggingConfig), DataKits |
| Pod API | `apis/cluster/handle.go`, `pod.go` | informer cache, `ready` (atomic) | sync, list, get | API server, DataKits |
| Injection webhook | `apis/webhook/handle.go`, `mutate.go`, `pod_patch.go`, `injector/*`, `mutator/logging.go`, `pkg/manager` | none between requests | review → shouldInject → tracing, logfwd, flameshot, profiler, logging → JSON patch | API server, configuration |
| Configuration | `config/*` | `Cfg`, written once at start | load, validate, rule matching, legacy conversion | webhook |
| Environment expressions | `pkg/envbuilder` | none | build, validate | webhook |
| Label selectors | `pkg/labels` | none | parse, match | configuration, logging configuration |
| Server | `apis/server.go`, `cmd/main.go` | registered routes, listener | start, gate routes on permissions, shut down | everything above |
| Generated clients | `pkg/kubernetes/**` | — | — | generated code, not modelled |

What is hard in it:

* **Election.** Requests of one process run concurrently, replicas (and the old
  and new process of a rolling update) run side by side, every cache lags, a
  write can fail for the caller and be applied later, a process restarts and
  forgets how old a Lease is. What must hold: an epoch has one holder, nobody
  takes over while the holder may still collect, a success is always backed by
  a write, every request ends.
* **Lease informer.** `Ready` is the conjunction of two flags written by three
  goroutines. It must not be true for a cache that no watch is feeding.
* **Logging configuration.** Events wait a second in a delaying queue that
  collapses duplicates, and the worker reads the store again when their time
  comes. What must hold: the served list has one entry per name, no older
  version replaces a newer one, no last event is lost, and in the end the list
  is what the API server stores.
* **Pod API and server.** Routes are gated on permissions found at start and on
  a cache that syncs in the background; shutdown races all of it.
* **Label selectors and rules.** The parser looks ahead and consumes without
  checking an index, and one selector of several may be invalid: its rule must go
  on with the others and must not apply everywhere when none is left. A legacy
  entry may replace the rules, by none.
* **Webhook.** A pod may be reviewed more than once; injections run in a fixed
  order and each must leave the others' work, and the user's, alone. The patch
  must produce the mutated pod from the original one.

## 2. Modules

| Module | What it is |
|---|---|
| `Election` | the coordinator, for one scope, one action per call of `elect` |
| `LeaseTerms` | what the election promises, with no coordinators in it |
| `MCElection` | symmetry sets for TLC |
| `ElectionProofs` | theorems about `Election`: safety, refinement, observations |
| `LeaseInformer` | the goroutines and flags that feed one coordinator's cache |
| `LeaseCache` | what a coordinator is promised about its cache |
| `Server` | startup, Pod API, shutdown and exit of the process, with the Lease informer beside them |
| `ServerProofs` | theorems about `LeaseInformer` and `Server` |
| `LoggingConfig`, `MCLoggingConfig` | watcher, queue, worker, list and lookups of the logging configurations |
| `LoggingConfigProofs` | theorems about `LoggingConfig` |
| `LabelSelectors`, `SelectorParser` | requirements and what they match; the parser of `pkg/labels` |
| `Rules`, `MCRules` | set-up of one feature's rules at start, and the rule a review finds; configurations for TLC |
| `RulesProofs` | theorems about the parser and about `Rules` |
| `Pods` | a pod, and the operations of `pkg/manager` and `pkg/envbuilder` on it |
| `Tracing`, `Sidecars` | the five injections as functions from pod to pod |
| `PodPatch` | the JSON patch, and its application by the API server |
| `Injection`, `MCInjection` | reviews of one pod, composed of the four above; pods and rules for TLC |
| `FoldTheory` | what a fold over a sequence comes to, for any operator |
| `PatchProofs` | the patch leads to the copy, for any two pods |
| `InjectionProofs` | theorems about `Injection`: changes, patch, tracers, and validity of the pod |
| `ReviewProofs` | theorems about `Injection`: logs, and what becomes of the user's variables |

`Election` composes with `LeaseInformer` through `LeaseCache`: the actions
`CatchUp`, `OpenWatch` and `BreakWatch` of `Election` are the steps of
`LeaseCache` seen from a coordinator, and `LeaseInformer` is shown to implement
`LeaseCache`. `Server` extends `LeaseInformer` and shares two variables with it:
the context that a signal cancels (`cancelled`), and the version counter of the API
server (`stored`), which the Pods have in common with the Leases. `Rules` extends
`SelectorParser`, whose steps are part of the set-up. The logging configuration
and the webhook share no state with the election or with each other.

Operators commented as mutants stand next to the definition that they alter. No
specification uses them; they state the bugs that the properties were tried on.

### 2.1 `Election`

A *scope* is a token and a DataKit namespace. Its Lease name is a hash of the
two, the observations are keyed by that name, and no code touches two scopes, so
one scope is modelled.

`history` is what the API server stored: `history[v]` is the Lease at
resourceVersion `v`, and a deletion is stored as `NoLease`. Everything that a
process holds is a version number into it (`cachePos[c]`, `obs[c][s].rv`,
`req[p].seen`). This is not an abstraction of what the code compares: it compares
uid and resourceVersion, and within one Lease a resourceVersion determines the
uid and the epoch stored beside it. The uid of a Lease is the version that
created it. `at`, the commit time of a version, is a ghost: the code persists
`RenewTime` and never uses it as an age, and no action reads `at`.

`Coordinator.elect` is cut where another goroutine or process can intervene:

| Action | Code |
|---|---|
| `Begin` | `Ready()`, the cache read |
| `ObserveCache` | `elapsed()`, then the observation under the lock, and the negative reply from the cache |
| `Get`, `GetFails` | the GET |
| `ObserveStore` | the observation, the refusals, the limit on attempts |
| `WriteApplied`, `WriteConflict`, `WriteFails` | create or update, by what the API server answers |
| `Succeed` | the observation of the written Lease, and the reply |
| `Scrape`, `ObserveScrape` | `renderMetrics` |
| `CatchUp`, `OpenWatch`, `BreakWatch` | the informer |
| `Crash` | the process is replaced; its unanswered writes may still arrive |

`elapsed` is sampled before the mutex is taken, so that each observation chooses
any sample between its read and now. Time is one variable: the clocks of the
processes are monotonic and run at one rate, and only differences are used. Wall
clocks are not modelled, as no decision reads one. External to the code are the
API server's compare-and-swap (`CASHolds`), the writes in the network
(`ApplyLate`, `DropLate`), the administrator (`Delete`), and the DataKit, which
is taken to collect for `LeaseDuration - Interval` from the moment it *sent* the
request that succeeded (`Deliver`, `safe`): that is the use that
`lease_clock_test.go:30-32` makes of the two numbers the reply carries.

Not modelled: metric counters, logs, and the parameter check of `handle`, none
of which decides anything; an error of the cache read other than NotFound, which
the indexer cannot return; an epoch past `int32`, which takes 2^31 takeovers.

### 2.2 Runs

Model values `a`, `b` are DataKits, `c1`, `c2` operators, `r1`, `r2` request
slots (`s1` a scrape slot). DataKits, slots and, where all are alike, operators
are symmetric. No run turns the deadlock check off.

| Run | Question | Instance |
|---|---|---|
| `restart` | is anything unsafe when an operator restarts with requests in flight and a write still in the network, and does all this implement the abstract lease? | one operator that crashes, duration 2, interval 1, 3 versions, 1 deletion, 1 late write |
| `replicas` | do two operators ever give an epoch to two holders, or take over early? | two operators, duration 1, 3 versions |
| `sequential` | can the cache restart the timer of the newest version? | one request at a time and a scrape, 3 units of time |
| `answers` | does every request end, and can a lagging cache refuse the holder? | fair handlers, one process, two requests |
| `stale_replica` | can a lagging cache refuse the holder, with two processes: **violated** | two operators |
| `delayed_get` | can a delayed GET revive an old term: **violated** | one deletion, 4 versions |

Bounds. `MaxCASAttempts` is 1 where the code has 5: with one conflict a request
already reads, writes, loses, reads again and either succeeds or reaches the
limit, and a longer loop repeats this. Three versions are a creation, and either
a renewal and a takeover or two takeovers, or a
creation after a deletion, so every pair of writes whose order matters
occurs; a renewal of the second Lease needs a fourth. Durations of 1 and
2 distinguish "expired", "not yet" and, with interval 1, "still safe to
collect". What the bounds leave out is what the proofs of section 3 are for.
Bounds on versions, late writes and deletions restrict requests that *start* and the
administrator: a request in flight is never blocked by one (`HasRoom`), which
`EveryRequestEnds` depends on. The versions bound the conflicts as well, so that this property
shows that a request ends after any of them, not that it needs `maxCASAttempts` to.

Fairness (`FairSpec`): a goroutine that can take its next step takes one, and an
HTTP exchange ends. Neither the informer, nor clients, nor time is assumed to make
progress.

The two violated runs:

* `stale_replica`. `elect` refuses a heartbeat from the cache when the cached
  version is active and held by another (`coordinator.go:90`). The versions that
  *this* process has seen superseded are excluded, which is the fix
  `CHANGELOG.md:10` announces; a second process has not seen them. It takes two
  operators, which the deployment template does not ask for but a rolling update
  produces. The error is on the safe side: the holder stops.
* `delayed_get`. `lease_observation.go:59` compares epochs only within one uid.
  A GET of the old Lease that is observed after the Lease was deleted, created
  again and observed replaces the newer observation.
  `AtMostOneCollector` is not at risk from it in the runs and proofs: each
  campaign decides on its own GET and writes with its resourceVersion.

### 2.3 `LeaseInformer` and `LeaseCache`

The code is the two callbacks, `ListFunc` and `WatchFunc`, the watch wrapper that
notices the end of a stream, and `Ready()`. The reflector that calls them, the
queue between it and the indexer, and `HasSynced` are client-go's (marked external in the
map) and modelled from how it calls the code: list, fill the queue,
watch, receive, and list again when the stream ends. Versions are numbers, as in
`Election`.

`Ready` is only ever true while a watch is streaming or its end has not been
noticed (`ReadyMeansStreaming`), the cache never goes back
(`ImplementsLeaseCache`), and the informer becomes ready once failures stop
(`LeaseCacheBecomesReady`). The informer is not run alone: these are checked in the
run `server`, where it runs beside the rest of the process and may be ended by it
at any point.

### 2.4 `Server` and the Pod API

| Action | Code |
|---|---|
| `LoggingChecked`, `PodsChecked` | the two access reviews at the start of `Run` (`server.go`), each of which registers an API or leaves it out |
| `Opened`, `Failed` | the listener's goroutine; `Run` in its `select` |
| `PodsMove` | the Pod informer of client-go on the indexer (external) |
| `HandlerStart` | `Handler.Start` after `WaitForCacheSync` (`cluster/handle.go`) |
| `Arrive`, `RequireReady`, `AnswerPods` | one request for Pods: accepted, gated, read from the lister |
| `Shutdown`, `DrainTick`, `Drained` | the end of `select`, and `http.Server.Shutdown` with its deadline |
| `ExitProcess` | `main` returns; every goroutine ends wherever it is |
| `Beside(A)` | a step `A` of the Lease informer |

The run `server` (2 versions, 3 failures, a grace of one unit, 754,684 states)
checks that Pods are only answered from a synced cache and never from an older
one than before (`PodAnswersMoveForward`), that a request in flight is cut off only
after the whole grace (`RequestsGetTheGrace`), that an optional API never keeps
the webhook from listening (`ListensInAnyCase`), that the process exits when told
at any moment, of startup too (`ExitsWhenTold`), and the properties of the Lease
informer. Two versions make a cache move once, three failures fail the LIST, the
WATCH and the WATCH after the next LIST; a grace of one unit distinguishes before
the deadline from after. The deadlock check is off because the process exits.

Fairness (`ServerFairness`): the goroutines of `Run` and of the Lease informer
take their next step, time passes during the shutdown, and the API server answers
the two access reviews and the Lease informer, as client-go retries for as long as the
process runs. Nothing is assumed of the Pod informer, of `Handler.Start`, or of
requests, which may never end.

That the access reviews are answered is needed: they use the background context
with clients that have no timeout, and `Run` notices a signal only in its `select`,
so that an API server that never answers keeps the process from starting and from
being stopped by a signal. Any error of a review, a transient one
included, disables its API for the life of the process. There is one request slot,
as requests do not interact. The Pod cache may move on after the context ended,
which is more than the code does.

### 2.5 `LoggingConfig`

| Action | Code |
|---|---|
| `Receive`, `Enqueue` | the informer's store, then the event handlers and `enqueue` (`crd_watcher.go:79-111`) |
| `Due` | a second is over in the delaying queue |
| `Select`, `Take`, `Quit` | `processQueue`, and `queue.Get` in `processNextItem` |
| `Read`, `Apply` | the store is read; the list is changed under its lock, and `Done` |
| `Preflight`, `Synced`, `Stop`, `Cancel` | `start` |
| `Selects`, `Found` | a lookup, as an operator on the state |

`waiting` is a set: the delaying queue may hand out keys whose time came together
in any order, and merges equal keys. Regular expressions and label selectors are the sets
of what they match; an expression that is empty or does not compile matches everything,
because the code leaves a nil matcher, and a lookup without labels is not held to
a label selector. The queue is client-go's (external).

The run `logging` (two names, two specs, three changes, 203,630 states) checks that no change is lost
between store and list (`NothingLost`), that there is one entry per name (`ListIsMap`), that
updates keep the order that decides between overlapping selectors (`OrderKept`),
and, under fairness, that lookups end up answered from what the API
server has (`Settles`) and that the worker returns after the context ends
(`WorkerStops`). Fair are the informer, the queue's timers, the worker and
`start`; not the API server's users, nor `Cancel`.

Three changes to two names give create-update-delete, create-delete-create and
every interleaving of one name's events with the other's. Two ways of the code to
end are kept out of the liveness properties and listed as hazards: a watcher
refused at its first LIST never serves anything, and one that is cancelled before
it synced leaves its worker in `queue.Get`. The deadlock check is off: the service stops.

### 2.6 `LabelSelectors`, `SelectorParser`, `Rules`

`Rules` runs `Configuration.Setup` for the rules of one feature: `Convert` is
`convertDeprecatedInjectRule`; `SkipNull`, `SetupNamespaces`, `SetupLabel`,
`KeepLabel` and `RuleDone` are `setupInjectRules`, `MutateRules.Setup` and
`Selector.setup`; and in between `Parse` takes the steps of the parser, one action
for each decision it takes on the next token. What a review finds afterwards are
operators on the result (`MatchAll`, `MutateAll`). A text is the sequence of tokens
that the lexer returns for it (white space alone, which counts as a text when the
code asks whether one is empty, is `<<" ">>`); namespace expressions are the sets they match.

The run `rules` takes every label selector of up to 4 tokens over an alphabet with
each kind of token (a key that is an operator, a number, a glob, parentheses),
the lists and comparisons of up to 6 more, pairs of
rules with missing, null, blank, broken and mixed selectors, and every kind of
legacy entry. It checks

* that the parser never indexes past its tokens (`NoOverrun`), which would be a
  panic at start;
* that what it returns is what the grammar in the comment of `Parse` says
  (`ParsedAsDocumented`), against a reference that splits the text at its commas
  and has nothing of the parser's points or lookahead;
* that the rules found for a pod are those that apply by their text, with the
  meaning that `export/en/datakit-operator.md` gives them (`RulesApplyAsWritten`),
  and that exactly one of legacy entry and rules decides (`LegacyDecides`);
* that nothing that is used accepts everything (`SelectorsRestrict`, in `Inv`), and
  that the set-up ends (`SetupEnds`; it is one goroutine, which takes its next step).

Four tokens hold a negation, a comparison, or a list of none before or after a
comma; empty values around commas, where the three special cases of
`parseIdentifiersList` meet, need the longer lists. Two rules show that one that
is disabled does not hide the other. The deadlock check is off because the
set-up ends.

Three things that the model follows and a reader of the documentation might not
expect: `x in (a,,)` is in the grammar and rejected by `parseIdentifiersList`, as is every
even number of commas before a parenthesis (`EvenCommas`); a legacy entry whose
namespaces are all empty strings, with an image or variables, covers every
namespace; and one that is valid only by an image under a key of another feature
replaces the rules by none.

### 2.7 The webhook: `Pods`, `Tracing`, `Sidecars`, `PodPatch`, `Injection`

The webhook has no state. The state of `Injection` is what surrounds it: the pod at the
API server (`pod`), the copy that a review works on (`work`, `stage`), and the pod
as the last answer left it (`served`). A review takes one action per call of
`mutatePod`, and `Respond` computes the patch between the two pods and has the
API server apply it. `Lose` is a review that ends without an answer, at any point.
Between reviews another webhook may add a container or replace the variables of
one.

The injections are pure functions of a pod and the rules, one operator for each
function of the code that decides something. A value is the sequence of what
the code splits it into: options, directories, tags. Names and paths are compared as
the code compares them. Rules are matched by the set of namespaces they accept,
which stands for both selectors. JSON configurations are their directories
(`PathsOf`), and whatever is outside its domain does not parse.

`PodPatch` keeps the operations of the patch one by one, because they address
containers and variables by position, and each is applied to the result of those before it; a patch of
which one operation fails changes nothing. It is checked against the copy itself
(`PatchLeadsToCopy`), so that the injections and the patch are held to the same pod.
`Extends` says which changes it has operations for: lists that grow at their end under
new names, variables of containers, annotations, and the two fields that
`resetSpec` sets. `Inv` says that every review stays within them, and that
containers differ in their names, which is how the patch finds them.

`IsCase` and `IsPod` give the shape of rules and pods. The strings have the name
`Text`, and what the code has as literals is stated to be among them
(`PodsLiterals`, `TracingLiterals`, `SidecarsLiterals`): TLC evaluates these facts, the
provers know nothing about strings. `NamesSuffice` replaces the counter with which the
code numbers new volumes: the list of names must be as long as the directories can be.

| Run | Question | Instance |
|---|---|---|
| `injection` | one tracer, whole or not at all, the user's work kept, tags after what they refer to, a lost Java agent restored, nothing done twice; log directories shared where they can be, in a pod that the API server accepts; only changes that the patch can express | 2282 combinations of pod and tracer rules, 1024 of pod and sidecar rules with a tracer of either kind; 3 reviews, 1 change by others |
| `injection_clash` | does injection never prevent the creation of a pod? **violated** | two containers with a log directory each |
| `injection_tags` | are the user's tags kept? **violated** | a tag with two colons |

Two reviews are needed for anything to happen twice, a third to come after a
change by another webhook between them. OpenTelemetry instruments all regular
containers, so that the review after one that added a sidecar instruments the
sidecar; that is the only thing that `ReviewSettles` allows a second review to add
(`InstrumentsSidecars`), and it does not always come to that: of a rule that gives only
requests or only limits, the other map is empty in the container that the code
builds and absent in the one the API server sends back, so that it takes its own init
container for another's and leaves such a pod as it is (`sized`, FALSE in the rule for nodejs).
Three combinations that the code does not handle are kept
out of the passing run, which would otherwise stop at them; each is a hazard in
`PROJECT.json`: two volumes at one directory and malformed tags, which the violated
runs show, and rule variables set to nothing (they become references to a label
without a name). Pods have a namespace: the API server sets it before admission.
The deadlock check is off because reviews end.

The violated runs:

* `injection_clash`: a directory of logfwd that two containers have on different
  volumes. The first volume is mounted again in the second container, at a path that is
  taken, and the API server refuses the pod.
* `injection_tags`: a tag whose value has a colon is dropped from `DD_TAGS`, the
  user's own included.

## 3. Proofs

`ElectionProofs` proves, from `ProcessAssumption`, `DurationAssumption` and
`BoundAssumption` alone, for any number of operators, DataKits, slots and any
durations and bounds:

* `Fencing`: an epoch of a Lease has one holder;
* `TakeoverIsSafe`: a takeover is a whole lease duration after every write of
  the term it ends, whoever decided it and whenever it landed;
* `AgesAreSafe`: no operator measures an age above the true one;
* `SuccessIsSafe`: a success is backed by a write of the same request;
* `OneCollector`: at most one DataKit collects, unless the Lease was deleted.

The module also proves `Refinement`: the election implements `LeaseTerms`.

The argument is one inductive invariant, `ElectionInv`. None of the properties is
inductive alone, because a decision and its write are steps apart. `Decided`
bridges them: a campaign that is about to write, or whose write is in the
network, decided on a version that *by now* is a whole duration old, and a
heartbeat on a version that its caller holds. Time only makes this truer, and
the compare-and-swap makes it enough: the write is applied only if that version
is still the newest, so every earlier write of the term is older still
(`HistoryInv`). That a decision is right when made needs the ages to be safe
(`ObservationNotBeforeWrite`), which needs each read in flight to be later than
the commit of what it read (`SlotInv`). `SafeInv` ties what a DataKit may do to a
write of its own, from which `AtMostOneCollector` follows: two DataKits that
both collect would have writes less than a duration apart in different terms of
a Lease that was never deleted.

Two action properties need more, and the theorems say how much more. `HolderIsNotRefused`: if the election has one process, a lagging cache
never refuses the DataKit that holds the Lease and may still collect
(`HolderNotRefusedByCache`). The invariant `KnownInv` says why: each version older
than the last write of the process is one it has seen superseded. The
run `stale_replica` shows that a second process breaks this. `TimerIsNotRestarted`: if there is one request
slot, an observation never restarts the timer of the newest version
(`TimerNotRestarted`), as reads then reach the observations in the order of their
versions (`ReadInOrder`); the run `delayed_get` shows what a second request does. Both
conditions are hypotheses of the theorems (`OneProcess(c)`, `Requests = {r}`); any
number of DataKits, versions, crashes and late writes remains.

`ServerProofs` first proves, for any number of versions and failures, that
`Ready` means a streaming watch (`ReadyIsWatched`) and that the informer
implements `LeaseCache` (`InformerIsLeaseCache`). The invariant says where each flag
can be at each point of the reflector, and that the versions in the queue
continue the one shown without going back (`AppendContinues`, `PopContinues`).

It then proves, for any bounds and any grace, that the process runs the
Lease informer unchanged (`ServerRunsInformer`, so that every theorem about the
informer is one about the process), its invariant (`ServerInvariance`),
`PodAnswers` and `GraceIsGiven`. Beside the informer's invariant it needs only that
`podsReady` implies a LIST and that a request past the gate implies `podsReady`
(`PodCacheInv`), and what `Shutdown` may leave in flight (`DrainInv`).

`LoggingConfigProofs` proves, from `ConfigAssumption` (finitely many names, at least
one, and a value for "deleted" that is no spec), for any names, specs and
number of changes, `LoggingInvariance`, `NoChangeIsLost`,
`ListHasOneEntryPerName` and `OrderIsKept`. `NothingLost` is not inductive: a
worker that read the store just before a change holds a spec that is already old,
and only that name's return to the queue makes this harmless. `HeldIsPending` says
that it will return, `QueueMatchesDirty` that returning is what the queue's dirty set means,
and `WorkerInv` that what the worker holds is newer than what the list has, from
which `OrderIsKept` follows.

`RulesProofs` proves, for every configuration, every text of
whatever length and every set of pods, `SetupInvariance` (with `SelectorsRestrict`:
nothing that is used accepts everything), `ParserStaysInside`,
`TextsParsedAsDocumented`, `ReviewsFindRules` and `LegacyEntryDecides`.

* `NoOverrun` needs `EndAhead`: the tokens end with `End`, every step that consumes
  has seen that the token is not `End`, and a step that consumes two has seen it of
  both.
* `ParsedAsDocumented` compares the result with a grammar that splits the text at its
  commas, while the parser reads from the left. The invariant that joins them is
  `ReadingInv`: the parser is somewhere in the stretch that begins at an outer
  comma `a`; the requirements so far are what the stretches up to `a` denote (`Taken`); the
  draft is what has been read of this one (`ReadsKey`, `ReadsValues`, `ReadsExact`,
  `HasRead`), in a list the values closed so far (`Listed`); opening parentheses are
  ahead of closing ones by one exactly inside a list, so that a comma there is
  no end of a stretch; and no even run of commas was passed before a parenthesis.
  For each action `RulesProofs` shows that it either reads on in the same way or
  is right to reject (`RejectIsRight`: if the text were a sentence, the stretch
  would have one of four shapes, and the token that was refused fits none).
  The induction is over the steps of the parser, so that no induction over the text is needed.
* `RulesApplyAsWritten` needs to know, at each point of the set-up, that what is compiled of
  the rules so far is what their texts mean (`CompiledInv`, `CurrentInv`, `Kept`); and
  `LegacyDecides` that the rules in force are those of the configuration or of its
  legacy entry (`InForce`).

The assumptions on the constants are those of the code: operators and punctuation are
no label keys (`validateLabelKey` refuses them), `.*` matches the namespace of every
pod, and an empty or blank expression is not compiled.

The webhook is proved about in four modules, for any rules, any pods, any containers
that other webhooks add, and any number of reviews.

* `FoldTheory`. The injections and the patch are folds over containers, variables, tags
  and operations. The module defines the fold as the community modules do, with the
  operator and an invariant of it as constants, and proves by induction over the natural
  numbers that the result is the last of a chain of intermediate results (`FoldIs`), that
  an invariant of each step holds at the end (`FoldKeeps`), what a fold over two
  sequences in a row is (`FoldConcat`), over the first few elements (`FoldFew`), and
  what a filter keeps (`FoldFilters`). An INSTANCE for each operator of the model
  (`Patching`, `Loading`, `Tagging`, ...) makes these facts about it. This is
  induction over data with the operator as a parameter of a module, where a theorem with an
  operator as its parameter cannot be used.
* `PatchProofs`: `PatchLeads`. For a pod `p` and a copy `w` that `Extends` it, with
  containers of different names, the patch built from both and applied to `p` is
  accepted in every operation and gives `w`. Each part of the patch is shown to turn
  its own field from the old to the new (`NamedAppendRun`, `EnvRun`, `AnnotationRun`,
  `ScalarRun`, `ContainerFieldsRun`) and to leave the others, whatever they
  are at that moment; positions stay right because new containers only come at the
  end, behind those whose fields are changed afterwards. A first item is written as a
  list, as the code does where the list is missing.
* `InjectionProofs`. `Extends` is a preorder (`StepTransitive`), each operation of
  `pkg/manager` stays in it (`AddStep`, `MountStep`, `ResetStep`, `AnnotateStep`), and
  so does each of the five injections. Hence `Inv` is inductive (`Invariant`,
  `InvHolds`), and with `PatchLeads` every answer leaves the pod as its copy
  (`PatchIsCopy`). The same walk through the injections carries what they do to
  the libraries of the tracers (`Calm`: nothing; `Traces`: one library, with its init
  container), from which no pod gets both (`OneTracerHolds`).

What is assumed of the constants: pods and rules have the shape that the API and the
configuration give them, the containers of a submitted pod have different names (the
API server refuses others), there are enough names for the volumes the code numbers, and none
is the name of a library (`InjectionAssumption`). `OneTracerHolds` has two more
hypotheses: a pod is submitted with the library of one tracer at most, mounted only if
its init container is there (`Apart`), and other webhooks add no container that mounts
one (`LateAreQuiet`). They are needed: a pod that comes with a volume of the one library and
no init container is traced by the other.

Three more theorems, and those of `ReviewProofs`, are about properties that a pod can break by
having, under a name or at a place of the operator's, something that is not its
work. Each says what has to be excluded, as hypotheses about the submitted pods
alone, and an inductive invariant shows that the reviews and the other webhooks never
bring it about.

* `WholeOrNothingHolds` and `JavaAgentRestoredHolds`: what mounts a library has it
  in its directory (`InPlace`), its volume can be shared (`OwnVolumes`), the init
  container of DDTrace came with its volume (`BringsDD`), and no logs are
  collected from the libraries' directories (`PathsApart`). `AllPrepared`
  and `AllApart` are the invariants, `JavaInv` adds what a review in progress has done for
  the agent. The walk over the containers is cut short by a sourced variable
  (`Blocked`), and the proof shows that the copy that was begun is then dropped.
* `PodStaysValidHolds`: the API server accepts the submitted pod, names of the
  operator's containers are not used for others, and a directory is mounted from one
  volume throughout the pod, the places of the injections included (`Sound`,
  kept by every injection: `AllSound`); no rule has a variable without a source
  (`RulesSound`); and other webhooks add acceptable containers (`LateAreSound`). One
  volume per directory is what `AddVolumeMountToContainer` takes for granted: with it, a
  mount that is missing by name is missing by path. The pod of `injection_clash` is
  one that exactly this hypothesis excludes.
* `ReviewProofs`.
  * `LogsReachSidecarHolds`: the invariant `AllReach` says that the sidecar either has
    every directory it can have, or is not there and the names of its volumes are
    free. The review that adds it makes this true; every other step only widens the pod (`Widens`:
    mounts and volumes are added, never at a directory of the sidecar from another
    volume), so that it stays true. Beside the hypotheses of
    `PodStaysValidHolds` this needs that the names which the code numbers are used by nobody
    else (`FreshApart`, `FreeNames`): the code numbers a volume by the place of its directory
    in the rule, and looks at no name that is there.

  Two more are about the variables of one container, and only need that it has one
  variable `DD_TAGS` at most (`OneTagEach`, `LateHaveOneTag`), which is what `AllOneTag` keeps: of
  two, the merge takes the first out and appends it behind the second.
  * `UserWorkKeptHolds`: `Retains` says of two lists of variables that those which are no
    tags are in the new one, in their order, each as it was or, for a loader variable,
    with the old value inside the new one (`Lengthened`, `Inside`), and that the well-formed tags
    are among the new ones. It is transitive, which the property itself is not: so
    it can be shown of each variable that is added or changed, of the folds over them,
    and of the stages of a review (`Minds`, the invariant between the pod and its copy).
    That the code gives up before it touches a sourced variable (`Blocked`, `OTelFits`)
    is what makes it true.
  * `TagsAfterVariablesHolds`: when the fold over the rule's variables is past its last tags, no
    variable that the rule lists before them is still to come (`BuiltOrder`), and what comes
    after them leaves both where they are (`TagsLast`). This needs that a rule
    lists a variable once (`ListedOnce`): one that is listed again behind the tags is
    added there, if the first was dropped with the resources of the pod.

TLC evaluates these hypotheses for the pods and rules of the passing run (`MCApart`, `MCPrepared`,
`MCSound`, `MCReach`, `MCTags`), so that none of the theorems is about nothing. That a set of naturals
has a least element, which `FoldTheory` takes as a hypothesis (`Ordered`), is proved once, as `Least`
in `PatchProofs`.

Only model-checked, and why:

* `ReviewSettles` says that an injection of what it has injected changes
  nothing, for each value of each loader variable.
* Liveness (`EveryRequestEnds`, `LeaseCacheBecomesReady`, `ListensInAnyCase`,
  `ExitsWhenTold`, `Settles`, `WorkerStops`, `SetupEnds`), which is out of the
  prover's reach.

## 4. Not modelled

Generated clients and the documentation checkers hold no logic of the operator.
Of the election, metric counters and the status probe (a read of `Ready`), the parameter
check, and an epoch past `int32`. Of the server, the loggers and the construction of
clients, which come before any concurrency; of the Pod API, the fields that the
ebpf-v1 view keeps, a fixed list that its unit test covers. Of the label selectors,
the lexer, `String`, `Add` and the constructors that nothing calls. Of the
configuration, reading the JSON, the default resources and pull policy. Of
`pkg/envbuilder`, the validation of references (`IsQualifiedName` and the DNS
formats), which are regular expressions over characters with no state behind them. Of the
webhook, request decoding, ports, PHP loader flavours, and pull policies and
resources of the containers that are added: the code decides on these in one place, whether the init
container of OpenTelemetry is the one that it would add now, where they count as part
of the image (and `sized` says when the comparison of resources cannot succeed).
A panic on a malformed resource quantity cannot happen, as rules are verified
when they are loaded.

## 5. Plan

What was planned is built, in this order: the election and its informer, the
logging configuration, the webhook, the rules, the server. What is left:

1. `ReviewSettles` as a theorem: each injection is idempotent on the pods it leaves,
   OpenTelemetry from the second review on.
2. That a scope whose holder went away is taken over in the end. The clock of
   `Election` is bounded; this needs ages capped at a duration, so that time can
   go on for ever. `TimerNotRestarted` is the safety half of it.
3. Rule variables set to nothing (`valuefrom.go:100`), when the code decides what
   they mean.
