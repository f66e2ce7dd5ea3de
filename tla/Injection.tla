----------------------------- MODULE Injection -----------------------------
(***************************************************************************)
(* Reviews of one pod by the admission webhook.  A review runs over a copy *)
(* of the pod through five injections in a fixed order, and answers with   *)
(* the patch that leads to the copy.  The API server has a pod reviewed    *)
(* again when another webhook changed it after the first review, and a     *)
(* stored pod may be submitted anew: a review may begin whenever none is   *)
(* under way.  One whose answer never arrives is skipped (failurePolicy:   *)
(* Ignore).                                                                *)
(***************************************************************************)
EXTENDS Tracing, Sidecars, PodPatch

CONSTANTS Cases,        \* a configuration, a pod as it was submitted, a request
          LateSidecars, \* containers that another webhook may add
          MaxReviews,   \* bound on reviews
          MaxOthers     \* bound on what other webhooks do

\* Containers of one pod have different names: the API server refuses any other pod
\* after admission, whatever it was answered.
IsCase(c) ==
  /\ IsPod(c.pod) /\ UniqueNames(c.pod.containers)
  /\ c.namespace \in Text
  /\ c.ddtraces \in Seq(TracingRule) /\ c.otels \in Seq(TracingRule)
  /\ c.logfwds \in Seq(LogfwdRules) /\ c.flameshots \in Seq(FlameshotRules)
  /\ c.profilers \in Seq(ProfilerRules) /\ c.loggings \in Seq(LoggingRules)

\* There is a name for each new volume: the code numbers them.
NamesSuffice ==
  /\ \A c \in Cases : \A rule \in ToSet(c.logfwds) : LogfwdNamesSuffice(rule)
  /\ \A l \in Lengths : l <= Len(LogsVolumes)

ASSUME InjectionAssumption ==
  /\ MaxReviews \in Nat /\ MaxOthers \in Nat
  /\ LateSidecars \subseteq PodContainer
  /\ \A c \in Cases : IsCase(c)
  /\ NamesSuffice
  /\ (ToSet(LogfwdVolumes) \cup ToSet(LogsVolumes)) \cap {DDVolume, OTelVolume} = {}

VARIABLES
  given,    \* the case: never changes
  pod,      \* the pod as the API server has it
  work,     \* the copy that the review under way has changed so far
  stage,    \* where the review is
  reviews,  \* how many were begun
  others,   \* how often another webhook changed the pod
  served    \* the pod as the last answered review left it, once there is one

vars == <<given, pod, work, stage, reviews, others, served>>

Stages == <<"tracing", "logfwd", "flameshot", "profiler", "logging", "respond">>

Init ==
  /\ given \in Cases
  /\ pod = given.pod
  /\ work = pod
  /\ stage = "idle"
  /\ reviews = 0
  /\ others = 0
  /\ served = {}

\* Only the creation of a pod is looked at, and only if the pod does not refuse.
Receive ==
  /\ stage = "idle"
  /\ reviews < MaxReviews
  /\ reviews' = reviews + 1
  /\ work' = pod
  /\ stage' = IF /\ given.operation = "CREATE"
                 /\ CheckAnnotationIsTrue(pod, <<"admission", "enabled">>)
              THEN "tracing" ELSE "respond"
  /\ UNCHANGED <<given, pod, others, served>>

\* One injection, on the copy.
Inject(i, result) ==
  /\ stage = Stages[i]
  /\ work' = result
  /\ stage' = Stages[i + 1]
  /\ UNCHANGED <<given, pod, reviews, others, served>>

InjectTracing ==
  Inject(1, InjectTracingToPod(work, given.namespace, given.ddtraces, given.otels))
InjectLogfwdSidecar == Inject(2, InjectLogfwdToPod(work, given.namespace, given.logfwds))
InjectFlameshotSidecar ==
  Inject(3, InjectFlameshotToPod(work, given.namespace, given.flameshots))
InjectProfilerSidecar ==
  Inject(4, InjectProfilerToPod(work, given.namespace, given.profilers))
MutateLogging == Inject(5, MutateLoggingToPod(work, given.namespace, given.loggings))

Respond ==
  /\ stage = "respond"
  /\ pod' = ApplyPatch(pod, BuildPodInjectionPatch(pod, work))
  /\ work' = pod'
  /\ served' = {pod'}
  /\ stage' = "idle"
  /\ UNCHANGED <<given, reviews, others>>

\* The operator stops, or answers too late.
Lose ==
  /\ stage # "idle"
  /\ work' = pod
  /\ stage' = "idle"
  /\ UNCHANGED <<given, pod, reviews, others, served>>

\* Another webhook appends a container, or replaces the variables of one.
Other(result) ==
  /\ stage = "idle"
  /\ others < MaxOthers
  /\ others' = others + 1
  /\ pod' = result
  /\ work' = pod'
  /\ UNCHANGED <<given, stage, reviews, served>>

OtherAdds == \E c \in LateSidecars : Other(AddContainer(pod, c))
OtherResetsEnv ==
  \E i \in DOMAIN pod.containers : Other([pod EXCEPT !.containers[i].env = <<>>])

Next ==
  \/ Receive
  \/ InjectTracing \/ InjectLogfwdSidecar \/ InjectFlameshotSidecar
  \/ InjectProfilerSidecar \/ MutateLogging
  \/ Respond \/ Lose
  \/ OtherAdds \/ OtherResetsEnv

Spec == Init /\ [][Next]_vars

(***************************************************************************)
(* Properties                                                              *)
(***************************************************************************)
\* The shape of what the code works on: a review starts from what is stored, its
\* copy is what is stored when none is under way, and the specification of the
\* pod stays within the values of the API.
TypeOK ==
  /\ stage \in ToSet(Stages) \cup {"idle"}
  /\ stage = "idle" => work = pod
  /\ reviews \in 0..MaxReviews /\ others \in 0..MaxOthers
  /\ \A p \in {pod, work} : IsPod(p)

\* What PatchLeadsToCopy needs of them: the injections only make changes that the patch
\* has operations for, and its operations find the containers by their names.
Inv ==
  /\ TypeOK
  /\ \A p \in {pod, work} : UniqueNames(p.containers)
  /\ Extends(pod, work)

\* The patch does what the injections did: the API server applies it without an
\* error, and gets the pod that the review arrived at, in every field.
PatchLeadsToCopy == [][Respond => pod' = work]_vars

\* OpenTelemetry runs before the sidecars are added, and so instruments them in the
\* next review: it touches nothing else, and no container is left for another one.
InstrumentsSidecars(old, new) ==
  LET Instrumented(c) == OTelVolume \in Names(c.mounts)
  IN  /\ ContainsInitContainer(old, OTelInit)
      /\ [new EXCEPT !.containers = old.containers] = old
      /\ \E c \in ToSet(old.containers) : ~Instrumented(c)
      /\ \A c \in ToSet(new.containers) : Instrumented(c)
      /\ \A i \in DOMAIN old.containers :
           Instrumented(old.containers[i]) => new.containers[i] = old.containers[i]

\* A review of a pod that nobody touched since the last answer changes nothing: no
\* agent, tag, mount or sidecar is added a second time.  The only exception ends
\* with the review after it: OpenTelemetry for the sidecars of the last review.
ReviewSettles ==
  [][(Respond /\ pod \in served) => pod' = pod \/ InstrumentsSidecars(pod, pod')]_vars

\* Whatever the user wrote is still there: containers, volumes and mounts in their
\* place, variables in their order and with their values, except that the value of
\* a loader variable may be extended on both sides, and that DD_TAGS may grow and
\* move to the end.
LoaderVariables == DOMAIN DDToken

Grown(e, f) ==
  /\ f.name = e.name /\ f.kind = e.kind
  /\ \/ f.value = e.value
     \/ /\ e.name \in LoaderVariables /\ e.kind = "plain"
        /\ \/ e.value = <<>>
           \/ e.value \in SubSeqs(f.value)

Tags(envs) == Filter(envs, LAMBDA e : e.name = "DD_TAGS")

KeepsEnv(old, new) ==
  LET Others(envs) == Filter(envs, LAMBDA e : e.name # "DD_TAGS")
      WellFormed(e) == ToSet(e.value) \cap DOMAIN TagKey
  IN  /\ Len(Others(old)) <= Len(Others(new))
      /\ \A i \in DOMAIN Others(old) : Grown(Others(old)[i], Others(new)[i])
      /\ \A i \in DOMAIN Tags(old) :
           IF Tags(old)[i].kind # "plain" THEN Tags(new)[i] = Tags(old)[i]
           ELSE WellFormed(Tags(old)[i]) \subseteq WellFormed(Tags(new)[i])

KeepsContainer(old, new) ==
  /\ [new EXCEPT !.env = old.env, !.mounts = old.mounts] = old
  /\ KeepsEnv(old.env, new.env)
  /\ IsPrefix(old.mounts, new.mounts)

Keeps(old, new) ==
  /\ IsPrefix(old.volumes, new.volumes)
  /\ IsPrefix(old.init, new.init)
  /\ Len(old.containers) <= Len(new.containers)
  /\ \A i \in DOMAIN old.containers : KeepsContainer(old.containers[i], new.containers[i])
  /\ \A k \in DOMAIN old.annotations :
       k \in DOMAIN new.annotations /\ new.annotations[k] = old.annotations[k]

UserWorkKept == [][Respond => Keeps(pod, pod')]_vars

\* The volumes that the containers mount.
MountNames(p) == UNION {Names(p.containers[i].mounts) : i \in DOMAIN p.containers}

LibraryVolumes == {DDVolume, OTelVolume}

\* A pod as users submit it and reviews leave it: it has the init container of one
\* tracer at most, and no container mounts a library that no init container brings.
Apart(p) ==
  /\ ~({DDInit, OTelInit} \subseteq Names(p.init))
  /\ DDVolume \in MountNames(p) => DDInit \in Names(p.init)
  /\ OTelVolume \in MountNames(p) => OTelInit \in Names(p.init)

\* The containers of other webhooks mount no library.
LateAreQuiet == \A c \in LateSidecars : Names(c.mounts) \cap LibraryVolumes = {}

\* The directories of the libraries.
LibraryPaths == {DDMount.path} \cup {OTelPath[lang] : lang \in OTelLanguages}

\* A container that mounts a library has it in a library's directory.
InPlace(p) ==
  \A i \in DOMAIN p.containers : \A m \in ToSet(p.containers[i].mounts) :
     m.name \in LibraryVolumes => m.path \in LibraryPaths

\* No logs are collected from there.
PathsApart ==
  /\ \A a \in DOMAIN PathsOf : ToSet(PathsOf[a]) \cap LibraryPaths = {}
  /\ \A c \in Cases : \A rule \in ToSet(c.logfwds) : ToSet(rule.paths) \cap LibraryPaths = {}

\* The volume of a library is one that containers share, and the init container of
\* DDTrace is there with its volume.
OwnVolumes(p) == \A v \in LibraryVolumes : v \in Names(p.volumes) => IsEmptyDirVolume(p, v)
BringsDD(p) ==
  DDInit \in Names(p.init) =>
    /\ DDVolume \in Names(p.volumes)
    /\ \A i \in DOMAIN p.init : p.init[i].name = DDInit => HasDDMount(p.init[i])

\* What the injections mount at places of their own, for the rules of a case.
FlameshotPaths(c) ==
  {WorkingDirectory} \cup
  {e.value[1] : e \in {x \in UNION {ToSet(rule.envs) : rule \in ToSet(c.flameshots)} :
                        x.name = ProfilingPath /\ x.value # <<>>}}
OwnMounts(c) ==
  {DDMount, PodInfoMount, ProfilerMount} \cup {OTelMount(lang) : lang \in OTelLanguages}
  \cup {Mount(FlameshotVolume, path) : path \in FlameshotPaths(c)}

\* A directory comes from one volume: what the code takes for granted.
MountsOf(p) == UNION {ToSet(p.containers[i].mounts) : i \in DOMAIN p.containers}
OneVolume(mounts) == \A x, y \in mounts : x.path = y.path => x.name = y.name

HasSource(e) == ~(e.kind = "field" /\ e.value = NamelessLabel)
Acceptable(c, volumes) ==
  /\ Names(c.mounts) \subseteq volumes
  /\ \A i, j \in DOMAIN c.mounts : c.mounts[i].path = c.mounts[j].path => i = j
  /\ \A i \in DOMAIN c.env : HasSource(c.env[i])

SidecarNames == {LogfwdContainer, FlameshotContainer, ProfilerContainer}
LateNames == {c.name : c \in LateSidecars}

\* A pod that the API server accepts, that mounts nothing else at the places of the
\* injections, and that has none of their names for something else.
Sound(p, own) ==
  /\ UniqueNames(p.init) /\ UniqueNames(p.volumes)
  /\ Names(p.init) \cap (Names(p.containers) \cup SidecarNames \cup LateNames) = {}
  /\ Names(p.containers) \cap {DDInit, OTelInit} = {}
  /\ \A i \in DOMAIN p.init : Acceptable(p.init[i], Names(p.volumes))
  /\ \A i \in DOMAIN p.containers : Acceptable(p.containers[i], Names(p.volumes))
  /\ OneVolume(MountsOf(p) \cup own)

\* The rules of a case: no variable without a source, and no logs are collected
\* from the places of the injections.
RulesSound(c) ==
  /\ \A rules \in {c.ddtraces, c.otels, c.logfwds, c.flameshots, c.profilers} :
       \A i \in DOMAIN rules : \A j \in DOMAIN rules[i].envs : HasSource(BuildEnv(rules[i].envs[j]))
  /\ OneVolume(OwnMounts(c) \cup {TmpMount, TimezoneMount})
  /\ \A m \in OwnMounts(c) :
       /\ \A a \in DOMAIN PathsOf : m.path \notin ToSet(PathsOf[a])
       /\ \A rule \in ToSet(c.logfwds) : m.path \notin ToSet(rule.paths)

\* What other webhooks add is accepted, and brings no volume.
LateAreSound ==
  /\ LateNames \cap {DDInit, OTelInit} = {}
  /\ \A c \in LateSidecars : c.mounts = <<>> /\ Acceptable(c, {})

\* The volumes that the injections other than logfwd's may mount.
OtherVolumes ==
  LibraryVolumes \cup {FlameshotVolume, ProfilerMount.name, TmpMount.name, TimezoneMount.name}
  \cup ToSet(LogsVolumes)

\* The new volumes of logfwd have names of their own, and no other webhook adds its sidecar.
FreshApart ==
  /\ \A i, j \in DOMAIN LogfwdVolumes : LogfwdVolumes[i] = LogfwdVolumes[j] => i = j
  /\ ToSet(LogfwdVolumes) \cap OtherVolumes = {}
  /\ LogfwdContainer \notin LateNames

\* A pod that logs are collected from has a container, and none of these volumes.
FreeNames(c) ==
  c.logfwds # <<>> =>
    c.pod.containers # <<>> /\ Names(c.pod.volumes) \cap ToSet(LogfwdVolumes) = {}

\* A container has one variable of tags at most.
OneTag(envs) ==
  \A i, j \in DOMAIN envs : envs[i].name = "DD_TAGS" /\ envs[j].name = "DD_TAGS" => i = j
OneTagEach(p) == \A i \in DOMAIN p.containers : OneTag(p.containers[i].env)
LateHaveOneTag == \A c \in LateSidecars : OneTag(c.env)

\* A rule of DDTrace lists a variable once.
ListedOnce(c) == \A i \in DOMAIN c.ddtraces : UniqueNames(c.ddtraces[i].envs)

\* No pod ever gets the libraries of both tracers, over any number of reviews, also
\* if it came with what an earlier review had left in it.
OneTracer ==
  /\ ~({DDInit, OTelInit} \subseteq Names(work.init))
  /\ \A c \in ToSet(work.containers) : ~({DDVolume, OTelVolume} \subseteq Names(c.mounts))

\* A tracer is injected completely or not at all.  An init container that the
\* review added means that every container mounts the library at its path, from a
\* volume they share, and loads it; without it nothing else was changed.
LoadsDD(c, lang) ==
  /\ HasDDMount(c)
  /\ \A k \in ToSet(DDKeys(lang)) :
       LET i == EnvIndex(c.env, k)
       IN  /\ i # 0
           /\ c.env[i].kind = "plain" /\ c.env[i].value # <<>>
           /\ k # "DD_LOADER_PACKAGE_PATH" => DDToken[k] \in ToSet(c.env[i].value)
LoadsOTel(c, lang) ==
  LET i == EnvIndex(c.env, LoaderKey[lang])
      tokens == [java |-> {JavaAgentOption}, nodejs |-> {RequireOption},
                 python |-> {PythonPrefix, PythonSuffix}]
  IN  /\ OTelMount(lang) \in ToSet(c.mounts)
      /\ i # 0 /\ tokens[lang] \subseteq ToSet(c.env[i].value)

WholeOrNothing ==
  [][InjectTracing =>
       LET new == [i \in 1..(Len(work'.init) - Len(work.init)) |-> work'.init[Len(work.init) + i]]
           all == ToSet(work'.containers)
       IN  IF new = <<>>
           THEN work'.volumes = work.volumes \/ Names(work.init) \cap {DDInit, OTelInit} # {}
           ELSE IF new[1].name = DDInit
           THEN /\ IsEmptyDirVolume(work', DDVolume)
                /\ \A c \in all : LoadsDD(c, new[1].command)
           ELSE /\ IsEmptyDirVolume(work', OTelVolume)
                /\ \A c \in all : LoadsOTel(c, new[1].command)]_vars

\* What CHANGELOG.md:18 announces: when another webhook replaced the variables of a
\* container after the injection of the Java agent, the next review that is
\* answered loads the agent again in every container that mounts it.
JavaIsTraced(p) ==
  LET chosen == SelectRule(p, MatchesAll(given.ddtraces, NamespaceOf(p, given.namespace)), "ddtrace")
  IN  /\ given.operation = "CREATE"
      /\ CheckAnnotationIsTrue(p, <<"admission", "enabled">>)
      /\ CheckAnnotationIsTrue(p, <<"ddtrace", "enabled">>)
      /\ chosen.found /\ chosen.rule.language = "java"
      /\ ContainsInitContainer(p, DDInit) /\ ~ContainsInitContainer(p, OTelInit)

JavaAgentRestored ==
  [][(Respond /\ JavaIsTraced(pod)) =>
       \A c \in ToSet(pod'.containers) :
          HasDDMount(c) =>
            LET i == EnvIndex(c.env, LoaderKey.java)
            IN  i # 0 /\ (c.env[i].kind = "plain" =>
                            DDToken.JAVA_TOOL_OPTIONS \in ToSet(c.env[i].value))]_vars

\* Tags may refer to other variables (CHANGELOG.md:137): after the injection every
\* variable that the rule lists before DD_TAGS is before it in the container, also
\* when the container had both already.
TagsAfterVariables ==
  [][InjectTracing =>
       LET chosen == SelectRule(work, MatchesAll(given.ddtraces,
                                                 NamespaceOf(work, given.namespace)), "ddtrace")
       IN  (~ContainsInitContainer(work, DDInit) /\ ContainsInitContainer(work', DDInit)) =>
             \A c \in ToSet(work'.containers), b \in DOMAIN chosen.rule.envs :
                LET tags == EnvIndex(c.env, "DD_TAGS")
                    e == chosen.rule.envs[b]
                IN  (/\ e.name = "DD_TAGS" /\ e.kind = "plain" /\ e.value # <<>>
                     /\ c.env[tags].kind = "plain") =>
                      \A a \in 1..(b - 1) : EnvIndex(c.env, chosen.rule.envs[a].name) <= tags]_vars

\* The pod is one that the API server accepts: injection never prevents its
\* creation (export/en/datakit-operator.md:28).
PodStaysValid ==
  LET all == pod.init \o pod.containers
  IN  /\ Cardinality(Names(all)) = Len(all)
      /\ Cardinality(Names(pod.volumes)) = Len(pod.volumes)
      /\ \A c \in ToSet(all) :
           /\ Names(c.mounts) \subseteq Names(pod.volumes)
           /\ \A i, j \in DOMAIN c.mounts : c.mounts[i].path = c.mounts[j].path => i = j
           /\ \A e \in ToSet(c.env) : ~(e.kind = "field" /\ e.value = NamelessLabel)

\* The logfwd sidecar sees the files of the application: where it mounts one of the
\* rule's directories, every container that has this directory has it from the same
\* volume; it leaves a directory out only if a container has it from a volume that
\* cannot be shared.
LogsReachSidecar ==
  LET sidecars == {c \in ToSet(pod.containers) : c.name = LogfwdContainer}
      match == Matches(given.logfwds, pod.namespace)
      At(c, p) == {m.name : m \in {x \in ToSet(c.mounts) : x.path = p}}
  IN  (match.found /\ ~ContainsContainer(given.pod, LogfwdContainer)) =>
        \A s \in sidecars, p \in ToSet(match.rule.paths) :
          LET holders == {c \in ToSet(pod.containers) \ {s} : At(c, p) # {}}
          IN  /\ holders # {}
              /\ IF At(s, p) # {} THEN \A c \in holders : At(c, p) = At(s, p)
                 ELSE \E c \in holders : \E v \in At(c, p) : ~IsEmptyDirVolume(pod, v)

(***************************************************************************)
(* What the documentation says and the code does not do                    *)
(***************************************************************************)
\* "the Operator merges the tags" (export/en/operator-ddtrace.md:191): the tags
\* that the user gave a container are all among the merged ones.
UserTagsKept ==
  [][Respond => \A i \in DOMAIN pod.containers :
       LET old == Tags(pod.containers[i].env)
           new == Tags(pod'.containers[i].env)
       IN  \A k \in DOMAIN old : old[k].kind = "plain" =>
             ToSet(old[k].value) \subseteq ToSet(new[k].value)]_vars
=============================================================================
