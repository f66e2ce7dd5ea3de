---------------------------- MODULE ReviewProofs ----------------------------
(***************************************************************************)
(* Several reviews of one pod.  The directories of the containers are      *)
(* followed to show that logs reach their sidecar; the variables of each   *)
(* container, to show that tags come after what they refer to and that     *)
(* what the user wrote is kept.                                            *)
(***************************************************************************)
EXTENDS InjectionProofs

-----------------------------------------------------------------------------
(* The directories of logfwd *)

\* A container has the directory.
Holds(c, path) == \E m \in ToSet(c.mounts) : m.path = path

\* The sidecar has a directory of these from another container, or leaves it out because
\* another container has it from a volume that cannot be shared.
Reached(p, paths) ==
  \A s \in DOMAIN p.containers :
    p.containers[s].name = LogfwdContainer =>
      \A path \in paths :
        /\ \E i \in DOMAIN p.containers \ {s} : Holds(p.containers[i], path)
        /\ \/ Holds(p.containers[s], path)
           \/ \E i \in DOMAIN p.containers \ {s} : \E m \in ToSet(p.containers[i].mounts) :
                m.path = path /\ ~IsEmptyDirVolume(p, m.name)

\* A volume keeps its source: the first of a name decides, and new ones come later.
LEMMA SourcesKept ==
  ASSUME NEW p, IsPod(p), NEW q, IsPod(q), Grows(p.volumes, q.volumes), NEW name \in Names(p.volumes)
  PROVE  IsEmptyDirVolume(q, name) <=> IsEmptyDirVolume(p, name)
<1> DEFINE s == p.volumes
           t == q.volumes
           I == {i \in 1..Len(s) : s[i].name = name}
           J == {i \in 1..Len(t) : t[i].name = name}
<1>1. s \in Seq(PodVolume) /\ t \in Seq(PodVolume)
  BY PodIs
<1>2. /\ DOMAIN s = 1..Len(s) /\ Len(s) \in Nat /\ Len(t) \in Nat /\ Len(s) <= Len(t)
      /\ \A i \in 1..Len(s) : t[i] = s[i]
      /\ \A i \in Len(s) + 1..Len(t) : t[i].name \notin Names(s)
  BY <1>1 DEF Grows
<1>3. /\ IsEmptyDirVolume(p, name) <=> (I # {} /\ Min(I) # 0 /\ s[Min(I)].source = "emptyDir")
      /\ IsEmptyDirVolume(q, name) <=> (J # {} /\ Min(J) # 0 /\ t[Min(J)].source = "emptyDir")
  BY DEF IsEmptyDirVolume, SelectInSeq
<1> HIDE DEF s, t
<1>4. J = I
  <2>1. \A i \in 1..Len(t) : i \in 1..Len(s) \/ i \in Len(s) + 1..Len(t)
    BY <1>2
  <2>2. \A i \in 1..Len(s) : i \in 1..Len(t)
    BY <1>2
  <2> QED BY <1>2, <2>1, <2>2 DEF s
<1>5. I \in SUBSET (1..Len(s))
  OBVIOUS
<1> HIDE DEF I, J
<1>6. I # {} => Min(I) \in 1..Len(s)
  BY <1>2, <1>5, MinIs
<1> QED BY <1>2, <1>3, <1>4, <1>6

\* What a step leaves as it is.
LEMMA StepKeeps ==
  ASSUME NEW p, IsPod(p), NEW q, Step(p, q)
  PROVE  /\ q.namespace = p.namespace
         /\ \A i \in DOMAIN p.containers :
              /\ i \in DOMAIN q.containers /\ q.containers[i].name = p.containers[i].name
              /\ ToSet(p.containers[i].mounts) \subseteq ToSet(q.containers[i].mounts)
         /\ \A i \in DOMAIN q.containers :
              i \in DOMAIN p.containers \/ q.containers[i].name \notin Names(p.containers)
         /\ \A name \in Names(p.volumes) : IsEmptyDirVolume(q, name) <=> IsEmptyDirVolume(p, name)
<1> DEFINE old == p.containers
           new == q.containers
           m == Len(old)
           n == Len(new)
<1>1. IsPod(q) /\ Extends(p, q)
  BY DEF Step
<1>2. old \in Seq(PodContainer) /\ new \in Seq(PodContainer)
  BY <1>1, PodIs
<1>3. m \in Nat /\ n \in Nat /\ DOMAIN old = 1..m /\ DOMAIN new = 1..n
  BY <1>2
<1>4. /\ m <= n /\ \A i \in 1..m : Edited(old[i], new[i])
      /\ \A i \in m + 1..n : new[i].name \notin Names(old)
      /\ q.namespace = p.namespace /\ Grows(p.volumes, q.volumes)
  BY <1>1 DEF Extends
<1>5. \A i \in 1..m : old[i] \in PodContainer /\ new[i] \in PodContainer
  BY <1>2, <1>3, <1>4
<1> HIDE DEF old, new, m, n
<1>6. ASSUME NEW i \in 1..m
      PROVE  i \in 1..n /\ new[i].name = old[i].name /\ ToSet(old[i].mounts) \subseteq ToSet(new[i].mounts)
  <2> DEFINE s == old[i].mounts
             t == new[i].mounts
  <2>1. s \in Seq(VolumeMount) /\ t \in Seq(VolumeMount)
    BY <1>5 DEF PodContainer
  <2>2. Grows(s, t)
    BY <1>4 DEF Edited
  <2> HIDE DEF s, t
  <2>3. \A j \in DOMAIN s : j \in DOMAIN t /\ t[j] = s[j]
    BY <2>1, <2>2 DEF Grows
  <2>4. ToSet(s) \subseteq ToSet(t)
    BY <2>3 DEF ToSet
  <2>5. i \in 1..n
    BY <1>3, <1>4
  <2> QED BY <1>4, <1>5, <2>4, <2>5, EditedKeepsName DEF s, t
<1>7. \A i \in 1..n : i \in 1..m \/ i \in m + 1..n
  BY <1>3
<1>8. \A name \in Names(p.volumes) : IsEmptyDirVolume(q, name) <=> IsEmptyDirVolume(p, name)
  BY <1>1, <1>4, SourcesKept
<1> QED BY <1>3, <1>4, <1>6, <1>7, <1>8 DEF old, new

\* Once the sidecar is there, it has its directories for good.
LEMMA ReachedKept ==
  ASSUME NEW p, IsPod(p), NEW own, Sound(p, own), NEW q, Step(p, q), NEW paths, Reached(p, paths),
         ContainsContainer(p, LogfwdContainer)
  PROVE  Reached(q, paths)
<1>1. /\ \A i \in DOMAIN p.containers :
           /\ i \in DOMAIN q.containers /\ q.containers[i].name = p.containers[i].name
           /\ ToSet(p.containers[i].mounts) \subseteq ToSet(q.containers[i].mounts)
      /\ \A i \in DOMAIN q.containers :
           i \in DOMAIN p.containers \/ q.containers[i].name \notin Names(p.containers)
      /\ \A name \in Names(p.volumes) : IsEmptyDirVolume(q, name) <=> IsEmptyDirVolume(p, name)
  BY StepKeeps
<1>2. \A i \in DOMAIN p.containers : \A m \in ToSet(p.containers[i].mounts) : m.name \in Names(p.volumes)
  BY DEF Sound, Acceptable, Names, ToSet
<1> SUFFICES ASSUME NEW s \in DOMAIN q.containers, q.containers[s].name = LogfwdContainer, NEW path \in paths
             PROVE  /\ \E i \in DOMAIN q.containers \ {s} : Holds(q.containers[i], path)
                    /\ \/ Holds(q.containers[s], path)
                       \/ \E i \in DOMAIN q.containers \ {s} : \E m \in ToSet(q.containers[i].mounts) :
                            m.path = path /\ ~IsEmptyDirVolume(q, m.name)
  BY DEF Reached
<1>3. s \in DOMAIN p.containers /\ p.containers[s].name = LogfwdContainer
  BY <1>1 DEF ContainsContainer
<1>4. \A i \in DOMAIN p.containers : Holds(p.containers[i], path) => Holds(q.containers[i], path)
  BY <1>1 DEF Holds
<1>5. /\ \E i \in DOMAIN p.containers \ {s} : Holds(p.containers[i], path)
      /\ \/ Holds(p.containers[s], path)
         \/ \E i \in DOMAIN p.containers \ {s} : \E m \in ToSet(p.containers[i].mounts) :
              m.path = path /\ ~IsEmptyDirVolume(p, m.name)
  BY <1>3 DEF Reached
<1>6. \E i \in DOMAIN q.containers \ {s} : Holds(q.containers[i], path)
  BY <1>1, <1>4, <1>5
<1>7. CASE Holds(p.containers[s], path)
  BY <1>3, <1>4, <1>6, <1>7
<1>8. ASSUME NEW i \in DOMAIN p.containers \ {s}, NEW m \in ToSet(p.containers[i].mounts),
             m.path = path, ~IsEmptyDirVolume(p, m.name)
      PROVE  \E j \in DOMAIN q.containers \ {s} : \E x \in ToSet(q.containers[j].mounts) :
               x.path = path /\ ~IsEmptyDirVolume(q, x.name)
  <2>1. i \in DOMAIN q.containers \ {s} /\ m \in ToSet(q.containers[i].mounts) /\ ~IsEmptyDirVolume(q, m.name)
    BY <1>1, <1>2, <1>8
  <2> QED BY <1>8, <2>1
<1> QED BY <1>5, <1>6, <1>7, <1>8

\* The rule whose directories these are, for a pod that came without the sidecar.
Wanted(p) == Matches(given.logfwds, p.namespace).found /\ ~ContainsContainer(given.pod, LogfwdContainer)
Directories(p) == ToSet(Matches(given.logfwds, p.namespace).rule.paths)

\* A pod that the sidecar can be added to: its new volumes are free.
Vacant(p) == p.containers # <<>> /\ Names(p.volumes) \cap ToSet(LogfwdVolumes) = {}
Reach(p) ==
  Wanted(p) => /\ ContainsContainer(p, LogfwdContainer) \/ Vacant(p)
               /\ Reached(p, Directories(p))

\* What the other stages do to a pod: they add other sidecars, and other volumes.
Widens(p, q) ==
  /\ Names(q.volumes) \subseteq Names(p.volumes) \cup OtherVolumes
  /\ ContainsContainer(q, LogfwdContainer) => ContainsContainer(p, LogfwdContainer)

\* The other stages keep what the sidecar has, or its volumes free.
LEMMA ReachWidened ==
  ASSUME FreshApart, NEW p, IsPod(p), NEW own, Sound(p, own), Reach(p), NEW q, Step(p, q), Widens(p, q)
  PROVE  Reach(q)
<1>1. q.namespace = p.namespace /\ DOMAIN p.containers \subseteq DOMAIN q.containers
  BY StepKeeps
<1>2. (Wanted(q) <=> Wanted(p)) /\ Directories(q) = Directories(p)
  BY <1>1 DEF Wanted, Directories
<1>3. CASE ContainsContainer(p, LogfwdContainer)
  <2>1. ContainsContainer(q, LogfwdContainer)
    BY <1>3, StepKeeps DEF ContainsContainer, Names
  <2> QED BY <1>2, <1>3, <2>1, ReachedKept DEF Reach
<1>4. CASE ~ContainsContainer(p, LogfwdContainer)
  <2>1. ~ContainsContainer(q, LogfwdContainer)
    BY <1>4 DEF Widens
  <2>2. Reached(q, Directories(q))
    BY <2>1 DEF Reached, ContainsContainer, Names
  <2>3. Vacant(p) => Vacant(q)
    <3>1. p.containers # <<>> => q.containers # <<>>
      <4>1. p.containers \in Seq(PodContainer) /\ q.containers \in Seq(PodContainer)
        BY PodIs DEF Step
      <4> QED BY <1>1, <4>1
    <3> QED BY <3>1 DEF Vacant, Widens, FreshApart
  <2> QED BY <1>2, <1>4, <2>2, <2>3 DEF Reach
<1> QED BY <1>3, <1>4

-----------------------------------------------------------------------------
(* What the other stages add *)

\* Widening changes can follow one another.
LEMMA WidensOn ==
  ASSUME NEW p, NEW q, Widens(p, q), NEW r, Widens(q, r)
  PROVE  Widens(p, r)
BY DEF Widens

\* A change of neither containers nor volumes.
LEMMA SameWidens ==
  ASSUME NEW p, NEW q, Names(q.containers) = Names(p.containers), q.volumes = p.volumes
  PROVE  Widens(p, q)
BY DEF Widens, ContainsContainer

\* The parts that sidecars are added with.
LEMMA PartsWiden ==
  ASSUME NEW p, IsPod(p)
  PROVE  /\ \A v \in PodVolume : v.name \in OtherVolumes => Widens(p, AddVolume(p, v))
         /\ \A c \in PodContainer : c.name # LogfwdContainer => Widens(p, AddContainer(p, c))
         /\ \A m \in VolumeMount : Widens(p, AddVolumeMount(p, m)) /\ Widens(p, AddMountIfFree(p, m))
         /\ Widens(p, ResetSpec(p)) /\ Widens(p, AddPrometheusAnnotations(p))
         /\ \A keys, v : Widens(p, Annotate(p, keys, v))
<1>1. p.volumes \in Seq(PodVolume) /\ p.containers \in Seq(PodContainer)
  BY PodIs
<1>2. ASSUME NEW v \in PodVolume, v.name \in OtherVolumes PROVE Widens(p, AddVolume(p, v))
  <2>1. AddVolume(p, v).containers = p.containers /\ AddVolume(p, v).volumes = AddNamed(p.volumes, v)
    BY PodIs DEF PodFields, AddVolume
  <2>2. Names(AddNamed(p.volumes, v)) = Names(p.volumes) \cup {v.name}
    BY <1>1, AddNamedIs
  <2> QED BY <1>2, <2>1, <2>2 DEF Widens, ContainsContainer
<1>3. ASSUME NEW c \in PodContainer, c.name # LogfwdContainer PROVE Widens(p, AddContainer(p, c))
  <2>1. AddContainer(p, c).volumes = p.volumes /\ AddContainer(p, c).containers = AddNamed(p.containers, c)
    BY PodIs DEF PodFields, AddContainer
  <2>2. Names(AddNamed(p.containers, c)) = Names(p.containers) \cup {c.name}
    BY <1>1, AddNamedIs
  <2> QED BY <1>3, <2>1, <2>2 DEF Widens, ContainsContainer
<1>4. ASSUME NEW m \in VolumeMount PROVE Widens(p, AddVolumeMount(p, m))
  <2>1. AddVolumeMount(p, m).volumes = p.volumes
    BY PodIs DEF PodFields, AddVolumeMount, EachContainer
  <2> QED BY <2>1, MountKeepsNames, SameWidens
<1>5. Widens(p, p)
  BY SameWidens
<1>6. ASSUME NEW m \in VolumeMount PROVE Widens(p, AddMountIfFree(p, m))
  BY <1>4, <1>5 DEF AddMountIfFree
<1>7. Widens(p, ResetSpec(p))
  <2>1. ResetSpec(p).containers = p.containers /\ ResetSpec(p).volumes = p.volumes
    BY PodIs DEF PodFields, ResetSpec
  <2> QED BY <2>1, SameWidens
<1>8. ASSUME NEW keys, NEW v PROVE Widens(p, Annotate(p, keys, v))
  <2>1. Annotate(p, keys, v).containers = p.containers /\ Annotate(p, keys, v).volumes = p.volumes
    BY PodIs DEF PodFields, Annotate
  <2> QED BY <2>1, SameWidens
<1>9. Widens(p, AddPrometheusAnnotations(p))
  BY <1>5, <1>8 DEF AddPrometheusAnnotations
<1> QED BY <1>2, <1>3, <1>4, <1>6, <1>7, <1>8, <1>9

\* A change in each container, with new volumes.
LEMMA EditsWiden ==
  ASSUME NEW p, IsPod(p), NEW q, Step(p, q), DOMAIN q.containers = DOMAIN p.containers,
         Names(q.volumes) \subseteq Names(p.volumes) \cup OtherVolumes
  PROVE  Widens(p, q)
<1>1. \A i \in DOMAIN p.containers : q.containers[i].name = p.containers[i].name
  BY StepKeeps
<1>2. Names(q.containers) = Names(p.containers)
  BY <1>1 DEF Names
<1> QED BY <1>2 DEF Widens, ContainsContainer

\* The tracers bring their volumes and no container.
LEMMA TracingWidens ==
  ASSUME given \in Cases, NEW p, IsPod(p), UniqueNames(p.containers)
  PROVE  Step(p, Traced(p)) /\ Widens(p, Traced(p))
<1> DEFINE q == Traced(p)
<1>1. given.ddtraces \in Seq(TracingRule) /\ given.otels \in Seq(TracingRule)
  BY CaseIs
<1>2. Step(p, q)
  BY <1>1, TracingStep DEF Traced
<1>3. \/ q = p
      \/ DDInit \in Names(p.init) /\ q = RepairJavaAgentEnv(p)
      \/ DDAdded(p, q, given.namespace, given.ddtraces)
      \/ OTelAdded(p, q, given.namespace, given.otels)
  BY <1>1, TracingForms DEF Traced
<1> SUFFICES Step(p, q) /\ Widens(p, q)
  OBVIOUS
<1> HIDE DEF q
<1>4. ASSUME NEW list, list = [i \in DOMAIN p.containers |-> list[i]], NEW init, NEW name \in LibraryVolumes, name \in Text,
             q = AddVolume(AddInitContainer([p EXCEPT !.containers = list], init), EmptyDir(name))
      PROVE  Widens(p, q)
  <2>1. q.containers = list /\ q.volumes = AddNamed(p.volumes, EmptyDir(name))
    BY <1>4, PodIs DEF PodFields, AddVolume, AddInitContainer
  <2>2. p.volumes \in Seq(PodVolume)
    BY PodIs
  <2>3. EmptyDir(name) \in PodVolume /\ EmptyDir(name).name = name
    BY <1>4, EmptyDirIs DEF EmptyDir, Volume
  <2>4. Names(q.volumes) = Names(p.volumes) \cup {name}
    BY <2>1, <2>2, <2>3, AddNamedIs
  <2>5. DOMAIN q.containers = DOMAIN p.containers
    BY <1>4, <2>1
  <2>6. name \in OtherVolumes
    BY DEF OtherVolumes
  <2> QED BY <1>2, <2>4, <2>5, <2>6, EditsWiden
<1>5. DDVolume \in LibraryVolumes /\ DDVolume \in Text /\ OTelVolume \in LibraryVolumes /\ OTelVolume \in Text
  BY TracingLiterals DEF LibraryVolumes
<1>6. CASE DDAdded(p, q, given.namespace, given.ddtraces)
  <2> DEFINE rule == SelectRule(p, MatchesAll(given.ddtraces, NamespaceOf(p, given.namespace)), "ddtrace").rule
             list == [i \in DOMAIN p.containers |-> DDTraced(p.containers[i], rule.language, BuildEnvs(rule.envs, p))]
  <2>1. PICK init \in PodContainer :
          q = AddVolume(AddInitContainer([p EXCEPT !.containers = list], init), EmptyDir(DDVolume))
    BY <1>6 DEF DDAdded
  <2>2. list = [i \in DOMAIN p.containers |-> list[i]]
    OBVIOUS
  <2> HIDE DEF list
  <2> QED BY <1>2, <1>4, <1>5, <2>1, <2>2
<1>7. CASE OTelAdded(p, q, given.namespace, given.otels)
  <2> DEFINE rule == SelectRule(p, MatchesAll(given.otels, NamespaceOf(p, given.namespace)), "otel").rule
             list == [i \in DOMAIN p.containers |-> OTelTraced(p.containers[i], rule.language, BuildEnvs(rule.envs, p))]
  <2>1. PICK init \in PodContainer :
          q = AddVolume(AddInitContainer([p EXCEPT !.containers = list], init), EmptyDir(OTelVolume))
    BY <1>7 DEF OTelAdded
  <2>2. list = [i \in DOMAIN p.containers |-> list[i]]
    OBVIOUS
  <2> HIDE DEF list
  <2> QED BY <1>2, <1>4, <1>5, <2>1, <2>2
<1>8. CASE q = RepairJavaAgentEnv(p)
  <2> DEFINE Repaired(c) == IF HasDDMount(c) /\ ~IsSourced(c, LoaderKey.java)
                            THEN LoadDD(c, LoaderKey.java) ELSE c
             list == [i \in DOMAIN p.containers |-> Repaired(p.containers[i])]
             r == [p EXCEPT !.containers = list]
  <2>1. q \in {p, r}
    BY <1>8 DEF RepairJavaAgentEnv, EachContainer
  <2>2. r.containers = list /\ r.volumes = p.volumes
    BY PodIs DEF PodFields
  <2>3. DOMAIN list = DOMAIN p.containers
    OBVIOUS
  <2> HIDE DEF list, r
  <2> QED BY <1>2, <2>1, <2>2, <2>3, EditsWiden
<1>9. CASE q = p
  BY <1>2, <1>9, SameWidens
<1> QED BY <1>2, <1>3, <1>6, <1>7, <1>8, <1>9

\* The sidecar of the flame graphs and its volume.
LEMMA FlameshotWidens ==
  ASSUME NEW p, IsPod(p), NEW rule \in FlameshotRules, NEW envs \in Seq(EnvVar),
         EnvIndex(envs, ProfilingPath) # 0
  PROVE  Widens(p, InjectFlameshot(p, rule, envs))
<1> DEFINE container == Container(FlameshotContainer, Image(rule.image, Blank), Blank, envs, <<>>)
           q == ResetSpec(p)
           r == AddContainer(q, container)
           v == EmptyDir(FlameshotVolume)
           s == AddVolume(r, v)
           m == Mount(FlameshotVolume, FlameshotPath(envs))
           t == AddVolumeMount(s, m)
           u == InjectFlameshot(p, rule, envs)
<1>1. u \in {t, AddPrometheusAnnotations(t)}
  BY DEF InjectFlameshot
<1>2. {FlameshotContainer, FlameshotVolume, Blank} \subseteq Text
  BY PodsLiterals, SidecarsLiterals
<1>3. container \in PodContainer
  <2> DEFINE image == Image(rule.image, Blank)
             mounts == <<>>
  <2>1. image \in [of: Text, version: Text]
    BY <1>2 DEF Image, FlameshotRules
  <2>2. mounts \in Seq(VolumeMount)
    OBVIOUS
  <2> HIDE DEF image, mounts
  <2> QED BY <1>2, <2>1, <2>2, ContainerIs DEF image, mounts
<1>4. container.name # LogfwdContainer
  BY DEF Container, FlameshotContainer, LogfwdContainer
<1> HIDE DEF container, u
<1>5. IsPod(q) /\ Widens(p, q)
  BY ResetStep, PartsWiden DEF Step
<1> HIDE DEF q
<1>6. IsPod(r) /\ Widens(q, r)
  BY <1>3, <1>4, <1>5, AddStep, PartsWiden DEF Step
<1> HIDE DEF r
<1>7. v \in PodVolume /\ v.name \in OtherVolumes
  BY <1>2, EmptyDirIs DEF EmptyDir, Volume, OtherVolumes
<1> HIDE DEF v
<1>8. IsPod(s) /\ Widens(r, s)
  BY <1>6, <1>7, AddStep, PartsWiden DEF Step
<1> HIDE DEF s
<1>9. m \in VolumeMount
  BY <1>2, FlameshotPathIs DEF Mount, VolumeMount
<1> HIDE DEF m
<1>10. IsPod(t) /\ Widens(s, t)
  BY <1>8, <1>9, MountStep, PartsWiden DEF Step
<1> HIDE DEF t
<1>11. Widens(t, AddPrometheusAnnotations(t))
  BY <1>10, PartsWiden
<1>12. Widens(p, t)
  <2>1. Widens(p, r)
    BY <1>5, <1>6, WidensOn
  <2>2. Widens(p, s)
    BY <1>8, <2>1, WidensOn
  <2> QED BY <1>10, <2>2, WidensOn
<1>13. Widens(p, AddPrometheusAnnotations(t))
  BY <1>11, <1>12, WidensOn
<1> QED BY <1>1, <1>12, <1>13 DEF u

\* Volumes that are added one by one.
WideInv(p, k, q) == IsPod(q) /\ Widens(p, q)
Widening == INSTANCE FoldTheory WITH Op <- VolumeAdded, Inv <- WideInv

\* Volumes of the profiler do not get in the way of logfwd.
LEMMA VolumesWiden ==
  ASSUME NEW p, IsPod(p), NEW volumes \in Seq(PodVolume),
         \A k \in DOMAIN volumes : volumes[k].name \in OtherVolumes
  PROVE  LET q == FoldLeft(AddVolume, p, volumes)
         IN  IsPod(q) /\ Widens(p, q)
<1> DEFINE n == Len(volumes)
           q == Widening!Fold(p, p, volumes)
<1>1. n \in Nat /\ DOMAIN volumes = 1..n /\ \A k \in 1..n : volumes[k] \in PodVolume /\ volumes[k].name \in OtherVolumes
  OBVIOUS
<1>2. FoldLeft(AddVolume, p, volumes) = q
  BY DEF FoldLeft, MapThenFoldSet, Max, Widening!Fold, Widening!Largest, VolumeAdded
<1> HIDE DEF n
<1>3. WideInv(p, 0, p)
  BY SameWidens DEF WideInv
<1>4. ASSUME NEW k \in 1..n, NEW a, WideInv(p, k - 1, a)
      PROVE  WideInv(p, k, VolumeAdded(p, a, volumes[k]))
  <2> DEFINE v == volumes[k]
             b == AddVolume(a, v)
  <2>1. IsPod(a) /\ Widens(p, a) /\ v \in PodVolume /\ v.name \in OtherVolumes
    BY <1>1, <1>4 DEF WideInv
  <2> HIDE DEF v
  <2>2. IsPod(b) /\ Widens(a, b)
    BY <2>1, AddStep, PartsWiden DEF Step
  <2> HIDE DEF b
  <2>3. WideInv(p, k, b)
    BY <2>1, <2>2, WidensOn DEF WideInv
  <2> QED BY <2>3 DEF VolumeAdded, b, v
<1>5. WideInv(p, n, q)
  BY <1>1, <1>3, <1>4, Widening!FoldKeeps, Least DEF Widening!Ordered
<1> QED BY <1>2, <1>5 DEF WideInv

\* The sidecar of the profiler and its volumes.
LEMMA ProfilerWidens ==
  ASSUME NEW p, IsPod(p), NEW rule \in ProfilerRules, NEW image \in [of: Text, version: Text]
  PROVE  Widens(p, InjectProfiler(p, rule, image))
<1> DEFINE q == ResetSpec(p)
           envs == SidecarEnvs(rule, q)
           container == Container(ProfilerContainer, image, Blank, envs, <<>>)
           r == AddContainer(q, container)
           volumes == <<EmptyDir(ProfilerMount.name), EmptyDir(TmpMount.name),
                        Volume(TimezoneMount.name, "hostPath")>>
           s == FoldLeft(AddVolume, r, volumes)
           t == AddVolumeMount(s, ProfilerMount)
           u == AddMountIfFree(t, TmpMount)
           w == AddMountIfFree(u, TimezoneMount)
<1>1. InjectProfiler(p, rule, image) = w
  BY DEF InjectProfiler
<1>2. /\ {ProfilerMount, TmpMount, TimezoneMount} \subseteq VolumeMount
      /\ ProfilerContainer \in Text /\ Blank \in Text
  BY PodsLiterals, SidecarsLiterals
<1>3. IsPod(q) /\ Widens(p, q)
  BY ResetStep, PartsWiden DEF Step
<1>4. envs \in Seq(EnvVar)
  BY SidecarEnvsAre DEF ProfilerRules
<1> HIDE DEF q, envs
<1>5. container \in PodContainer
  <2> DEFINE mounts == <<>>
  <2>1. mounts \in Seq(VolumeMount)
    OBVIOUS
  <2> HIDE DEF mounts
  <2> QED BY <1>2, <1>4, <2>1, ContainerIs DEF mounts
<1>6. container.name # LogfwdContainer
  BY DEF Container, ProfilerContainer, LogfwdContainer
<1> HIDE DEF container
<1>7. IsPod(r) /\ Widens(q, r)
  BY <1>3, <1>5, <1>6, AddStep, PartsWiden DEF Step
<1> HIDE DEF r
<1>8. volumes \in Seq(PodVolume) /\ \A k \in DOMAIN volumes : volumes[k] \in PodVolume /\ volumes[k].name \in OtherVolumes
  <2>1. ProfilerMount.name \in Text /\ TmpMount.name \in Text /\ TimezoneMount.name \in Text
    BY <1>2 DEF VolumeMount
  <2>2. \A n \in Text : EmptyDir(n) \in PodVolume /\ EmptyDir(n).name = n
    BY EmptyDirIs DEF EmptyDir, Volume
  <2>3. Volume(TimezoneMount.name, "hostPath") \in PodVolume /\ Volume(TimezoneMount.name, "hostPath").name = TimezoneMount.name
    BY <2>1, PodsLiterals DEF Volume, PodVolume
  <2> DEFINE a == EmptyDir(ProfilerMount.name)
             b == EmptyDir(TmpMount.name)
             d == Volume(TimezoneMount.name, "hostPath")
  <2>4. /\ a \in PodVolume /\ a.name \in OtherVolumes
        /\ b \in PodVolume /\ b.name \in OtherVolumes
        /\ d \in PodVolume /\ d.name \in OtherVolumes
    BY <2>1, <2>2, <2>3 DEF OtherVolumes
  <2>5. volumes = <<a, b, d>>
    OBVIOUS
  <2> HIDE DEF a, b, d, volumes
  <2> QED BY <2>4, <2>5
<1> HIDE DEF volumes
<1>9. IsPod(s) /\ Widens(r, s)
  BY <1>7, <1>8, VolumesWiden
<1> HIDE DEF s
<1>10. IsPod(t) /\ Widens(s, t)
  BY <1>2, <1>9, MountStep, PartsWiden DEF Step
<1> HIDE DEF t
<1>11. IsPod(u) /\ Widens(t, u)
  <2>1. TmpMount \in VolumeMount
    BY <1>2
  <2>2. Step(t, AddVolumeMount(t, TmpMount))
    BY <1>10, <2>1, MountStep
  <2>3. IsPod(u)
    BY <1>10, <2>2 DEF Step, AddMountIfFree
  <2> QED BY <1>10, <2>1, <2>3, PartsWiden
<1> HIDE DEF u
<1>12. Widens(u, w)
  BY <1>2, <1>11, PartsWiden
<1> HIDE DEF w
<1>13. Widens(p, r)
  BY <1>3, <1>7, WidensOn
<1>14. Widens(p, t)
  BY <1>9, <1>10, <1>13, WidensOn
<1>15. Widens(p, w)
  BY <1>11, <1>12, <1>14, WidensOn
<1> QED BY <1>1, <1>15

\* DataKit's own collection: the volumes are those of the mounts, or its own.
LEMMA LoggingWidens ==
  ASSUME NEW p, IsPod(p), NEW own, Sound(p, own), NEW config \in DOMAIN PathsOf,
         \A l \in Lengths : l <= Len(LogsVolumes), Clear(own, ConfiguredPaths)
  PROVE  Widens(p, Annotate(ShareVolumes(p, GetVolumePairs(p, Unique(PathsOf[config]), LogsVolumes)), {Logs}, config))
<1> DEFINE all == PathsOf[config]
           paths == Unique(all)
           pairs == GetVolumePairs(p, paths, LogsVolumes)
           q == ShareVolumes(p, pairs)
<1>1. all \in Seq(Text) /\ LogsVolumes \in Seq(Text) /\ Len(all) <= Len(LogsVolumes)
  BY PathsAssumption DEF Lengths
<1>2. ToSet(all) \subseteq ConfiguredPaths
  BY DEF ConfiguredPaths
<1> HIDE DEF all
<1>3. paths \in Seq(Text) /\ Len(paths) <= Len(LogsVolumes) /\ ToSet(paths) \subseteq ConfiguredPaths /\ Distinct(paths)
  <2>1. paths \in Seq(Text) /\ Len(paths) <= Len(all) /\ Distinct(paths)
    BY <1>1, UniqueIs, UniqueDistinct
  <2>2. all \in Seq(ToSet(all))
    BY <1>1, SeqOfItself
  <2>3. ToSet(paths) \subseteq ToSet(all)
    BY <2>2, UniqueSubset
  <2> HIDE DEF paths
  <2>4. Len(paths) \in Nat /\ Len(all) \in Nat /\ Len(LogsVolumes) \in Nat
    BY <1>1, <2>1
  <2> QED BY <1>1, <1>2, <2>1, <2>3, <2>4
<1> HIDE DEF paths
<1>4. OneVolume(MountsOf(p) \cup own) /\ \A m \in own : m.path \notin ToSet(paths)
  BY <1>3 DEF Sound, Clear
<1>5. pairs \in Seq(VolumeMount) /\ OneVolume(MountsOf(p) \cup own \cup ToSet(pairs))
  BY <1>1, <1>3, <1>4, PairsOneVolume
<1>6. Names(pairs) \subseteq MountNames(p) \cup ToSet(LogsVolumes)
  BY <1>1, <1>3, VolumePairsAre
<1> HIDE DEF pairs
<1>7. /\ IsPod(q) /\ Names(q.containers) = Names(p.containers)
      /\ Names(q.volumes) \subseteq Names(p.volumes) \cup Names(pairs)
  BY <1>5, ShareSound DEF WithMounts
<1> HIDE DEF q
<1>8. MountNames(p) \subseteq Names(p.volumes)
  BY DEF Sound, Acceptable, MountNames
<1>9. Widens(p, q)
  BY <1>6, <1>7, <1>8 DEF Widens, OtherVolumes, ContainsContainer
<1>10. Widens(q, Annotate(q, {Logs}, config))
  BY <1>7, PartsWiden
<1> QED BY <1>9, <1>10, WidensOn DEF q, pairs, paths, all

\* Every stage but that of logfwd.
LEMMA StagesWiden ==
  ASSUME given \in Cases, RulesSound(given), NEW p, IsPod(p), UniqueNames(p.containers), Sound(p, OwnMounts(given))
  PROVE  /\ Step(p, Traced(p)) /\ Widens(p, Traced(p))
         /\ Step(p, Flameshot(p)) /\ Widens(p, Flameshot(p))
         /\ Step(p, Profiler(p)) /\ Widens(p, Profiler(p))
         /\ Step(p, Logging(p)) /\ Widens(p, Logging(p))
<1>1. Step(p, Traced(p)) /\ Widens(p, Traced(p))
  BY TracingWidens
<1>2. Step(p, Flameshot(p)) /\ Step(p, Profiler(p)) /\ Step(p, Logging(p))
  BY CaseIs, FlameshotToPodCalm, ProfilerToPodCalm, LoggingCalm DEF Calm, Flameshot, Profiler, Logging
<1>3. Widens(p, p)
  BY SameWidens
<1>4. Widens(p, Flameshot(p))
  <2> DEFINE rules == given.flameshots
             match == Matches(rules, NamespaceOf(p, given.namespace))
             rule == match.rule
             e == Plain("FLAMESHOT_PROCESSES", <<rule.processes>>)
             first == SidecarEnvs(rule, p)
             envs == AddOrUpdateEnvVar(first, e, ReplaceExistingEnvVar)
  <2>1. \/ Flameshot(p) = p
        \/ /\ match.found /\ EnvIndex(envs, ProfilingPath) # 0
           /\ Flameshot(p) = InjectFlameshot(p, rule, envs)
    BY DEF Flameshot, InjectFlameshotToPod
  <2>2. ASSUME match.found, EnvIndex(envs, ProfilingPath) # 0 PROVE Widens(p, InjectFlameshot(p, rule, envs))
    <3>1. rule \in FlameshotRules
      <4>1. rules \in Seq(FlameshotRules)
        BY CaseIs
      <4> HIDE DEF rules
      <4> QED BY <2>2, <4>1, MatchesIs
    <3> HIDE DEF match, rule
    <3>2. e \in EnvVar
      <4>1. <<rule.processes>> \in Seq(Text)
        BY <3>1 DEF FlameshotRules
      <4> HIDE DEF rule
      <4> QED BY <4>1, SidecarsLiterals DEF Plain, Env, EnvVar, Kinds
    <3>3. first \in Seq(EnvVar)
      BY <3>1, SidecarEnvsAre DEF FlameshotRules
    <3> HIDE DEF e, first
    <3>4. envs \in Seq(EnvVar)
      BY <3>2, <3>3, AddOrUpdateIs, PlacedWithin
    <3> HIDE DEF envs
    <3> QED BY <2>2, <3>1, <3>4, FlameshotWidens
  <2> HIDE DEF match, rule, envs
  <2> QED BY <1>3, <2>1, <2>2
<1>5. Widens(p, Profiler(p))
  <2> DEFINE rules == given.profilers
             match == Matches(rules, NamespaceOf(p, given.namespace))
             rule == match.rule
             choice == ProfilerChoice(p, rule)
             name == ProfilerImage(rule, choice.language)
             image == Image(name, choice.version)
  <2>1. \/ Profiler(p) = p
        \/ match.found /\ choice.found /\ Profiler(p) = InjectProfiler(p, rule, image)
    BY DEF Profiler, InjectProfilerToPod
  <2>2. ASSUME match.found, choice.found PROVE Widens(p, InjectProfiler(p, rule, image))
    <3>1. rule \in ProfilerRules
      <4>1. rules \in Seq(ProfilerRules)
        BY CaseIs
      <4> HIDE DEF rules
      <4> QED BY <2>2, <4>1, MatchesIs
    <3> HIDE DEF match, rule
    <3>2. image \in [of: Text, version: Text]
      <4>1. choice.version \in Text /\ name \in Text
        BY <2>2, <3>1, ProfilerChoiceIs
      <4> HIDE DEF choice, name
      <4> QED BY <4>1 DEF Image
    <3> HIDE DEF image
    <3> QED BY <3>1, <3>2, ProfilerWidens
  <2> HIDE DEF match, rule, choice, image
  <2> QED BY <1>3, <2>1, <2>2
<1>6. Widens(p, Logging(p))
  <2> DEFINE own == OwnMounts(given)
             config == Matches(given.loggings, NamespaceOf(p, given.namespace)).rule.config
             q == Annotate(ShareVolumes(p, GetVolumePairs(p, Unique(PathsOf[config]), LogsVolumes)), {Logs}, config)
  <2>1. Logging(p) = p \/ (config \in DOMAIN PathsOf /\ Logging(p) = q)
    BY DEF Logging, MutateLoggingToPod
  <2>2. Clear(own, ConfiguredPaths) /\ \A l \in Lengths : l <= Len(LogsVolumes)
    BY RulesAre, CaseIs
  <2> HIDE DEF config, own
  <2>3. config \in DOMAIN PathsOf => Widens(p, q)
    BY <2>2, LoggingWidens DEF own
  <2> HIDE DEF q
  <2> QED BY <1>3, <2>1, <2>3
<1> QED BY <1>1, <1>2, <1>4, <1>5, <1>6

-----------------------------------------------------------------------------
(* The directories of logfwd's own volumes *)

\* The containers stay while volumes are added; then each has the mounts passed, those of
\* new volumes for sure.
BareInv(ctx, k, q) == IsPod(q) /\ q.containers = ctx.pod.containers
HeldInv(ctx, k, q) ==
  /\ IsPod(q) /\ DOMAIN q.containers = DOMAIN ctx.pod.containers
  /\ \A i \in DOMAIN q.containers :
       /\ Names(q.containers[i].mounts) \subseteq MountNames(ctx.pod) \cup {ctx.pairs[j].name : j \in 1..k}
       /\ \A j \in 1..k :
            ctx.pairs[j].name \notin MountNames(ctx.pod) => ctx.pairs[j] \in ToSet(q.containers[i].mounts)
Bare == INSTANCE FoldTheory WITH Op <- VolumeOp, Inv <- BareInv
Held == INSTANCE FoldTheory WITH Op <- MountOp, Inv <- HeldInv

\* One mount more in a container.
LEMMA MountHeld ==
  ASSUME NEW c \in PodContainer, NEW m \in VolumeMount
  PROVE  /\ ToSet(c.mounts) \subseteq ToSet(AddMountTo(c, m).mounts)
         /\ Names(AddMountTo(c, m).mounts) = Names(c.mounts) \cup {m.name}
         /\ m.name \notin Names(c.mounts) => m \in ToSet(AddMountTo(c, m).mounts)
<1> DEFINE s == c.mounts
           t == AddNamed(s, m)
<1>1. s \in Seq(VolumeMount) /\ AddMountTo(c, m).mounts = t
  BY DEF PodContainer, AddMountTo
<1> HIDE DEF s
<1>2. ToSet(s) \subseteq ToSet(t) /\ (m.name \notin Names(s) => t = Append(s, m))
  BY <1>1, AddedIs
<1>3. Names(t) = Names(s) \cup {m.name}
  BY <1>1, AddNamedIs
<1>4. m \in ToSet(Append(s, m))
  BY <1>1, AppendSet
<1> QED BY <1>1, <1>2, <1>3, <1>4 DEF s

\* Every container gets the mount of every new volume.
LEMMA ShareHolds ==
  ASSUME NEW p, IsPod(p), NEW pairs \in Seq(VolumeMount),
         \A i, j \in DOMAIN pairs : pairs[i].name = pairs[j].name /\ pairs[i].name \notin MountNames(p) => i = j
  PROVE  HeldInv([pod |-> p, pairs |-> pairs], Len(pairs), ShareVolumes(p, pairs))
<1> DEFINE ctx == [pod |-> p, pairs |-> pairs]
           n == Len(pairs)
           q == Bare!Fold(ctx, p, pairs)
<1>1. n \in Nat /\ DOMAIN pairs = 1..n /\ \A k \in 1..n : pairs[k] \in VolumeMount
  OBVIOUS
<1>2. ctx.pod = p /\ ctx.pairs = pairs
  OBVIOUS
<1> HIDE DEF n, ctx
<1>3. BareInv(ctx, 0, p)
  BY <1>2 DEF BareInv
<1>4. ASSUME NEW k \in 1..n, NEW a, BareInv(ctx, k - 1, a)
      PROVE  BareInv(ctx, k, VolumeOp(ctx, a, pairs[k]))
  <2> DEFINE v == EmptyDir(pairs[k].name)
  <2>1. IsPod(a) /\ a.containers = p.containers
    BY <1>2, <1>4 DEF BareInv
  <2>2. v \in PodVolume
    BY <1>1, EmptyDirIs DEF VolumeMount
  <2> HIDE DEF v
  <2>3. IsPod(AddVolume(a, v)) /\ AddVolume(a, v).containers = a.containers
    BY <2>1, <2>2, AddStep, PodIs DEF PodFields, AddVolume, Step
  <2> QED BY <1>2, <2>1, <2>3 DEF BareInv, VolumeOp, v
<1>5. BareInv(ctx, n, q)
  BY <1>1, <1>3, <1>4, Bare!FoldKeeps, Least DEF Bare!Ordered
<1> HIDE DEF q
<1>6. HeldInv(ctx, 0, q)
  <2>1. IsPod(q) /\ q.containers = p.containers
    BY <1>2, <1>5 DEF BareInv
  <2>2. \A i \in DOMAIN p.containers : Names(p.containers[i].mounts) \subseteq MountNames(p)
    BY DEF MountNames
  <2> QED BY <1>2, <2>1, <2>2 DEF HeldInv
<1>7. ASSUME NEW k \in 1..n, NEW a, HeldInv(ctx, k - 1, a)
      PROVE  HeldInv(ctx, k, MountOp(ctx, a, pairs[k]))
  <2> DEFINE m == pairs[k]
             list == [i \in DOMAIN a.containers |-> AddMountTo(a.containers[i], m)]
             b == AddVolumeMount(a, m)
             M == MountNames(p)
  <2>1. /\ IsPod(a) /\ DOMAIN a.containers = DOMAIN p.containers
        /\ \A i \in DOMAIN a.containers :
             /\ Names(a.containers[i].mounts) \subseteq M \cup {pairs[j].name : j \in 1..k - 1}
             /\ \A j \in 1..k - 1 : pairs[j].name \notin M => pairs[j] \in ToSet(a.containers[i].mounts)
    BY <1>2, <1>7 DEF HeldInv
  <2>2. m \in VolumeMount
    BY <1>1
  <2>3. /\ \A j \in 1..k : j \in 1..k - 1 \/ j = k
        /\ \A j \in 1..k - 1 : j \in 1..n /\ j \in 1..k /\ j # k
        /\ k \in 1..k
    BY <1>1
  <2>4. m.name \notin M => \A j \in 1..k - 1 : pairs[j].name # m.name
    BY <1>1, <2>3
  <2>5. m = pairs[k]
    OBVIOUS
  <2>6. b.containers = list
    BY <2>1, PodIs DEF PodFields, AddVolumeMount, EachContainer
  <2>7. IsPod(b)
    BY <2>1, <2>2, MountStep DEF Step
  <2> HIDE DEF m, M, b
  <2>8. ASSUME NEW i \in DOMAIN a.containers
        PROVE  /\ Names(list[i].mounts) \subseteq M \cup {pairs[j].name : j \in 1..k}
               /\ \A j \in 1..k : pairs[j].name \notin M => pairs[j] \in ToSet(list[i].mounts)
    <3> DEFINE c == a.containers[i]
               d == AddMountTo(c, m)
    <3>1. c \in PodContainer
      BY <2>1, PodIs
    <3>2. /\ Names(c.mounts) \subseteq M \cup {pairs[j].name : j \in 1..k - 1}
          /\ \A j \in 1..k - 1 : pairs[j].name \notin M => pairs[j] \in ToSet(c.mounts)
      BY <2>1
    <3>3. list[i] = d
      OBVIOUS
    <3> HIDE DEF c
    <3>4. /\ ToSet(c.mounts) \subseteq ToSet(d.mounts) /\ Names(d.mounts) = Names(c.mounts) \cup {m.name}
          /\ m.name \notin Names(c.mounts) => m \in ToSet(d.mounts)
      BY <2>2, <3>1, MountHeld
    <3> HIDE DEF d, list
    <3>5. Names(d.mounts) \subseteq M \cup {pairs[j].name : j \in 1..k}
      BY <2>3, <2>5, <3>2, <3>4
    <3>6. ASSUME NEW j \in 1..k, pairs[j].name \notin M PROVE pairs[j] \in ToSet(d.mounts)
      <4>1. CASE j \in 1..k - 1
        BY <3>2, <3>4, <3>6, <4>1
      <4>2. CASE j = k
        <5>1. m.name \notin Names(c.mounts)
          BY <2>4, <2>5, <3>2, <3>6, <4>2
        <5> QED BY <2>5, <3>4, <4>2, <5>1
      <4> QED BY <2>3, <4>1, <4>2
    <3> QED BY <3>3, <3>5, <3>6
  <2>9. DOMAIN list = DOMAIN a.containers
    OBVIOUS
  <2> HIDE DEF list
  <2>10. HeldInv(ctx, k, b)
    BY <1>2, <2>1, <2>6, <2>7, <2>8, <2>9 DEF HeldInv, M
  <2> QED BY <2>10 DEF MountOp, b, m
<1>8. HeldInv(ctx, n, Held!Fold(ctx, q, pairs))
  BY <1>1, <1>6, <1>7, Held!FoldKeeps, Least DEF Held!Ordered
<1>9. ShareVolumes(p, pairs) = Held!Fold(ctx, q, pairs)
  BY DEF ShareVolumes, FoldLeft, MapThenFoldSet, Max, Bare!Fold, Bare!Largest, VolumeOp, q,
         Held!Fold, Held!Largest, MountOp
<1> QED BY <1>8, <1>9 DEF ctx, n

\* No two pairs for one new volume.
LEMMA FreshPairs ==
  ASSUME FreshApart, NEW p, IsPod(p), NEW paths \in Seq(Text), Distinct(paths), Len(paths) <= Len(LogfwdVolumes)
  PROVE  LET pairs == GetVolumePairs(p, paths, LogfwdVolumes)
         IN  \A i, j \in DOMAIN pairs : pairs[i].name = pairs[j].name /\ pairs[i].name \notin MountNames(p) => i = j
<1> DEFINE pairs == GetVolumePairs(p, paths, LogfwdVolumes)
           ctx == [pod |-> p, paths |-> paths, fresh |-> LogfwdVolumes]
           n == Len(paths)
<1>1. LogfwdVolumes \in Seq(Text)
  BY PathsAssumption
<1>2. PlacedInv(ctx, n, pairs)
  BY <1>1, PairsPlaced
<1>3. ASSUME NEW i \in 1..n
      PROVE  /\ PairOf(ctx, i).name \notin MountNames(p) => PairOf(ctx, i).name = LogfwdVolumes[i]
             /\ i \in DOMAIN LogfwdVolumes
  <2>1. \A m \in MountsOf(p) : m.name \in MountNames(p)
    BY DEF MountsOf, MountNames, Names, ToSet
  <2>2. i \in DOMAIN LogfwdVolumes
    BY <1>1
  <2>3. /\ ~IsMountPath(p, paths[i]) => PairOf(ctx, i).name = LogfwdVolumes[i]
        /\ IsMountPath(p, paths[i]) => \E m \in MountsOf(p) : m.path = paths[i] /\ m.name = PairOf(ctx, i).name
    BY <1>1, PairOfIs
  <2> HIDE DEF ctx, n
  <2> QED BY <2>1, <2>2, <2>3
<1> HIDE DEF pairs, ctx, n
<1> SUFFICES ASSUME NEW i \in DOMAIN pairs, NEW j \in DOMAIN pairs, pairs[i].name = pairs[j].name,
                    pairs[i].name \notin MountNames(p)
             PROVE  i = j
  BY DEF pairs
<1>4. PICK a \in 1..n : pairs[i] = PairOf(ctx, a)
  BY <1>2 DEF PlacedInv
<1>5. PICK b \in 1..n : pairs[j] = PairOf(ctx, b)
  BY <1>2 DEF PlacedInv
<1>6. a = b
  BY <1>3, <1>4, <1>5 DEF FreshApart
<1> QED BY <1>2, <1>4, <1>5, <1>6 DEF PlacedInv, OneEach

\* The sidecar gets the directories of its rule, as soon as it is added.
LEMMA LogfwdReaches ==
  ASSUME FreshApart, NEW p, IsPod(p), NEW own, Sound(p, own), Vacant(p), PodInfoMount \in own,
         NEW rule \in LogfwdRules, LogfwdNamesSuffice(rule), Clear(own, ToSet(rule.paths) \cup ConfiguredPaths),
         ~ContainsContainer(p, LogfwdContainer)
  PROVE  LET q == InjectLogfwd(p, rule)
         IN  Step(p, q) /\ ContainsContainer(q, LogfwdContainer) /\ Reached(q, ToSet(rule.paths))
<1>1. PICK paths \in Seq(Text), c \in PodContainer :
        LET pairs == GetVolumePairs(p, paths, LogfwdVolumes)
        IN  /\ InjectLogfwd(p, rule) =
                 AddContainer(AddVolume(ShareVolumes(p, pairs), Volume(PodInfo, "downwardAPI")), c)
            /\ Len(paths) <= Len(LogfwdVolumes)
            /\ ToSet(paths) \subseteq ToSet(rule.paths) \cup ConfiguredPaths
            /\ c.name = LogfwdContainer
            /\ paths = LogfwdPaths(p, rule)
            /\ c.mounts = LogfwdMounts(pairs)
  BY LogfwdParts
<1> DEFINE pairs == GetVolumePairs(p, paths, LogfwdVolumes)
           info == Volume(PodInfo, "downwardAPI")
           r == ShareVolumes(p, pairs)
           s == AddVolume(r, info)
           q == InjectLogfwd(p, rule)
           M == MountsOf(p)
           n == Len(paths)
           ctx == [pod |-> p, paths |-> paths, fresh |-> LogfwdVolumes]
<1>2. q = AddContainer(s, c) /\ c.mounts = LogfwdMounts(pairs) /\ c.name = LogfwdContainer
  BY <1>1
<1>3. Step(p, q)
  BY LogfwdCalm DEF Calm
<1> SUFFICES ContainsContainer(q, LogfwdContainer) /\ Reached(q, ToSet(rule.paths))
  BY <1>3
<1> HIDE DEF q
<1>4. Distinct(paths) /\ ToSet(rule.paths) \subseteq ToSet(paths)
  <2> DEFINE a == LogPaths(InstancesConfig(p))
             b == LogPaths(LogConfigsConfig(rule))
             joined == a \o b \o rule.paths
  <2>1. a \in Seq(Text) /\ b \in Seq(Text) /\ rule.paths \in Seq(Text)
    BY LogPathsTyped DEF LogfwdRules
  <2>2. paths = Unique(joined)
    BY <1>1 DEF LogfwdPaths
  <2> HIDE DEF a, b
  <2>3. a \o b \in Seq(Text)
    BY <2>1, ConcatSet
  <2>4. joined \in Seq(Text) /\ ToSet(rule.paths) \subseteq ToSet(joined)
    BY <2>1, <2>3, ConcatSet
  <2> HIDE DEF joined
  <2>5. Distinct(Unique(joined)) /\ ToSet(joined) \subseteq ToSet(Unique(joined))
    BY <2>4, UniqueDistinct
  <2> QED BY <2>2, <2>4, <2>5
<1>5. OneVolume(M \cup own) /\ Clear(own, ToSet(paths))
  BY <1>1 DEF Sound, Clear
<1>6. LogfwdVolumes \in Seq(Text) /\ n \in Nat /\ DOMAIN paths = 1..n /\ Len(paths) <= Len(LogfwdVolumes)
  BY <1>1, PathsAssumption
<1>7. /\ pairs \in Seq(VolumeMount) /\ OneEach(pairs)
      /\ \A m \in ToSet(pairs) : m.path \in ToSet(paths)
  BY <1>1, <1>4, <1>5, <1>6, PairsOneVolume DEF Clear
<1>8. PlacedInv(ctx, n, pairs)
  BY <1>1, <1>4, <1>6, PairsPlaced
<1>9. \A i, j \in DOMAIN pairs : pairs[i].name = pairs[j].name /\ pairs[i].name \notin MountNames(p) => i = j
  BY <1>1, <1>4, FreshPairs
<1>10. ASSUME NEW i \in 1..n
       PROVE  /\ PairOf(ctx, i).path = paths[i]
              /\ ~IsMountPath(p, paths[i]) => PairOf(ctx, i).name = LogfwdVolumes[i] /\ LogfwdVolumes[i] \in ToSet(LogfwdVolumes)
              /\ IsMountPath(p, paths[i]) => \E m \in M : m.path = paths[i] /\ m.name = PairOf(ctx, i).name
  <2>1. LogfwdVolumes[i] \in ToSet(LogfwdVolumes)
    BY <1>6 DEF ToSet
  <2>2. /\ PairOf(ctx, i).path = paths[i]
        /\ ~IsMountPath(p, paths[i]) => PairOf(ctx, i).name = LogfwdVolumes[i]
        /\ IsMountPath(p, paths[i]) => \E m \in MountsOf(p) : m.path = paths[i] /\ m.name = PairOf(ctx, i).name
    BY <1>1, <1>6, PairOfIs
  <2> HIDE DEF ctx
  <2> QED BY <2>1, <2>2
<1>11. ASSUME NEW i \in 1..n
       PROVE  Shareable(ctx, i) <=> (IsMountPath(p, paths[i]) => IsEmptyDirVolume(p, PairOf(ctx, i).name))
  BY DEF Shareable, PairOf, Mount
<1>12. \A y \in ToSet(pairs) : \E x \in ToSet(c.mounts) : x.path = y.path /\ x.name = y.name
  <2>1. \A m \in ToSet(pairs) : m.path # PodInfoMount.path
    BY <1>5, <1>7 DEF Clear
  <2> HIDE DEF pairs
  <2> QED BY <1>2, <1>7, <2>1, LogfwdMountsAre
<1> HIDE DEF pairs, ctx, M, n
<1>13. HeldInv([pod |-> p, pairs |-> pairs], Len(pairs), r)
  BY <1>7, <1>9, ShareHolds
<1>14. /\ IsPod(r) /\ DOMAIN r.containers = DOMAIN p.containers
       /\ \A i \in DOMAIN r.containers : \A j \in DOMAIN pairs :
            pairs[j].name \notin MountNames(p) => pairs[j] \in ToSet(r.containers[i].mounts)
  <2>1. DOMAIN pairs = 1..Len(pairs)
    BY <1>7
  <2> HIDE DEF r
  <2> QED BY <1>13, <2>1 DEF HeldInv
<1>15. /\ Names(r.containers) = Names(p.containers)
  <2>1. WithMounts([pod |-> p, own |-> {}, pairs |-> pairs], 0, r)
    <3>1. OneVolume(MountsOf(p) \cup own \cup ToSet(pairs))
      BY <1>1, <1>4, <1>5, <1>6, PairsOneVolume DEF Clear, pairs, M
    <3>2. Sound(p, {}) /\ OneVolume(MountsOf(p) \cup {} \cup ToSet(pairs))
      BY <1>5, <3>1, OneVolumeLess DEF Sound, M
    <3> QED BY <1>7, <3>2, ShareSound
  <2> QED BY <2>1 DEF WithMounts
<1> HIDE DEF r
<1>16. IsPod(s) /\ s.containers = r.containers
  <2>1. info \in PodVolume
    BY SidecarsLiterals, PodsLiterals DEF Volume, PodVolume
  <2> HIDE DEF info
  <2> QED BY <1>14, <2>1, AddStep, PodIs DEF PodFields, AddVolume, Step
<1> HIDE DEF s
<1> DEFINE old == r.containers
           k == Len(old)
<1>17. old \in Seq(PodContainer) /\ k \in Nat /\ DOMAIN old = 1..k
  BY <1>14, PodIs
<1>18. q.containers = Append(old, c)
  <2>1. c.name \notin Names(old)
    BY <1>2, <1>15 DEF ContainsContainer
  <2>2. AddNamed(old, c) = Append(old, c)
    BY <2>1 DEF AddNamed
  <2> QED BY <1>2, <1>16, <2>2, PodIs DEF PodFields, AddContainer
<1>19. /\ DOMAIN q.containers = 1..k + 1 /\ q.containers[k + 1] = c
       /\ \A i \in 1..k : q.containers[i] = old[i] /\ i \in 1..k + 1 /\ i # k + 1
       /\ k + 1 \in 1..k + 1
       /\ \A i \in 1..k + 1 : i \in 1..k \/ i = k + 1
  BY <1>17, <1>18, AppendProperties
<1>20. DOMAIN p.containers = 1..k /\ 1 \in 1..k
  <2>1. p.containers # <<>> /\ p.containers \in Seq(PodContainer)
    BY PodIs DEF Vacant
  <2>2. DOMAIN p.containers = 1..k
    BY <1>14, <1>17
  <2>3. 1 \in DOMAIN p.containers
    BY <2>1
  <2> QED BY <2>2, <2>3
<1> HIDE DEF old, k
<1>21. ContainsContainer(q, LogfwdContainer)
  BY <1>2, <1>19 DEF ContainsContainer, Names
<1>22. /\ \A i \in 1..k : q.containers[i].name = p.containers[i].name
                          /\ ToSet(p.containers[i].mounts) \subseteq ToSet(q.containers[i].mounts)
       /\ \A name \in Names(p.volumes) : IsEmptyDirVolume(q, name) <=> IsEmptyDirVolume(p, name)
  <2>1. /\ \A i \in DOMAIN p.containers :
             /\ i \in DOMAIN q.containers /\ q.containers[i].name = p.containers[i].name
             /\ ToSet(p.containers[i].mounts) \subseteq ToSet(q.containers[i].mounts)
        /\ \A name \in Names(p.volumes) : IsEmptyDirVolume(q, name) <=> IsEmptyDirVolume(p, name)
    BY <1>3, StepKeeps
  <2> QED BY <1>20, <2>1
<1>23. \A m \in M : m.name \in Names(p.volumes) /\ \E i \in 1..k : m \in ToSet(q.containers[i].mounts)
  <2>1. ASSUME NEW i \in 1..k, NEW m \in ToSet(p.containers[i].mounts) PROVE m.name \in Names(p.volumes)
    <3>1. Acceptable(p.containers[i], Names(p.volumes))
      BY <1>20 DEF Sound
    <3>2. m.name \in Names(p.containers[i].mounts)
      BY DEF ToSet, Names
    <3> QED BY <3>1, <3>2 DEF Acceptable
  <2>2. \A m \in M : \E i \in 1..k : m \in ToSet(p.containers[i].mounts)
    BY <1>20 DEF M, MountsOf
  <2> QED BY <1>22, <2>1, <2>2
<1>24. ASSUME NEW path \in ToSet(rule.paths)
       PROVE  /\ \E i \in 1..k : Holds(q.containers[i], path)
              /\ \/ Holds(c, path)
                 \/ \E i \in 1..k : \E m \in ToSet(q.containers[i].mounts) : m.path = path /\ ~IsEmptyDirVolume(q, m.name)
  <2>1. PICK a \in 1..n : paths[a] = path
    BY <1>4, <1>6 DEF ToSet
  <2> DEFINE pair == PairOf(ctx, a)
  <2>2. pair.path = path
    BY <1>10, <2>1
  <2>3. Shareable(ctx, a) => pair \in ToSet(pairs)
    BY <1>8 DEF PlacedInv
  <2>4. Shareable(ctx, a) => Holds(c, path)
    BY <1>12, <2>2, <2>3 DEF Holds
  <2>5. CASE IsMountPath(p, path)
    <3>1. PICK m \in M : m.path = path /\ m.name = pair.name
      BY <1>10, <2>1, <2>5
    <3>2. PICK i \in 1..k : m \in ToSet(q.containers[i].mounts)
      BY <1>23
    <3>3. Holds(q.containers[i], path)
      BY <3>1, <3>2 DEF Holds
    <3>4. ~Shareable(ctx, a) => ~IsEmptyDirVolume(q, m.name)
      BY <1>11, <1>22, <1>23, <2>1, <3>1
    <3> QED BY <2>4, <3>1, <3>2, <3>3, <3>4
  <2>6. CASE ~IsMountPath(p, path)
    <3>1. Shareable(ctx, a) /\ pair \in ToSet(pairs) /\ pair.name \in ToSet(LogfwdVolumes)
      BY <1>10, <1>11, <2>1, <2>3, <2>6
    <3>2. pair.name \notin MountNames(p)
      <4>1. MountNames(p) \subseteq Names(p.volumes)
        BY DEF Sound, Acceptable, MountNames
      <4> QED BY <3>1, <4>1 DEF Vacant
    <3>3. pair \in ToSet(q.containers[1].mounts)
      <4>1. PICK j \in DOMAIN pairs : pair = pairs[j]
        BY <3>1 DEF ToSet
      <4> QED BY <1>14, <1>17, <1>19, <1>20, <3>2, <4>1 DEF old
    <3>4. Holds(q.containers[1], path)
      BY <2>2, <3>3 DEF Holds
    <3> QED BY <1>20, <2>4, <3>1, <3>4
  <2> QED BY <2>5, <2>6
<1>25. ASSUME NEW x \in DOMAIN q.containers, q.containers[x].name = LogfwdContainer
       PROVE  x = k + 1
  <2>1. \A i \in 1..k : q.containers[i].name # LogfwdContainer
    BY <1>20, <1>22 DEF ContainsContainer, Names
  <2> QED BY <1>19, <1>25, <2>1
<1>26. Reached(q, ToSet(rule.paths))
  <2>1. \A i \in 1..k : i \in DOMAIN q.containers \ {k + 1}
    BY <1>19
  <2> QED BY <1>19, <1>24, <1>25, <2>1 DEF Reached
<1> QED BY <1>21, <1>26

\* The stage of logfwd.
LEMMA LogfwdStageReaches ==
  ASSUME given \in Cases, RulesSound(given), FreshApart, NEW p, IsPod(p), Sound(p, OwnMounts(given)), Reach(p)
  PROVE  Reach(Logfwd(p))
<1> DEFINE own == OwnMounts(given)
           rules == given.logfwds
           match == Matches(rules, p.namespace)
           rule == match.rule
           q == InjectLogfwd(p, rule)
<1>1. \/ Logfwd(p) = p
      \/ match.found /\ ~ContainsContainer(p, LogfwdContainer) /\ Logfwd(p) = q
  BY DEF Logfwd, InjectLogfwdToPod
<1>2. ASSUME match.found, ~ContainsContainer(p, LogfwdContainer) PROVE Reach(q)
  <2>1. rule \in LogfwdRules /\ rule \in ToSet(rules)
    <3>1. rules \in Seq(LogfwdRules)
      BY CaseIs
    <3> HIDE DEF rules
    <3> QED BY <1>2, <3>1, MatchesIs
  <2>2. Wanted(p) => Vacant(p)
    BY <1>2 DEF Reach
  <2>3. Directories(p) = ToSet(rule.paths)
    BY DEF Directories
  <2> HIDE DEF match, rule
  <2>4. LogfwdNamesSuffice(rule) /\ PodInfoMount \in own /\ Clear(own, ToSet(rule.paths) \cup ConfiguredPaths)
    BY <2>1, CaseIs, RulesAre
  <2>5. Step(p, q)
    BY <2>1, <2>4, LogfwdCalm DEF Calm
  <2>6. Vacant(p) => ContainsContainer(q, LogfwdContainer) /\ Reached(q, ToSet(rule.paths))
    <3> HIDE DEF own
    <3>1. Sound(p, own)
      BY DEF own
    <3> QED BY <1>2, <2>1, <2>4, <3>1, LogfwdReaches
  <2> HIDE DEF q
  <2>7. q.namespace = p.namespace
    BY <2>5, StepKeeps
  <2>8. (Wanted(q) <=> Wanted(p)) /\ Directories(q) = Directories(p)
    BY <2>7 DEF Wanted, Directories
  <2> QED BY <2>2, <2>3, <2>6, <2>8 DEF Reach
<1> HIDE DEF match, q
<1> QED BY <1>1, <1>2

\* The variables do not matter.
LEMMA SameReach ==
  ASSUME NEW p, Reach(p), NEW q, q.namespace = p.namespace, q.volumes = p.volumes,
         DOMAIN q.containers = DOMAIN p.containers,
         \A i \in DOMAIN p.containers :
            q.containers[i].name = p.containers[i].name /\ q.containers[i].mounts = p.containers[i].mounts,
         p.containers # <<>> => q.containers # <<>>
  PROVE  Reach(q)
<1>1. (Wanted(q) <=> Wanted(p)) /\ Directories(q) = Directories(p)
  BY DEF Wanted, Directories
<1>2. \A name : IsEmptyDirVolume(q, name) <=> IsEmptyDirVolume(p, name)
  BY DEF IsEmptyDirVolume
<1>3. Names(q.containers) = Names(p.containers)
  BY DEF Names
<1>4. (ContainsContainer(q, LogfwdContainer) <=> ContainsContainer(p, LogfwdContainer)) /\ (Vacant(p) => Vacant(q))
  BY <1>3 DEF ContainsContainer, Vacant
<1>5. \A i \in DOMAIN p.containers : \A path : Holds(q.containers[i], path) <=> Holds(p.containers[i], path)
  BY DEF Holds
<1>6. ASSUME NEW paths, Reached(p, paths) PROVE Reached(q, paths)
  <2> SUFFICES ASSUME NEW s \in DOMAIN p.containers, q.containers[s].name = LogfwdContainer, NEW path \in paths
               PROVE  /\ \E i \in DOMAIN p.containers \ {s} : Holds(q.containers[i], path)
                      /\ \/ Holds(q.containers[s], path)
                         \/ \E i \in DOMAIN p.containers \ {s} : \E m \in ToSet(q.containers[i].mounts) :
                              m.path = path /\ ~IsEmptyDirVolume(q, m.name)
    BY DEF Reached
  <2>1. /\ \E i \in DOMAIN p.containers \ {s} : Holds(p.containers[i], path)
        /\ \/ Holds(p.containers[s], path)
           \/ \E i \in DOMAIN p.containers \ {s} : \E m \in ToSet(p.containers[i].mounts) :
                m.path = path /\ ~IsEmptyDirVolume(p, m.name)
    BY <1>6 DEF Reached
  <2> QED BY <1>2, <1>5, <2>1
<1> QED BY <1>1, <1>4, <1>6 DEF Reach

\* The inductive invariant: the sidecar has its directories in the pod of the cluster and
\* in the one under review, or is not there yet and will find its volumes free.
AllReach == Reach(pod) /\ Reach(work)

\* Every step keeps the invariant: a stage widens the pod, or adds the sidecar with its directories.
LEMMA ReachNext ==
  ASSUME CasesSound, FreshApart, IInv, AllSound, AllReach, [Next]_vars
  PROVE  AllReach'
<1> DEFINE own == OwnMounts(given)
<1>1. /\ IsPod(pod) /\ UniqueNames(pod.containers) /\ IsPod(work) /\ UniqueNames(work.containers)
      /\ Extends(pod, work) /\ given \in Cases /\ RulesSound(given) /\ LateAreSound
      /\ Sound(pod, own) /\ Sound(work, own) /\ Reach(pod) /\ Reach(work)
  BY DEF IInv, Inv, TypeOK, AllSound, AllReach, CasesSound
<1>2. ASSUME given' = given, Reach(pod'), Reach(work') PROVE AllReach'
  BY <1>2 DEF AllReach, Reach, Wanted, Directories
<1>3. Reach(Logfwd(work))
  BY <1>1, LogfwdStageReaches
<1>4. /\ Step(work, Traced(work)) /\ Widens(work, Traced(work))
      /\ Step(work, Flameshot(work)) /\ Widens(work, Flameshot(work))
      /\ Step(work, Profiler(work)) /\ Widens(work, Profiler(work))
      /\ Step(work, Logging(work)) /\ Widens(work, Logging(work))
  BY <1>1, StagesWiden
<1> HIDE DEF own
<1>5. /\ Reach(Traced(work)) /\ Reach(Flameshot(work)) /\ Reach(Profiler(work)) /\ Reach(Logging(work))
  BY <1>1, <1>4, ReachWidened
<1>6. ASSUME NEW i \in 1..5, NEW q, Reach(q), Inject(i, q) PROVE AllReach'
  BY <1>1, <1>2, <1>6 DEF Inject
<1>7. 1 \in 1..5 /\ 2 \in 1..5 /\ 3 \in 1..5 /\ 4 \in 1..5 /\ 5 \in 1..5
  OBVIOUS
<1>8. CASE Receive
  BY <1>1, <1>2, <1>8 DEF Receive
<1>9. CASE InjectTracing
  BY <1>5, <1>6, <1>7, <1>9 DEF InjectTracing, Traced
<1>10. CASE InjectLogfwdSidecar
  BY <1>3, <1>6, <1>7, <1>10 DEF InjectLogfwdSidecar, Logfwd
<1>11. CASE InjectFlameshotSidecar
  BY <1>5, <1>6, <1>7, <1>11 DEF InjectFlameshotSidecar, Flameshot
<1>12. CASE InjectProfilerSidecar
  BY <1>5, <1>6, <1>7, <1>12 DEF InjectProfilerSidecar, Profiler
<1>13. CASE MutateLogging
  BY <1>5, <1>6, <1>7, <1>13 DEF MutateLogging, Logging
<1>14. CASE Respond
  <2>1. pod' = work
    BY <1>1, <1>14, PatchLeads DEF Respond
  <2> QED BY <1>1, <1>2, <1>14, <2>1 DEF Respond
<1>15. CASE Lose
  BY <1>1, <1>2, <1>15 DEF Lose
<1>16. CASE OtherAdds
  <2>1. PICK c \in LateSidecars : Other(AddContainer(pod, c))
    BY <1>16 DEF OtherAdds
  <2>2. c \in PodContainer /\ c.name # LogfwdContainer
    BY InjectionAssumption DEF FreshApart, LateNames
  <2> DEFINE q == AddContainer(pod, c)
  <2>3. Step(pod, q) /\ Widens(pod, q)
    BY <1>1, <2>2, AddStep, PartsWiden
  <2>4. Other(q)
    BY <2>1
  <2> HIDE DEF q
  <2>5. Reach(q)
    BY <1>1, <2>3, ReachWidened
  <2> QED BY <1>2, <2>4, <2>5 DEF Other
<1>17. CASE OtherResetsEnv
  <2>1. PICK i \in DOMAIN pod.containers : Other([pod EXCEPT !.containers[i].env = <<>>])
    BY <1>17 DEF OtherResetsEnv
  <2> DEFINE q == [pod EXCEPT !.containers[i].env = <<>>]
             old == pod.containers
             c == [old[i] EXCEPT !.env = <<>>]
             new == [old EXCEPT ![i] = c]
  <2>2. Other(q)
    BY <2>1
  <2>3. old \in Seq(PodContainer) /\ DOMAIN pod = PodFields
    BY <1>1, PodIs
  <2>4. q = [pod EXCEPT !.containers = new]
    OBVIOUS
  <2>5. c.name = old[i].name /\ c.mounts = old[i].mounts
    <3>1. old[i] \in PodContainer
      BY <2>3
    <3> HIDE DEF old
    <3> QED BY <3>1 DEF PodContainer
  <2>6. q.namespace = pod.namespace /\ q.volumes = pod.volumes /\ q.containers = new
    <3> HIDE DEF new, q
    <3> QED BY <2>3, <2>4 DEF PodFields
  <2> HIDE DEF c, q
  <2>7. DOMAIN new = DOMAIN old /\ \A j \in DOMAIN old : new[j].name = old[j].name /\ new[j].mounts = old[j].mounts
    BY <2>5
  <2>8. new # <<>>
    <3>1. i \in DOMAIN new
      BY <2>7
    <3> HIDE DEF new
    <3> QED BY <3>1
  <2> HIDE DEF new
  <2>9. Reach(q)
    BY <1>1, <2>6, <2>7, <2>8, SameReach
  <2> QED BY <1>2, <2>2, <2>9 DEF Other
<1>18. CASE UNCHANGED vars
  BY <1>1, <1>2, <1>18 DEF vars
<1> QED BY <1>8, <1>9, <1>10, <1>11, <1>12, <1>13, <1>14, <1>15, <1>16, <1>17, <1>18 DEF Next

\* At first the sidecar is not there.
LEMMA ReachInit ==
  ASSUME \A c \in Cases : FreeNames(c), Init
  PROVE  AllReach
<1>1. pod = given.pod /\ work = given.pod /\ given \in Cases
  BY DEF Init
<1>2. ASSUME Wanted(given.pod)
      PROVE  ~ContainsContainer(given.pod, LogfwdContainer) /\ Vacant(given.pod)
  <2>1. given.logfwds # <<>>
    BY <1>2 DEF Wanted, Matches, SelectInSeq
  <2> QED BY <1>1, <1>2, <2>1 DEF FreeNames, Vacant, Wanted
<1>3. ASSUME Wanted(given.pod) PROVE Reached(given.pod, Directories(given.pod))
  BY <1>2, <1>3 DEF Reached, ContainsContainer, Names
<1> QED BY <1>1, <1>2, <1>3 DEF AllReach, Reach

\* The logs reach the sidecar: over any number of reviews and changes by other webhooks,
\* it shares each directory of its rule with the containers that write there.
THEOREM LogsReachSidecarHolds ==
  ASSUME CasesSound, FreshApart, \A c \in Cases : FreeNames(c)
  PROVE  Spec => []LogsReachSidecar
<1>1. Init => AllReach
  BY ReachInit
<1>2. IInv /\ AllSound /\ AllReach /\ [Next]_vars => AllReach'
  BY ReachNext
<1>3. ASSUME IInv, AllSound, AllReach PROVE LogsReachSidecar
  <2> DEFINE list == pod.containers
             match == Matches(given.logfwds, pod.namespace)
             sidecars == {c \in ToSet(list) : c.name = LogfwdContainer}
             At(c, p) == {m.name : m \in {x \in ToSet(c.mounts) : x.path = p}}
  <2>1. UniqueNames(list) /\ OneVolume(MountsOf(pod)) /\ Reach(pod)
    BY <1>3, OneVolumeLess DEF IInv, Inv, AllSound, AllReach, Sound
  <2> SUFFICES ASSUME match.found, ~ContainsContainer(given.pod, LogfwdContainer),
                      NEW s \in sidecars, NEW p \in ToSet(match.rule.paths)
               PROVE  LET holders == {c \in ToSet(list) \ {s} : At(c, p) # {}}
                      IN  /\ holders # {}
                          /\ IF At(s, p) # {} THEN \A c \in holders : At(c, p) = At(s, p)
                             ELSE \E c \in holders : \E v \in At(c, p) : ~IsEmptyDirVolume(pod, v)
    BY DEF LogsReachSidecar
  <2>2. PICK k \in DOMAIN list : s = list[k] /\ list[k].name = LogfwdContainer
    BY DEF ToSet
  <2>3. Reached(pod, Directories(pod)) /\ p \in Directories(pod)
    BY <2>1 DEF Reach, Wanted, Directories
  <2>4. /\ \E i \in DOMAIN list \ {k} : Holds(list[i], p)
        /\ \/ Holds(list[k], p)
           \/ \E i \in DOMAIN list \ {k} : \E m \in ToSet(list[i].mounts) : m.path = p /\ ~IsEmptyDirVolume(pod, m.name)
    BY <2>2, <2>3 DEF Reached
  <2>5. \A i \in DOMAIN list \ {k} : list[i] \in ToSet(list) \ {s}
    BY <2>1, <2>2 DEF UniqueNames, ToSet
  <2>6. \A c \in ToSet(list) : ToSet(c.mounts) \subseteq MountsOf(pod)
    BY DEF MountsOf, ToSet
  <2> HIDE DEF list, match
  <2>7. \A c : At(c, p) # {} <=> Holds(c, p)
    BY DEF Holds
  <2>8. \A c \in ToSet(list), d \in ToSet(list) : \A x \in At(c, p), y \in At(d, p) : x = y
    BY <2>1, <2>6 DEF OneVolume
  <2>9. s \in ToSet(list)
    OBVIOUS
  <2> DEFINE holders == {c \in ToSet(list) \ {s} : At(c, p) # {}}
  <2>10. holders # {}
    BY <2>4, <2>5, <2>7
  <2>11. ASSUME At(s, p) # {}, NEW c \in holders PROVE At(c, p) = At(s, p)
    <3>1. c \in ToSet(list) /\ At(c, p) # {}
      OBVIOUS
    <3> HIDE DEF At, sidecars, holders
    <3> QED BY <2>8, <2>9, <2>11, <3>1
  <2>12. ASSUME At(s, p) = {} PROVE \E c \in holders : \E v \in At(c, p) : ~IsEmptyDirVolume(pod, v)
    <3>1. PICK i \in DOMAIN list \ {k} : \E m \in ToSet(list[i].mounts) : m.path = p /\ ~IsEmptyDirVolume(pod, m.name)
      BY <2>2, <2>4, <2>7, <2>12
    <3>2. PICK m \in ToSet(list[i].mounts) : m.path = p /\ ~IsEmptyDirVolume(pod, m.name)
      BY <3>1
    <3>3. m.name \in At(list[i], p)
      BY <3>2
    <3>4. list[i] \in holders
      BY <2>5, <3>3
    <3> QED BY <3>2, <3>3, <3>4
  <2> QED BY <2>10, <2>11, <2>12
<1>4. Spec => []AllSound
  BY AlwaysSound
<1> QED BY <1>1, <1>2, <1>3, <1>4, Invariant, PTL DEF Spec

-----------------------------------------------------------------------------
(* One variable of tags *)

\* A variable that is put where one of its name was, or at the end if there was none.
LEMMA OneTagPlaced ==
  ASSUME NEW envs \in Seq(EnvVar), OneTag(envs), NEW e \in EnvVar, NEW new, new.name = e.name
  PROVE  OneTag(Placed(envs, new, e))
<1> DEFINE i == EnvIndex(envs, e.name)
           n == Len(envs)
<1>1. /\ i \in 0..n /\ (i # 0 => envs[i].name = e.name) /\ n \in Nat /\ DOMAIN envs = 1..n
      /\ \A j \in 1..n : envs[j].name = e.name => i # 0
  BY EnvIndexIs
<1> HIDE DEF i, n
<1>2. CASE i = 0
  <2> DEFINE t == Append(envs, e)
  <2>1. DOMAIN t = 1..n + 1 /\ t[n + 1] = e /\ \A j \in 1..n : t[j] = envs[j]
    BY AppendProperties DEF n
  <2>2. Placed(envs, new, e) = t
    BY <1>2 DEF Placed, i
  <2> HIDE DEF t
  <2>3. ASSUME NEW j \in 1..n + 1, NEW k \in 1..n + 1, t[j].name = "DD_TAGS", t[k].name = "DD_TAGS"
        PROVE  j = k
    <3>1. \A l \in 1..n + 1 : l \in 1..n \/ l = n + 1
      BY <1>1
    <3>2. CASE j \in 1..n /\ k \in 1..n
      BY <1>1, <2>1, <2>3, <3>2 DEF OneTag
    <3>3. CASE j = n + 1 /\ k \in 1..n
      BY <1>1, <1>2, <2>1, <2>3, <3>3
    <3>4. CASE k = n + 1 /\ j \in 1..n
      BY <1>1, <1>2, <2>1, <2>3, <3>4
    <3> QED BY <3>1, <3>2, <3>3, <3>4
  <2> QED BY <2>1, <2>2, <2>3 DEF OneTag
<1>3. CASE i # 0
  <2> DEFINE t == [envs EXCEPT ![i] = new]
  <2>1. Placed(envs, new, e) = t /\ DOMAIN t = 1..n
    BY <1>1, <1>3 DEF Placed, i
  <2>2. \A j \in 1..n : t[j].name = envs[j].name
    BY <1>1, <1>3
  <2> HIDE DEF t
  <2> QED BY <1>1, <2>1, <2>2 DEF OneTag
<1> QED BY <1>2, <1>3

\* Existing variables are kept or replaced.
LEMMA OneTagUpdated ==
  ASSUME NEW envs \in Seq(EnvVar), OneTag(envs), NEW e \in EnvVar
  PROVE  /\ OneTag(AddOrUpdateEnvVar(envs, e, KeepExistingEnvVar))
         /\ OneTag(AddOrUpdateEnvVar(envs, e, ReplaceExistingEnvVar))
<1> DEFINE old == envs[EnvIndex(envs, e.name)]
<1>1. /\ AddOrUpdateEnvVar(envs, e, KeepExistingEnvVar) = Placed(envs, old, e)
      /\ AddOrUpdateEnvVar(envs, e, ReplaceExistingEnvVar) = Placed(envs, e, e)
  BY AddOrUpdateIs
<1>2. OneTag(Placed(envs, e, e))
  BY OneTagPlaced
<1>3. OneTag(Placed(envs, old, e))
  <2>1. CASE EnvIndex(envs, e.name) = 0
    <3>1. Placed(envs, old, e) = Placed(envs, e, e)
      BY <2>1 DEF Placed
    <3> QED BY <1>2, <3>1
  <2>2. CASE EnvIndex(envs, e.name) # 0
    <3>1. old.name = e.name
      BY <2>2, EnvIndexIs
    <3> HIDE DEF old
    <3> QED BY <3>1, OneTagPlaced
  <2> QED BY <2>1, <2>2
<1> QED BY <1>1, <1>2, <1>3

OneTagInv(ctx, k, list) == list \in Seq(EnvVar) /\ OneTag(list)
KeepOneTag == INSTANCE FoldTheory WITH Op <- KeepOp, Inv <- OneTagInv
ReplaceOneTag == INSTANCE FoldTheory WITH Op <- ReplaceOp, Inv <- OneTagInv

\* Many of them.
LEMMA OneTagUpdates ==
  ASSUME NEW first \in Seq(EnvVar), OneTag(first), NEW envs \in Seq(EnvVar)
  PROVE  /\ OneTag(AddOrUpdateEnvVars(first, envs, KeepExistingEnvVar))
         /\ OneTag(AddOrUpdateEnvVars(first, envs, ReplaceExistingEnvVar))
<1> DEFINE n == Len(envs)
<1>1. n \in Nat /\ DOMAIN envs = 1..n /\ \A k \in 1..n : envs[k] \in EnvVar
  OBVIOUS
<1> HIDE DEF n
<1>2. OneTagInv(first, 0, first)
  BY DEF OneTagInv
<1>3. ASSUME NEW k \in 1..n, NEW a, OneTagInv(first, k - 1, a)
      PROVE  OneTagInv(first, k, KeepOp(first, a, envs[k])) /\ OneTagInv(first, k, ReplaceOp(first, a, envs[k]))
  <2> DEFINE e == envs[k]
             old == a[EnvIndex(a, e.name)]
  <2>1. a \in Seq(EnvVar) /\ OneTag(a) /\ e \in EnvVar
    BY <1>1, <1>3 DEF OneTagInv
  <2> HIDE DEF e
  <2>2. /\ AddOrUpdateEnvVar(a, e, KeepExistingEnvVar) = Placed(a, old, e)
        /\ AddOrUpdateEnvVar(a, e, ReplaceExistingEnvVar) = Placed(a, e, e)
        /\ EnvIndex(a, e.name) # 0 => old \in EnvVar
    BY <2>1, AddOrUpdateIs
  <2> HIDE DEF old
  <2>3. Placed(a, old, e) \in Seq(EnvVar) /\ Placed(a, e, e) \in Seq(EnvVar)
    BY <2>1, <2>2, PlacedIs
  <2>4. /\ OneTag(AddOrUpdateEnvVar(a, e, KeepExistingEnvVar))
        /\ OneTag(AddOrUpdateEnvVar(a, e, ReplaceExistingEnvVar))
    BY <2>1, OneTagUpdated
  <2> QED BY <2>2, <2>3, <2>4 DEF OneTagInv, KeepOp, ReplaceOp, e
<1>4. OneTagInv(first, n, KeepOneTag!Fold(first, first, envs))
  BY <1>1, <1>2, <1>3, KeepOneTag!FoldKeeps, Least DEF KeepOneTag!Ordered
<1>5. OneTagInv(first, n, ReplaceOneTag!Fold(first, first, envs))
  BY <1>1, <1>2, <1>3, ReplaceOneTag!FoldKeeps, Least DEF ReplaceOneTag!Ordered
<1>6. AddOrUpdateEnvVars(first, envs, KeepExistingEnvVar) = KeepOneTag!Fold(first, first, envs)
  BY DEF AddOrUpdateEnvVars, FoldLeft, MapThenFoldSet, Max, KeepOneTag!Fold, KeepOneTag!Largest, KeepOp
<1>7. AddOrUpdateEnvVars(first, envs, ReplaceExistingEnvVar) = ReplaceOneTag!Fold(first, first, envs)
  BY DEF AddOrUpdateEnvVars, FoldLeft, MapThenFoldSet, Max, ReplaceOneTag!Fold, ReplaceOneTag!Largest, ReplaceOp
<1> QED BY <1>4, <1>5, <1>6, <1>7 DEF OneTagInv

\* The variables of the sidecars.
LEMMA SidecarOneTag ==
  ASSUME NEW rule, rule.envs \in Seq(EnvVar), NEW p
  PROVE  OneTag(SidecarEnvs(rule, p))
<1>1. BuildEnvs(rule.envs, p) \in Seq(EnvVar)
  BY BuildEnvsAre
<1>2. <<>> \in Seq(EnvVar) /\ OneTag(<<>>)
  BY DEF OneTag
<1> QED BY <1>1, <1>2, OneTagUpdates DEF SidecarEnvs

ConfigOneTag == INSTANCE FoldTheory WITH Op <- ConfigOp, Inv <- OneTagInv

\* The variables of logfwd's sidecar.
LEMMA ConfigsOneTag ==
  ASSUME NEW key \in Text, NEW configs \in SUBSET Text, IsFiniteSet(configs),
         NEW envs \in Seq(EnvVar), OneTag(envs)
  PROVE  LET all == Configuring!Fold(key, envs, SetToSeq(configs))
         IN  all \in Seq(EnvVar) /\ OneTag(all)
<1> DEFINE list == SetToSeq(configs)
           n == Len(list)
<1>1. list \in Seq(configs)
  BY SetListed
<1>2. n \in Nat /\ DOMAIN list = 1..n /\ \A k \in 1..n : list[k] \in Text
  BY <1>1
<1> HIDE DEF list, n
<1>3. OneTagInv(key, 0, envs)
  BY DEF OneTagInv
<1>4. ASSUME NEW k \in 1..n, NEW a, OneTagInv(key, k - 1, a)
      PROVE  OneTagInv(key, k, ConfigOp(key, a, list[k]))
  <2> DEFINE v == IF list[k] = Blank THEN <<>> ELSE <<list[k]>>
             e == Plain(key, v)
  <2>1. v \in Seq(Text)
    BY <1>2
  <2> HIDE DEF v
  <2>2. e \in EnvVar
    BY <2>1 DEF Plain, Env, EnvVar, Kinds
  <2>3. ConfigOp(key, a, list[k]) = AddOrUpdateEnvVar(a, e, ReplaceExistingEnvVar)
    BY DEF ConfigOp, v
  <2> HIDE DEF e
  <2>4. a \in Seq(EnvVar) /\ OneTag(a)
    BY <1>4 DEF OneTagInv
  <2>5. AddOrUpdateEnvVar(a, e, ReplaceExistingEnvVar) = Placed(a, e, e)
    BY <2>2, <2>4, AddOrUpdateIs
  <2>6. Placed(a, e, e) \in Seq(EnvVar)
    BY <2>2, <2>4, PlacedIs
  <2>7. OneTag(AddOrUpdateEnvVar(a, e, ReplaceExistingEnvVar))
    BY <2>2, <2>4, OneTagUpdated
  <2> QED BY <2>3, <2>5, <2>6, <2>7 DEF OneTagInv
<1>5. OneTagInv(key, n, ConfigOneTag!Fold(key, envs, list))
  BY <1>2, <1>3, <1>4, ConfigOneTag!FoldKeeps, Least DEF ConfigOneTag!Ordered
<1>6. ConfigOneTag!Fold(key, envs, list) = Configuring!Fold(key, envs, list)
  BY DEF ConfigOneTag!Fold, ConfigOneTag!Largest, Configuring!Fold, Configuring!Largest
<1> QED BY <1>5, <1>6 DEF OneTagInv, list

\* The variables of the logfwd sidecar.
LEMMA LogfwdOneTag ==
  ASSUME NEW p, IsPod(p), NEW rule \in LogfwdRules
  PROVE  OneTag(LogfwdEnvs(p, rule))
<1> DEFINE instances == InstancesConfig(p)
           logs == LogConfigsConfig(rule)
           own == SidecarEnvs(rule, p)
           first == Configuring!Fold("LOGFWD_JSON_CONFIG", own, SetToSeq(instances))
<1>1. /\ instances \in SUBSET Text /\ IsFiniteSet(instances)
      /\ logs \in SUBSET Text /\ IsFiniteSet(logs)
  <2>1. \A x : IsFiniteSet({x}) /\ \A S \in SUBSET {x} : IsFiniteSet(S)
    BY FS_Singleton, FS_Subset
  <2>2. instances \in SUBSET Text /\ logs \in SUBSET Text
    BY PodsLiterals, PathsAssumption DEF InstancesConfig, LogConfigsConfig
  <2>3. \E x : instances \in SUBSET {x}
    BY DEF InstancesConfig
  <2>4. logs \in SUBSET {rule.logConfigs}
    BY DEF LogConfigsConfig
  <2> QED BY <2>1, <2>2, <2>3, <2>4
<1>2. own \in Seq(EnvVar) /\ OneTag(own)
  <2>1. rule.envs \in Seq(EnvVar)
    BY DEF LogfwdRules
  <2> QED BY <2>1, SidecarEnvsAre, SidecarOneTag
<1> HIDE DEF instances, logs, own
<1>3. first \in Seq(EnvVar) /\ OneTag(first)
  BY <1>1, <1>2, ConfigsOneTag, SidecarsLiterals
<1> HIDE DEF first
<1>4. OneTag(Configuring!Fold("LOGFWD_LOG_CONFIGS", first, SetToSeq(logs)))
  BY <1>1, <1>3, ConfigsOneTag, SidecarsLiterals
<1> QED BY <1>4 DEF LogfwdEnvs, first, own, logs, instances

-----------------------------------------------------------------------------
(* What the sidecars leave to the user *)

\* Variables and annotations stay; a new container has one variable of tags at most.
Aside(p, q) ==
  /\ IsPod(q)
  /\ DOMAIN p.containers \subseteq DOMAIN q.containers
  /\ \A i \in DOMAIN p.containers : q.containers[i].env = p.containers[i].env
  /\ \A i \in DOMAIN q.containers \ DOMAIN p.containers : OneTag(q.containers[i].env)
  /\ \A k \in DOMAIN p.annotations : k \in DOMAIN q.annotations /\ q.annotations[k] = p.annotations[k]

\* A pod leaves its own variables alone,
LEMMA AsideReflexive ==
  ASSUME NEW p, IsPod(p)
  PROVE  Aside(p, p)
BY DEF Aside

\* and so do two steps that each leave them alone.
LEMMA AsideTransitive ==
  ASSUME NEW p, NEW q, NEW r, Aside(p, q), Aside(q, r)
  PROVE  Aside(p, r)
<1>1. \A i \in DOMAIN p.containers : i \in DOMAIN r.containers /\ r.containers[i].env = p.containers[i].env
  BY DEF Aside
<1>2. ASSUME NEW i \in DOMAIN r.containers \ DOMAIN p.containers PROVE OneTag(r.containers[i].env)
  <2>1. CASE i \in DOMAIN q.containers
    BY <2>1 DEF Aside
  <2>2. CASE i \notin DOMAIN q.containers
    BY <2>2 DEF Aside
  <2> QED BY <2>1, <2>2
<1>3. \A k \in DOMAIN p.annotations : k \in DOMAIN r.annotations /\ r.annotations[k] = p.annotations[k]
  BY DEF Aside
<1> QED BY <1>1, <1>2, <1>3 DEF Aside

\* The parts that sidecars are added with.
LEMMA AsideParts ==
  ASSUME NEW p, IsPod(p)
  PROVE  /\ \A v \in PodVolume : Aside(p, AddVolume(p, v))
         /\ \A c \in PodContainer : OneTag(c.env) => Aside(p, AddContainer(p, c))
         /\ \A m \in VolumeMount : Aside(p, AddVolumeMount(p, m)) /\ Aside(p, AddMountIfFree(p, m))
         /\ Aside(p, ResetSpec(p))
         /\ \A keys \in SUBSET (Text \X Text), v \in Text :
              IsFiniteSet(keys) /\ keys \cap DOMAIN p.annotations = {} => Aside(p, Annotate(p, keys, v))
<1>1. /\ DOMAIN p = PodFields
      /\ p.volumes \in Seq(PodVolume) /\ p.containers \in Seq(PodContainer)
  BY PodIs
<1>2. ASSUME NEW v \in PodVolume PROVE Aside(p, AddVolume(p, v))
  <2> DEFINE q == AddVolume(p, v)
  <2>1. q.annotations = p.annotations /\ q.containers = p.containers
    BY <1>1 DEF AddVolume, PodFields
  <2>2. IsPod(q)
    BY AddStep DEF Step
  <2> HIDE DEF q
  <2> QED BY <2>1, <2>2 DEF Aside, q
<1>3. Aside(p, ResetSpec(p))
  <2> DEFINE q == ResetSpec(p)
  <2>1. q.annotations = p.annotations /\ q.containers = p.containers
    BY <1>1 DEF ResetSpec, PodFields
  <2>2. IsPod(q)
    BY ResetStep DEF Step
  <2> HIDE DEF q
  <2> QED BY <2>1, <2>2 DEF Aside, q
<1>4. ASSUME NEW m \in VolumeMount PROVE Aside(p, AddVolumeMount(p, m)) /\ Aside(p, AddMountIfFree(p, m))
  <2> DEFINE q == AddVolumeMount(p, m)
             list == [i \in DOMAIN p.containers |-> AddMountTo(p.containers[i], m)]
  <2>1. q.containers = list /\ q.annotations = p.annotations
    BY <1>1 DEF AddVolumeMount, EachContainer, PodFields
  <2>2. IsPod(q)
    BY MountStep DEF Step
  <2>3. DOMAIN list = DOMAIN p.containers /\ \A i \in DOMAIN p.containers : list[i].env = p.containers[i].env
    <3>1. \A i \in DOMAIN p.containers : p.containers[i] \in PodContainer
      BY <1>1
    <3>2. \A c \in PodContainer : AddMountTo(c, m).env = c.env
      BY DEF AddMountTo, PodContainer
    <3> QED BY <3>1, <3>2
  <2> HIDE DEF q, list
  <2>4. Aside(p, q)
    BY <2>1, <2>2, <2>3 DEF Aside
  <2> QED BY <2>4, AsideReflexive DEF q, AddMountIfFree
<1>5. ASSUME NEW c \in PodContainer, OneTag(c.env) PROVE Aside(p, AddContainer(p, c))
  <2> DEFINE q == AddContainer(p, c)
             s == p.containers
             t == AddNamed(s, c)
  <2>1. q.containers = t /\ q.annotations = p.annotations
    BY <1>1 DEF AddContainer, PodFields
  <2>2. IsPod(q)
    BY AddStep DEF Step
  <2>3. /\ DOMAIN s \subseteq DOMAIN t /\ \A i \in DOMAIN s : t[i] = s[i]
        /\ \A i \in DOMAIN t \ DOMAIN s : t[i] = c
    <3> DEFINE u == Append(s, c)
               n == Len(s)
    <3>1. n \in Nat /\ DOMAIN s = 1..n /\ DOMAIN u = 1..n + 1 /\ u[n + 1] = c /\ \A i \in 1..n : u[i] = s[i]
      BY <1>1
    <3>2. t \in {s, u}
      BY DEF AddNamed
    <3> HIDE DEF u, n, t, s
    <3>3. (\A i \in 1..n + 1 : i \in 1..n \/ i = n + 1) /\ \A i \in 1..n : i \in 1..n + 1
      BY <3>1
    <3> QED BY <3>1, <3>2, <3>3
  <2> HIDE DEF q, t
  <2> QED BY <1>5, <2>1, <2>2, <2>3 DEF Aside, q, s
<1>6. ASSUME NEW keys \in SUBSET (Text \X Text), NEW v \in Text, IsFiniteSet(keys), keys \cap DOMAIN p.annotations = {}
      PROVE  Aside(p, Annotate(p, keys, v))
  <2> DEFINE q == Annotate(p, keys, v)
             old == p.annotations
             new == [k \in DOMAIN old \cup keys |-> IF k \in keys THEN v ELSE old[k]]
  <2>1. q.annotations = new /\ q.containers = p.containers
    BY <1>1 DEF Annotate, PodFields
  <2>2. IsPod(q)
    BY <1>6, AnnotateStep DEF Step
  <2>3. DOMAIN new = DOMAIN old \cup keys /\ \A k \in DOMAIN old : new[k] = old[k]
    BY <1>6
  <2> HIDE DEF q, new
  <2> QED BY <2>1, <2>2, <2>3 DEF Aside, q, old
<1> QED BY <1>2, <1>3, <1>4, <1>5, <1>6

AsideInv(p, k, q) == Aside(p, q)
AsideVolumes == INSTANCE FoldTheory WITH Op <- VolumeOp, Inv <- AsideInv
AsideMounts == INSTANCE FoldTheory WITH Op <- MountOp, Inv <- AsideInv

\* Directories are shared beside all this.
LEMMA ShareAside ==
  ASSUME NEW p, IsPod(p), NEW pairs \in Seq(VolumeMount)
  PROVE  Aside(p, ShareVolumes(p, pairs))
<1> DEFINE n == Len(pairs)
           q == AsideVolumes!Fold(p, p, pairs)
<1>1. n \in Nat /\ DOMAIN pairs = 1..n /\ \A k \in 1..n : pairs[k] \in VolumeMount
  OBVIOUS
<1> HIDE DEF n
<1>2. AsideInv(p, 0, p)
  BY AsideReflexive DEF AsideInv
<1>3. ASSUME NEW k \in 1..n, NEW a, AsideInv(p, k - 1, a)
      PROVE  AsideInv(p, k, VolumeOp(p, a, pairs[k])) /\ AsideInv(p, k, MountOp(p, a, pairs[k]))
  <2>1. Aside(p, a) /\ IsPod(a) /\ pairs[k] \in VolumeMount
    BY <1>1, <1>3 DEF AsideInv, Aside
  <2>2. EmptyDir(pairs[k].name) \in PodVolume
    BY <2>1, EmptyDirIs DEF VolumeMount
  <2>3. Aside(a, VolumeOp(p, a, pairs[k]))
    BY <2>1, <2>2, AsideParts DEF VolumeOp
  <2>4. Aside(a, MountOp(p, a, pairs[k]))
    BY <2>1, AsideParts DEF MountOp
  <2> QED BY <2>1, <2>3, <2>4, AsideTransitive DEF AsideInv
<1>4. AsideInv(p, n, q)
  BY <1>1, <1>2, <1>3, AsideVolumes!FoldKeeps, Least DEF AsideVolumes!Ordered
<1> HIDE DEF q
<1>5. AsideInv(p, 0, q)
  BY <1>4 DEF AsideInv
<1>6. AsideInv(p, n, AsideMounts!Fold(p, q, pairs))
  BY <1>1, <1>3, <1>5, AsideMounts!FoldKeeps, Least DEF AsideMounts!Ordered
<1>7. ShareVolumes(p, pairs) = AsideMounts!Fold(p, q, pairs)
  BY DEF ShareVolumes, FoldLeft, MapThenFoldSet, Max, AsideVolumes!Fold, AsideVolumes!Largest, VolumeOp, q,
         AsideMounts!Fold, AsideMounts!Largest, MountOp
<1> QED BY <1>6, <1>7 DEF AsideInv

\* The sidecars and the collection of logs, one stage after another.
LEMMA LogfwdAside ==
  ASSUME NEW p, IsPod(p), NEW rule \in LogfwdRules, LogfwdNamesSuffice(rule)
  PROVE  Aside(p, InjectLogfwd(p, rule))
<1>1. PICK paths \in Seq(Text), c \in PodContainer :
        LET pairs == GetVolumePairs(p, paths, LogfwdVolumes)
        IN  /\ InjectLogfwd(p, rule) =
                 AddContainer(AddVolume(ShareVolumes(p, pairs), Volume(PodInfo, "downwardAPI")), c)
            /\ Len(paths) <= Len(LogfwdVolumes)
            /\ c.env = LogfwdEnvs(p, rule)
  BY LogfwdParts
<1> DEFINE pairs == GetVolumePairs(p, paths, LogfwdVolumes)
           info == Volume(PodInfo, "downwardAPI")
           q == ShareVolumes(p, pairs)
           r == AddVolume(q, info)
<1>2. InjectLogfwd(p, rule) = AddContainer(r, c)
  BY <1>1
<1>3. pairs \in Seq(VolumeMount)
  BY <1>1, PathsAssumption, VolumePairsAre
<1> HIDE DEF pairs
<1>4. Aside(p, q)
  BY <1>3, ShareAside
<1>5. info \in PodVolume
  BY SidecarsLiterals, PodsLiterals DEF Volume, PodVolume
<1> HIDE DEF q, info
<1>6. Aside(q, r)
  BY <1>4, <1>5, AsideParts DEF Aside
<1> HIDE DEF r
<1>7. OneTag(c.env)
  BY <1>1, LogfwdOneTag
<1>8. Aside(r, AddContainer(r, c))
  BY <1>6, <1>7, AsideParts DEF Aside
<1> QED BY <1>2, <1>4, <1>6, <1>8, AsideTransitive

\* The annotations for Prometheus.
LEMMA PrometheusAside ==
  ASSUME NEW p, IsPod(p)
  PROVE  Aside(p, AddPrometheusAnnotations(p))
<1>1. CASE \E key \in DOMAIN p.annotations : key[1] = "prometheus"
  BY <1>1, AsideReflexive DEF AddPrometheusAnnotations
<1>2. CASE ~\E key \in DOMAIN p.annotations : key[1] = "prometheus"
  <2>1. PrometheusKeys \in SUBSET (Text \X Text) /\ "flameshot" \in Text
    BY SidecarsLiterals
  <2>2. PrometheusKeys \cap DOMAIN p.annotations = {}
    <3>1. \A k \in PrometheusKeys : k[1] = "prometheus"
      BY DEF PrometheusKeys
    <3> QED BY <1>2, <3>1
  <2>3. AddPrometheusAnnotations(p) = Annotate(p, PrometheusKeys, "flameshot")
    BY <1>2 DEF AddPrometheusAnnotations
  <2> QED BY <2>1, <2>2, <2>3, PrometheusFinite, AsideParts
<1> QED BY <1>1, <1>2

\* The Flameshot sidecar.
LEMMA FlameshotAside ==
  ASSUME NEW p, IsPod(p), NEW rule \in FlameshotRules, NEW envs \in Seq(EnvVar), OneTag(envs),
         EnvIndex(envs, ProfilingPath) # 0
  PROVE  Aside(p, InjectFlameshot(p, rule, envs))
<1> DEFINE container == Container(FlameshotContainer, Image(rule.image, Blank), Blank, envs, <<>>)
           q == ResetSpec(p)
           r == AddContainer(q, container)
           v == EmptyDir(FlameshotVolume)
           s == AddVolume(r, v)
           m == Mount(FlameshotVolume, FlameshotPath(envs))
           t == AddVolumeMount(s, m)
           u == InjectFlameshot(p, rule, envs)
<1>1. u \in {t, AddPrometheusAnnotations(t)}
  BY DEF InjectFlameshot
<1>2. {FlameshotContainer, FlameshotVolume, Blank} \subseteq Text
  BY PodsLiterals, SidecarsLiterals
<1>3. container \in PodContainer
  <2> DEFINE image == Image(rule.image, Blank)
             mounts == <<>>
  <2>1. image \in [of: Text, version: Text]
    BY <1>2 DEF Image, FlameshotRules
  <2>2. mounts \in Seq(VolumeMount)
    OBVIOUS
  <2> HIDE DEF image, mounts
  <2> QED BY <1>2, <2>1, <2>2, ContainerIs DEF image, mounts
<1>4. OneTag(container.env)
  BY DEF Container
<1> HIDE DEF container, u
<1>5. Aside(p, q)
  BY AsideParts
<1> HIDE DEF q
<1>6. Aside(q, r)
  BY <1>3, <1>4, <1>5, AsideParts DEF Aside
<1> HIDE DEF r
<1>7. v \in PodVolume
  BY <1>2, EmptyDirIs
<1> HIDE DEF v
<1>8. Aside(r, s)
  BY <1>6, <1>7, AsideParts DEF Aside
<1> HIDE DEF s
<1>9. m \in VolumeMount
  BY <1>2, FlameshotPathIs DEF Mount, VolumeMount
<1> HIDE DEF m
<1>10. Aside(s, t)
  BY <1>8, <1>9, AsideParts DEF Aside
<1> HIDE DEF t
<1>11. Aside(t, AddPrometheusAnnotations(t))
  BY <1>10, PrometheusAside DEF Aside
<1>12. Aside(p, t)
  BY <1>5, <1>6, <1>8, <1>10, AsideTransitive
<1>13. Aside(p, AddPrometheusAnnotations(t))
  BY <1>11, <1>12, AsideTransitive
<1> QED BY <1>1, <1>12, <1>13 DEF u

AsideAdds == INSTANCE FoldTheory WITH Op <- VolumeAdded, Inv <- AsideInv

\* Volumes, one after another.
LEMMA VolumesAside ==
  ASSUME NEW p, IsPod(p), NEW volumes \in Seq(PodVolume)
  PROVE  Aside(p, FoldLeft(AddVolume, p, volumes))
<1> DEFINE n == Len(volumes)
           q == AsideAdds!Fold(p, p, volumes)
<1>1. n \in Nat /\ DOMAIN volumes = 1..n /\ \A k \in 1..n : volumes[k] \in PodVolume
  OBVIOUS
<1>2. FoldLeft(AddVolume, p, volumes) = q
  BY DEF FoldLeft, MapThenFoldSet, Max, AsideAdds!Fold, AsideAdds!Largest, VolumeAdded
<1> HIDE DEF n
<1>3. AsideInv(p, 0, p)
  BY AsideReflexive DEF AsideInv
<1>4. ASSUME NEW k \in 1..n, NEW a, AsideInv(p, k - 1, a)
      PROVE  AsideInv(p, k, VolumeAdded(p, a, volumes[k]))
  <2>1. Aside(p, a) /\ IsPod(a) /\ volumes[k] \in PodVolume
    BY <1>1, <1>4 DEF AsideInv, Aside
  <2>2. Aside(a, AddVolume(a, volumes[k]))
    BY <2>1, AsideParts
  <2> QED BY <2>1, <2>2, AsideTransitive DEF AsideInv, VolumeAdded
<1>5. AsideInv(p, n, q)
  BY <1>1, <1>3, <1>4, AsideAdds!FoldKeeps, Least DEF AsideAdds!Ordered
<1> QED BY <1>2, <1>5 DEF AsideInv

\* The profiler.
LEMMA ProfilerAside ==
  ASSUME NEW p, IsPod(p), NEW rule \in ProfilerRules, NEW image \in [of: Text, version: Text]
  PROVE  Aside(p, InjectProfiler(p, rule, image))
<1> DEFINE q == ResetSpec(p)
           envs == SidecarEnvs(rule, q)
           container == Container(ProfilerContainer, image, Blank, envs, <<>>)
           r == AddContainer(q, container)
           volumes == <<EmptyDir(ProfilerMount.name), EmptyDir(TmpMount.name),
                        Volume(TimezoneMount.name, "hostPath")>>
           s == FoldLeft(AddVolume, r, volumes)
           t == AddVolumeMount(s, ProfilerMount)
           u == AddMountIfFree(t, TmpMount)
           w == AddMountIfFree(u, TimezoneMount)
<1>1. InjectProfiler(p, rule, image) = w
  BY DEF InjectProfiler
<1>2. /\ {ProfilerMount, TmpMount, TimezoneMount} \subseteq VolumeMount
      /\ ProfilerContainer \in Text /\ Blank \in Text
  BY PodsLiterals, SidecarsLiterals
<1>3. Aside(p, q)
  BY AsideParts
<1>4. envs \in Seq(EnvVar) /\ OneTag(envs)
  <2>1. rule.envs \in Seq(EnvVar)
    BY DEF ProfilerRules
  <2> QED BY <2>1, SidecarEnvsAre, SidecarOneTag
<1> HIDE DEF q, envs
<1>5. container \in PodContainer
  <2> DEFINE mounts == <<>>
  <2>1. mounts \in Seq(VolumeMount)
    OBVIOUS
  <2> HIDE DEF mounts
  <2> QED BY <1>2, <1>4, <2>1, ContainerIs DEF mounts
<1>6. OneTag(container.env)
  BY <1>4 DEF Container
<1> HIDE DEF container
<1>7. Aside(q, r)
  BY <1>3, <1>5, <1>6, AsideParts DEF Aside
<1> HIDE DEF r
<1>8. volumes \in Seq(PodVolume)
  <2>1. ProfilerMount.name \in Text /\ TmpMount.name \in Text /\ TimezoneMount.name \in Text
    BY <1>2 DEF VolumeMount
  <2>2. \A n \in Text : EmptyDir(n) \in PodVolume
    BY EmptyDirIs
  <2>3. Volume(TimezoneMount.name, "hostPath") \in PodVolume
    BY <2>1, PodsLiterals DEF Volume, PodVolume
  <2> DEFINE a == EmptyDir(ProfilerMount.name)
             b == EmptyDir(TmpMount.name)
             d == Volume(TimezoneMount.name, "hostPath")
  <2>4. a \in PodVolume /\ b \in PodVolume /\ d \in PodVolume
    BY <2>1, <2>2, <2>3
  <2>5. volumes = <<a, b, d>>
    OBVIOUS
  <2> HIDE DEF a, b, d, volumes
  <2> QED BY <2>4, <2>5
<1> HIDE DEF volumes
<1>9. Aside(r, s)
  BY <1>7, <1>8, VolumesAside DEF Aside
<1> HIDE DEF s
<1>10. Aside(s, t)
  BY <1>2, <1>9, AsideParts DEF Aside
<1> HIDE DEF t
<1>11. Aside(t, u)
  BY <1>2, <1>10, AsideParts DEF Aside
<1> HIDE DEF u
<1>12. Aside(u, w)
  BY <1>2, <1>11, AsideParts DEF Aside
<1> HIDE DEF w
<1>13. Aside(p, s)
  BY <1>3, <1>7, <1>9, AsideTransitive
<1>14. Aside(p, u)
  BY <1>10, <1>11, <1>13, AsideTransitive
<1> QED BY <1>1, <1>12, <1>14, AsideTransitive

\* The annotation of the logs.
LEMMA LoggingAside ==
  ASSUME NEW p, IsPod(p), NEW ns, NEW rules \in Seq(LoggingRules),
         \A l \in Lengths : l <= Len(LogsVolumes)
  PROVE  Aside(p, MutateLoggingToPod(p, ns, rules))
<1> DEFINE match == Matches(rules, NamespaceOf(p, ns))
           config == match.rule.config
           paths == Unique(PathsOf[config])
           pairs == GetVolumePairs(p, paths, LogsVolumes)
           q == ShareVolumes(p, pairs)
<1>1. \/ MutateLoggingToPod(p, ns, rules) = p
      \/ /\ match.found /\ config \in DOMAIN PathsOf /\ ~Annotated(p, Logs)
         /\ MutateLoggingToPod(p, ns, rules) = Annotate(q, {Logs}, config)
  BY DEF MutateLoggingToPod
<1>2. ASSUME match.found, config \in DOMAIN PathsOf, ~Annotated(p, Logs) PROVE Aside(p, Annotate(q, {Logs}, config))
  <2>1. PathsOf[config] \in Seq(Text) /\ config \in Text /\ LogsVolumes \in Seq(Text)
    BY <1>2, PathsAssumption
  <2>2. Len(PathsOf[config]) <= Len(LogsVolumes)
    BY <1>2 DEF Lengths
  <2> HIDE DEF config
  <2>3. paths \in Seq(Text) /\ Len(paths) <= Len(PathsOf[config])
    BY <2>1, UniqueIs
  <2> HIDE DEF paths
  <2>4. Len(paths) <= Len(LogsVolumes)
    <3>1. Len(paths) \in Nat /\ Len(PathsOf[config]) \in Nat /\ Len(LogsVolumes) \in Nat
      BY <2>1, <2>3
    <3> QED BY <2>2, <2>3, <3>1
  <2>5. pairs \in Seq(VolumeMount)
    BY <2>1, <2>3, <2>4, VolumePairsAre
  <2> HIDE DEF pairs
  <2>6. Aside(p, q) /\ q.annotations = p.annotations
    BY <2>5, ShareAside, ShareAnnotations
  <2> HIDE DEF q
  <2>7. Aside(q, Annotate(q, {Logs}, config))
    <3>1. {Logs} \in SUBSET (Text \X Text) /\ IsFiniteSet({Logs}) /\ {Logs} \cap DOMAIN q.annotations = {}
      BY <1>2, <2>6, SidecarsLiterals, FS_Singleton DEF Annotated
    <3>2. IsPod(q) /\ config \in Text
      BY <2>1, <2>6 DEF Aside
    <3> QED BY <3>1, <3>2, AsideParts
  <2> QED BY <2>6, <2>7, AsideTransitive
<1>3. Aside(p, p)
  BY AsideReflexive
<1> HIDE DEF match, config, q
<1> QED BY <1>1, <1>2, <1>3

\* Every stage but the first.
LEMMA StagesAside ==
  ASSUME given \in Cases, NEW p, IsPod(p)
  PROVE  Aside(p, Logfwd(p)) /\ Aside(p, Flameshot(p)) /\ Aside(p, Profiler(p)) /\ Aside(p, Logging(p))
<1>1. Aside(p, p)
  BY AsideReflexive
<1>2. Aside(p, Logfwd(p))
  <2> DEFINE rules == given.logfwds
             match == Matches(rules, p.namespace)
  <2>1. \/ Logfwd(p) = p
        \/ match.found /\ Logfwd(p) = InjectLogfwd(p, match.rule)
    BY DEF Logfwd, InjectLogfwdToPod
  <2>2. ASSUME match.found PROVE match.rule \in LogfwdRules /\ LogfwdNamesSuffice(match.rule)
    <3>1. rules \in Seq(LogfwdRules) /\ \A rule \in ToSet(rules) : LogfwdNamesSuffice(rule)
      BY CaseIs
    <3> HIDE DEF rules
    <3> QED BY <2>2, <3>1, MatchesIs
  <2> HIDE DEF match
  <2> QED BY <1>1, <2>1, <2>2, LogfwdAside
<1>4. Aside(p, Flameshot(p))
  <2> DEFINE rules == given.flameshots
             match == Matches(rules, NamespaceOf(p, given.namespace))
             rule == match.rule
             e == Plain("FLAMESHOT_PROCESSES", <<rule.processes>>)
             first == SidecarEnvs(rule, p)
             envs == AddOrUpdateEnvVar(first, e, ReplaceExistingEnvVar)
  <2>1. \/ Flameshot(p) = p
        \/ /\ match.found /\ EnvIndex(envs, ProfilingPath) # 0
           /\ Flameshot(p) = InjectFlameshot(p, rule, envs)
    BY DEF Flameshot, InjectFlameshotToPod
  <2>2. ASSUME match.found, EnvIndex(envs, ProfilingPath) # 0 PROVE Aside(p, InjectFlameshot(p, rule, envs))
    <3>1. rule \in FlameshotRules
      <4>1. rules \in Seq(FlameshotRules)
        BY CaseIs
      <4> HIDE DEF rules
      <4> QED BY <2>2, <4>1, MatchesIs
    <3> HIDE DEF match, rule
    <3>2. e \in EnvVar
      <4>1. <<rule.processes>> \in Seq(Text)
        BY <3>1 DEF FlameshotRules
      <4> HIDE DEF rule
      <4> QED BY <4>1, SidecarsLiterals DEF Plain, Env, EnvVar, Kinds
    <3>3. first \in Seq(EnvVar) /\ OneTag(first)
      BY <3>1, SidecarEnvsAre, SidecarOneTag DEF FlameshotRules
    <3> HIDE DEF e, first
    <3>4. envs \in Seq(EnvVar) /\ OneTag(envs)
      BY <3>2, <3>3, AddOrUpdateIs, PlacedWithin, OneTagUpdated
    <3> HIDE DEF envs
    <3> QED BY <2>2, <3>1, <3>4, FlameshotAside
  <2> HIDE DEF match, rule, envs
  <2> QED BY <1>1, <2>1, <2>2
<1>5. Aside(p, Profiler(p))
  <2> DEFINE rules == given.profilers
             match == Matches(rules, NamespaceOf(p, given.namespace))
             rule == match.rule
             choice == ProfilerChoice(p, rule)
             name == ProfilerImage(rule, choice.language)
             image == Image(name, choice.version)
  <2>1. \/ Profiler(p) = p
        \/ match.found /\ choice.found /\ Profiler(p) = InjectProfiler(p, rule, image)
    BY DEF Profiler, InjectProfilerToPod
  <2>2. ASSUME match.found, choice.found PROVE Aside(p, InjectProfiler(p, rule, image))
    <3>1. rule \in ProfilerRules
      <4>1. rules \in Seq(ProfilerRules)
        BY CaseIs
      <4> HIDE DEF rules
      <4> QED BY <2>2, <4>1, MatchesIs
    <3> HIDE DEF match, rule
    <3>2. image \in [of: Text, version: Text]
      <4>1. choice.version \in Text /\ name \in Text
        BY <2>2, <3>1, ProfilerChoiceIs
      <4> HIDE DEF choice, name
      <4> QED BY <4>1 DEF Image
    <3> HIDE DEF image
    <3> QED BY <3>1, <3>2, ProfilerAside
  <2> HIDE DEF match, rule, choice, image
  <2> QED BY <1>1, <2>1, <2>2
<1>6. Aside(p, Logging(p))
  BY CaseIs, LoggingAside DEF Logging
<1> QED BY <1>2, <1>4, <1>5, <1>6

-----------------------------------------------------------------------------
(* The tracers and the variable of tags *)

\* A variable that is changed by its value only.
LEMMA OneTagValued ==
  ASSUME NEW envs \in Seq(EnvVar), OneTag(envs), NEW e \in EnvVar, NEW v
  PROVE  OneTag(Placed(envs, [envs[EnvIndex(envs, e.name)] EXCEPT !.value = v], e))
<1> DEFINE i == EnvIndex(envs, e.name)
           new == [envs[i] EXCEPT !.value = v]
<1>1. CASE i = 0
  <2>1. Placed(envs, new, e) = Placed(envs, e, e)
    BY <1>1 DEF Placed
  <2> QED BY <2>1, OneTagPlaced
<1>2. CASE i # 0
  <2>1. envs[i] \in EnvVar /\ envs[i].name = e.name
    BY <1>2, EnvIndexIs, AddOrUpdateIs
  <2>2. new.name = e.name
    <3> HIDE DEF i
    <3> QED BY <2>1 DEF EnvVar
  <2> HIDE DEF new
  <2>3. OneTag(Placed(envs, new, e))
    BY <2>2, OneTagPlaced
  <2> QED BY <2>3 DEF new
<1> QED BY <1>1, <1>2

\* A loader variable is no variable of tags,
LEMMA LoadOneTag ==
  ASSUME NEW c \in PodContainer, NEW key \in DOMAIN DDToken, OneTag(c.env)
  PROVE  OneTag(LoadDD(c, key).env)
<1> DEFINE i == EnvIndex(c.env, key)
           w == DDValue(key, <<>>)
           v == DDValue(key, c.env[i].value)
           e == Plain(key, w)
           new == [c.env[i] EXCEPT !.value = v]
           list == Placed(c.env, new, e)
<1>1. c.env \in Seq(EnvVar)
  BY DEF PodContainer
<1>2. e \in EnvVar /\ e.name = key
  <2>1. <<>> \in Seq(Text)
    OBVIOUS
  <2>2. w \in Seq(Text) /\ key \in Text
    BY <2>1, DDValueIs, TracingLiterals
  <2> HIDE DEF w
  <2> QED BY <2>2 DEF Plain, Env, EnvVar, Kinds
<1>3. LoadDD(c, key) = [c EXCEPT !.env = list]
  <2>1. AddOrUpdateEnvVar(c.env, e, LAMBDA x, n : [x EXCEPT !.value = DDValue(key, @)]) = list
    BY <1>2 DEF AddOrUpdateEnvVar, Placed
  <2> QED BY <2>1 DEF LoadDD
<1> HIDE DEF e
<1>4. OneTag(list)
  <2> HIDE DEF v
  <2> QED BY <1>1, <1>2, OneTagValued
<1> HIDE DEF list
<1>5. [c EXCEPT !.env = list].env = list
  BY DEF PodContainer
<1> QED BY <1>3, <1>4, <1>5

OneTagContainer(c, k, d) == d \in PodContainer /\ OneTag(d.env)
OneTagLoads == INSTANCE FoldTheory WITH Op <- LoadOp, Inv <- OneTagContainer

\* and none of those of a language is.
LEMMA LoadsOneTag ==
  ASSUME NEW c \in PodContainer, NEW keys \in Seq(DOMAIN DDToken), OneTag(c.env)
  PROVE  OneTag(FoldLeft(LoadDD, c, keys).env)
<1> DEFINE n == Len(keys)
<1>1. n \in Nat /\ DOMAIN keys = 1..n /\ \A k \in 1..n : keys[k] \in DOMAIN DDToken
  OBVIOUS
<1> HIDE DEF n
<1>2. OneTagContainer(c, 0, c)
  BY DEF OneTagContainer
<1>3. ASSUME NEW k \in 1..n, NEW d, OneTagContainer(c, k - 1, d)
      PROVE  OneTagContainer(c, k, LoadOp(c, d, keys[k]))
  <2>1. d \in PodContainer /\ OneTag(d.env) /\ keys[k] \in DOMAIN DDToken
    BY <1>1, <1>3 DEF OneTagContainer
  <2> QED BY <2>1, LoadDDIs, LoadOneTag DEF OneTagContainer, LoadOp
<1>4. OneTagContainer(c, n, OneTagLoads!Fold(c, c, keys))
  BY <1>1, <1>2, <1>3, OneTagLoads!FoldKeeps, Least DEF OneTagLoads!Ordered
<1>5. FoldLeft(LoadDD, c, keys) = OneTagLoads!Fold(c, c, keys)
  BY DEF FoldLeft, MapThenFoldSet, Max, OneTagLoads!Fold, OneTagLoads!Largest, LoadOp
<1> QED BY <1>4, <1>5 DEF OneTagContainer

\* The forms that a list takes when a variable of a rule is added.
LEMMA GlobalForms ==
  ASSUME NEW envs \in Seq(EnvVar), NEW e \in EnvVar
  PROVE  LET r == AddGlobalEnv(envs, e)
             i == EnvIndex(envs, "DD_TAGS")
             merged == [e EXCEPT !.value = AppendKVPairs(envs[i].value, @)]
         IN  /\ e.name # "DD_TAGS" => r = IF EnvIndex(envs, e.name) = 0 THEN Append(envs, e) ELSE envs
             /\ e.name = "DD_TAGS" /\ e.kind # "plain" => r = envs
             /\ e.name = "DD_TAGS" /\ e.kind = "plain" =>
                  \/ i = 0 /\ r = Append(envs, e)
                  \/ i # 0 /\ envs[i].kind # "plain" /\ r = envs
                  \/ /\ i # 0 /\ envs[i].kind = "plain" /\ merged \in EnvVar /\ merged.name = e.name
                     /\ merged.kind = "plain" /\ r = Append(RemoveAt(envs, i), merged)
<1> DEFINE r == AddGlobalEnv(envs, e)
           i == EnvIndex(envs, "DD_TAGS")
           j == EnvIndex(envs, e.name)
           merged == [e EXCEPT !.value = AppendKVPairs(envs[i].value, @)]
<1>1. ASSUME e.name # "DD_TAGS" PROVE r = IF j = 0 THEN Append(envs, e) ELSE envs
  <2> DEFINE t == [envs EXCEPT ![j] = envs[j]]
  <2>1. r = IF j = 0 THEN Append(envs, e) ELSE t
    BY <1>1 DEF AddGlobalEnv, AddOrUpdateEnvVar, KeepExistingEnvVar
  <2>2. t = envs
    OBVIOUS
  <2> QED BY <2>1, <2>2
<1>2. e.name = "DD_TAGS" /\ e.kind # "plain" => r = envs
  BY DEF AddGlobalEnv
<1>3. ASSUME e.name = "DD_TAGS", e.kind = "plain"
      PROVE  \/ i = 0 /\ r = Append(envs, e)
             \/ i # 0 /\ envs[i].kind # "plain" /\ r = envs
             \/ /\ i # 0 /\ envs[i].kind = "plain" /\ merged \in EnvVar /\ merged.name = e.name
                /\ merged.kind = "plain" /\ r = Append(RemoveAt(envs, i), merged)
  <2>1. r = AddOrMergeDDTags(envs, e)
    BY <1>3 DEF AddGlobalEnv
  <2>2. CASE i = 0
    <3>1. r = Append(envs, e)
      BY <2>1, <2>2 DEF AddOrMergeDDTags
    <3> QED BY <2>2, <3>1
  <2>3. CASE i # 0 /\ envs[i].kind # "plain"
    <3>1. r = envs
      BY <2>1, <2>3 DEF AddOrMergeDDTags
    <3> QED BY <2>3, <3>1
  <2>4. CASE i # 0 /\ envs[i].kind = "plain"
    <3>1. r = Append(RemoveAt(envs, i), merged)
      BY <2>1, <2>4 DEF AddOrMergeDDTags
    <3>2. envs[i] \in EnvVar
      BY <2>4, FirstExists
    <3> HIDE DEF r, i
    <3> DEFINE v == AppendKVPairs(envs[i].value, e.value)
    <3>3. v \in Seq(Text)
      <4>1. envs[i].value \in Seq(Text) /\ e.value \in Seq(Text)
        BY <3>2 DEF EnvVar
      <4> QED BY <4>1, AppendKVPairsIs
    <3>4. merged = [e EXCEPT !.value = v]
      OBVIOUS
    <3> HIDE DEF v, merged
    <3>5. merged \in EnvVar /\ merged.name = e.name /\ merged.kind = "plain"
      BY <1>3, <3>3, <3>4 DEF EnvVar
    <3> QED BY <2>4, <3>1, <3>5
  <2> QED BY <2>2, <2>3, <2>4
<1> HIDE DEF r, i, j, merged
<1> QED BY <1>1, <1>2, <1>3 DEF r, i, j, merged

\* What is left when one is taken out.
LEMMA RemovedIs ==
  ASSUME NEW envs \in Seq(EnvVar), NEW m \in 1..Len(envs)
  PROVE  LET t == RemoveAt(envs, m)
         IN  /\ t \in Seq(EnvVar) /\ Len(t) = Len(envs) - 1
             /\ \A i \in 1..m - 1 : t[i] = envs[i]
             /\ \A i \in m..Len(envs) - 1 : t[i] = envs[i + 1]
<1> DEFINE a == SubSeq(envs, 1, m - 1)
           b == SubSeq(envs, m + 1, Len(envs))
           t == a \o b
<1>1. Len(envs) \in Nat /\ m \in Nat /\ m >= 1 /\ m <= Len(envs)
  OBVIOUS
<1>2. /\ a \in Seq(EnvVar) /\ Len(a) = m - 1 /\ \A i \in 1..m - 1 : a[i] = envs[i]
      /\ b \in Seq(EnvVar) /\ Len(b) = Len(envs) - m /\ \A i \in 1..Len(envs) - m : b[i] = envs[m + i]
  <2>1. a \in Seq(EnvVar) /\ Len(a) = m - 1 /\ \A i \in 1..m - 1 : a[i] = envs[i]
    BY <1>1, SubSeqProperties
  <2>2. b \in Seq(EnvVar) /\ Len(b) = Len(envs) - m /\ \A i \in 1..Len(envs) - m : b[i] = envs[m + i]
    BY <1>1, SubSeqProperties
  <2> QED BY <2>1, <2>2
<1> HIDE DEF a, b
<1>3. /\ t \in Seq(EnvVar) /\ Len(t) = Len(envs) - 1
      /\ \A i \in 1..m - 1 : t[i] = envs[i]
      /\ \A i \in m..Len(envs) - 1 : t[i] = envs[i + 1]
  <2>1. t \in Seq(EnvVar) /\ Len(t) = Len(a) + Len(b)
    BY <1>2, ConcatProperties
  <2>2. \A i \in 1..Len(t) : t[i] = IF i <= Len(a) THEN a[i] ELSE b[i - Len(a)]
    BY <1>2, ConcatProperties
  <2> HIDE DEF t
  <2>3. \A i \in 1..m - 1 : t[i] = envs[i]
    BY <1>1, <1>2, <2>1, <2>2
  <2>4. ASSUME NEW i \in m..Len(envs) - 1 PROVE t[i] = envs[i + 1]
    <3>1. i \in 1..Len(t) /\ ~(i <= Len(a)) /\ i - Len(a) \in 1..Len(envs) - m /\ m + (i - Len(a)) = i + 1
      BY <1>1, <1>2, <2>1
    <3> QED BY <1>2, <2>2, <3>1
  <2> QED BY <1>1, <1>2, <2>1, <2>3, <2>4
<1>4. RemoveAt(envs, m) = t
  BY DEF RemoveAt, t, a, b
<1> HIDE DEF t
<1> QED BY <1>3, <1>4

\* The merged variable of tags is the only one, and the last variable.
LEMMA TagsMoved ==
  ASSUME NEW envs \in Seq(EnvVar), OneTag(envs), EnvIndex(envs, "DD_TAGS") # 0,
         NEW merged \in EnvVar, merged.name = "DD_TAGS"
  PROVE  LET r == Append(RemoveAt(envs, EnvIndex(envs, "DD_TAGS")), merged)
         IN  /\ r \in Seq(EnvVar) /\ OneTag(r) /\ Len(r) = Len(envs)
             /\ EnvIndex(r, "DD_TAGS") = Len(r)
<1> DEFINE m == EnvIndex(envs, "DD_TAGS")
           rest == RemoveAt(envs, m)
           r == Append(rest, merged)
           n == Len(rest)
<1>1. m \in 1..Len(envs) /\ envs[m].name = "DD_TAGS" /\ Len(envs) \in Nat /\ DOMAIN envs = 1..Len(envs)
  BY EnvIndexIs
<1> HIDE DEF m
<1>2. /\ rest \in Seq(EnvVar) /\ n = Len(envs) - 1
      /\ \A i \in 1..m - 1 : rest[i] = envs[i]
      /\ \A i \in m..Len(envs) - 1 : rest[i] = envs[i + 1]
  BY <1>1, RemovedIs
<1> HIDE DEF rest
<1>3. /\ r \in Seq(EnvVar) /\ Len(r) = n + 1 /\ r[n + 1] = merged /\ \A i \in 1..n : r[i] = rest[i]
      /\ n \in Nat
  BY <1>2, AppendProperties
<1> HIDE DEF r, n
<1>4. ASSUME NEW i \in 1..n PROVE r[i].name # "DD_TAGS"
  <2>1. CASE i < m
    <3>1. i \in 1..m - 1 /\ i \in DOMAIN envs /\ m \in DOMAIN envs /\ i # m
      BY <1>1, <1>2, <2>1
    <3> QED BY <1>1, <1>2, <1>3, <3>1 DEF OneTag
  <2>2. CASE ~(i < m)
    <3>1. i \in m..Len(envs) - 1 /\ i + 1 \in DOMAIN envs /\ m \in DOMAIN envs /\ i + 1 # m
      BY <1>1, <1>2, <1>3, <2>2
    <3> QED BY <1>1, <1>2, <1>3, <3>1 DEF OneTag
  <2> QED BY <2>1, <2>2
<1>5. DOMAIN r = 1..n + 1 /\ \A i \in 1..n + 1 : i \in 1..n \/ i = n + 1
  BY <1>3
<1>6. OneTag(r)
  BY <1>4, <1>5 DEF OneTag
<1>7. EnvIndex(r, "DD_TAGS") = n + 1
  <2>1. n + 1 \in 1..Len(r) /\ r[n + 1].name = "DD_TAGS"
    BY <1>3
  <2>2. /\ EnvIndex(r, "DD_TAGS") # 0 /\ EnvIndex(r, "DD_TAGS") \in 0..Len(r)
        /\ r[EnvIndex(r, "DD_TAGS")].name = "DD_TAGS"
    BY <1>3, <2>1, EnvIndexIs
  <2>3. EnvIndex(r, "DD_TAGS") \in 1..n + 1
    BY <1>3, <2>2
  <2> QED BY <1>4, <1>5, <2>2, <2>3
<1>8. r \in Seq(EnvVar) /\ OneTag(r) /\ Len(r) = Len(envs) /\ EnvIndex(r, "DD_TAGS") = Len(r)
  BY <1>1, <1>2, <1>3, <1>6, <1>7
<1> QED BY <1>8 DEF r, rest, m

\* A variable of the rule makes no second variable of tags.
LEMMA GlobalOneTag ==
  ASSUME NEW envs \in Seq(EnvVar), OneTag(envs), NEW e \in EnvVar
  PROVE  OneTag(AddGlobalEnv(envs, e))
<1> DEFINE r == AddGlobalEnv(envs, e)
           i == EnvIndex(envs, "DD_TAGS")
           merged == [e EXCEPT !.value = AppendKVPairs(envs[i].value, @)]
<1>1. EnvIndex(envs, e.name) = 0 => OneTag(Append(envs, e))
  <2>1. EnvIndex(envs, e.name) = 0 => Placed(envs, e, e) = Append(envs, e)
    BY DEF Placed
  <2> QED BY <2>1, OneTagPlaced
<1> HIDE DEF merged, r, i
<1>2. \/ r = envs
      \/ r = Append(envs, e) /\ EnvIndex(envs, e.name) = 0
      \/ i # 0 /\ merged \in EnvVar /\ merged.name = "DD_TAGS" /\ r = Append(RemoveAt(envs, i), merged)
  <2>1. /\ e.name # "DD_TAGS" => r = IF EnvIndex(envs, e.name) = 0 THEN Append(envs, e) ELSE envs
        /\ e.name = "DD_TAGS" /\ e.kind # "plain" => r = envs
        /\ e.name = "DD_TAGS" /\ e.kind = "plain" =>
             \/ i = 0 /\ r = Append(envs, e)
             \/ i # 0 /\ envs[i].kind # "plain" /\ r = envs
             \/ /\ i # 0 /\ envs[i].kind = "plain" /\ merged \in EnvVar /\ merged.name = e.name
                /\ merged.kind = "plain" /\ r = Append(RemoveAt(envs, i), merged)
    BY GlobalForms DEF r, i, merged
  <2>2. e.name = "DD_TAGS" => i = EnvIndex(envs, e.name)
    BY DEF i
  <2> QED BY <2>1, <2>2
<1>3. ASSUME i # 0, merged \in EnvVar, merged.name = "DD_TAGS" PROVE OneTag(Append(RemoveAt(envs, i), merged))
  BY <1>3, TagsMoved DEF i
<1> QED BY <1>1, <1>2, <1>3 DEF r

GlobalOneTags == INSTANCE FoldTheory WITH Op <- GlobalOp, Inv <- OneTagInv

\* The variables of a rule of DDTrace, one by one.
LEMMA GlobalsOneTag ==
  ASSUME NEW first \in Seq(EnvVar), OneTag(first), NEW envs \in Seq(EnvVar)
  PROVE  OneTag(FoldLeft(AddGlobalEnv, first, envs))
<1> DEFINE n == Len(envs)
<1>1. n \in Nat /\ DOMAIN envs = 1..n /\ \A k \in 1..n : envs[k] \in EnvVar
  OBVIOUS
<1> HIDE DEF n
<1>2. OneTagInv(first, 0, first)
  BY DEF OneTagInv
<1>3. ASSUME NEW k \in 1..n, NEW a, OneTagInv(first, k - 1, a)
      PROVE  OneTagInv(first, k, GlobalOp(first, a, envs[k]))
  <2>1. a \in Seq(EnvVar) /\ OneTag(a) /\ envs[k] \in EnvVar
    BY <1>1, <1>3 DEF OneTagInv
  <2> QED BY <2>1, AddGlobalEnvIs, GlobalOneTag DEF OneTagInv, GlobalOp
<1>4. OneTagInv(first, n, GlobalOneTags!Fold(first, first, envs))
  BY <1>1, <1>2, <1>3, GlobalOneTags!FoldKeeps, Least DEF GlobalOneTags!Ordered
<1>5. FoldLeft(AddGlobalEnv, first, envs) = GlobalOneTags!Fold(first, first, envs)
  BY DEF FoldLeft, MapThenFoldSet, Max, GlobalOneTags!Fold, GlobalOneTags!Largest, GlobalOp
<1> QED BY <1>4, <1>5 DEF OneTagInv

\* The variables of a container that DDTrace changes: those that load the tracer, then
\* those of the rule.
LEMMA DDTracedEnv ==
  ASSUME NEW c \in PodContainer, NEW lang \in DOMAIN LoaderKey, NEW envs \in Seq(EnvVar), OneTag(c.env)
  PROVE  \E first \in Seq(EnvVar) : /\ OneTag(first)
                                    /\ DDTraced(c, lang, envs).env = FoldLeft(AddGlobalEnv, first, envs)
<1> DEFINE keys == DDKeys(lang)
           a == FoldLeft(LoadDD, c, keys)
           b == AddMountTo(a, DDMount)
           new == FoldLeft(AddGlobalEnv, b.env, envs)
<1>1. keys \in Seq(DOMAIN DDToken) /\ DDMount \in VolumeMount
  BY DDKeysAre, TracingLiterals
<1>2. DDTraced(c, lang, envs) = [b EXCEPT !.env = new]
  BY DEF DDTraced
<1> HIDE DEF keys
<1>3. a \in PodContainer /\ OneTag(a.env)
  BY <1>1, LoadsAre, LoadsOneTag DEF LoadInv
<1> HIDE DEF a
<1>4. b \in PodContainer /\ b.env = a.env
  <2>1. b \in PodContainer
    BY <1>1, <1>3, MountEdited
  <2> QED BY <1>3, <2>1 DEF AddMountTo, PodContainer
<1> HIDE DEF b
<1>5. b.env \in Seq(EnvVar) /\ OneTag(b.env)
  BY <1>3, <1>4 DEF PodContainer
<1>6. [b EXCEPT !.env = new].env = new
  <2> HIDE DEF new
  <2> QED BY <1>4 DEF PodContainer
<1> QED BY <1>2, <1>5, <1>6

\* What the tracers make of the variables of a container.
LEMMA TracedOneTag ==
  ASSUME NEW c \in PodContainer, OneTag(c.env), NEW envs \in Seq(EnvVar)
  PROVE  /\ \A lang \in DOMAIN LoaderKey : OneTag(DDTraced(c, lang, envs).env)
         /\ \A lang \in OTelLanguages : OneTag(OTelTraced(c, lang, envs).env)
<1>1. ASSUME NEW lang \in DOMAIN LoaderKey PROVE OneTag(DDTraced(c, lang, envs).env)
  BY DDTracedEnv, GlobalsOneTag
<1>2. ASSUME NEW lang \in OTelLanguages PROVE OneTag(OTelTraced(c, lang, envs).env)
  <2> DEFINE l == c.env
             key == LoaderKey[lang]
             w == OTelValue(lang, <<>>)
             e == Plain(key, w)
             v == OTelValue(lang, l[EnvIndex(l, e.name)].value)
             new == [l[EnvIndex(l, e.name)] EXCEPT !.value = v]
             loaded == OTelLoaded(l, lang)
  <2>1. l \in Seq(EnvVar) /\ OneTag(l)
    BY DEF PodContainer
  <2>2. OTelTraced(c, lang, envs).env = AddOrUpdateEnvVars(loaded, envs, KeepExistingEnvVar)
    BY OTelTracedLoads
  <2>3. loaded \in Seq(EnvVar)
    BY <2>1, OTelLoadedFirst
  <2>4. e \in EnvVar
    <3>1. <<>> \in Seq(Text)
      OBVIOUS
    <3>2. w \in Seq(Text) /\ key \in Text
      BY <3>1, OTelValueIs, TracingLiterals
    <3> HIDE DEF w, key
    <3> QED BY <3>2 DEF Plain, Env, EnvVar, Kinds
  <2>5. loaded = Placed(l, new, e)
    BY DEF OTelLoaded, AddOrUpdateEnvVar, Placed
  <2>6. OneTag(loaded)
    <3> HIDE DEF e, v, loaded, l
    <3> QED BY <2>1, <2>4, <2>5, OneTagValued
  <2> HIDE DEF loaded
  <2> QED BY <2>2, <2>3, <2>6, OneTagUpdates
<1> QED BY <1>1, <1>2

\* The stage of the tracers.
LEMMA TracingOneTag ==
  ASSUME given \in Cases, NEW p, IsPod(p), OneTagEach(p)
  PROVE  OneTagEach(Traced(p))
<1> DEFINE q == Traced(p)
<1>1. given.ddtraces \in Seq(TracingRule) /\ given.otels \in Seq(TracingRule)
  BY CaseIs
<1>2. \/ q = p
      \/ DDInit \in Names(p.init) /\ q = RepairJavaAgentEnv(p)
      \/ DDAdded(p, q, given.namespace, given.ddtraces)
      \/ OTelAdded(p, q, given.namespace, given.otels)
  BY <1>1, TracingForms DEF Traced
<1> SUFFICES OneTagEach(q)
  OBVIOUS
<1> HIDE DEF q
<1>3. \A i \in DOMAIN p.containers : p.containers[i] \in PodContainer /\ OneTag(p.containers[i].env)
  BY PodIs DEF OneTagEach
<1>4. ASSUME NEW rule \in TracingRule PROVE BuildEnvs(rule.envs, p) \in Seq(EnvVar)
  BY BuildEnvsAre DEF TracingRule
<1>5. CASE DDAdded(p, q, given.namespace, given.ddtraces)
  <2> DEFINE rule == SelectRule(p, MatchesAll(given.ddtraces, NamespaceOf(p, given.namespace)), "ddtrace").rule
             envs == BuildEnvs(rule.envs, p)
             list == [i \in DOMAIN p.containers |-> DDTraced(p.containers[i], rule.language, envs)]
  <2>1. PICK init \in PodContainer :
          q = AddVolume(AddInitContainer([p EXCEPT !.containers = list], init), EmptyDir(DDVolume))
    BY <1>5 DEF DDAdded
  <2>2. rule \in TracingRule /\ rule.language \in DOMAIN LoaderKey
    BY <1>5 DEF DDAdded
  <2>3. envs \in Seq(EnvVar)
    BY <1>4, <2>2
  <2> HIDE DEF rule, envs
  <2>4. \A i \in DOMAIN list : OneTag(list[i].env)
    BY <1>3, <2>2, <2>3, TracedOneTag
  <2> HIDE DEF list
  <2>5. q.containers = list
    BY <2>1, PodIs DEF PodFields, AddVolume, AddInitContainer
  <2> QED BY <2>4, <2>5 DEF OneTagEach
<1>6. CASE OTelAdded(p, q, given.namespace, given.otels)
  <2> DEFINE rule == SelectRule(p, MatchesAll(given.otels, NamespaceOf(p, given.namespace)), "otel").rule
             envs == BuildEnvs(rule.envs, p)
             list == [i \in DOMAIN p.containers |-> OTelTraced(p.containers[i], rule.language, envs)]
  <2>1. PICK init \in PodContainer :
          q = AddVolume(AddInitContainer([p EXCEPT !.containers = list], init), EmptyDir(OTelVolume))
    BY <1>6 DEF OTelAdded
  <2>2. rule \in TracingRule /\ rule.language \in OTelLanguages
    BY <1>6 DEF OTelAdded
  <2>3. envs \in Seq(EnvVar)
    BY <1>4, <2>2
  <2> HIDE DEF rule, envs
  <2>4. \A i \in DOMAIN list : OneTag(list[i].env)
    BY <1>3, <2>2, <2>3, TracedOneTag
  <2> HIDE DEF list
  <2>5. q.containers = list
    BY <2>1, PodIs DEF PodFields, AddVolume, AddInitContainer
  <2> QED BY <2>4, <2>5 DEF OneTagEach
<1>7. CASE q = RepairJavaAgentEnv(p)
  <2> DEFINE Repaired(c) == IF HasDDMount(c) /\ ~IsSourced(c, LoaderKey.java)
                            THEN LoadDD(c, LoaderKey.java) ELSE c
             list == [i \in DOMAIN p.containers |-> Repaired(p.containers[i])]
             r == [p EXCEPT !.containers = list]
  <2>1. q \in {p, r}
    BY <1>7 DEF RepairJavaAgentEnv, EachContainer
  <2>2. r.containers = list
    BY PodIs DEF PodFields
  <2>3. LoaderKey.java \in DOMAIN DDToken
    BY DEF LoaderKey, DDToken
  <2>4. \A i \in DOMAIN list : OneTag(list[i].env)
    BY <1>3, <2>3, LoadOneTag
  <2> HIDE DEF list, r
  <2> QED BY <2>1, <2>2, <2>4 DEF OneTagEach
<1>8. CASE q = p
  BY <1>8
<1> QED BY <1>2, <1>5, <1>6, <1>7, <1>8

\* The stages after the first put no variable into a container of the pod.
LEMMA SidecarStageAside ==
  ASSUME IInv, SidecarStage
  PROVE  /\ Aside(work, work') /\ pod' = pod /\ given' = given /\ served' = served
         /\ stage \notin {"idle", "tracing"} /\ stage' \notin {"idle", "tracing"}
<1>1. given \in Cases /\ IsPod(work)
  BY DEF IInv, Inv, TypeOK
<1>2. /\ Aside(work, Logfwd(work)) /\ Aside(work, Flameshot(work))
      /\ Aside(work, Profiler(work)) /\ Aside(work, Logging(work))
  BY <1>1, StagesAside
<1>3. ASSUME NEW i \in 2..5, NEW q, Inject(i, q), Aside(work, q)
      PROVE  /\ Aside(work, work') /\ pod' = pod /\ given' = given /\ served' = served
             /\ stage \notin {"idle", "tracing"} /\ stage' \notin {"idle", "tracing"}
  <2>1. Stages[i] \notin {"idle", "tracing"} /\ Stages[i + 1] \notin {"idle", "tracing"}
    BY DEF Stages
  <2> QED BY <1>3, <2>1 DEF Inject
<1>4. 2 \in 2..5 /\ 3 \in 2..5 /\ 4 \in 2..5 /\ 5 \in 2..5
  OBVIOUS
<1>5. CASE InjectLogfwdSidecar
  BY <1>2, <1>3, <1>4, <1>5 DEF InjectLogfwdSidecar, Logfwd
<1>6. CASE InjectFlameshotSidecar
  BY <1>2, <1>3, <1>4, <1>6 DEF InjectFlameshotSidecar, Flameshot
<1>7. CASE InjectProfilerSidecar
  BY <1>2, <1>3, <1>4, <1>7 DEF InjectProfilerSidecar, Profiler
<1>8. CASE MutateLogging
  BY <1>2, <1>3, <1>4, <1>8 DEF MutateLogging, Logging
<1> QED BY <1>5, <1>6, <1>7, <1>8 DEF SidecarStage

\* What others do to a pod.
LEMMA OtherKeepsOneTag ==
  ASSUME LateHaveOneTag, NEW p, IsPod(p), OneTagEach(p)
  PROVE  /\ \A c \in LateSidecars : OneTagEach(AddContainer(p, c))
         /\ \A i \in DOMAIN p.containers : OneTagEach([p EXCEPT !.containers[i].env = <<>>])
<1>1. /\ p = [f \in PodFields |-> p[f]] /\ p.containers \in Seq(PodContainer)
      /\ \A i \in DOMAIN p.containers : p.containers[i] \in PodContainer /\ OneTag(p.containers[i].env)
  BY PodIs DEF OneTagEach
<1>3. ASSUME NEW c \in LateSidecars PROVE OneTagEach(AddContainer(p, c))
  <2> DEFINE q == AddContainer(p, c)
             list == AddNamed(p.containers, c)
  <2>1. q.containers = list
    BY <1>1 DEF AddContainer, PodFields
  <2>2. c \in PodContainer /\ OneTag(c.env)
    BY InjectionAssumption DEF LateHaveOneTag
  <2> HIDE DEF q
  <2>3. ToSet(list) \subseteq ToSet(p.containers) \cup {c}
    BY <1>1, <2>2, AddedIs
  <2> HIDE DEF list
  <2>4. \A d \in ToSet(p.containers) : OneTag(d.env)
    BY <1>1 DEF ToSet
  <2>5. \A i \in DOMAIN list : list[i] \in ToSet(list)
    BY DEF ToSet
  <2>6. \A i \in DOMAIN list : OneTag(list[i].env)
    BY <2>2, <2>3, <2>4, <2>5
  <2> QED BY <2>1, <2>6 DEF OneTagEach, q
<1>4. ASSUME NEW i \in DOMAIN p.containers PROVE OneTagEach([p EXCEPT !.containers[i].env = <<>>])
  <2> DEFINE old == p.containers
             new == [old EXCEPT ![i] = [old[i] EXCEPT !.env = <<>>]]
             q == [p EXCEPT !.containers[i].env = <<>>]
  <2>1. q.containers = new
    BY <1>1 DEF PodFields
  <2>2. DOMAIN new = DOMAIN old /\ \A j \in DOMAIN old : new[j].env = old[j].env \/ new[j].env = <<>>
    <3>1. old[i] \in PodContainer
      BY <1>1
    <3>2. [old[i] EXCEPT !.env = <<>>].env = <<>>
      <4> HIDE DEF old
      <4> QED BY <3>1 DEF PodContainer
    <3> QED BY <3>2
  <2>3. OneTag(<<>>)
    BY DEF OneTag
  <2> HIDE DEF new, q
  <2>4. \A j \in DOMAIN new : OneTag(new[j].env)
    BY <1>1, <2>2, <2>3
  <2> QED BY <2>1, <2>4 DEF OneTagEach, q
<1> QED BY <1>3, <1>4

AllOneTag == OneTagEach(pod) /\ OneTagEach(work)

\* Every step keeps to one variable of tags.
LEMMA OneTagNext ==
  ASSUME LateHaveOneTag, IInv, AllOneTag, [Next]_vars
  PROVE  AllOneTag'
<1>1. /\ IsPod(pod) /\ UniqueNames(pod.containers) /\ IsPod(work) /\ Extends(pod, work)
      /\ given \in Cases /\ OneTagEach(pod) /\ OneTagEach(work)
  BY DEF IInv, Inv, TypeOK, AllOneTag
<1>2. CASE Receive
  BY <1>1, <1>2 DEF AllOneTag, Receive, OneTagEach
<1>3. CASE InjectTracing
  <2>1. work' = Traced(work) /\ pod' = pod
    BY <1>3, TracingStageIs
  <2>2. OneTagEach(Traced(work))
    BY <1>1, TracingOneTag
  <2> QED BY <1>1, <2>1, <2>2 DEF AllOneTag, OneTagEach
<1>4. CASE SidecarStage
  <2>1. Aside(work, work') /\ pod' = pod
    BY <1>4, SidecarStageAside
  <2>2. \A i \in DOMAIN work'.containers : OneTag(work'.containers[i].env)
    BY <1>1, <2>1 DEF Aside, OneTagEach
  <2> QED BY <1>1, <2>1, <2>2 DEF AllOneTag, OneTagEach
<1>5. CASE Respond
  <2>1. pod' = work
    BY <1>1, <1>5, PatchLeads DEF Respond
  <2> QED BY <1>1, <1>5, <2>1 DEF AllOneTag, Respond, OneTagEach
<1>6. CASE Lose
  BY <1>1, <1>6 DEF AllOneTag, Lose, OneTagEach
<1>7. CASE OtherAdds
  <2>1. PICK c \in LateSidecars : pod' = AddContainer(pod, c) /\ work' = pod'
    BY <1>7 DEF OtherAdds, Other
  <2>2. OneTagEach(AddContainer(pod, c))
    BY <1>1, OtherKeepsOneTag
  <2> QED BY <2>1, <2>2 DEF AllOneTag, OneTagEach
<1>8. CASE OtherResetsEnv
  <2>1. PICK i \in DOMAIN pod.containers : pod' = [pod EXCEPT !.containers[i].env = <<>>] /\ work' = pod'
    BY <1>8 DEF OtherResetsEnv, Other
  <2>2. OneTagEach([pod EXCEPT !.containers[i].env = <<>>])
    BY <1>1, OtherKeepsOneTag
  <2> QED BY <2>1, <2>2 DEF AllOneTag, OneTagEach
<1>9. CASE UNCHANGED vars
  BY <1>1, <1>9 DEF vars, AllOneTag, OneTagEach
<1> QED BY <1>2, <1>3, <1>4, <1>5, <1>6, <1>7, <1>8, <1>9 DEF Next, SidecarStage

\* So it is for every pod and every copy.
LEMMA AlwaysOneTag ==
  ASSUME LateHaveOneTag, \A c \in Cases : OneTagEach(c.pod)
  PROVE  Spec => []AllOneTag
<1>1. Init => AllOneTag
  <2> SUFFICES ASSUME Init PROVE AllOneTag
    OBVIOUS
  <2> QED BY DEF Init, AllOneTag
<1>2. IInv /\ AllOneTag /\ [Next]_vars => AllOneTag'
  BY OneTagNext
<1> QED BY <1>1, <1>2, Invariant, PTL DEF Spec

-----------------------------------------------------------------------------
(* The variables that a rule lists before the tags *)

\* A variable is in a place that another one, which is appended, does not change.
LEMMA IndexAppended ==
  ASSUME NEW envs \in Seq(EnvVar), NEW e \in EnvVar, NEW name, name # e.name
  PROVE  /\ EnvIndex(Append(envs, e), name) = EnvIndex(envs, name)
         /\ EnvIndex(envs, name) # 0 =>
              Append(envs, e)[EnvIndex(envs, name)] = envs[EnvIndex(envs, name)]
<1> DEFINE n == Len(envs)
           t == Append(envs, e)
           i == EnvIndex(envs, name)
           j == EnvIndex(t, name)
<1>1. n \in Nat /\ t \in Seq(EnvVar) /\ Len(t) = n + 1 /\ t[n + 1] = e /\ \A k \in 1..n : t[k] = envs[k]
  BY AppendProperties
<1> HIDE DEF t
<1>2. /\ i \in 0..n /\ (i # 0 => envs[i].name = name)
      /\ \A k \in 1..n : envs[k].name = name => i # 0 /\ i <= k
  BY EnvIndexIs
<1>3. /\ j \in 0..n + 1 /\ (j # 0 => t[j].name = name)
      /\ \A k \in 1..n + 1 : t[k].name = name => j # 0 /\ j <= k
  BY <1>1, EnvIndexIs
<1> HIDE DEF n, i, j
<1>4. j # n + 1
  BY <1>1, <1>3
<1>5. j \in 0..n
  BY <1>1, <1>3, <1>4
<1>6. j # 0 => i # 0 /\ i <= j
  BY <1>1, <1>2, <1>3, <1>5
<1>7. i # 0 => j # 0 /\ j <= i
  <2> SUFFICES ASSUME i # 0 PROVE j # 0 /\ j <= i
    OBVIOUS
  <2>1. i \in 1..n + 1 /\ t[i].name = name
    BY <1>1, <1>2
  <2> QED BY <1>3, <2>1
<1>8. i = j
  BY <1>1, <1>2, <1>5, <1>6, <1>7
<1>9. i # 0 => t[i] = envs[i]
  BY <1>1, <1>2
<1> QED BY <1>8, <1>9 DEF i, j, t

\* What a rule of DDTrace brings, as it is built from the first k variables it lists:
\* once the variable at ctx.at is there, none of ctx.names comes after it.
LimitAt(ctx, list, x) == LimitOp(ctx.kept, list, x)
LaterInv(ctx, k, list) ==
  /\ list \in Seq(EnvVar)
  /\ k >= ctx.at =>
       \E d \in 1..Len(list) : /\ list[d] = ctx.e
                               /\ \A j \in d + 1..Len(list) : list[j].name \notin ctx.names
Latering == INSTANCE FoldTheory WITH Op <- LimitAt, Inv <- LaterInv

\* A variable is built in the place where the rule lists it: what comes after it is not
\* what the rule lists before it.
LEMMA BuiltOrder ==
  ASSUME NEW envs \in Seq(EnvVar), UniqueNames(envs), NEW p,
         NEW b \in 1..Len(envs), envs[b].kind = "plain", envs[b].value # <<>>
  PROVE  LET r == BuildEnvs(envs, p)
         IN  \E d \in 1..Len(r) : /\ r[d] = envs[b]
                                  /\ \A j \in d + 1..Len(r) : r[j].name \notin {envs[i].name : i \in 1..b}
<1> DEFINE n == Len(envs)
           built == [i \in DOMAIN envs |-> BuildEnv(envs[i])]
           kept == p.containers = <<>> \/ p.containers[1].declares
           names == {envs[i].name : i \in 1..b}
           ctx == [kept |-> kept, names |-> names, at |-> b, e |-> envs[b]]
           r == BuildEnvs(envs, p)
<1>1. n \in Nat /\ DOMAIN envs = 1..n /\ b \in 1..n /\ \A k \in 1..n : envs[k] \in EnvVar
  OBVIOUS
<1>2. DOMAIN built = 1..n /\ \A k \in 1..n : built[k] \in EnvVar /\ built[k].name = envs[k].name
  <2>1. \A k \in 1..n : built[k] = BuildEnv(envs[k])
    BY <1>1
  <2>2. \A k \in 1..n : BuildEnv(envs[k]) \in EnvVar
    BY <1>1, BuildEnvIs
  <2>3. \A k \in 1..n : BuildEnv(envs[k]).name = envs[k].name
    BY <1>1 DEF BuildEnv, Env
  <2> QED BY <1>1, <2>1, <2>2, <2>3
<1>3. built[b] = envs[b]
  BY <1>1 DEF BuildEnv
<1>4. r = Limiting!Fold(kept, <<>>, built)
  BY DEF BuildEnvs, Filter, FoldLeft, MapThenFoldSet, Max, Limiting!Fold, Limiting!Largest, LimitOp
<1>5. ctx.kept = kept /\ ctx.names = names /\ ctx.at = b /\ ctx.e = envs[b]
  OBVIOUS
<1>6. \A k \in b + 1..n : built[k].name \notin names
  <2> SUFFICES ASSUME NEW k \in b + 1..n, NEW i \in 1..b, envs[i].name = built[k].name PROVE FALSE
    OBVIOUS
  <2>1. k \in 1..n /\ i \in 1..n /\ i # k
    BY <1>1
  <2> HIDE DEF built
  <2> QED BY <1>1, <1>2, <2>1 DEF UniqueNames
<1> HIDE DEF n, built, kept, names, ctx, r
<1>7. LaterInv(ctx, 0, <<>>)
  BY <1>1, <1>5 DEF LaterInv
<1>8. ASSUME NEW k \in 1..n, NEW a, LaterInv(ctx, k - 1, a)
      PROVE  LaterInv(ctx, k, LimitAt(ctx, a, built[k]))
  <2> DEFINE x == built[k]
             t == Append(a, x)
             m == Len(a)
  <2>1. x \in EnvVar /\ a \in Seq(EnvVar)
    BY <1>2, <1>8 DEF LaterInv
  <2>2. m \in Nat /\ t \in Seq(EnvVar) /\ Len(t) = m + 1 /\ t[m + 1] = x /\ \A i \in 1..m : t[i] = a[i]
    BY <2>1, AppendProperties
  <2>3. LimitAt(ctx, a, x) = IF x.kind = "limit" => kept THEN t ELSE a
    BY <1>5 DEF LimitAt, LimitOp
  <2>4. CASE k < b
    <3>1. ~(k >= b)
      BY <1>1, <2>4
    <3> HIDE DEF x, t
    <3> QED BY <1>5, <2>1, <2>2, <2>3, <3>1 DEF LaterInv, x
  <2>5. CASE k = b
    <3>1. LimitAt(ctx, a, x) = t
      BY <1>3, <2>3, <2>5
    <3>2. x = envs[b]
      BY <1>3, <2>5
    <3> HIDE DEF x, t, m
    <3>3. m + 1 \in 1..Len(t) /\ (m + 1) + 1..Len(t) = {}
      BY <2>2
    <3>4. LaterInv(ctx, k, t)
      BY <1>5, <2>2, <3>2, <3>3 DEF LaterInv
    <3> QED BY <3>1, <3>4 DEF x
  <2>6. CASE k > b
    <3>1. k - 1 >= b /\ x.name \notin names
      BY <1>1, <1>6, <2>6
    <3> HIDE DEF x, t
    <3>2. PICK d \in 1..m : a[d] = envs[b] /\ \A j \in d + 1..m : a[j].name \notin names
      BY <1>5, <1>8, <3>1 DEF LaterInv
    <3> HIDE DEF m
    <3>3. d \in 1..Len(t) /\ t[d] = envs[b] /\ \A j \in d + 1..Len(t) : j \in d + 1..m \/ j = m + 1
      BY <2>2, <3>2
    <3>4. \A j \in d + 1..m : j \in 1..m
      BY <2>2, <3>2
    <3>5. \A j \in d + 1..Len(t) : t[j].name \notin names
      BY <2>2, <3>1, <3>2, <3>3, <3>4
    <3>6. LaterInv(ctx, k, t)
      BY <1>5, <2>2, <3>3, <3>5 DEF LaterInv
    <3>7. LaterInv(ctx, k, a)
      BY <1>5, <2>1, <3>2 DEF LaterInv, m
    <3> QED BY <2>3, <3>6, <3>7 DEF x
  <2> QED BY <1>1, <2>4, <2>5, <2>6
<1>9. LaterInv(ctx, n, r)
  <2>1. PICK acc : Limiting!Runs(acc, kept, <<>>, built, n) /\ r = acc[n]
    BY <1>1, <1>2, <1>4, Limiting!FoldRuns, Least DEF Limiting!Ordered
  <2>2. Latering!Runs(acc, ctx, <<>>, built, n)
    BY <1>5, <2>1 DEF Limiting!Runs, Latering!Runs, LimitAt
  <2>3. Latering!Fold(ctx, <<>>, built) = r
    BY <1>1, <1>2, <2>1, <2>2, Latering!FoldIs, Least DEF Latering!Ordered
  <2>4. LaterInv(ctx, n, Latering!Fold(ctx, <<>>, built))
    BY <1>1, <1>2, <1>7, <1>8, Latering!FoldKeeps, Least DEF Latering!Ordered
  <2> QED BY <2>3, <2>4
<1>10. n >= b
  BY <1>1
<1> QED BY <1>5, <1>9, <1>10 DEF LaterInv, names, r

\* The variables of a container once the one of the tags, at ctx.at, was added: that of
\* ctx.name, if it is there, is not after it.
TagsLastInv(ctx, k, list) ==
  /\ list \in Seq(EnvVar) /\ OneTag(list)
  /\ k >= ctx.at =>
       LET t == EnvIndex(list, "DD_TAGS")
       IN  t # 0 /\ (list[t].kind = "plain" => EnvIndex(list, ctx.name) <= t)
TagsFold == INSTANCE FoldTheory WITH Op <- GlobalOp, Inv <- TagsLastInv

\* The tags of the rule are put at the end, or where the container has tags that are no
\* text.
LEMMA TagsPlaced ==
  ASSUME NEW envs \in Seq(EnvVar), OneTag(envs), NEW e \in EnvVar, e.name = "DD_TAGS", e.kind = "plain",
         NEW name
  PROVE  LET r == AddGlobalEnv(envs, e)
             t == EnvIndex(r, "DD_TAGS")
         IN  t # 0 /\ (r[t].kind = "plain" => EnvIndex(r, name) <= t)
<1> DEFINE r == AddGlobalEnv(envs, e)
           i == EnvIndex(envs, "DD_TAGS")
           merged == [e EXCEPT !.value = AppendKVPairs(envs[i].value, @)]
           Good(list) == LET t == EnvIndex(list, "DD_TAGS")
                         IN  t # 0 /\ (list[t].kind = "plain" => EnvIndex(list, name) <= t)
<1>1. \/ i = 0 /\ r = Append(envs, e)
      \/ i # 0 /\ envs[i].kind # "plain" /\ r = envs
      \/ /\ i # 0 /\ envs[i].kind = "plain" /\ merged \in EnvVar /\ merged.name = e.name
         /\ merged.kind = "plain" /\ r = Append(RemoveAt(envs, i), merged)
  BY GlobalForms
<1> HIDE DEF merged, r
<1>2. CASE i = 0 /\ r = Append(envs, e)
  <2> DEFINE n == Len(envs)
             t == EnvIndex(r, "DD_TAGS")
  <2>1. n \in Nat /\ r \in Seq(EnvVar) /\ Len(r) = n + 1 /\ r[n + 1] = e /\ \A k \in 1..n : r[k] = envs[k]
    BY <1>2, AppendProperties
  <2>2. \A k \in 1..n : envs[k].name # "DD_TAGS"
    BY <1>2, EnvIndexIs
  <2> HIDE DEF n
  <2>3. /\ t \in 0..n + 1 /\ (t # 0 => r[t].name = "DD_TAGS")
        /\ \A k \in 1..n + 1 : r[k].name = "DD_TAGS" => t # 0
        /\ EnvIndex(r, name) \in 0..n + 1
    BY <2>1, EnvIndexIs
  <2> HIDE DEF t
  <2>4. t # 0
    <3>1. n + 1 \in 1..n + 1
      BY <2>1
    <3> QED BY <2>1, <2>3, <3>1
  <2>5. t = n + 1
    BY <2>1, <2>2, <2>3, <2>4
  <2> QED BY <2>1, <2>3, <2>4, <2>5 DEF t, r
<1>3. CASE i # 0 /\ envs[i].kind # "plain" /\ r = envs
  BY <1>3 DEF r
<1>4. CASE /\ i # 0 /\ envs[i].kind = "plain" /\ merged \in EnvVar /\ merged.name = e.name
           /\ merged.kind = "plain" /\ r = Append(RemoveAt(envs, i), merged)
  <2>1. r \in Seq(EnvVar) /\ EnvIndex(r, "DD_TAGS") = Len(r) /\ Len(r) = Len(envs)
    BY <1>4, TagsMoved
  <2>2. Len(r) # 0 /\ Len(r) \in Nat
    <3>1. i \in 1..Len(envs)
      BY <1>4, EnvIndexIs
    <3> QED BY <2>1, <3>1
  <2>3. EnvIndex(r, name) \in 0..Len(r)
    BY <2>1, EnvIndexIs
  <2>4. EnvIndex(r, name) <= Len(r)
    BY <2>2, <2>3
  <2> QED BY <2>1, <2>2, <2>4 DEF r
<1> QED BY <1>1, <1>2, <1>3, <1>4

\* What comes after the tags changes neither.
LEMMA TagsStay ==
  ASSUME NEW envs \in Seq(EnvVar), NEW e \in EnvVar, e.name # "DD_TAGS", NEW name, e.name # name
  PROVE  LET r == AddGlobalEnv(envs, e)
             t == EnvIndex(envs, "DD_TAGS")
         IN  /\ EnvIndex(r, "DD_TAGS") = t /\ EnvIndex(r, name) = EnvIndex(envs, name)
             /\ t # 0 => r[t] = envs[t]
<1> DEFINE r == AddGlobalEnv(envs, e)
<1>1. r = IF EnvIndex(envs, e.name) = 0 THEN Append(envs, e) ELSE envs
  BY GlobalForms
<1> HIDE DEF r
<1>2. CASE r = envs
  BY <1>2 DEF r
<1>3. CASE r = Append(envs, e)
  <2>1. EnvIndex(r, "DD_TAGS") = EnvIndex(envs, "DD_TAGS")
    BY <1>3, IndexAppended
  <2>2. EnvIndex(r, name) = EnvIndex(envs, name)
    BY <1>3, IndexAppended
  <2>3. EnvIndex(envs, "DD_TAGS") # 0 => r[EnvIndex(envs, "DD_TAGS")] = envs[EnvIndex(envs, "DD_TAGS")]
    BY <1>3, IndexAppended
  <2> QED BY <2>1, <2>2, <2>3 DEF r
<1> QED BY <1>1, <1>2, <1>3

\* A variable that the rule lists before the tags is not after them in the container.
LEMMA TagsLast ==
  ASSUME NEW first \in Seq(EnvVar), OneTag(first), NEW envs \in Seq(EnvVar), NEW name,
         NEW d \in 1..Len(envs), envs[d].name = "DD_TAGS", envs[d].kind = "plain",
         \A j \in d + 1..Len(envs) : envs[j].name \notin {name, "DD_TAGS"}
  PROVE  LET r == FoldLeft(AddGlobalEnv, first, envs)
             t == EnvIndex(r, "DD_TAGS")
         IN  t # 0 /\ (r[t].kind = "plain" => EnvIndex(r, name) <= t)
<1> DEFINE n == Len(envs)
           ctx == [at |-> d, name |-> name]
           r == FoldLeft(AddGlobalEnv, first, envs)
<1>1. n \in Nat /\ DOMAIN envs = 1..n /\ d \in 1..n /\ \A k \in 1..n : envs[k] \in EnvVar
  OBVIOUS
<1>2. ctx.at = d /\ ctx.name = name
  OBVIOUS
<1>3. r = TagsFold!Fold(ctx, first, envs)
  BY DEF FoldLeft, MapThenFoldSet, Max, TagsFold!Fold, TagsFold!Largest, GlobalOp
<1>4. \A j \in d + 1..n : envs[j].name # name /\ envs[j].name # "DD_TAGS"
  OBVIOUS
<1> HIDE DEF n, ctx, r
<1>5. TagsLastInv(ctx, 0, first)
  BY <1>1, <1>2 DEF TagsLastInv
<1>6. ASSUME NEW k \in 1..n, NEW a, TagsLastInv(ctx, k - 1, a)
      PROVE  TagsLastInv(ctx, k, GlobalOp(ctx, a, envs[k]))
  <2> DEFINE e == envs[k]
             s == AddGlobalEnv(a, e)
             t == EnvIndex(a, "DD_TAGS")
  <2>1. e \in EnvVar /\ a \in Seq(EnvVar) /\ OneTag(a)
    BY <1>1, <1>6 DEF TagsLastInv
  <2> HIDE DEF e
  <2>2. s \in Seq(EnvVar) /\ OneTag(s)
    BY <2>1, AddGlobalEnvIs, GlobalOneTag
  <2> SUFFICES TagsLastInv(ctx, k, s)
    BY DEF GlobalOp, e
  <2>3. CASE k < d
    <3>1. ~(k >= d)
      BY <1>1, <2>3
    <3> QED BY <1>2, <2>2, <3>1 DEF TagsLastInv
  <2>4. CASE k = d
    <3>1. e.name = "DD_TAGS" /\ e.kind = "plain"
      BY <2>4 DEF e
    <3>2. EnvIndex(s, "DD_TAGS") # 0
      BY <2>1, <3>1, TagsPlaced
    <3>3. s[EnvIndex(s, "DD_TAGS")].kind = "plain" => EnvIndex(s, name) <= EnvIndex(s, "DD_TAGS")
      BY <2>1, <3>1, TagsPlaced
    <3> HIDE DEF s
    <3> QED BY <1>2, <2>2, <3>2, <3>3 DEF TagsLastInv
  <2>5. CASE k > d
    <3>1. k - 1 >= d /\ e.name # name /\ e.name # "DD_TAGS"
      BY <1>1, <1>4, <2>5 DEF e
    <3>2. t # 0 /\ (a[t].kind = "plain" => EnvIndex(a, name) <= t)
      BY <1>2, <1>6, <3>1 DEF TagsLastInv
    <3>3. /\ EnvIndex(s, "DD_TAGS") = t /\ EnvIndex(s, name) = EnvIndex(a, name)
          /\ t # 0 => s[t] = a[t]
      BY <2>1, <3>1, TagsStay
    <3> HIDE DEF s, t
    <3> QED BY <1>2, <2>2, <3>2, <3>3 DEF TagsLastInv
  <2> QED BY <1>1, <2>3, <2>4, <2>5
<1>7. TagsLastInv(ctx, n, r)
  BY <1>1, <1>3, <1>5, <1>6, TagsFold!FoldKeeps, Least DEF TagsFold!Ordered
<1>8. n >= d
  BY <1>1
<1>9. LET t == EnvIndex(r, "DD_TAGS") IN t # 0 /\ (r[t].kind = "plain" => EnvIndex(r, name) <= t)
  BY <1>2, <1>7, <1>8 DEF TagsLastInv
<1> QED BY <1>9 DEF r

\* The step of the tracers puts the tags after the variables that the rule lists before
\* them.
LEMMA TracingOrders ==
  ASSUME IInv, AllOneTag, \A c \in Cases : ListedOnce(c), InjectTracing,
         ~ContainsInitContainer(work, DDInit), ContainsInitContainer(work', DDInit),
         NEW c \in ToSet(work'.containers)
  PROVE  LET rule == SelectRule(work, MatchesAll(given.ddtraces, NamespaceOf(work, given.namespace)), "ddtrace").rule
         IN  \A b \in DOMAIN rule.envs :
               LET tags == EnvIndex(c.env, "DD_TAGS")
                   e == rule.envs[b]
               IN  (e.name = "DD_TAGS" /\ e.kind = "plain" /\ e.value # <<>> /\ c.env[tags].kind = "plain") =>
                     \A a \in 1..(b - 1) : EnvIndex(c.env, rule.envs[a].name) <= tags
<1> DEFINE p == work
           q == Traced(work)
           rules == MatchesAll(given.ddtraces, NamespaceOf(p, given.namespace))
           chosen == SelectRule(p, rules, "ddtrace")
           rule == chosen.rule
           built == BuildEnvs(rule.envs, p)
           list == [i \in DOMAIN p.containers |-> DDTraced(p.containers[i], rule.language, built)]
<1>1. IsPod(p) /\ given \in Cases /\ OneTagEach(p)
  BY DEF IInv, Inv, TypeOK, AllOneTag
<1>2. work' = q
  BY TracingStageIs
<1>3. given.ddtraces \in Seq(TracingRule) /\ given.otels \in Seq(TracingRule)
  BY <1>1, CaseIs
<1>4. \/ q = p
      \/ DDInit \in Names(p.init) /\ q = RepairJavaAgentEnv(p)
      \/ DDAdded(p, q, given.namespace, given.ddtraces)
      \/ OTelAdded(p, q, given.namespace, given.otels)
  BY <1>1, <1>3, TracingForms DEF Traced
<1>5. DDInit \notin Names(p.init) /\ DDInit \in Names(q.init)
  BY <1>2 DEF ContainsInitContainer, Names
<1> HIDE DEF q
<1>6. ~OTelAdded(p, q, given.namespace, given.otels)
  <2> SUFFICES ASSUME OTelAdded(p, q, given.namespace, given.otels) PROVE FALSE
    OBVIOUS
  <2> DEFINE other == SelectRule(p, MatchesAll(given.otels, NamespaceOf(p, given.namespace)), "otel").rule
             traced == [i \in DOMAIN p.containers |->
                          OTelTraced(p.containers[i], other.language, BuildEnvs(other.envs, p))]
  <2>1. PICK init \in PodContainer :
          /\ init.name = OTelInit
          /\ q = AddVolume(AddInitContainer([p EXCEPT !.containers = traced], init), EmptyDir(OTelVolume))
    BY DEF OTelAdded
  <2> HIDE DEF traced
  <2>2. q.init = AddNamed(p.init, init)
    BY <1>1, <2>1, PodIs DEF PodFields, AddVolume, AddInitContainer
  <2>3. Names(q.init) = Names(p.init) \cup {OTelInit}
    BY <1>1, <2>1, <2>2, PodIs, AddNamedIs
  <2> QED BY <1>5, <2>3 DEF DDInit, OTelInit
<1>7. DDAdded(p, q, given.namespace, given.ddtraces)
  BY <1>4, <1>5, <1>6
<1>8. PICK init \in PodContainer :
        q = AddVolume(AddInitContainer([p EXCEPT !.containers = list], init), EmptyDir(DDVolume))
  BY <1>7 DEF DDAdded
<1>9. rule \in TracingRule /\ rule \in ToSet(given.ddtraces) /\ rule.language \in DOMAIN LoaderKey
  BY <1>7 DEF DDAdded
<1>10. UniqueNames(rule.envs) /\ rule.envs \in Seq(EnvVar)
  BY <1>1, <1>9 DEF ListedOnce, ToSet, TracingRule
<1> HIDE DEF rule
<1>11. built \in Seq(EnvVar)
  BY <1>10, BuildEnvsAre
<1>12. PICK i \in DOMAIN p.containers : c = DDTraced(p.containers[i], rule.language, built)
  <2> HIDE DEF built
  <2>1. list = [i \in DOMAIN p.containers |-> list[i]]
    OBVIOUS
  <2>2. \A i \in DOMAIN list : i \in DOMAIN p.containers /\ list[i] = DDTraced(p.containers[i], rule.language, built)
    OBVIOUS
  <2> HIDE DEF list
  <2>3. q.containers = list
    BY <1>1, <1>8, PodIs DEF PodFields, AddVolume, AddInitContainer
  <2>4. PICK i \in DOMAIN list : c = list[i]
    BY <1>2, <2>3 DEF ToSet
  <2> QED BY <2>2, <2>4
<1>13. p.containers[i] \in PodContainer /\ OneTag(p.containers[i].env)
  BY <1>1, PodIs DEF OneTagEach
<1>14. PICK first \in Seq(EnvVar) : OneTag(first) /\ c.env = FoldLeft(AddGlobalEnv, first, built)
  BY <1>9, <1>11, <1>12, <1>13, DDTracedEnv
<1>15. ASSUME NEW b \in DOMAIN rule.envs, rule.envs[b].name = "DD_TAGS", rule.envs[b].kind = "plain",
              rule.envs[b].value # <<>>, c.env[EnvIndex(c.env, "DD_TAGS")].kind = "plain", NEW a \in 1..(b - 1)
       PROVE  EnvIndex(c.env, rule.envs[a].name) <= EnvIndex(c.env, "DD_TAGS")
  <2> DEFINE name == rule.envs[a].name
             names == {rule.envs[j].name : j \in 1..b}
  <2>1. b \in 1..Len(rule.envs) /\ a \in 1..b /\ b \in 1..b
    BY <1>10
  <2>2. name \in names /\ "DD_TAGS" \in names
    BY <1>15, <2>1
  <2>3. PICK d \in 1..Len(built) : /\ built[d] = rule.envs[b]
                                   /\ \A j \in d + 1..Len(built) : built[j].name \notin names
    BY <1>10, <1>15, <2>1, BuiltOrder
  <2>4. \A j \in d + 1..Len(built) : built[j].name \notin {name, "DD_TAGS"}
    BY <2>2, <2>3
  <2> HIDE DEF name, names, built
  <2>5. /\ EnvIndex(c.env, "DD_TAGS") # 0
        /\ c.env[EnvIndex(c.env, "DD_TAGS")].kind = "plain" => EnvIndex(c.env, name) <= EnvIndex(c.env, "DD_TAGS")
    BY <1>11, <1>14, <1>15, <2>3, <2>4, TagsLast
  <2> QED BY <1>15, <2>5 DEF name
<1> HIDE DEF built, list
<1> QED BY <1>15 DEF rule, chosen, rules, p

\* Where no container starts with several variables of tags and no rule lists a variable
\* twice, every variable that a rule of DDTrace lists before its tags is before the tags in
\* every container the rule is injected into.
THEOREM TagsAfterVariablesHolds ==
  ASSUME LateHaveOneTag, \A c \in Cases : OneTagEach(c.pod) /\ ListedOnce(c)
  PROVE  Spec => TagsAfterVariables
<1> DEFINE Ordered ==
      InjectTracing =>
       LET chosen == SelectRule(work, MatchesAll(given.ddtraces, NamespaceOf(work, given.namespace)), "ddtrace")
       IN  (~ContainsInitContainer(work, DDInit) /\ ContainsInitContainer(work', DDInit)) =>
             \A c \in ToSet(work'.containers), b \in DOMAIN chosen.rule.envs :
                LET tags == EnvIndex(c.env, "DD_TAGS")
                    e == chosen.rule.envs[b]
                IN  (/\ e.name = "DD_TAGS" /\ e.kind = "plain" /\ e.value # <<>>
                     /\ c.env[tags].kind = "plain") =>
                      \A a \in 1..(b - 1) : EnvIndex(c.env, chosen.rule.envs[a].name) <= tags
<1>1. Spec => []AllOneTag
  BY AlwaysOneTag
<1>2. IInv /\ AllOneTag => [Ordered]_vars
  BY TracingOrders
<1> QED BY <1>1, <1>2, Invariant, PTL DEF Spec, TagsAfterVariables

-----------------------------------------------------------------------------
(* What becomes of a variable *)

\* One text is inside another one.
Inside(s, t) == \E d \in Nat : d + Len(s) <= Len(t) /\ \A k \in 1..Len(s) : t[d + k] = s[k]

\* A text is inside itself,
LEMMA InsideReflexive ==
  ASSUME NEW s \in Seq(Text)
  PROVE  Inside(s, s)
<1>1. 0 \in Nat /\ 0 + Len(s) <= Len(s) /\ \A k \in 1..Len(s) : s[0 + k] = s[k]
  OBVIOUS
<1> QED BY <1>1 DEF Inside

\* and inside what has another one inside that it is inside of.
LEMMA InsideTransitive ==
  ASSUME NEW s \in Seq(Text), NEW t \in Seq(Text), NEW u \in Seq(Text), Inside(s, t), Inside(t, u)
  PROVE  Inside(s, u)
<1>1. PICK d \in Nat : d + Len(s) <= Len(t) /\ \A k \in 1..Len(s) : t[d + k] = s[k]
  BY DEF Inside
<1>2. PICK e \in Nat : e + Len(t) <= Len(u) /\ \A k \in 1..Len(t) : u[e + k] = t[k]
  BY DEF Inside
<1>3. Len(s) \in Nat /\ Len(t) \in Nat /\ Len(u) \in Nat
  OBVIOUS
<1>4. e + d \in Nat /\ (e + d) + Len(s) <= Len(u)
  BY <1>1, <1>2, <1>3
<1>5. ASSUME NEW k \in 1..Len(s) PROVE u[(e + d) + k] = s[k]
  <2>1. d + k \in 1..Len(t) /\ e + (d + k) = (e + d) + k
    BY <1>1, <1>3
  <2> QED BY <1>1, <1>2, <2>1
<1> QED BY <1>4, <1>5 DEF Inside

\* Others are put before it and after it.
LEMMA InsideParts ==
  ASSUME NEW s \in Seq(Text)
  PROVE  /\ \A x \in Text : Inside(s, Append(s, x))
         /\ \A a \in Seq(Text) : Inside(s, a \o s)
         /\ Inside(<<>>, s)
<1>1. ASSUME NEW x \in Text PROVE Inside(s, Append(s, x))
  <2> DEFINE t == Append(s, x)
  <2>1. Len(s) \in Nat /\ Len(t) = Len(s) + 1 /\ \A k \in 1..Len(s) : t[k] = s[k]
    BY AppendProperties
  <2> HIDE DEF t
  <2>2. 0 \in Nat /\ 0 + Len(s) <= Len(t) /\ \A k \in 1..Len(s) : t[0 + k] = s[k]
    BY <2>1
  <2> QED BY <2>2 DEF Inside, t
<1>2. ASSUME NEW a \in Seq(Text) PROVE Inside(s, a \o s)
  <2> DEFINE t == a \o s
             d == Len(a)
  <2>1. Len(s) \in Nat /\ d \in Nat /\ Len(t) = d + Len(s)
        /\ \A i \in 1..d + Len(s) : t[i] = IF i <= d THEN a[i] ELSE s[i - d]
    BY ConcatProperties
  <2> HIDE DEF t, d
  <2>2. ASSUME NEW k \in 1..Len(s) PROVE t[d + k] = s[k]
    <3>1. d + k \in 1..d + Len(s) /\ ~(d + k <= d) /\ (d + k) - d = k
      BY <2>1
    <3> QED BY <2>1, <3>1
  <2>3. d + Len(s) <= Len(t)
    BY <2>1
  <2> QED BY <2>1, <2>2, <2>3 DEF Inside, t
<1>3. Inside(<<>>, s)
  <2>1. Len(<<>>) = 0 /\ 0 \in Nat /\ 0 + 0 <= Len(s)
    OBVIOUS
  <2> QED BY <2>1 DEF Inside
<1> QED BY <1>1, <1>2, <1>3

\* What SubSeqs of the community modules says of it.
LEMMA InsideIs ==
  ASSUME NEW s \in Seq(Text), NEW t \in Seq(Text), Inside(s, t)
  PROVE  s \in SubSeqs(t)
<1>1. PICK d \in Nat : d + Len(s) <= Len(t) /\ \A k \in 1..Len(s) : t[d + k] = s[k]
  BY DEF Inside
<1> DEFINE n == Len(s)
           e == d + n
           u == SubSeq(t, d + 1, e)
<1>2. n \in Nat /\ Len(t) \in Nat /\ e \in Nat /\ d \in 0..Len(t) /\ e \in 0..Len(t) /\ d + 1 \in Int
  BY <1>1
<1>3. \A i \in d + 1..e : t[i] \in Text
  <2>1. \A i \in d + 1..e : i \in 1..Len(t)
    BY <1>1, <1>2
  <2> QED BY <2>1
<1>4. u \in Seq(Text) /\ Len(u) = n /\ \A i \in 1..n : u[i] = t[d + i]
  <2>1. /\ u \in Seq(Text) /\ Len(u) = IF d + 1 <= e THEN e - (d + 1) + 1 ELSE 0
        /\ \A i \in 1..e - (d + 1) + 1 : u[i] = t[(d + 1) + i - 1]
    BY <1>2, <1>3, SubSeqProperties
  <2> HIDE DEF u
  <2>2. e - (d + 1) + 1 = n /\ \A i \in 1..n : (d + 1) + i - 1 = d + i
    BY <1>2
  <2>3. Len(u) = n
    BY <1>2, <2>1
  <2> QED BY <2>1, <2>2, <2>3
<1> HIDE DEF u
<1>5. u = s
  <2>1. \A i \in 1..n : u[i] = s[i]
    BY <1>1, <1>4
  <2> QED BY <1>4, <2>1
<1> HIDE DEF n, e
<1>6. SubSeq(t, d + 1, e) \in SubSeqs(t)
  BY <1>2 DEF SubSeqs
<1> QED BY <1>5, <1>6 DEF u

\* A variable is as it was, or a loader variable whose value has the old one in it.
Lengthened(e, f) ==
  /\ f.name = e.name /\ f.kind = e.kind
  /\ \/ f.value = e.value
     \/ e.name \in LoaderVariables /\ e.kind = "plain" /\ Inside(e.value, f.value)

\* Such a variable is one that the property lets grow.
LEMMA LengthenedIs ==
  ASSUME NEW e \in EnvVar, NEW f \in EnvVar, Lengthened(e, f)
  PROVE  Grown(e, f)
<1>1. e.value \in Seq(Text) /\ f.value \in Seq(Text)
  BY DEF EnvVar
<1> QED BY <1>1, InsideIs DEF Lengthened, Grown

\* It may grow again.
LEMMA LengthenedTransitive ==
  ASSUME NEW e \in EnvVar, NEW f \in EnvVar, NEW g \in EnvVar, Lengthened(e, f), Lengthened(f, g)
  PROVE  Lengthened(e, g)
<1>1. e.value \in Seq(Text) /\ f.value \in Seq(Text) /\ g.value \in Seq(Text)
  BY DEF EnvVar
<1>2. Inside(e.value, f.value) /\ Inside(f.value, g.value) => Inside(e.value, g.value)
  BY <1>1, InsideTransitive
<1> QED BY <1>2 DEF Lengthened

\* What loads a library has the old value in it.
LEMMA DDValueLengthens ==
  ASSUME NEW key \in DOMAIN DDToken, NEW value \in Seq(Text)
  PROVE  Inside(value, DDValue(key, value))
<1> DEFINE token == DDToken[key]
           set == \/ token \in ToSet(value)
                  \/ key = "DD_LOADER_PACKAGE_PATH" /\ value # <<>>
<1>1. token \in Text /\ ConfD \in Text
  BY TracingLiterals
<1>2. CASE set
  <2>1. DDValue(key, value) = value
    BY <1>2 DEF DDValue
  <2> QED BY <2>1, InsideReflexive
<1>3. CASE ~set /\ key = "PYTHONPATH"
  <2> DEFINE a == <<token>>
  <2>1. DDValue(key, value) = a \o value
    BY <1>3 DEF DDValue
  <2>2. a \in Seq(Text)
    BY <1>1
  <2> HIDE DEF a
  <2>3. Inside(value, a \o value)
    BY <2>2, InsideParts
  <2> QED BY <2>1, <2>3
<1>4. CASE ~set /\ key = "PHP_INI_SCAN_DIR" /\ value = <<>>
  <2> DEFINE a == <<ConfD, token>>
  <2>1. DDValue(key, value) = a
    BY <1>4 DEF DDValue
  <2>2. a \in Seq(Text)
    BY <1>1
  <2> HIDE DEF a
  <2>3. Inside(<<>>, a)
    BY <2>2, InsideParts
  <2> QED BY <1>4, <2>1, <2>3
<1>5. CASE ~set /\ ~(key = "PYTHONPATH") /\ ~(key = "PHP_INI_SCAN_DIR" /\ value = <<>>)
  <2>1. DDValue(key, value) = Append(value, token)
    BY <1>5 DEF DDValue
  <2> HIDE DEF token
  <2> QED BY <1>1, <2>1, InsideParts
<1> HIDE DEF set
<1> QED BY <1>2, <1>3, <1>4, <1>5

\* So has what loads that of OpenTelemetry.
LEMMA OTelValueLengthens ==
  ASSUME NEW lang \in OTelLanguages, NEW value \in Seq(Text)
  PROVE  Inside(value, OTelValue(lang, value))
<1> DEFINE w == OTelValue(lang, value)
<1>1. {JavaAgentOption, RequireOption, PythonPrefix, PythonSuffix} \subseteq Text
  BY TracingLiterals
<1>2. lang \in {"java", "nodejs", "python"}
  BY DEF OTelLanguages, OTelPath
<1>3. CASE lang = "java"
  <2>1. w = value \/ w = Append(value, JavaAgentOption)
    BY <1>3 DEF OTelValue
  <2> QED BY <1>1, <2>1, InsideReflexive, InsideParts
<1>4. CASE lang = "nodejs"
  <2>1. w = value \/ w = Append(value, RequireOption)
    BY <1>4 DEF OTelValue
  <2> QED BY <1>1, <2>1, InsideReflexive, InsideParts
<1>5. CASE lang = "python"
  <2> DEFINE a == <<PythonPrefix>>
             b == <<PythonSuffix>>
             u == a \o value
             v == Append(u, PythonSuffix)
  <2>1. w = value \/ w = u \o b
    BY <1>5 DEF OTelValue
  <2>2. a \in Seq(Text) /\ PythonSuffix \in Text
    BY <1>1
  <2> HIDE DEF a
  <2>3. u \in Seq(Text) /\ Inside(value, u)
    BY <2>2, InsideParts
  <2> HIDE DEF u
  <2>4. u \o b = v
    BY <2>2, <2>3
  <2>5. v \in Seq(Text) /\ Inside(u, v)
    BY <2>2, <2>3, InsideParts
  <2> HIDE DEF v, b
  <2>6. Inside(value, v)
    BY <2>3, <2>5, InsideTransitive
  <2> HIDE DEF w
  <2> QED BY <2>1, <2>4, <2>6, InsideReflexive DEF w
<1> QED BY <1>2, <1>3, <1>4, <1>5

\* A variable whose value is lengthened.
LEMMA ValueLengthens ==
  ASSUME NEW e \in EnvVar, e.kind = "plain", e.name \in LoaderVariables, NEW v \in Seq(Text), Inside(e.value, v)
  PROVE  LET f == [e EXCEPT !.value = v] IN f \in EnvVar /\ Lengthened(e, f)
<1> DEFINE f == [e EXCEPT !.value = v]
<1>1. f \in EnvVar /\ f.name = e.name /\ f.kind = e.kind /\ f.value = v
  BY DEF EnvVar
<1> HIDE DEF f
<1> QED BY <1>1 DEF Lengthened, f

\* A variable that stays as it was.
LEMMA LengthenedReflexive ==
  ASSUME NEW e
  PROVE  Lengthened(e, e)
BY DEF Lengthened

-----------------------------------------------------------------------------
(* What becomes of the variables of a container *)

\* Those that are no tags.
OthersOf(envs) == Filter(envs, LAMBDA e : e.name # "DD_TAGS")
OtherOp(runs, kept, e) == IF e.name # "DD_TAGS" THEN Append(kept, e) ELSE kept
Alongside(runs, k, kept) ==
  /\ kept \in Seq(EnvVar) /\ runs[k] \in Seq(EnvVar) /\ Len(kept) = Len(runs[k])
  /\ \A j \in 1..Len(kept) : Lengthened(runs[k][j], kept[j])
SomeOthers(ctx, k, kept) == kept \in Seq(EnvVar)
OtherRuns == INSTANCE FoldTheory WITH Op <- OtherOp, Inv <- Alongside
OtherLists == INSTANCE FoldTheory WITH Op <- OtherOp, Inv <- SomeOthers

\* They are picked by a fold.
LEMMA OthersFold ==
  ASSUME NEW envs, NEW ctx
  PROVE  OthersOf(envs) = OtherRuns!Fold(ctx, <<>>, envs) /\ OthersOf(envs) = OtherLists!Fold(ctx, <<>>, envs)
<1>1. OthersOf(envs) = OtherRuns!Fold(ctx, <<>>, envs)
  BY DEF OthersOf, Filter, FoldLeft, MapThenFoldSet, Max, OtherRuns!Fold, OtherRuns!Largest, OtherOp
<1>2. OthersOf(envs) = OtherLists!Fold(ctx, <<>>, envs)
  BY DEF OthersOf, Filter, FoldLeft, MapThenFoldSet, Max, OtherLists!Fold, OtherLists!Largest, OtherOp
<1> QED BY <1>1, <1>2

\* They are variables.
LEMMA OthersAre ==
  ASSUME NEW envs \in Seq(EnvVar)
  PROVE  OthersOf(envs) \in Seq(EnvVar)
<1> DEFINE n == Len(envs)
<1>1. n \in Nat /\ DOMAIN envs = 1..n /\ \A k \in 1..n : envs[k] \in EnvVar
  OBVIOUS
<1> HIDE DEF n
<1>2. SomeOthers(0, 0, <<>>)
  BY DEF SomeOthers
<1>3. ASSUME NEW k \in 1..n, NEW a, SomeOthers(0, k - 1, a)
      PROVE  SomeOthers(0, k, OtherOp(0, a, envs[k]))
  BY <1>1, <1>3, AppendProperties DEF SomeOthers, OtherOp
<1>4. SomeOthers(0, n, OtherLists!Fold(0, <<>>, envs))
  BY <1>1, <1>2, <1>3, OtherLists!FoldKeeps, Least DEF OtherLists!Ordered
<1> QED BY <1>4, OthersFold DEF SomeOthers

\* Where each variable is as it was or longer, so are those that are no tags.
LEMMA OthersLengthened ==
  ASSUME NEW old \in Seq(EnvVar), NEW new \in Seq(EnvVar), Len(new) = Len(old),
         \A i \in 1..Len(old) : Lengthened(old[i], new[i])
  PROVE  /\ Len(OthersOf(new)) = Len(OthersOf(old))
         /\ \A j \in 1..Len(OthersOf(old)) : Lengthened(OthersOf(old)[j], OthersOf(new)[j])
<1> DEFINE n == Len(old)
<1>1. /\ n \in Nat /\ DOMAIN old = 1..n /\ DOMAIN new = 1..n
      /\ \A k \in 1..n : old[k] \in EnvVar /\ new[k] \in EnvVar /\ Lengthened(old[k], new[k])
  OBVIOUS
<1> HIDE DEF n
<1>2. PICK runs : OtherRuns!Runs(runs, 0, <<>>, old, n) /\ OtherRuns!Fold(0, <<>>, old) = runs[n]
  BY <1>1, OtherRuns!FoldRuns, Least DEF OtherRuns!Ordered
<1>3. Alongside(runs, 0, <<>>)
  BY <1>2 DEF Alongside, OtherRuns!Runs
<1>4. ASSUME NEW k \in 1..n, NEW a, Alongside(runs, k - 1, a)
      PROVE  Alongside(runs, k, OtherOp(runs, a, new[k]))
  <2> DEFINE b == runs[k - 1]
  <2>1. /\ a \in Seq(EnvVar) /\ b \in Seq(EnvVar) /\ Len(a) = Len(b)
        /\ \A j \in 1..Len(a) : Lengthened(b[j], a[j])
    BY <1>4 DEF Alongside
  <2>2. runs[k] = OtherOp(0, b, old[k])
    BY <1>2 DEF OtherRuns!Runs
  <2> HIDE DEF b
  <2>3. new[k].name = old[k].name
    BY <1>1 DEF Lengthened
  <2>4. CASE old[k].name = "DD_TAGS"
    <3>1. runs[k] = b /\ OtherOp(runs, a, new[k]) = a
      BY <2>2, <2>3, <2>4 DEF OtherOp
    <3> QED BY <2>1, <3>1 DEF Alongside
  <2>5. CASE old[k].name # "DD_TAGS"
    <3> DEFINE x == old[k]
               y == new[k]
               s == Append(b, x)
               t == Append(a, y)
               m == Len(a)
    <3>1. runs[k] = s /\ OtherOp(runs, a, new[k]) = t
      BY <2>2, <2>3, <2>5 DEF OtherOp
    <3>2. x \in EnvVar /\ y \in EnvVar /\ Lengthened(x, y)
      BY <1>1
    <3> HIDE DEF x, y
    <3>3. /\ m \in Nat /\ s \in Seq(EnvVar) /\ t \in Seq(EnvVar) /\ Len(s) = m + 1 /\ Len(t) = m + 1
          /\ s[m + 1] = x /\ t[m + 1] = y /\ \A j \in 1..m : s[j] = b[j] /\ t[j] = a[j]
      BY <2>1, <3>2, AppendProperties
    <3> HIDE DEF s, t
    <3>4. \A j \in 1..m : Lengthened(b[j], a[j])
      BY <2>1
    <3> HIDE DEF m
    <3>5. \A j \in 1..m + 1 : Lengthened(s[j], t[j])
      <4>1. \A j \in 1..m + 1 : j \in 1..m \/ j = m + 1
        BY <3>3
      <4> QED BY <3>2, <3>3, <3>4, <4>1
    <3> QED BY <3>1, <3>3, <3>5 DEF Alongside
  <2> QED BY <2>4, <2>5
<1>5. Alongside(runs, n, OtherRuns!Fold(runs, <<>>, new))
  BY <1>1, <1>3, <1>4, OtherRuns!FoldKeeps, Least DEF OtherRuns!Ordered
<1>6. OthersOf(new) = OtherRuns!Fold(runs, <<>>, new) /\ OthersOf(old) = runs[n]
  BY <1>2, OthersFold
<1> QED BY <1>5, <1>6 DEF Alongside

\* One variable after another.
LEMMA OthersConcat ==
  ASSUME NEW a \in Seq(EnvVar), NEW b \in Seq(EnvVar)
  PROVE  OthersOf(a \o b) = OtherRuns!Fold(0, OthersOf(a), b)
<1> DEFINE m == Len(a)
           n == Len(b)
           both == a \o b
<1>1. /\ m \in Nat /\ n \in Nat /\ DOMAIN a = 1..m /\ DOMAIN b = 1..n
      /\ both \in Seq(EnvVar) /\ Len(both) = m + n
      /\ \A i \in 1..m + n : both[i] = IF i <= m THEN a[i] ELSE b[i - m]
  BY ConcatProperties
<1> HIDE DEF m, n, both
<1>2. DOMAIN both = 1..m + n
  BY <1>1
<1>3. \A i \in 1..m : both[i] = a[i]
  BY <1>1
<1>4. \A i \in 1..n : both[m + i] = b[i]
  <2> SUFFICES ASSUME NEW i \in 1..n PROVE both[m + i] = b[i]
    OBVIOUS
  <2>1. m + i \in 1..m + n /\ ~(m + i <= m) /\ (m + i) - m = i
    BY <1>1
  <2> QED BY <1>1, <2>1
<1>5. OtherRuns!Fold(0, <<>>, both) = OtherRuns!Fold(0, OtherRuns!Fold(0, <<>>, a), b)
  <2>1. \A ctx, base, s, t, u : \A k, l \in Nat :
          /\ DOMAIN s = 1..k /\ DOMAIN t = 1..l /\ DOMAIN u = 1..k + l
          /\ \A i \in 1..k : u[i] = s[i]
          /\ \A i \in 1..l : u[k + i] = t[i]
          => OtherRuns!Fold(ctx, base, u) = OtherRuns!Fold(ctx, OtherRuns!Fold(ctx, base, s), t)
    BY OtherRuns!FoldConcat, Least DEF OtherRuns!Ordered
  <2>2. m \in Nat /\ n \in Nat /\ DOMAIN a = 1..m /\ DOMAIN b = 1..n
    BY <1>1
  <2> QED BY <1>2, <1>3, <1>4, <2>1, <2>2
<1> QED BY <1>5, OthersFold DEF both

\* A variable is put after the others,
LEMMA OthersAppended ==
  ASSUME NEW envs \in Seq(EnvVar), NEW e \in EnvVar
  PROVE  OthersOf(Append(envs, e)) = IF e.name # "DD_TAGS" THEN Append(OthersOf(envs), e) ELSE OthersOf(envs)
<1> DEFINE one == <<e>>
<1>1. one \in Seq(EnvVar) /\ DOMAIN one = {1} /\ one[1] = e
  OBVIOUS
<1>2. Append(envs, e) = envs \o one
  OBVIOUS
<1> HIDE DEF one
<1>3. OthersOf(envs \o one) = OtherRuns!Fold(0, OthersOf(envs), one)
  BY <1>1, OthersConcat
<1>4. OtherRuns!Fold(0, OthersOf(envs), one) = OtherOp(0, OthersOf(envs), e)
  BY <1>1, OtherRuns!FoldFew, Least DEF OtherRuns!Ordered
<1> QED BY <1>2, <1>3, <1>4 DEF OtherOp

\* and the tags may be taken from between them.
LEMMA OthersRemoved ==
  ASSUME NEW envs \in Seq(EnvVar), NEW m \in 1..Len(envs), envs[m].name = "DD_TAGS"
  PROVE  OthersOf(RemoveAt(envs, m)) = OthersOf(envs)
<1> DEFINE a == SubSeq(envs, 1, m - 1)
           b == SubSeq(envs, m + 1, Len(envs))
           e == envs[m]
           c == Append(a, e)
<1>1. Len(envs) \in Nat /\ m \in Nat /\ m >= 1 /\ m <= Len(envs) /\ e \in EnvVar
  OBVIOUS
<1>2. /\ a \in Seq(EnvVar) /\ Len(a) = m - 1 /\ (\A i \in 1..m - 1 : a[i] = envs[i])
      /\ b \in Seq(EnvVar) /\ Len(b) = Len(envs) - m /\ \A i \in 1..Len(envs) - m : b[i] = envs[m + i]
  <2>1. a \in Seq(EnvVar) /\ Len(a) = m - 1 /\ \A i \in 1..m - 1 : a[i] = envs[i]
    BY <1>1, SubSeqProperties
  <2>2. b \in Seq(EnvVar) /\ Len(b) = Len(envs) - m /\ \A i \in 1..Len(envs) - m : b[i] = envs[m + i]
    BY <1>1, SubSeqProperties
  <2> QED BY <2>1, <2>2
<1>3. RemoveAt(envs, m) = a \o b
  BY DEF RemoveAt
<1> HIDE DEF a, b, e
<1>4. c \in Seq(EnvVar) /\ Len(c) = m /\ c[m] = e /\ \A i \in 1..m - 1 : c[i] = a[i]
  BY <1>1, <1>2, AppendProperties
<1>5. OthersOf(c) = OthersOf(a)
  BY <1>1, <1>2, OthersAppended DEF e
<1> HIDE DEF c
<1>6. envs = c \o b
  <2> DEFINE u == c \o b
  <2>0. /\ u \in Seq(EnvVar) /\ Len(u) = Len(c) + Len(b)
        /\ \A i \in 1..Len(c) + Len(b) : u[i] = IF i <= Len(c) THEN c[i] ELSE b[i - Len(c)]
    BY <1>2, <1>4, ConcatProperties
  <2> HIDE DEF u
  <2>1. u \in Seq(EnvVar) /\ Len(u) = Len(envs) /\ \A i \in 1..Len(envs) : u[i] = IF i <= m THEN c[i] ELSE b[i - m]
    <3>1. Len(c) + Len(b) = Len(envs) /\ Len(c) = m
      BY <1>1, <1>2, <1>4
    <3> QED BY <2>0, <3>1
  <2>2. ASSUME NEW i \in 1..Len(envs) PROVE u[i] = envs[i]
    <3>1. i \in 1..Len(envs)
      BY <1>1
    <3>2. CASE i <= m
      <4>1. i = m \/ i \in 1..m - 1
        BY <1>1, <3>2
      <4> QED BY <1>2, <1>4, <2>1, <3>1, <3>2, <4>1 DEF e
    <3>3. CASE ~(i <= m)
      <4>1. i - m \in 1..Len(envs) - m /\ m + (i - m) = i
        BY <1>1, <3>3
      <4> QED BY <1>2, <2>1, <3>1, <3>3, <4>1
    <3> QED BY <3>2, <3>3
  <2>3. u = envs
    BY <2>1, <2>2
  <2> QED BY <2>3 DEF u
<1>7. OthersOf(a \o b) = OtherRuns!Fold(0, OthersOf(a), b)
  BY <1>2, OthersConcat
<1>8. OthersOf(c \o b) = OtherRuns!Fold(0, OthersOf(c), b)
  BY <1>2, <1>4, OthersConcat
<1> QED BY <1>3, <1>5, <1>6, <1>7, <1>8

\* The variables of one name, as they are picked: ctx.first is where the first one is,
\* and ctx.only says that there is no other one.
NamedOf(envs, key) == Filter(envs, LAMBDA e : e.name = key)
NamedOp(key, kept, e) == IF e.name = key THEN Append(kept, e) ELSE kept
NamedAt(ctx, kept, e) == NamedOp(ctx.key, kept, e)
NamedInv(ctx, k, kept) ==
  /\ kept \in Seq(EnvVar)
  /\ k < ctx.at => kept = <<>>
  /\ k >= ctx.at => Len(kept) >= 1 /\ kept[1] = ctx.first /\ (ctx.only => Len(kept) = 1)
NoNames(ctx, k, kept) == TRUE
Names1 == INSTANCE FoldTheory WITH Op <- NamedOp, Inv <- NoNames
Names2 == INSTANCE FoldTheory WITH Op <- NamedAt, Inv <- NamedInv

\* The first of them is the first in the container, and without a second there is no other one.
LEMMA NamedIs ==
  ASSUME NEW envs \in Seq(EnvVar), NEW key
  PROVE  LET i == EnvIndex(envs, key)
             r == NamedOf(envs, key)
         IN  /\ r \in Seq(EnvVar)
             /\ i = 0 => r = <<>>
             /\ i # 0 => Len(r) >= 1 /\ r[1] = envs[i]
             /\ (\A j \in 1..Len(envs) : envs[j].name = key => j = i) => Len(r) <= 1
<1> DEFINE n == Len(envs)
           i == EnvIndex(envs, key)
           r == NamedOf(envs, key)
           at == IF i = 0 THEN n + 1 ELSE i
           only == \A j \in 1..n : envs[j].name = key => j = i
           ctx == [key |-> key, at |-> at, first |-> envs[i], only |-> only]
<1>1. n \in Nat /\ DOMAIN envs = 1..n /\ \A k \in 1..n : envs[k] \in EnvVar
  OBVIOUS
<1>2. /\ i \in 0..n /\ (i # 0 => envs[i].name = key)
      /\ \A j \in 1..n : envs[j].name = key => i # 0 /\ i <= j
  BY EnvIndexIs
<1>3. r = Names1!Fold(key, <<>>, envs)
  BY DEF NamedOf, Filter, FoldLeft, MapThenFoldSet, Max, Names1!Fold, Names1!Largest, NamedOp
<1>4. ctx.key = key /\ ctx.at = at /\ ctx.first = envs[i] /\ ctx.only = only
  OBVIOUS
<1> HIDE DEF n, i, r, ctx
<1>5. /\ at \in 1..n + 1
      /\ \A k \in 1..n : k < at => envs[k].name # key
      /\ \A k \in 1..n : k = at => envs[k].name = key /\ envs[k] = envs[i]
      /\ \A k \in 1..n : only /\ k > at => envs[k].name # key
  BY <1>1, <1>2
<1> HIDE DEF at, only
<1>6. NamedInv(ctx, 0, <<>>)
  BY <1>1, <1>4, <1>5 DEF NamedInv
<1>7. ASSUME NEW k \in 1..n, NEW a, NamedInv(ctx, k - 1, a)
      PROVE  NamedInv(ctx, k, NamedAt(ctx, a, envs[k]))
  <2> DEFINE e == envs[k]
             t == Append(a, e)
             m == Len(a)
  <2>1. a \in Seq(EnvVar) /\ e \in EnvVar
    BY <1>1, <1>7 DEF NamedInv
  <2>2. NamedAt(ctx, a, e) = IF e.name = key THEN t ELSE a
    BY <1>4 DEF NamedAt, NamedOp
  <2>3. m \in Nat /\ t \in Seq(EnvVar) /\ Len(t) = m + 1 /\ t[m + 1] = e /\ \A j \in 1..m : t[j] = a[j]
    BY <2>1, AppendProperties
  <2> HIDE DEF t
  <2>4. CASE k < at
    <3>1. e.name # key /\ k - 1 < at /\ ~(k >= at)
      BY <1>1, <1>5, <2>4
    <3>2. a = <<>>
      BY <1>4, <1>7, <3>1 DEF NamedInv
    <3> HIDE DEF e
    <3> QED BY <1>4, <2>1, <2>2, <3>1, <3>2 DEF NamedInv, e
  <2>5. CASE k = at
    <3>1. e.name = key /\ e = envs[i] /\ k - 1 < at /\ ~(k < at)
      BY <1>1, <1>5, <2>5
    <3>2. a = <<>>
      BY <1>4, <1>7, <3>1 DEF NamedInv
    <3>3. m = 0
      BY <3>2
    <3> HIDE DEF e, m
    <3>4. NamedInv(ctx, k, t)
      BY <1>4, <2>3, <3>1, <3>3 DEF NamedInv
    <3> QED BY <2>2, <3>1, <3>4 DEF e
  <2>6. CASE k > at
    <3>1. (only => e.name # key) /\ k - 1 >= at /\ ~(k < at) /\ k >= at
      BY <1>1, <1>5, <2>6
    <3>2. m >= 1 /\ a[1] = envs[i] /\ (only => m = 1)
      BY <1>4, <1>7, <3>1 DEF NamedInv
    <3>3. NamedInv(ctx, k, a)
      BY <1>4, <2>1, <3>1, <3>2 DEF NamedInv
    <3> HIDE DEF e, m
    <3>4. ~only => NamedInv(ctx, k, t)
      <4>1. t[1] = envs[i] /\ Len(t) >= 1
        BY <2>3, <3>2
      <4> QED BY <1>4, <2>3, <3>1, <4>1 DEF NamedInv
    <3> QED BY <2>2, <3>1, <3>3, <3>4 DEF e
  <2> QED BY <1>1, <1>5, <2>4, <2>5, <2>6
<1>8. NamedInv(ctx, n, r)
  <2>1. PICK acc : Names1!Runs(acc, key, <<>>, envs, n) /\ r = acc[n]
    BY <1>1, <1>3, Names1!FoldRuns, Least DEF Names1!Ordered
  <2>2. Names2!Runs(acc, ctx, <<>>, envs, n)
    BY <1>4, <2>1 DEF Names1!Runs, Names2!Runs, NamedAt
  <2>3. Names2!Fold(ctx, <<>>, envs) = r
    BY <1>1, <2>1, <2>2, Names2!FoldIs, Least DEF Names2!Ordered
  <2>4. NamedInv(ctx, n, Names2!Fold(ctx, <<>>, envs))
    BY <1>1, <1>6, <1>7, Names2!FoldKeeps, Least DEF Names2!Ordered
  <2> QED BY <2>3, <2>4
<1>9. /\ r \in Seq(EnvVar)
      /\ n < at => r = <<>>
      /\ n >= at => Len(r) >= 1 /\ r[1] = envs[i] /\ (only => Len(r) = 1)
  BY <1>4, <1>8 DEF NamedInv
<1>10. (i = 0 => n < at) /\ (i # 0 => n >= at)
  BY <1>1, <1>2 DEF at
<1>11. only => Len(r) <= 1
  <2>1. CASE i = 0
    <3>1. r = <<>>
      BY <1>9, <1>10, <2>1
    <3> QED BY <3>1
  <2>2. CASE i # 0
    BY <1>9, <1>10, <2>2
  <2> QED BY <2>1, <2>2
<1>12. /\ r \in Seq(EnvVar)
       /\ i = 0 => r = <<>>
       /\ i # 0 => Len(r) >= 1 /\ r[1] = envs[i]
       /\ only => Len(r) <= 1
  BY <1>9, <1>10, <1>11
<1> QED BY <1>12 DEF r, i, only, n

\* What of the first list is well-formed stays in the merged one.
StillIn(S, k, tags) == tags \in Seq(Text) /\ S \subseteq ToSet(tags)
Merges == INSTANCE FoldTheory WITH Op <- MergeOp, Inv <- StillIn

\* The well-formed tags of the first list are all among the merged ones.
LEMMA TagsMerged ==
  ASSUME NEW a \in Seq(Text), NEW b \in Seq(Text)
  PROVE  ToSet(a) \cap DOMAIN TagKey \subseteq ToSet(AppendKVPairs(a, b))
<1> DEFINE WellFormed(s) == Tagging!Fold(Text, <<>>, s)
           S == ToSet(a) \cap DOMAIN TagKey
<1>1. AppendKVPairs(a, b) = Merges!Fold(S, WellFormed(a), WellFormed(b))
  BY DEF AppendKVPairs, Filter, FoldLeft, MapThenFoldSet, Max, Tagging!Fold, Tagging!Largest, TagOp,
         Merges!Fold, Merges!Largest, MergeOp
<1>2. ASSUME NEW s \in Seq(Text)
      PROVE  WellFormed(s) \in Seq(Text) /\ ToSet(s) \cap DOMAIN TagKey \subseteq ToSet(WellFormed(s))
  <2> DEFINE n == Len(s)
             r == WellFormed(s)
  <2>1. n \in Nat /\ DOMAIN s = 1..n /\ \A k \in 1..n : s[k] \in Text
    OBVIOUS
  <2> HIDE DEF n
  <2>2. Tagging!Filters(Text, s, n, DOMAIN TagKey)
    BY DEF Tagging!Filters, TagOp
  <2>3. Tagging!Filtered(r, s, n, DOMAIN TagKey)
    BY <2>1, <2>2, Tagging!FoldFilters, Least DEF Tagging!Ordered
  <2> HIDE DEF r
  <2>4. /\ r \in Seq({s[k] : k \in 1..n} \cap DOMAIN TagKey)
        /\ \A k \in 1..n : s[k] \in DOMAIN TagKey => \E j \in DOMAIN r : r[j] = s[k]
    BY <2>3 DEF Tagging!Filtered
  <2>5. r \in Seq(Text)
    BY <2>1, <2>4
  <2>6. ToSet(s) \cap DOMAIN TagKey \subseteq ToSet(r)
    BY <2>1, <2>4 DEF ToSet
  <2> QED BY <2>5, <2>6 DEF r
<1>3. /\ WellFormed(a) \in Seq(Text) /\ S \subseteq ToSet(WellFormed(a))
      /\ WellFormed(b) \in Seq(Text)
  BY <1>2
<1> DEFINE first == WellFormed(a)
           s == WellFormed(b)
           n == Len(s)
<1> HIDE DEF first, s, S
<1>4. n \in Nat /\ DOMAIN s = 1..n /\ \A k \in 1..n : s[k] \in Text
  BY <1>3 DEF s
<1> HIDE DEF n
<1>5. StillIn(S, 0, first)
  BY <1>3 DEF StillIn, first
<1>6. ASSUME NEW k \in 1..n, NEW tags, StillIn(S, k - 1, tags)
      PROVE  StillIn(S, k, MergeOp(S, tags, s[k]))
  <2>1. tags \in Seq(Text) /\ S \subseteq ToSet(tags) /\ s[k] \in Text
    BY <1>4, <1>6 DEF StillIn
  <2>2. Append(tags, s[k]) \in Seq(Text) /\ ToSet(Append(tags, s[k])) = ToSet(tags) \cup {s[k]}
    BY <2>1, AppendSet, AppendProperties
  <2> QED BY <2>1, <2>2 DEF StillIn, MergeOp
<1>7. StillIn(S, n, Merges!Fold(S, first, s))
  BY <1>4, <1>5, <1>6, Merges!FoldKeeps, Least DEF Merges!Ordered
<1>8. S \subseteq ToSet(AppendKVPairs(a, b))
  BY <1>1, <1>7 DEF StillIn, first, s
<1> QED BY <1>8 DEF S

\* The tags are what they were, or those that are well-formed are among the new ones.
WellFormedIn(e) == ToSet(e.value) \cap DOMAIN TagKey
TagsGrown(e, f) ==
  IF e.kind # "plain" THEN f = e ELSE f.kind = "plain" /\ WellFormedIn(e) \subseteq WellFormedIn(f)

\* The variables of a container are still there.
Retains(old, new) ==
  /\ new \in Seq(EnvVar)
  /\ Len(OthersOf(old)) <= Len(OthersOf(new))
  /\ \A j \in 1..Len(OthersOf(old)) : Lengthened(OthersOf(old)[j], OthersOf(new)[j])
  /\ \A x : First(old, "DD_TAGS", x) => \E y : First(new, "DD_TAGS", y) /\ TagsGrown(x, y)

\* Nothing is lost where nothing changes,
LEMMA RetainsReflexive ==
  ASSUME NEW envs \in Seq(EnvVar)
  PROVE  Retains(envs, envs)
<1>1. OthersOf(envs) \in Seq(EnvVar)
  BY OthersAre
<1>2. \A x : TagsGrown(x, x)
  BY DEF TagsGrown
<1>3. Len(OthersOf(envs)) \in Nat
  BY <1>1
<1> QED BY <1>2, <1>3, LengthenedReflexive DEF Retains

\* nor in two steps that each lose nothing.
LEMMA RetainsTransitive ==
  ASSUME NEW a \in Seq(EnvVar), NEW b, NEW c, Retains(a, b), Retains(b, c)
  PROVE  Retains(a, c)
<1> DEFINE p == OthersOf(a)
           q == OthersOf(b)
           r == OthersOf(c)
<1>1. b \in Seq(EnvVar) /\ c \in Seq(EnvVar)
  BY DEF Retains
<1>2. p \in Seq(EnvVar) /\ q \in Seq(EnvVar) /\ r \in Seq(EnvVar)
  BY <1>1, OthersAre
<1>3. /\ Len(p) <= Len(q) /\ \A j \in 1..Len(p) : Lengthened(p[j], q[j])
      /\ Len(q) <= Len(r) /\ \A j \in 1..Len(q) : Lengthened(q[j], r[j])
  BY DEF Retains
<1> HIDE DEF p, q, r
<1>4. Len(p) \in Nat /\ Len(q) \in Nat /\ Len(r) \in Nat
  BY <1>2
<1>5. ASSUME NEW j \in 1..Len(p) PROVE Lengthened(p[j], r[j])
  <2>1. j \in 1..Len(q) /\ j \in 1..Len(r)
    BY <1>3, <1>4
  <2>2. p[j] \in EnvVar /\ q[j] \in EnvVar /\ r[j] \in EnvVar
    BY <1>2, <2>1
  <2>3. Lengthened(p[j], q[j]) /\ Lengthened(q[j], r[j])
    BY <1>3, <2>1
  <2> QED BY <2>2, <2>3, LengthenedTransitive
<1>6. ASSUME NEW x, First(a, "DD_TAGS", x)
      PROVE  \E z : First(c, "DD_TAGS", z) /\ TagsGrown(x, z)
  <2>1. PICK y : First(b, "DD_TAGS", y) /\ TagsGrown(x, y)
    BY <1>6 DEF Retains
  <2>2. PICK z : First(c, "DD_TAGS", z) /\ TagsGrown(y, z)
    BY <2>1 DEF Retains
  <2> QED BY <2>1, <2>2 DEF TagsGrown
<1>7. Len(p) <= Len(r)
  BY <1>3, <1>4
<1> QED BY <1>1, <1>5, <1>6, <1>7 DEF Retains, p, r

\* A variable is put after the others.
LEMMA RetainsAppend ==
  ASSUME NEW envs \in Seq(EnvVar), NEW e \in EnvVar
  PROVE  Retains(envs, Append(envs, e))
<1> DEFINE p == OthersOf(envs)
           q == OthersOf(Append(envs, e))
<1>1. p \in Seq(EnvVar) /\ q \in {p, Append(p, e)} /\ Append(envs, e) \in Seq(EnvVar)
  BY OthersAre, OthersAppended, AppendProperties
<1> HIDE DEF p, q
<1>2. Len(p) <= Len(q) /\ \A j \in 1..Len(p) : q[j] = p[j]
  <2>1. CASE q = p
    BY <1>1, <2>1
  <2>2. CASE q = Append(p, e)
    <3>1. Len(q) = Len(p) + 1 /\ \A j \in 1..Len(p) : q[j] = p[j]
      BY <1>1, <2>2, AppendProperties
    <3> QED BY <1>1, <3>1
  <2> QED BY <1>1, <2>1, <2>2
<1>3. \A x : First(envs, "DD_TAGS", x) => First(Append(envs, e), "DD_TAGS", x)
  BY FirstAppended
<1>4. \A x : TagsGrown(x, x)
  BY DEF TagsGrown
<1> QED BY <1>1, <1>2, <1>3, <1>4, LengthenedReflexive DEF Retains, p, q

\* A loader variable gets a longer value in its place.
LEMMA RetainsLonger ==
  ASSUME NEW envs \in Seq(EnvVar), NEW name, name # "DD_TAGS", EnvIndex(envs, name) # 0,
         NEW e \in EnvVar, Lengthened(envs[EnvIndex(envs, name)], e)
  PROVE  Retains(envs, [envs EXCEPT ![EnvIndex(envs, name)] = e])
<1> DEFINE i == EnvIndex(envs, name)
           new == [envs EXCEPT ![i] = e]
<1>1. i \in 1..Len(envs) /\ envs[i].name = name
  BY EnvIndexIs
<1>2. e.name = name
  BY <1>1 DEF Lengthened
<1>3. /\ new \in Seq(EnvVar)
      /\ \A x : First(envs, "DD_TAGS", x) => First(new, "DD_TAGS", x)
  BY <1>2, FirstReplaced
<1> HIDE DEF i
<1>4. Len(new) = Len(envs) /\ \A k \in 1..Len(envs) : new[k] = IF k = i THEN e ELSE envs[k]
  BY <1>1
<1>5. Lengthened(envs[i], e)
  BY DEF i
<1> HIDE DEF new
<1>6. \A k \in 1..Len(envs) : Lengthened(envs[k], new[k])
  BY <1>4, <1>5, LengthenedReflexive
<1>7. /\ Len(OthersOf(new)) = Len(OthersOf(envs))
      /\ \A j \in 1..Len(OthersOf(envs)) : Lengthened(OthersOf(envs)[j], OthersOf(new)[j])
  BY <1>3, <1>4, <1>6, OthersLengthened
<1>8. \A x : TagsGrown(x, x)
  BY DEF TagsGrown
<1>9. Len(OthersOf(envs)) \in Nat
  BY OthersAre
<1>10. Retains(envs, new)
  BY <1>3, <1>7, <1>8, <1>9 DEF Retains
<1> QED BY <1>10 DEF new, i

\* The tags are merged, and moved to the end.
LEMMA RetainsMoved ==
  ASSUME NEW envs \in Seq(EnvVar), OneTag(envs), EnvIndex(envs, "DD_TAGS") # 0,
         envs[EnvIndex(envs, "DD_TAGS")].kind = "plain",
         NEW merged \in EnvVar, merged.name = "DD_TAGS", merged.kind = "plain",
         WellFormedIn(envs[EnvIndex(envs, "DD_TAGS")]) \subseteq WellFormedIn(merged)
  PROVE  Retains(envs, Append(RemoveAt(envs, EnvIndex(envs, "DD_TAGS")), merged))
<1> DEFINE i == EnvIndex(envs, "DD_TAGS")
           rest == RemoveAt(envs, i)
           r == Append(rest, merged)
<1>1. r \in Seq(EnvVar) /\ Len(r) = Len(envs) /\ EnvIndex(r, "DD_TAGS") = Len(r)
  BY TagsMoved
<1>2. i \in 1..Len(envs) /\ envs[i].name = "DD_TAGS"
  BY EnvIndexIs
<1>3. rest \in Seq(EnvVar) /\ OthersOf(rest) = OthersOf(envs)
  BY <1>2, RemovedIs, OthersRemoved
<1>4. \A x : First(envs, "DD_TAGS", x) => x = envs[i]
  BY DEF First
<1>5. WellFormedIn(envs[i]) \subseteq WellFormedIn(merged) /\ envs[i].kind = "plain"
  OBVIOUS
<1> HIDE DEF i, rest
<1>6. OthersOf(r) = OthersOf(rest)
  BY <1>3, OthersAppended
<1>7. r[Len(r)] = merged
  BY <1>3, AppendProperties
<1> HIDE DEF r
<1>8. First(r, "DD_TAGS", merged)
  BY <1>1, <1>2, <1>7 DEF First
<1>9. \A x : First(envs, "DD_TAGS", x) => TagsGrown(x, merged)
  BY <1>4, <1>5 DEF TagsGrown
<1>10. Len(OthersOf(envs)) \in Nat
  BY OthersAre
<1>11. Retains(envs, r)
  BY <1>1, <1>3, <1>6, <1>8, <1>9, <1>10, LengthenedReflexive DEF Retains
<1> QED BY <1>11 DEF r, rest, i

\* What the property says of it, of a list with one variable of tags at most.
LEMMA RetainsIs ==
  ASSUME NEW old \in Seq(EnvVar), OneTag(old), NEW new, Retains(old, new)
  PROVE  KeepsEnv(old, new)
<1> DEFINE a == OthersOf(old)
           b == OthersOf(new)
           s == NamedOf(old, "DD_TAGS")
           t == NamedOf(new, "DD_TAGS")
           i == EnvIndex(old, "DD_TAGS")
           j == EnvIndex(new, "DD_TAGS")
<1>1. new \in Seq(EnvVar)
  BY DEF Retains
<1>2. a \in Seq(EnvVar) /\ b \in Seq(EnvVar)
  BY <1>1, OthersAre
<1>3. Len(a) <= Len(b) /\ \A k \in 1..Len(a) : Lengthened(a[k], b[k])
  BY DEF Retains
<1>4. i \in 0..Len(old) /\ DOMAIN old = 1..Len(old) /\ (i # 0 => old[i].name = "DD_TAGS")
  BY EnvIndexIs
<1>5. \A k \in 1..Len(old) : old[k].name = "DD_TAGS" => k = i
  <2> SUFFICES ASSUME NEW k \in 1..Len(old), old[k].name = "DD_TAGS" PROVE k = i
    OBVIOUS
  <2>1. i # 0
    BY EnvIndexIs
  <2>2. i \in DOMAIN old /\ k \in DOMAIN old /\ old[i].name = "DD_TAGS"
    BY <1>4, <2>1
  <2> HIDE DEF i
  <2> QED BY <2>2 DEF OneTag
<1>6. s \in Seq(EnvVar) /\ (i = 0 => s = <<>>) /\ (i # 0 => Len(s) >= 1 /\ s[1] = old[i]) /\ Len(s) <= 1
  BY <1>5, NamedIs
<1>7. t \in Seq(EnvVar) /\ (j # 0 => Len(t) >= 1 /\ t[1] = new[j])
  BY <1>1, NamedIs
<1>8. i # 0 => j # 0 /\ TagsGrown(old[i], new[j])
  BY DEF Retains, First
<1> HIDE DEF a, b, s, t, i, j
<1>9. ASSUME NEW k \in DOMAIN a PROVE Grown(a[k], b[k])
  <2>1. k \in 1..Len(a) /\ k \in 1..Len(b)
    BY <1>2, <1>3
  <2> QED BY <1>2, <1>3, <2>1, LengthenedIs
<1>10. ASSUME NEW k \in DOMAIN s
       PROVE  IF s[k].kind # "plain" THEN t[k] = s[k] ELSE WellFormedIn(s[k]) \subseteq WellFormedIn(t[k])
  <2>1. k = 1 /\ i # 0
    BY <1>6
  <2>2. s[k] = old[i] /\ t[k] = new[j]
    BY <1>6, <1>7, <1>8, <2>1
  <2> QED BY <1>8, <2>1, <2>2 DEF TagsGrown
<1>11. Tags(old) = s /\ Tags(new) = t
  BY DEF Tags, NamedOf, s, t
<1>12. OthersOf(old) = a /\ OthersOf(new) = b
  BY DEF a, b
<1> QED BY <1>3, <1>9, <1>10, <1>11, <1>12 DEF KeepsEnv, OthersOf, WellFormedIn

\* A variable that loads a library.
LEMMA LoadRetains ==
  ASSUME NEW c \in PodContainer, NEW key \in DOMAIN DDToken, ~IsSourced(c, key)
  PROVE  /\ Retains(c.env, LoadDD(c, key).env)
         /\ \A k : ~IsSourced(c, k) => ~IsSourced(LoadDD(c, key), k)
<1> DEFINE envs == c.env
           i == EnvIndex(envs, key)
           e == Plain(key, DDValue(key, <<>>))
           new == [envs[i] EXCEPT !.value = DDValue(key, @)]
           list == IF i = 0 THEN Append(envs, e) ELSE [envs EXCEPT ![i] = new]
           d == LoadDD(c, key)
<1>1. envs \in Seq(EnvVar) /\ key # "DD_TAGS" /\ key \in LoaderVariables
  BY DEF PodContainer, DDToken, LoaderVariables
<1>2. e \in EnvVar /\ e.name = key
  <2>1. <<>> \in Seq(Text)
    OBVIOUS
  <2> DEFINE w == DDValue(key, <<>>)
  <2>2. w \in Seq(Text) /\ key \in Text
    BY <2>1, DDValueIs, TracingLiterals
  <2> HIDE DEF w
  <2> QED BY <2>2 DEF Plain, Env, EnvVar, Kinds, w
<1>3. LoadDD(c, key).env = list
  <2>1. AddOrUpdateEnvVar(envs, e, LAMBDA old, n : [old EXCEPT !.value = DDValue(key, @)]) = list
    BY <1>2 DEF AddOrUpdateEnvVar
  <2>2. LoadDD(c, key) = [c EXCEPT !.env = list]
    BY <2>1 DEF LoadDD
  <2> HIDE DEF list
  <2> QED BY <2>2 DEF PodContainer
<1> HIDE DEF e
<1>4. Retains(envs, list)
  <2>1. CASE i = 0
    <3>1. list = Append(envs, e)
      BY <2>1
    <3> HIDE DEF list, envs
    <3> QED BY <1>1, <1>2, <3>1, RetainsAppend
  <2>2. CASE i # 0
    <3> DEFINE old == envs[i]
               w == DDValue(key, old.value)
    <3>1. old \in EnvVar /\ old.name = key
      BY <1>1, <2>2, FirstExists, EnvIndexIs
    <3>2. old.kind = "plain"
      BY <2>2 DEF IsSourced
    <3>3. new = [old EXCEPT !.value = w] /\ list = [envs EXCEPT ![i] = new]
      BY <2>2
    <3> HIDE DEF old
    <3>4. old.value \in Seq(Text)
      BY <3>1 DEF EnvVar
    <3>5. w \in Seq(Text) /\ Inside(old.value, w)
      BY <3>4, DDValueIs, DDValueLengthens
    <3> HIDE DEF w, new, list
    <3>6. new \in EnvVar /\ Lengthened(old, new)
      BY <1>1, <3>1, <3>2, <3>3, <3>5, ValueLengthens
    <3>7. Lengthened(envs[i], new)
      BY <3>6 DEF old
    <3> HIDE DEF envs
    <3> QED BY <1>1, <2>2, <3>3, <3>6, <3>7, RetainsLonger
  <2> QED BY <2>1, <2>2
<1>5. ASSUME NEW k, ~IsSourced(c, k) PROVE ~IsSourced(d, k)
  <2>1. CASE k = key
    <3>1. PICK x : First(d.env, key, x) /\ Carries(key, x)
      BY LoadDDFirst
    <3> HIDE DEF d
    <3> QED BY <2>1, <3>1 DEF First, Carries, IsSourced
  <2>2. CASE k # key /\ EnvIndex(c.env, k) = 0
    <3>1. EnvIndex(d.env, k) = 0
      BY <2>2, LoadDDFirst
    <3> HIDE DEF d
    <3> QED BY <3>1 DEF IsSourced
  <2>3. CASE k # key /\ EnvIndex(c.env, k) # 0
    <3> DEFINE x == c.env[EnvIndex(c.env, k)]
    <3>1. First(c.env, k, x) /\ x.kind = "plain"
      BY <1>5, <2>3 DEF First, IsSourced
    <3> HIDE DEF x
    <3>2. First(d.env, k, x)
      BY <2>3, <3>1, LoadDDFirst
    <3> HIDE DEF d
    <3> QED BY <3>1, <3>2 DEF First, IsSourced
  <2> QED BY <2>1, <2>2, <2>3
<1> QED BY <1>3, <1>4, <1>5

RetainsLoad(ctx, k, d) ==
  d \in PodContainer /\ Retains(ctx.env, d.env) /\ \A key \in ctx.keys : ~IsSourced(d, key)
RetainLoads == INSTANCE FoldTheory WITH Op <- LoadOp, Inv <- RetainsLoad

\* All those of a language.
LEMMA LoadsRetain ==
  ASSUME NEW c \in PodContainer, NEW keys \in Seq(DOMAIN DDToken), \A k \in ToSet(keys) : ~IsSourced(c, k)
  PROVE  Retains(c.env, FoldLeft(LoadDD, c, keys).env)
<1> DEFINE n == Len(keys)
           ctx == [env |-> c.env, keys |-> ToSet(keys)]
<1>1. n \in Nat /\ DOMAIN keys = 1..n /\ \A k \in 1..n : keys[k] \in DOMAIN DDToken /\ keys[k] \in ToSet(keys)
  BY DEF ToSet
<1>2. ctx.env = c.env /\ ctx.keys = ToSet(keys) /\ c.env \in Seq(EnvVar)
  BY DEF PodContainer
<1> HIDE DEF n, ctx
<1>3. RetainsLoad(ctx, 0, c)
  BY <1>2, RetainsReflexive DEF RetainsLoad
<1>4. ASSUME NEW k \in 1..n, NEW d, RetainsLoad(ctx, k - 1, d)
      PROVE  RetainsLoad(ctx, k, LoadOp(ctx, d, keys[k]))
  <2> DEFINE key == keys[k]
             r == LoadDD(d, key)
  <2>1. d \in PodContainer /\ Retains(c.env, d.env) /\ \A j \in ToSet(keys) : ~IsSourced(d, j)
    BY <1>2, <1>4 DEF RetainsLoad
  <2>2. key \in DOMAIN DDToken /\ key \in ToSet(keys)
    BY <1>1
  <2> HIDE DEF key
  <2>3. r \in PodContainer /\ Retains(d.env, r.env) /\ \A j \in ToSet(keys) : ~IsSourced(r, j)
    BY <2>1, <2>2, LoadDDIs, LoadRetains
  <2>4. Retains(c.env, r.env)
    BY <1>2, <2>1, <2>3, RetainsTransitive
  <2> QED BY <1>2, <2>3, <2>4 DEF RetainsLoad, LoadOp, key
<1>5. RetainsLoad(ctx, n, RetainLoads!Fold(ctx, c, keys))
  BY <1>1, <1>3, <1>4, RetainLoads!FoldKeeps, Least DEF RetainLoads!Ordered
<1>6. FoldLeft(LoadDD, c, keys) = RetainLoads!Fold(ctx, c, keys)
  BY DEF FoldLeft, MapThenFoldSet, Max, RetainLoads!Fold, RetainLoads!Largest, LoadOp
<1> QED BY <1>2, <1>5, <1>6 DEF RetainsLoad

\* A variable of the rule.
LEMMA GlobalRetains ==
  ASSUME NEW envs \in Seq(EnvVar), OneTag(envs), NEW e \in EnvVar
  PROVE  Retains(envs, AddGlobalEnv(envs, e))
<1> DEFINE r == AddGlobalEnv(envs, e)
           i == EnvIndex(envs, "DD_TAGS")
           old == envs[i]
           v == AppendKVPairs(old.value, e.value)
           merged == [e EXCEPT !.value = v]
<1>1. /\ e.name # "DD_TAGS" => r = IF EnvIndex(envs, e.name) = 0 THEN Append(envs, e) ELSE envs
      /\ e.name = "DD_TAGS" /\ e.kind # "plain" => r = envs
      /\ e.name = "DD_TAGS" /\ e.kind = "plain" =>
           \/ i = 0 /\ r = Append(envs, e)
           \/ i # 0 /\ old.kind # "plain" /\ r = envs
           \/ /\ i # 0 /\ old.kind = "plain" /\ merged \in EnvVar /\ merged.name = e.name
              /\ merged.kind = "plain" /\ r = Append(RemoveAt(envs, i), merged)
  BY GlobalForms
<1>2. Retains(envs, envs) /\ Retains(envs, Append(envs, e))
  BY RetainsReflexive, RetainsAppend
<1> SUFFICES Retains(envs, r)
  OBVIOUS
<1> HIDE DEF r
<1>3. CASE e.name = "DD_TAGS" /\ i # 0 /\ old.kind = "plain" /\ merged \in EnvVar /\ merged.name = e.name
           /\ merged.kind = "plain" /\ r = Append(RemoveAt(envs, i), merged)
  <2>1. old \in EnvVar /\ i # 0
    BY <1>3, FirstExists
  <2> HIDE DEF i, old
  <2>2. old.value \in Seq(Text) /\ e.value \in Seq(Text)
    BY <2>1 DEF EnvVar
  <2>3. ToSet(old.value) \cap DOMAIN TagKey \subseteq ToSet(v)
    BY <2>2, TagsMerged
  <2> HIDE DEF v
  <2>4. merged.value = v
    BY DEF EnvVar
  <2>5. WellFormedIn(old) \subseteq WellFormedIn(merged)
    BY <2>3, <2>4 DEF WellFormedIn
  <2> HIDE DEF merged
  <2>6. Retains(envs, Append(RemoveAt(envs, i), merged))
    BY <1>3, <2>1, <2>5, RetainsMoved DEF i, old
  <2> QED BY <1>3, <2>6
<1> HIDE DEF i, old, merged
<1>4. r \in {envs, Append(envs, e)} \/ Retains(envs, r)
  BY <1>1, <1>3
<1> QED BY <1>2, <1>4

RetainsInv(first, k, list) == list \in Seq(EnvVar) /\ OneTag(list) /\ Retains(first, list)
RetainGlobals == INSTANCE FoldTheory WITH Op <- GlobalOp, Inv <- RetainsInv

\* All those of the rule,
LEMMA GlobalsRetain ==
  ASSUME NEW first \in Seq(EnvVar), OneTag(first), NEW envs \in Seq(EnvVar)
  PROVE  Retains(first, FoldLeft(AddGlobalEnv, first, envs))
<1> DEFINE n == Len(envs)
<1>1. n \in Nat /\ DOMAIN envs = 1..n /\ \A j \in 1..n : envs[j] \in EnvVar
  OBVIOUS
<1> HIDE DEF n
<1>2. RetainsInv(first, 0, first)
  BY RetainsReflexive DEF RetainsInv
<1>3. ASSUME NEW j \in 1..n, NEW a, RetainsInv(first, j - 1, a)
      PROVE  RetainsInv(first, j, GlobalOp(first, a, envs[j]))
  <2> DEFINE r == AddGlobalEnv(a, envs[j])
  <2>1. a \in Seq(EnvVar) /\ OneTag(a) /\ Retains(first, a) /\ envs[j] \in EnvVar
    BY <1>1, <1>3 DEF RetainsInv
  <2>2. r \in Seq(EnvVar) /\ OneTag(r) /\ Retains(a, r)
    BY <2>1, AddGlobalEnvIs, GlobalOneTag, GlobalRetains
  <2> HIDE DEF r
  <2>3. Retains(first, r)
    BY <2>1, <2>2, RetainsTransitive
  <2> QED BY <2>2, <2>3 DEF RetainsInv, GlobalOp, r
<1>4. RetainsInv(first, n, RetainGlobals!Fold(first, first, envs))
  BY <1>1, <1>2, <1>3, RetainGlobals!FoldKeeps, Least DEF RetainGlobals!Ordered
<1>5. FoldLeft(AddGlobalEnv, first, envs) = RetainGlobals!Fold(first, first, envs)
  BY DEF FoldLeft, MapThenFoldSet, Max, RetainGlobals!Fold, RetainGlobals!Largest, GlobalOp
<1> QED BY <1>4, <1>5 DEF RetainsInv

RetainsOnly(first, k, list) == list \in Seq(EnvVar) /\ Retains(first, list)
RetainKeeps == INSTANCE FoldTheory WITH Op <- KeepOp, Inv <- RetainsOnly

\* also where those that are there are left alone.
LEMMA KeepsRetain ==
  ASSUME NEW first \in Seq(EnvVar), NEW envs \in Seq(EnvVar)
  PROVE  Retains(first, AddOrUpdateEnvVars(first, envs, KeepExistingEnvVar))
<1> DEFINE n == Len(envs)
<1>1. n \in Nat /\ DOMAIN envs = 1..n /\ \A j \in 1..n : envs[j] \in EnvVar
  OBVIOUS
<1> HIDE DEF n
<1>2. RetainsOnly(first, 0, first)
  BY RetainsReflexive DEF RetainsOnly
<1>3. ASSUME NEW j \in 1..n, NEW a, RetainsOnly(first, j - 1, a)
      PROVE  RetainsOnly(first, j, KeepOp(first, a, envs[j]))
  <2> DEFINE e == envs[j]
             i == EnvIndex(a, e.name)
             t == [a EXCEPT ![i] = a[i]]
  <2>1. a \in Seq(EnvVar) /\ Retains(first, a) /\ e \in EnvVar
    BY <1>1, <1>3 DEF RetainsOnly
  <2>2. KeepOp(first, a, e) = IF i = 0 THEN Append(a, e) ELSE t
    BY DEF KeepOp, AddOrUpdateEnvVar, KeepExistingEnvVar
  <2>3. t = a
    BY <2>1
  <2> HIDE DEF t, i, e
  <2>4. Append(a, e) \in Seq(EnvVar) /\ Retains(a, Append(a, e))
    BY <2>1, AppendProperties, RetainsAppend
  <2>5. Retains(first, Append(a, e))
    BY <2>1, <2>4, RetainsTransitive
  <2> QED BY <2>1, <2>2, <2>3, <2>4, <2>5 DEF e, RetainsOnly
<1>4. RetainsOnly(first, n, RetainKeeps!Fold(first, first, envs))
  BY <1>1, <1>2, <1>3, RetainKeeps!FoldKeeps, Least DEF RetainKeeps!Ordered
<1>5. AddOrUpdateEnvVars(first, envs, KeepExistingEnvVar) = RetainKeeps!Fold(first, first, envs)
  BY DEF AddOrUpdateEnvVars, FoldLeft, MapThenFoldSet, Max, RetainKeeps!Fold, RetainKeeps!Largest, KeepOp
<1> QED BY <1>4, <1>5 DEF RetainsOnly

\* What DDTrace makes of the variables of a container.
LEMMA DDTracedRetains ==
  ASSUME NEW c \in PodContainer, OneTag(c.env), NEW lang \in DOMAIN LoaderKey, NEW envs \in Seq(EnvVar),
         \A k \in ToSet(DDKeys(lang)) : ~IsSourced(c, k)
  PROVE  Retains(c.env, DDTraced(c, lang, envs).env)
<1> DEFINE keys == DDKeys(lang)
           a == FoldLeft(LoadDD, c, keys)
           b == AddMountTo(a, DDMount)
           new == FoldLeft(AddGlobalEnv, a.env, envs)
           d == DDTraced(c, lang, envs)
<1>1. keys \in Seq(DOMAIN DDToken) /\ DDMount \in VolumeMount /\ c.env \in Seq(EnvVar)
  BY DDKeysAre, TracingLiterals DEF PodContainer
<1>2. Retains(c.env, a.env)
  BY <1>1, LoadsRetain
<1>3. a \in PodContainer /\ OneTag(a.env)
  BY <1>1, LoadsAre, LoadsOneTag DEF LoadInv
<1>4. d = [b EXCEPT !.env = FoldLeft(AddGlobalEnv, b.env, envs)]
  BY DEF DDTraced
<1> HIDE DEF a, d, keys
<1>5. b \in PodContainer /\ b.env = a.env
  BY <1>1, <1>3, MountEdited DEF AddMountTo, PodContainer
<1> HIDE DEF b
<1>6. d.env = new
  BY <1>4, <1>5 DEF PodContainer
<1>7. a.env \in Seq(EnvVar)
  BY <1>3 DEF PodContainer
<1>8. Retains(a.env, new)
  BY <1>3, <1>7, GlobalsRetain
<1>9. Retains(c.env, new)
  BY <1>1, <1>2, <1>8, RetainsTransitive
<1> QED BY <1>6, <1>9 DEF d

\* What OpenTelemetry makes of them.
LEMMA OTelTracedRetains ==
  ASSUME NEW c \in PodContainer, NEW lang \in OTelLanguages, NEW envs \in Seq(EnvVar),
         LET i == EnvIndex(c.env, LoaderKey[lang]) IN i # 0 => c.env[i].kind = "plain"
  PROVE  Retains(c.env, OTelTraced(c, lang, envs).env)
<1> DEFINE l == c.env
           key == LoaderKey[lang]
           i == EnvIndex(l, key)
           w == OTelValue(lang, <<>>)
           e == Plain(key, w)
           v == OTelValue(lang, l[i].value)
           new == [l[i] EXCEPT !.value = v]
           two == [l EXCEPT ![i] = new]
           loaded == OTelLoaded(l, lang)
<1>1. l \in Seq(EnvVar)
  BY DEF PodContainer
<1>2. OTelTraced(c, lang, envs).env = AddOrUpdateEnvVars(loaded, envs, KeepExistingEnvVar)
  BY OTelTracedLoads
<1>3. loaded \in Seq(EnvVar)
  BY <1>1, OTelLoadedFirst
<1>4. key \in LoaderVariables /\ key # "DD_TAGS"
  BY DEF LoaderVariables, DDToken, LoaderKey, OTelLanguages, OTelPath
<1>5. e \in EnvVar /\ e.name = key
  <2>1. <<>> \in Seq(Text)
    OBVIOUS
  <2>2. w \in Seq(Text) /\ key \in Text
    BY <2>1, OTelValueIs, TracingLiterals
  <2> HIDE DEF w, key
  <2> QED BY <2>2 DEF Plain, Env, EnvVar, Kinds
<1>6. loaded = IF i = 0 THEN Append(l, e) ELSE two
  BY <1>5 DEF OTelLoaded, AddOrUpdateEnvVar
<1> HIDE DEF e, w
<1>7. Retains(l, loaded)
  <2>1. CASE i = 0
    <3>1. loaded = Append(l, e)
      BY <1>6, <2>1
    <3> HIDE DEF loaded, l
    <3> QED BY <1>1, <1>5, <3>1, RetainsAppend
  <2>2. CASE i # 0
    <3> DEFINE old == l[i]
    <3>1. old \in EnvVar /\ old.name = key /\ old.kind = "plain"
      BY <1>1, <2>2, FirstExists, EnvIndexIs
    <3>2. new = [old EXCEPT !.value = v] /\ loaded = two /\ v = OTelValue(lang, old.value)
      BY <1>6, <2>2
    <3> HIDE DEF old
    <3>3. old.value \in Seq(Text)
      BY <3>1 DEF EnvVar
    <3>4. v \in Seq(Text) /\ Inside(old.value, v)
      BY <3>2, <3>3, OTelValueIs, OTelValueLengthens
    <3> HIDE DEF v, new, loaded, key
    <3>5. new \in EnvVar /\ Lengthened(old, new)
      BY <1>4, <3>1, <3>2, <3>4, ValueLengthens
    <3>6. Lengthened(l[i], new)
      BY <3>5 DEF old
    <3> HIDE DEF l
    <3> QED BY <1>1, <1>4, <2>2, <3>2, <3>5, <3>6, RetainsLonger
  <2> QED BY <2>1, <2>2
<1> HIDE DEF loaded
<1>8. Retains(loaded, AddOrUpdateEnvVars(loaded, envs, KeepExistingEnvVar))
  BY <1>3, KeepsRetain
<1> QED BY <1>1, <1>2, <1>7, <1>8, RetainsTransitive

\* The containers of a pod keep their variables, and the pod its annotations.
Minds(p, q) ==
  /\ DOMAIN p.containers \subseteq DOMAIN q.containers
  /\ \A i \in DOMAIN p.containers : Retains(p.containers[i].env, q.containers[i].env)
  /\ \A k \in DOMAIN p.annotations : k \in DOMAIN q.annotations /\ q.annotations[k] = p.annotations[k]

\* The containers of a pod.
LEMMA EnvsOf ==
  ASSUME NEW p, IsPod(p)
  PROVE  \A i \in DOMAIN p.containers : p.containers[i] \in PodContainer /\ p.containers[i].env \in Seq(EnvVar)
<1>1. \A i \in DOMAIN p.containers : p.containers[i] \in PodContainer
  BY PodIs
<1>2. \A c \in PodContainer : c.env \in Seq(EnvVar)
  BY DEF PodContainer
<1> QED BY <1>1, <1>2

\* A pod minds itself,
LEMMA MindsReflexive ==
  ASSUME NEW p, IsPod(p)
  PROVE  Minds(p, p)
<1>1. \A i \in DOMAIN p.containers : p.containers[i].env \in Seq(EnvVar)
  BY EnvsOf
<1> QED BY <1>1, RetainsReflexive DEF Minds

\* and so do two steps in which each minds the pod before it.
LEMMA MindsTransitive ==
  ASSUME NEW p, IsPod(p), NEW q, NEW r, Minds(p, q), Minds(q, r)
  PROVE  Minds(p, r)
<1>1. ASSUME NEW i \in DOMAIN p.containers PROVE Retains(p.containers[i].env, r.containers[i].env)
  <2>1. p.containers[i].env \in Seq(EnvVar)
    BY EnvsOf
  <2>2. Retains(p.containers[i].env, q.containers[i].env) /\ Retains(q.containers[i].env, r.containers[i].env)
    BY DEF Minds
  <2> QED BY <2>1, <2>2, RetainsTransitive
<1> QED BY <1>1 DEF Minds

\* So do the stages that leave variables alone.
LEMMA AsideMinds ==
  ASSUME NEW p, IsPod(p), NEW q, Aside(p, q)
  PROVE  Minds(p, q)
<1>1. \A i \in DOMAIN p.containers : p.containers[i].env \in Seq(EnvVar)
  BY EnvsOf
<1>2. \A i \in DOMAIN p.containers : Retains(p.containers[i].env, q.containers[i].env)
  BY <1>1, RetainsReflexive DEF Aside
<1> QED BY <1>2 DEF Minds, Aside

\* The stage of the tracers.
LEMMA TracedMinds ==
  ASSUME given \in Cases, NEW p, IsPod(p), OneTagEach(p)
  PROVE  Minds(p, Traced(p))
<1> DEFINE q == Traced(p)
<1>1. given.ddtraces \in Seq(TracingRule) /\ given.otels \in Seq(TracingRule)
  BY CaseIs
<1>2. \/ q = p
      \/ DDInit \in Names(p.init) /\ q = RepairJavaAgentEnv(p)
      \/ DDAdded(p, q, given.namespace, given.ddtraces)
      \/ OTelAdded(p, q, given.namespace, given.otels)
  BY <1>1, TracingForms DEF Traced
<1> SUFFICES Minds(p, q)
  OBVIOUS
<1> HIDE DEF q
<1>3. \A i \in DOMAIN p.containers :
        p.containers[i] \in PodContainer /\ p.containers[i].env \in Seq(EnvVar) /\ OneTag(p.containers[i].env)
  BY EnvsOf DEF OneTagEach
<1>4. ASSUME NEW rule \in TracingRule PROVE BuildEnvs(rule.envs, p) \in Seq(EnvVar)
  BY BuildEnvsAre DEF TracingRule
<1>5. CASE DDAdded(p, q, given.namespace, given.ddtraces)
  <2> DEFINE rule == SelectRule(p, MatchesAll(given.ddtraces, NamespaceOf(p, given.namespace)), "ddtrace").rule
             lang == rule.language
             envs == BuildEnvs(rule.envs, p)
             list == [i \in DOMAIN p.containers |-> DDTraced(p.containers[i], lang, envs)]
  <2>1. PICK init \in PodContainer :
          q = AddVolume(AddInitContainer([p EXCEPT !.containers = list], init), EmptyDir(DDVolume))
    BY <1>5 DEF DDAdded
  <2>2. rule \in TracingRule /\ lang \in DOMAIN LoaderKey /\ ~Blocked(p, DDKeys(lang))
    BY <1>5 DEF DDAdded
  <2>3. envs \in Seq(EnvVar)
    BY <1>4, <2>2
  <2> HIDE DEF rule, envs, lang
  <2>4. \A i \in DOMAIN p.containers : \A k \in ToSet(DDKeys(lang)) : ~IsSourced(p.containers[i], k)
    BY <2>2 DEF Blocked
  <2>5. ASSUME NEW i \in DOMAIN p.containers PROVE Retains(p.containers[i].env, list[i].env)
    <3>1. Retains(p.containers[i].env, DDTraced(p.containers[i], lang, envs).env)
      BY <1>3, <2>2, <2>3, <2>4, DDTracedRetains
    <3> QED BY <3>1
  <2>6. DOMAIN list = DOMAIN p.containers
    OBVIOUS
  <2> HIDE DEF list
  <2>7. q.containers = list /\ q.annotations = p.annotations
    BY <2>1, PodIs DEF PodFields, AddVolume, AddInitContainer
  <2> QED BY <2>5, <2>6, <2>7 DEF Minds
<1>6. CASE OTelAdded(p, q, given.namespace, given.otels)
  <2> DEFINE rule == SelectRule(p, MatchesAll(given.otels, NamespaceOf(p, given.namespace)), "otel").rule
             lang == rule.language
             envs == BuildEnvs(rule.envs, p)
             list == [i \in DOMAIN p.containers |-> OTelTraced(p.containers[i], lang, envs)]
  <2>1. PICK init \in PodContainer :
          /\ OTelFits(p, rule, init)
          /\ q = AddVolume(AddInitContainer([p EXCEPT !.containers = list], init), EmptyDir(OTelVolume))
    BY <1>6 DEF OTelAdded
  <2>2. rule \in TracingRule /\ lang \in OTelLanguages
    BY <1>6 DEF OTelAdded
  <2>3. envs \in Seq(EnvVar)
    BY <1>4, <2>2
  <2> DEFINE key == LoaderKey[lang]
  <2>4. \A i \in DOMAIN p.containers :
          NamedOf(p.containers[i].env, key) # <<>> => NamedOf(p.containers[i].env, key)[1].kind = "plain"
    BY <2>1 DEF OTelFits, NamedOf
  <2> HIDE DEF rule, envs, lang, key
  <2>5. ASSUME NEW i \in DOMAIN p.containers PROVE Retains(p.containers[i].env, list[i].env)
    <3> DEFINE l == p.containers[i].env
               j == EnvIndex(l, key)
               r == NamedOf(l, key)
    <3>1. l \in Seq(EnvVar) /\ (r # <<>> => r[1].kind = "plain")
      BY <1>3, <2>4
    <3>2. r \in Seq(EnvVar) /\ (j # 0 => Len(r) >= 1 /\ r[1] = l[j])
      BY <3>1, NamedIs
    <3> HIDE DEF l, j, r
    <3>3. j # 0 => l[j].kind = "plain"
      <4>1. Len(r) >= 1 => r # <<>>
        BY <3>2
      <4> QED BY <3>1, <3>2, <4>1
    <3>4. LET m == EnvIndex(p.containers[i].env, LoaderKey[lang])
          IN  m # 0 => p.containers[i].env[m].kind = "plain"
      BY <3>3 DEF l, j, key
    <3>5. Retains(p.containers[i].env, OTelTraced(p.containers[i], lang, envs).env)
      BY <1>3, <2>2, <2>3, <3>4, OTelTracedRetains
    <3> QED BY <3>5
  <2>6. DOMAIN list = DOMAIN p.containers
    OBVIOUS
  <2> HIDE DEF list
  <2>7. q.containers = list /\ q.annotations = p.annotations
    BY <2>1, PodIs DEF PodFields, AddVolume, AddInitContainer
  <2> QED BY <2>5, <2>6, <2>7 DEF Minds
<1>7. CASE q = RepairJavaAgentEnv(p)
  <2> DEFINE Repaired(c) == IF HasDDMount(c) /\ ~IsSourced(c, LoaderKey.java)
                            THEN LoadDD(c, LoaderKey.java) ELSE c
             list == [i \in DOMAIN p.containers |-> Repaired(p.containers[i])]
             r == [p EXCEPT !.containers = list]
  <2>1. q \in {p, r}
    BY <1>7 DEF RepairJavaAgentEnv, EachContainer
  <2>2. r.containers = list /\ r.annotations = p.annotations
    BY PodIs DEF PodFields
  <2>3. LoaderKey.java \in DOMAIN DDToken
    BY DEF LoaderKey, DDToken
  <2>4. \A i \in DOMAIN p.containers : Retains(p.containers[i].env, list[i].env)
    BY <1>3, <2>3, LoadRetains, RetainsReflexive
  <2>5. DOMAIN list = DOMAIN p.containers
    OBVIOUS
  <2> HIDE DEF list, r
  <2>6. Minds(p, r)
    BY <2>2, <2>4, <2>5 DEF Minds
  <2> QED BY <2>1, <2>6, MindsReflexive
<1>8. CASE q = p
  BY <1>8, MindsReflexive
<1> QED BY <1>2, <1>5, <1>6, <1>7, <1>8

\* The copy of a review under way still has what the pod has.
LEMMA MindsNext ==
  ASSUME IInv, AllOneTag, Minds(pod, work), [Next]_vars
  PROVE  Minds(pod, work)'
<1>1. IsPod(pod) /\ IsPod(work) /\ given \in Cases /\ OneTagEach(work) /\ IsPod(pod')
  <2>1. IInv'
    BY InvNext
  <2> QED BY <2>1 DEF IInv, Inv, TypeOK, AllOneTag
<1>2. CASE work' = pod'
  <2>1. Minds(pod', pod')
    BY <1>1, MindsReflexive
  <2> QED BY <1>2, <2>1 DEF Minds
<1>3. CASE InjectTracing
  <2>1. work' = Traced(work) /\ pod' = pod
    BY <1>3, TracingStageIs
  <2>2. Minds(work, Traced(work))
    BY <1>1, TracedMinds
  <2>3. Minds(pod, Traced(work))
    BY <1>1, <2>2, MindsTransitive
  <2> QED BY <2>1, <2>3 DEF Minds
<1>4. CASE SidecarStage
  <2>1. Aside(work, work') /\ pod' = pod
    BY <1>4, SidecarStageAside
  <2>2. Minds(work, work')
    BY <1>1, <2>1, AsideMinds
  <2>3. Minds(pod, work')
    BY <1>1, <2>2, MindsTransitive
  <2> QED BY <2>1, <2>3 DEF Minds
<1>5. Receive \/ Respond \/ Lose \/ OtherAdds \/ OtherResetsEnv => work' = pod'
  BY DEF Receive, Respond, Lose, OtherAdds, OtherResetsEnv, Other
<1>6. CASE UNCHANGED vars
  BY <1>6 DEF vars, Minds
<1> QED BY <1>2, <1>3, <1>4, <1>5, <1>6 DEF Next, SidecarStage

\* What grows at its end has the old list before it.
LEMMA GrowsIsPrefix ==
  ASSUME NEW S, NEW s \in Seq(S), NEW t \in Seq(S), Grows(s, t)
  PROVE  IsPrefix(s, t)
<1>1. Len(s) \in Nat /\ Len(t) \in Nat /\ Len(s) <= Len(t) /\ \A i \in 1..Len(s) : t[i] = s[i]
  BY DEF Grows
<1> DEFINE n == Len(s)
           a == SubSeq(s, 1, n)
           b == SubSeq(t, 1, n)
<1>2. /\ a \in Seq(S) /\ Len(a) = n /\ \A i \in 1..n : a[i] = s[i]
      /\ b \in Seq(S) /\ Len(b) = n /\ \A i \in 1..n : b[i] = t[i]
  BY <1>1, SubSeqProperties
<1> HIDE DEF a, b
<1>3. a = b
  BY <1>1, <1>2
<1> QED BY <1>1, <1>3 DEF IsPrefix, a, b

\* The copy keeps everything that the property names.
LEMMA CopyKeeps ==
  ASSUME NEW p, IsPod(p), NEW q, IsPod(q), Extends(p, q), OneTagEach(p), Minds(p, q)
  PROVE  Keeps(p, q)
<1>1. /\ p.volumes \in Seq(PodVolume) /\ q.volumes \in Seq(PodVolume)
      /\ p.init \in Seq(PodContainer) /\ q.init \in Seq(PodContainer)
      /\ p.containers \in Seq(PodContainer) /\ q.containers \in Seq(PodContainer)
  BY PodIs
<1>2. /\ Grows(p.volumes, q.volumes) /\ Grows(p.init, q.init) /\ Len(p.containers) <= Len(q.containers)
      /\ \A i \in 1..Len(p.containers) : Edited(p.containers[i], q.containers[i])
  BY DEF Extends
<1>3. IsPrefix(p.volumes, q.volumes) /\ IsPrefix(p.init, q.init)
  BY <1>1, <1>2, GrowsIsPrefix
<1>4. ASSUME NEW i \in DOMAIN p.containers
      PROVE  KeepsContainer(p.containers[i], q.containers[i])
  <2> DEFINE c == p.containers[i]
             d == q.containers[i]
  <2>1. i \in 1..Len(p.containers) /\ i \in 1..Len(q.containers)
    BY <1>1, <1>2
  <2>2. c \in PodContainer /\ d \in PodContainer /\ Edited(c, d)
    BY <1>1, <1>2, <2>1
  <2>3. Retains(c.env, d.env) /\ OneTag(c.env)
    BY DEF Minds, OneTagEach
  <2> HIDE DEF c, d
  <2>4. c.env \in Seq(EnvVar) /\ c.mounts \in Seq(VolumeMount) /\ d.mounts \in Seq(VolumeMount)
    BY <2>2 DEF PodContainer
  <2>5. KeepsEnv(c.env, d.env)
    BY <2>3, <2>4, RetainsIs
  <2>6. IsPrefix(c.mounts, d.mounts)
    BY <2>2, <2>4, GrowsIsPrefix DEF Edited
  <2>7. [d EXCEPT !.env = c.env, !.mounts = c.mounts] = c
    BY <2>2 DEF Edited, PodContainer
  <2> QED BY <2>5, <2>6, <2>7 DEF KeepsContainer, c, d
<1> QED BY <1>2, <1>3, <1>4 DEF Keeps, Minds

\* UserWorkKept: whatever the user wrote is still there after a review, in its place and
\* its order; only the values of loader variables grow around what they were, and the
\* tags of a container are merged and moved to the end. Proved for any rules and any
\* pods whose containers have one variable of tags at most: of two, the first would be
\* merged and the second left.
THEOREM UserWorkKeptHolds ==
  ASSUME LateHaveOneTag, \A c \in Cases : OneTagEach(c.pod)
  PROVE  Spec => UserWorkKept
<1>1. Spec => []AllOneTag
  BY AlwaysOneTag
<1>2. Init => IInv
  BY InvInit
<1>3. Init => Minds(pod, work)
  <2> SUFFICES ASSUME Init PROVE Minds(pod, work)
    OBVIOUS
  <2>1. IsPod(pod) /\ work = pod
    BY <1>2 DEF Init, IInv, Inv, TypeOK
  <2> QED BY <2>1, MindsReflexive
<1>4. IInv /\ AllOneTag /\ Minds(pod, work) /\ [Next]_vars => Minds(pod, work)'
  BY MindsNext
<1>5. ASSUME IInv, AllOneTag, Minds(pod, work), Respond PROVE Keeps(pod, pod')
  <2>1. IsPod(pod) /\ UniqueNames(pod.containers) /\ IsPod(work) /\ Extends(pod, work) /\ OneTagEach(pod)
    BY <1>5 DEF IInv, Inv, TypeOK, AllOneTag
  <2>2. pod' = work
    BY <1>5, <2>1, PatchLeads DEF Respond
  <2>3. Keeps(pod, work)
    BY <1>5, <2>1, CopyKeeps
  <2> QED BY <2>2, <2>3
<1> DEFINE KeepsWork == Respond => Keeps(pod, pod')
<1>6. IInv /\ AllOneTag /\ Minds(pod, work) => [KeepsWork]_vars
  BY <1>5
<1> QED BY <1>1, <1>3, <1>4, <1>6, Invariant, PTL DEF Spec, UserWorkKept
=============================================================================
