------------------------------ MODULE Sidecars ------------------------------
(***************************************************************************)
(* Injection of the sidecars (logfwd, Flameshot, profiler), and the        *)
(* annotation and volumes for DataKit's own log collection.                *)
(***************************************************************************)
EXTENDS Pods

CONSTANTS PathsOf,       \* the directories each well-formed log configuration names
          LogfwdVolumes, \* names of new volumes, by the index of the directory:
          LogsVolumes    \* for logfwd, and for DataKit's own collection

\* What is empty is no configuration.
ASSUME PathsAssumption ==
  /\ Blank \notin DOMAIN PathsOf
  /\ \A a \in DOMAIN PathsOf : a \in Text /\ PathsOf[a] \in Seq(Text)
  /\ LogfwdVolumes \in Seq(Text) /\ LogsVolumes \in Seq(Text)

\* The rules, by what they inject.
LogfwdRules ==
  [accepts: SUBSET Text, checkAnnotation: BOOLEAN, image: Text, logConfigs: Text,
   paths: Seq(Text), envs: Seq(EnvVar)]
FlameshotRules ==
  [accepts: SUBSET Text, image: Text, processes: Text, prometheus: BOOLEAN,
   envs: Seq(EnvVar)]
ProfilerRules ==
  [accepts: SUBSET Text, checkAnnotation: BOOLEAN, language: Text, image: Text,
   images: [{"java", "python", "golang"} -> Text], envs: Seq(EnvVar)]
LoggingRules == [accepts: SUBSET Text, config: Text]

\* The first rule whose selectors accept the pod.
Matches(rules, ns) ==
  LET i == SelectInSeq(rules, LAMBDA r : ns \in r.accepts)
  IN  IF i = 0 THEN [found |-> FALSE] ELSE [found |-> TRUE, rule |-> rules[i]]

Unique(paths) ==
  FoldLeft(LAMBDA seen, p : IF p \in ToSet(seen) THEN seen ELSE Append(seen, p),
           <<>>, paths)

\* Mutant: new volumes also where there is one.
FreshVolumePairs(pod, paths, fresh) ==
  [i \in DOMAIN paths |-> Mount(fresh[i], paths[i])]

\* Mutant: a directory that a container mounts is always left out.
UnmountedVolumePairs(pod, paths, fresh) ==
  Filter(FreshVolumePairs(pod, paths, fresh), LAMBDA m : ~IsMountPath(pod, m.path))

\* Where the directories are: a directory that a container mounts is shared as it
\* is if its volume can be, and left out otherwise; the others get new volumes.
GetVolumePairs(pod, paths, fresh) ==
  LET Name(i) == IF IsMountPath(pod, paths[i])
                 THEN AllMounts(pod)[MountIndex(pod, paths[i])].name
                 ELSE fresh[i]
      Shared(i) == IsMountPath(pod, paths[i]) => IsEmptyDirVolume(pod, Name(i))
  IN  FoldLeftDomain(LAMBDA pairs, i : IF Shared(i)
                                       THEN Append(pairs, Mount(Name(i), paths[i]))
                                       ELSE pairs,
                     <<>>, paths)

\* The volumes of the pairs, and their mounts in all the containers of the pod.
ShareVolumes(pod, pairs) ==
  LET volumes == FoldLeft(LAMBDA p, m : AddVolume(p, EmptyDir(m.name)), pod, pairs)
  IN  FoldLeft(AddVolumeMount, volumes, pairs)

\* A sidecar's own variables: of two with one name, the last.
SidecarEnvs(rule, pod) ==
  AddOrUpdateEnvVars(<<>>, BuildEnvs(rule.envs, pod), ReplaceExistingEnvVar)

\* Processes are only visible, and the sidecar only useful, in a shared namespace.
ResetSpec(pod) ==
  [pod EXCEPT !.shareProcessNamespace = "true", !.restartPolicy = "Always"]

(***************************************************************************)
(* logfwd                                                                  *)
(***************************************************************************)
LogfwdContainer == "datakit-logfwd"
PodInfo == "datakit-pod-info"
PodInfoMount == Mount(PodInfo, "/etc/podinfo")
Instances == <<"logfwd", "instances">>

ReadOnly(m) == [m EXCEPT !.readOnly = TRUE]

\* The configuration in the annotation counts if it is empty or well-formed, that
\* of the rule only if it is well-formed.
InstancesConfig(pod) ==
  IF Annotated(pod, Instances) /\ pod.annotations[Instances] \in DOMAIN PathsOf \cup {Blank}
  THEN {pod.annotations[Instances]} ELSE {}
LogConfigsConfig(rule) == {rule.logConfigs} \cap DOMAIN PathsOf

LogPaths(configs) ==
  IF configs \subseteq DOMAIN PathsOf /\ configs # {}
  THEN PathsOf[CHOOSE c \in configs : TRUE] ELSE <<>>

InjectLogfwd(pod, rule) ==
  LET instances == InstancesConfig(pod)
      logs == LogConfigsConfig(rule)
      Set(envs, key, configs) ==
        FoldLeft(LAMBDA list, c : AddOrUpdateEnvVar(list,
                   Plain(key, IF c = Blank THEN <<>> ELSE <<c>>), ReplaceExistingEnvVar),
                 envs, SetToSeq(configs))
      envs == Set(Set(SidecarEnvs(rule, pod), "LOGFWD_JSON_CONFIG", instances),
                  "LOGFWD_LOG_CONFIGS", logs)
      paths == Unique(LogPaths(instances) \o LogPaths(logs) \o rule.paths)
      pairs == GetVolumePairs(pod, paths, LogfwdVolumes)
      shared == AddVolume(ShareVolumes(pod, pairs), Volume(PodInfo, "downwardAPI"))
      mounts == Append([i \in DOMAIN pairs |-> ReadOnly(pairs[i])],
                       ReadOnly(PodInfoMount))
  IN  AddContainer(shared, Container(LogfwdContainer, Image(rule.image, Blank), Blank, envs, mounts))

\* How many directories a configuration names, and a logfwd rule at most.
Lengths == {0} \cup {Len(PathsOf[a]) : a \in DOMAIN PathsOf}
LogfwdNamesSuffice(rule) ==
  \A l, m \in Lengths : l + m + Len(rule.paths) <= Len(LogfwdVolumes)

\* The rules are matched with the namespace that the pod itself carries.
InjectLogfwdToPod(pod, ns, rules) ==
  LET match == Matches(rules, pod.namespace)
  IN  IF /\ CheckAnnotationIsTrue(pod, <<"logfwd", "enabled">>)
         /\ ~ContainsContainer(pod, LogfwdContainer)
         /\ match.found
         /\ match.rule.checkAnnotation => Annotated(pod, Instances)
      THEN InjectLogfwd(pod, match.rule)
      ELSE pod

(***************************************************************************)
(* Flameshot                                                               *)
(***************************************************************************)
FlameshotContainer == "datakit-flameshot"
FlameshotVolume == "flameshot-volume"
ProfilingPath == "FLAMESHOT_PROFILING_PATH"
LocalPort == "FLAMESHOT_HTTP_LOCAL_PORT"
Port == <<"port">>   \* any value that reads as a port

WorkingDirectory == "."

\* A path that is empty, or that comes from a source, is cleaned to ".".
FlameshotPath(envs) ==
  LET e == envs[EnvIndex(envs, ProfilingPath)]
  IN  IF e.kind = "plain" /\ e.value # <<>> THEN e.value[1] ELSE WorkingDirectory

HasFlameshotPort(envs) ==
  \E i \in DOMAIN envs : envs[i] = Plain(LocalPort, Port)

PrometheusKeys ==
  {"prometheus"} \X {"scrape", "port", "scheme", "path", "param_measurement"}

\* Only if the user gave none of these.
AddPrometheusAnnotations(pod) ==
  IF \E key \in DOMAIN pod.annotations : key[1] = "prometheus"
  THEN pod
  ELSE Annotate(pod, PrometheusKeys, "flameshot")

InjectFlameshot(pod, rule, envs) ==
  LET container == Container(FlameshotContainer, Image(rule.image, Blank), Blank, envs, <<>>)
      added == AddVolume(AddContainer(ResetSpec(pod), container), EmptyDir(FlameshotVolume))
      mounted == AddVolumeMount(added, Mount(FlameshotVolume, FlameshotPath(envs)))
  IN  IF rule.prometheus THEN AddPrometheusAnnotations(mounted) ELSE mounted

InjectFlameshotToPod(pod, ns, rules) ==
  LET match == Matches(rules, NamespaceOf(pod, ns))
      envs == AddOrUpdateEnvVar(SidecarEnvs(match.rule, pod),
                Plain("FLAMESHOT_PROCESSES", <<match.rule.processes>>), ReplaceExistingEnvVar)
  IN  IF /\ CheckAnnotationIsTrue(pod, <<"flameshot", "enabled">>)
         /\ ~ContainsContainer(pod, FlameshotContainer)
         /\ match.found
         /\ match.rule.processes # Blank
         /\ EnvIndex(envs, ProfilingPath) # 0
         /\ HasFlameshotPort(envs)
      THEN InjectFlameshot(pod, match.rule, envs)
      ELSE pod

(***************************************************************************)
(* Profiler                                                                *)
(***************************************************************************)
ProfilerContainer == "datakit-profiler"
ProfilerMount == Mount("datakit-profiler-volume", "/app/datakit-profiler")
TmpMount == Mount("tmp", "/tmp")
TimezoneMount == Mount("timezone", "/etc/localtime")
ProfilerLanguages == <<"java", "python", "golang">>

\* The language, and its version if an annotation has to name them.
ProfilerChoice(pod, rule) ==
  LET i == SelectInSeq(ProfilerLanguages, LAMBDA l :
             IF rule.checkAnnotation THEN Annotated(pod, <<"profiler", l>>)
                                     ELSE l = rule.language)
  IN  IF i = 0 THEN [found |-> FALSE]
      ELSE [found |-> TRUE, language |-> ProfilerLanguages[i],
            version |-> IF rule.checkAnnotation
                        THEN pod.annotations[<<"profiler", ProfilerLanguages[i]>>] ELSE Blank]

\* The image listed for the language, or the deprecated image of the whole rule.
ProfilerImage(rule, lang) ==
  IF rule.images[lang] # Blank THEN rule.images[lang] ELSE rule.image

AddMountIfFree(pod, m) == IF IsMountPath(pod, m.path) THEN pod ELSE AddVolumeMount(pod, m)

InjectProfiler(pod, rule, image) ==
  LET reset == ResetSpec(pod)
      added == AddContainer(reset, Container(ProfilerContainer, image, Blank,
                                             SidecarEnvs(rule, reset), <<>>))
      volumes == FoldLeft(AddVolume, added,
                   <<EmptyDir(ProfilerMount.name), EmptyDir(TmpMount.name),
                     Volume(TimezoneMount.name, "hostPath")>>)
      work == AddVolumeMount(volumes, ProfilerMount)
  IN  AddMountIfFree(AddMountIfFree(work, TmpMount), TimezoneMount)

InjectProfilerToPod(pod, ns, rules) ==
  LET match == Matches(rules, NamespaceOf(pod, ns))
      choice == ProfilerChoice(pod, match.rule)
      image == ProfilerImage(match.rule, choice.language)
  IN  IF /\ CheckAnnotationIsTrue(pod, <<"profiler", "enabled">>)
         /\ ~ContainsContainer(pod, ProfilerContainer)
         /\ match.found
         /\ choice.found
         /\ image # Blank
      THEN InjectProfiler(pod, match.rule, Image(image, choice.version))
      ELSE pod

(***************************************************************************)
(* Logs that DataKit collects itself                                       *)
(***************************************************************************)
Logs == <<"datakit", "logs">>

MutateLoggingToPod(pod, ns, rules) ==
  LET match == Matches(rules, NamespaceOf(pod, ns))
      config == match.rule.config
      pairs == GetVolumePairs(pod, Unique(PathsOf[config]), LogsVolumes)
  IN  IF ~Annotated(pod, Logs) /\ match.found /\ config \in DOMAIN PathsOf
      THEN Annotate(ShareVolumes(pod, pairs), {Logs}, config)
      ELSE pod

\* Literals of the code are strings.
ASSUME SidecarsLiterals ==
  /\ {"LOGFWD_JSON_CONFIG", "LOGFWD_LOG_CONFIGS", "FLAMESHOT_PROCESSES", "flameshot"} \subseteq Text
  /\ {LogfwdContainer, FlameshotContainer, FlameshotVolume, ProfilerContainer} \subseteq Text
  /\ {PodInfo, WorkingDirectory} \subseteq Text
  /\ {PodInfoMount, ProfilerMount, TmpMount, TimezoneMount} \subseteq VolumeMount
  /\ {Logs} \cup PrometheusKeys \subseteq Text \X Text
=============================================================================
