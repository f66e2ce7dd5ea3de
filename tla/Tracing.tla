------------------------------ MODULE Tracing ------------------------------
(***************************************************************************)
(* Injection of a tracing library: DDTrace, or else OpenTelemetry.  A      *)
(* library is copied to a volume by an init container; every container of  *)
(* the pod mounts it and loads it through a variable of its language.      *)
(***************************************************************************)
EXTENDS Pods, FiniteSets

CONSTANT TagKey   \* the key of each well-formed tag; other tags are malformed

\* A rule of either tracer; "sized" says that it gives both requests and limits.
TracingRule ==
  [accepts: SUBSET Text, checkAnnotation: BOOLEAN, language: Text, image: Text,
   envs: Seq(EnvVar), sized: BOOLEAN]

LoaderKey ==
  [java |-> "JAVA_TOOL_OPTIONS", python |-> "PYTHONPATH",
   nodejs |-> "NODE_OPTIONS", php |-> "PHP_INI_SCAN_DIR"]

\* The first rule that applies to the pod as annotated, and its version.
SelectRule(pod, rules, tracer) ==
  LET i == SelectInSeq(rules, LAMBDA r : \/ ~r.checkAnnotation
                                        \/ Annotated(pod, <<tracer, r.language>>))
  IN  IF i = 0 THEN [found |-> FALSE]
      ELSE [found |-> TRUE, rule |-> rules[i],
            version |-> IF rules[i].checkAnnotation
                        THEN pod.annotations[<<tracer, rules[i].language>>]
                        ELSE Blank]

OTelInit == "datakit-otel-lib-init"
OTelVolume == "datakit-otel-auto-instrument"

(***************************************************************************)
(* DDTrace                                                                 *)
(***************************************************************************)
DDInit == "datakit-lib-init"
DDVolume == "datakit-auto-instrument"
DDMount == Mount(DDVolume, "/datadog-lib")

DDToken ==
  [JAVA_TOOL_OPTIONS |-> "-javaagent:dd", NODE_OPTIONS |-> "--require=dd",
   PYTHONPATH |-> "/datadog-lib/", PHP_INI_SCAN_DIR |-> "/datadog-lib",
   DD_LOADER_PACKAGE_PATH |-> "/datadog-lib"]

ConfD == "/usr/local/etc/php/conf.d"

DDKeys(lang) ==
  IF lang = "php" THEN <<"DD_LOADER_PACKAGE_PATH", LoaderKey.php>>
                  ELSE <<LoaderKey[lang]>>

\* Mutant: without asking whether the library is in it already.
DDValueAgain(key, value) == Append(value, DDToken[key])

\* The value of a loader variable with the library in it.
DDValue(key, value) ==
  LET set == \/ DDToken[key] \in ToSet(value)
             \/ key = "DD_LOADER_PACKAGE_PATH" /\ value # <<>>
  IN  CASE set -> value
        [] ~set /\ key = "PYTHONPATH" -> <<DDToken[key]>> \o value
        [] ~set /\ key = "PHP_INI_SCAN_DIR" /\ value = <<>> ->
             <<ConfD, DDToken[key]>>
        [] OTHER -> Append(value, DDToken[key])

\* The first variable of that name comes from a source and cannot be extended.
IsSourced(c, key) ==
  LET i == EnvIndex(c.env, key) IN i # 0 /\ c.env[i].kind # "plain"

LoadDD(c, key) ==
  [c EXCEPT !.env = AddOrUpdateEnvVar(@, Plain(key, DDValue(key, <<>>)),
     LAMBDA old, new : [old EXCEPT !.value = DDValue(key, @)])]

\* The user's tags first; a tag of the rule is added if its key is new.  Tags
\* that are not a key and a value are dropped, on both sides.
AppendKVPairs(origin, new) ==
  LET WellFormed(t) == t \in DOMAIN TagKey
  IN  FoldLeft(LAMBDA tags, t : IF \E u \in ToSet(tags) : TagKey[u] = TagKey[t]
                                THEN tags ELSE Append(tags, t),
               Filter(origin, WellFormed), Filter(new, WellFormed))

\* Mutant: the merged variable stays where it is.
MergeDDTagsInPlace(envs, incoming) ==
  AddOrUpdateEnvVar(envs, incoming, LAMBDA old, new :
    IF old.kind # "plain" THEN old ELSE [old EXCEPT !.value = AppendKVPairs(@, new.value)])

\* The merged variable moves to the end, after all those it may refer to.
AddOrMergeDDTags(envs, incoming) ==
  LET i == EnvIndex(envs, "DD_TAGS")
  IN  CASE i = 0 -> Append(envs, incoming)
        [] i # 0 /\ envs[i].kind # "plain" -> envs
        [] OTHER -> Append(RemoveAt(envs, i),
             [incoming EXCEPT !.value = AppendKVPairs(envs[i].value, @)])

\* Mutant: the rule overrides the user.
AddGlobalEnvOver(envs, e) == AddOrUpdateEnvVar(envs, e, ReplaceExistingEnvVar)

\* Any other variable is left as the user has it.
AddGlobalEnv(envs, e) ==
  CASE e.name # "DD_TAGS" -> AddOrUpdateEnvVar(envs, e, KeepExistingEnvVar)
    [] e.name = "DD_TAGS" /\ e.kind = "plain" -> AddOrMergeDDTags(envs, e)
    [] OTHER -> envs

HasDDMount(c) ==
  \E i \in DOMAIN c.mounts :
     c.mounts[i].name = DDVolume /\ c.mounts[i].path = DDMount.path

\* Mutant: no repair.
RepairNothing(pod) == pod

\* The init container is there already: only the variable of the containers that
\* mount the library may have been lost.
RepairJavaAgentEnv(pod) ==
  LET i == SelectInSeq(pod.init, LAMBDA c : c.name = DDInit)
      Repaired(c) == IF HasDDMount(c) /\ ~IsSourced(c, LoaderKey.java)
                     THEN LoadDD(c, LoaderKey.java) ELSE c
  IN  IF IsEmptyDirVolume(pod, DDVolume) /\ HasDDMount(pod.init[i])
      THEN EachContainer(pod, Repaired)
      ELSE pod

\* Mutant: it takes all the containers to stop the injection.
BlockedEverywhere(pod, keys) ==
  \A i \in DOMAIN pod.containers : \E k \in ToSet(keys) : IsSourced(pod.containers[i], k)

\* A loader variable of some container cannot be extended.
Blocked(pod, keys) ==
  \E i \in DOMAIN pod.containers, k \in ToSet(keys) : IsSourced(pod.containers[i], k)

\* The whole injection, on a copy of which nothing is kept if it is blocked.
InjectDDTraceLib(pod, rule, image) ==
  LET keys == DDKeys(rule.language)
      init == Container(DDInit, image, rule.language, <<>>, <<DDMount>>)
      envs == BuildEnvs(rule.envs, pod)
      Inject(c) ==
        LET loaded == FoldLeft(LoadDD, c, keys)
        IN  [AddMountTo(loaded, DDMount) EXCEPT !.env = FoldLeft(AddGlobalEnv, @, envs)]
  IN  IF Blocked(pod, keys)
      THEN pod
      ELSE AddVolume(AddInitContainer(EachContainer(pod, Inject), init), EmptyDir(DDVolume))

\* Mutant: the other tracer is not looked for.
DDSkipsForSwitch(pod, chosen) ==
  ~CheckAnnotationIsTrue(pod, <<"ddtrace", "enabled">>) \/ ~chosen.found

\* DDTrace is switched off, the other tracer is there, or no rule applies.
DDSkips(pod, chosen) ==
  \/ ~CheckAnnotationIsTrue(pod, <<"ddtrace", "enabled">>)
  \/ ContainsInitContainer(pod, OTelInit)
  \/ ~chosen.found

\* Whether DDTrace is the tracer of the pod, and what it makes of the pod.
InjectDDTraceToPod(pod, ns, rules) ==
  LET chosen == SelectRule(pod, MatchesAll(rules, NamespaceOf(pod, ns)), "ddtrace")
      lang == chosen.rule.language
  IN  IF DDSkips(pod, chosen) THEN [selected |-> FALSE, pod |-> pod]
      ELSE [selected |-> TRUE,
            pod |-> IF ContainsInitContainer(pod, DDInit)
                    THEN IF lang = "java" THEN RepairJavaAgentEnv(pod) ELSE pod
                    ELSE IF lang \in DOMAIN LoaderKey
                    THEN InjectDDTraceLib(pod, chosen.rule,
                                          Image(chosen.rule.image, chosen.version))
                    ELSE pod]

(***************************************************************************)
(* OpenTelemetry                                                           *)
(***************************************************************************)
OTelPath == [java |-> "/otel-java", python |-> "/otel-python", nodejs |-> "/otel-nodejs"]
OTelLanguages == DOMAIN OTelPath
OTelMount(lang) == Mount(OTelVolume, OTelPath[lang])

JavaAgentOption == "-javaagent:otel"
RequireOption == "--require otel"
RequireAssigned == "--require=otel"   \* loads it as well, but is not the code's form
PythonPrefix == "/otel-python/auto_instrumentation"
PythonSuffix == OTelPath.python

Count(value, token) == Cardinality({i \in DOMAIN value : value[i] = token})

IsOTelPythonPathInjected(value) ==
  /\ Len(value) >= 2
  /\ value[1] = PythonPrefix /\ value[Len(value)] = PythonSuffix
  /\ Count(value, PythonPrefix) = 1 /\ Count(value, PythonSuffix) = 1

\* What a loader variable must not hold already.
Incompatible(lang, value) ==
  CASE lang = "java" -> DDToken.JAVA_TOOL_OPTIONS \in ToSet(value)
    [] lang = "python" ->
         \/ {"/datadog-lib", "/datadog-lib/"} \cap ToSet(value) # {}
         \/ /\ ~IsOTelPythonPathInjected(value)
            /\ {PythonPrefix, PythonSuffix} \cap ToSet(value) # {}
    [] lang = "nodejs" ->
         LET required == Count(value, RequireOption)
             named == required + Count(value, RequireAssigned)
         IN  \/ DDToken.NODE_OPTIONS \in ToSet(value)
             \/ required > 1
             \/ named > 0 /\ (required # 1 \/ named # 1)

OTelValue(lang, value) ==
  CASE lang = "java" ->
         IF JavaAgentOption \in ToSet(value) THEN value ELSE Append(value, JavaAgentOption)
    [] lang = "python" ->
         IF IsOTelPythonPathInjected(value) THEN value
                                            ELSE <<PythonPrefix>> \o value \o <<PythonSuffix>>
    [] lang = "nodejs" ->
         IF Count(value, RequireOption) = 1 THEN value ELSE Append(value, RequireOption)

\* A field of the container's security context overrides that of the pod.
RunAsNonRootWithoutNonRootUser(pod, c) ==
  LET Effective(own, general) == IF own # "unset" THEN own ELSE general
  IN  /\ Effective(c.security.nonRoot, pod.security.nonRoot) = "true"
      /\ Effective(c.security.user, pod.security.user) \in {"unset", "root"}

\* The init container of an earlier review may have got defaults, variables and
\* other mounts since, but it must be the one that would be injected now.  Requests or
\* limits that the rule leaves out are an empty map here, and none in a pod that the API
\* server sends: then no existing container compares equal.
InitContainerCompatible(existing, desired, sized) ==
  LET m == desired.mounts[1]
      owned == Filter(existing.mounts, LAMBDA x : x.name = m.name \/ x.path = m.path)
  IN  /\ sized
      /\ existing.image = desired.image
      /\ existing.command = desired.command
      /\ \A f \in {"nonRoot", "user"} :
           desired.security[f] \in {"unset", existing.security[f]}
      /\ owned = <<m>>

\* Nothing in the pod stands in the way of the library.
OTelFits(pod, rule, init) ==
  LET lang == rule.language
      key == LoaderKey[lang]
      Mine(m) == m.name = OTelVolume
      InPlace(m) == m.path = OTelPath[lang]
  IN  /\ rule.image # Blank
      /\ pod.containers # <<>>
      /\ \A i \in DOMAIN pod.init :
           /\ pod.init[i].name # DDInit
           /\ pod.init[i].name = OTelInit =>
                InitContainerCompatible(pod.init[i], init, rule.sized)
      /\ \A i \in DOMAIN pod.volumes :
           pod.volumes[i].name = OTelVolume => pod.volumes[i].source = "emptyDir"
      /\ \A i \in DOMAIN AllMounts(pod) :
           /\ AllMounts(pod)[i].path # DDMount.path
           /\ Mine(AllMounts(pod)[i]) <=> InPlace(AllMounts(pod)[i])
      /\ \A i \in DOMAIN pod.containers :
           LET set == Filter(pod.containers[i].env, LAMBDA e : e.name = key)
           IN  /\ Len(set) <= 1
               /\ set # <<>> => set[1].kind = "plain" /\ ~Incompatible(lang, set[1].value)

InjectOTelLib(pod, rule, init) ==
  LET lang == rule.language
      key == LoaderKey[lang]
      envs == BuildEnvs(rule.envs, pod)
      Loaded(list) == AddOrUpdateEnvVar(list, Plain(key, OTelValue(lang, <<>>)),
        LAMBDA old, new : [old EXCEPT !.value = OTelValue(lang, @)])
      Inject(c) == [AddMountTo(c, OTelMount(lang)) EXCEPT
        !.env = AddOrUpdateEnvVars(Loaded(@), envs, KeepExistingEnvVar)]
  IN  AddVolume(AddInitContainer(EachContainer(pod, Inject), init), EmptyDir(OTelVolume))

InjectOTelToPod(pod, ns, rules) ==
  LET chosen == SelectRule(pod, MatchesAll(rules, NamespaceOf(pod, ns)), "otel")
      rule == chosen.rule
      init == [Container(OTelInit, Image(rule.image, chosen.version), rule.language, <<>>,
                         <<OTelMount(rule.language)>>)
                 EXCEPT !.security = IF pod.containers = <<>> THEN NoSecurity
                                     ELSE pod.containers[1].security]
  IN  IF /\ CheckAnnotationIsTrue(pod, <<"otel", "enabled">>)
         /\ chosen.found
         /\ rule.language \in OTelLanguages
         /\ ~RunAsNonRootWithoutNonRootUser(pod, init)
         /\ OTelFits(pod, rule, init)
      THEN InjectOTelLib(pod, rule, init)
      ELSE pod

\* At most one tracer: OpenTelemetry only where DDTrace was not selected, and a
\* failed injection of DDTrace is not made up for.
InjectTracingToPod(pod, ns, ddtraces, otels) ==
  LET ddtrace == InjectDDTraceToPod(pod, ns, ddtraces)
  IN  IF ContainsInitContainer(pod, DDInit) \/ ddtrace.selected
      THEN ddtrace.pod
      ELSE InjectOTelToPod(ddtrace.pod, ns, otels)

\* Literals of the code are strings.
ASSUME TracingLiterals ==
  /\ {DDInit, OTelInit, DDVolume, OTelVolume, ConfD} \subseteq Text
  /\ DDMount \in VolumeMount
  /\ \A key \in DOMAIN DDToken : {key, DDToken[key]} \subseteq Text
  /\ \A lang \in OTelLanguages : LoaderKey[lang] \in Text /\ OTelMount(lang) \in VolumeMount
  /\ {JavaAgentOption, RequireOption, PythonPrefix, PythonSuffix} \subseteq Text
=============================================================================
