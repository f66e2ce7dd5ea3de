----------------------------- MODULE MCInjection -----------------------------
(* Instances of Injection for TLC: pods as users submit them, and rules.     *)
EXTENDS Injection

\* "team:c:d" is no key and value.
MCTagKey == [t \in {"team:a", "team:b", "env:prod"} |-> IF t = "env:prod" THEN "env" ELSE "team"]

MCPathsOf == [one |-> <<"/logs">>, two |-> <<"/logs", "/data">>]
MCLogfwdVolumes ==
  <<"logfwd-0", "logfwd-1", "logfwd-2", "logfwd-3", "logfwd-4", "logfwd-5">>
MCLogsVolumes == <<"logs-0", "logs-1">>

App(name, env, mounts) == Container(name, Image("app", ""), "serve", env, mounts)
MCLateSidecars == {App("proxy", <<>>, <<>>)}

Pod(containers) ==
  [namespace |-> "shop", annotations |-> <<>>, security |-> NoSecurity,
   shareProcessNamespace |-> "unset", restartPolicy |-> "Always",
   volumes |-> <<>>, init |-> <<>>, containers |-> containers]

Case(p) ==
  [pod |-> p, namespace |-> "shop", operation |-> "CREATE", ddtraces |-> <<>>,
   otels |-> <<>>, logfwds |-> <<>>, flameshots |-> <<>>, profilers |-> <<>>,
   loggings |-> <<>>]

At(key, value) == [k \in {key} |-> value]

(***************************************************************************)
(* Tracers                                                                 *)
(***************************************************************************)
PodName == Env("POD_NAME", "field", <<"metadata.name">>)
Cpu == Env("CPU", "limit", <<"limits.cpu">>)
TracerEnvs == <<PodName, Cpu, Plain("DD_TAGS", <<"env:prod", "team:a">>)>>

TracerRule(lang, checked) ==
  [accepts |-> {"shop"}, checkAnnotation |-> checked, language |-> lang,
   image |-> lang, envs |-> TracerEnvs, sized |-> lang # "nodejs"]

\* The second rule is for the pods that the first one passes over.
Tracers == {<<>>} \cup {<<TracerRule(l, FALSE)>> : l \in {"java", "python"}}
DDTracers == Tracers \cup
  {<<TracerRule("nodejs", TRUE), TracerRule("php", FALSE)>>, <<TracerRule("perl", FALSE)>>}
OTelTracers == Tracers \cup {<<TracerRule("nodejs", FALSE)>>}

WebEnvs ==
  {<<>>,
   <<Plain("DD_TAGS", <<"team:b">>), Plain("POD_NAME", <<"web">>),
     Plain("JAVA_TOOL_OPTIONS", <<"-Xmx">>)>>,
   <<Plain("JAVA_TOOL_OPTIONS", <<DDToken.JAVA_TOOL_OPTIONS, "-Xmx">>),
     Plain("PYTHONPATH", <<"/lib">>)>>,
   <<Plain("NODE_OPTIONS", <<RequireOption>>), Env("DD_TAGS", "field", <<"metadata.uid">>)>>}

DbEnvs ==
  {<<>>, <<Env("JAVA_TOOL_OPTIONS", "field", <<"metadata.name">>)>>,
   <<Plain("PYTHONPATH", <<PythonPrefix, "/lib", PythonSuffix>>)>>}

Containers ==
  {<<App("web", web, <<>>)>> : web \in WebEnvs} \cup
  {<<App("web", web, <<>>), [App("db", db, <<>>) EXCEPT !.declares = FALSE]>> :
     web \in WebEnvs, db \in DbEnvs}

\* What is left of a pod that was exported, edited and submitted again.
Leftover(c) ==
  {[Pod(c) EXCEPT !.init = <<App(DDInit, <<>>, <<DDMount>>)>>, !.volumes = <<EmptyDir(DDVolume)>>],
   [Pod(c) EXCEPT !.init = <<App(OTelInit, <<>>, <<>>)>>]}

TracedPods ==
  {Pod(c) : c \in Containers} \cup UNION {Leftover(c) : c \in Containers}
  \cup
  {[Pod(c) EXCEPT !.annotations = a] : c \in Containers,
     a \in {At(<<"ddtrace", "enabled">>, "false"), At(<<"otel", "enabled">>, "false"),
            At(<<"admission", "enabled">>, "false"), At(<<"ddtrace", "nodejs">>, "v2")}}
  \cup
  {[Pod(<<App("web", <<>>, <<>>)>>) EXCEPT !.security = [nonRoot |-> "true", user |-> u]] :
     u \in {"unset", "1000"}}

TracingCases ==
  {[Case(p) EXCEPT !.ddtraces = d, !.otels = o] :
     p \in TracedPods, d \in DDTracers, o \in OTelTracers}
  \cup {[Case(Pod(<<>>)) EXCEPT !.ddtraces = <<TracerRule("java", FALSE)>>],
        [Case(Pod(<<App("web", <<>>, <<>>)>>)) EXCEPT
           !.operation = "UPDATE", !.ddtraces = <<TracerRule("java", FALSE)>>]}

(***************************************************************************)
(* Sidecars                                                                *)
(***************************************************************************)
LogfwdRule(checked, config, paths) ==
  [accepts |-> {"shop"}, checkAnnotation |-> checked, image |-> "logfwd",
   logConfigs |-> config, paths |-> paths,
   envs |-> <<PodName, Cpu, Plain("LOGFWD_LOG_CONFIGS", <<"rule">>)>>]
Logfwds ==
  {<<LogfwdRule(FALSE, "broken", <<"/logs">>)>>, <<LogfwdRule(FALSE, "one", <<"/data", "/logs">>)>>,
   <<LogfwdRule(TRUE, "", <<>>)>>}

FlameshotRule(prometheus, envs) ==
  [accepts |-> {"shop"}, image |-> "flameshot", processes |-> "java",
   prometheus |-> prometheus, envs |-> envs]
FlameshotEnvs == <<Plain(LocalPort, Port), Plain(ProfilingPath, <<"/profiles">>)>>
Flameshots ==
  {<<FlameshotRule(TRUE, FlameshotEnvs)>>, <<FlameshotRule(FALSE, Tail(FlameshotEnvs))>>}

ProfilerRule(checked, images) ==
  [accepts |-> {"shop"}, checkAnnotation |-> checked, language |-> "java",
   image |-> "profiler", images |-> [l \in {"java", "python", "golang"} |-> IF l \in DOMAIN images THEN images[l] ELSE Blank],
   envs |-> <<PodName, PodName>>]
Profilers == {<<ProfilerRule(FALSE, At("java", ""))>>, <<ProfilerRule(TRUE, At("python", "py"))>>}

Loggings == {<<[accepts |-> {"shop"}, config |-> "two"]>>}

\* Each kind of rule alone, and all kinds together, with a tracer of either kind.
RuleSets ==
  LET none == Case(Pod(<<>>))
  IN  {[none EXCEPT !.logfwds = l] : l \in Logfwds}
      \cup {[none EXCEPT !.flameshots = f] : f \in Flameshots}
      \cup {[none EXCEPT !.profilers = p] : p \in Profilers}
      \cup {[none EXCEPT !.loggings = m] : m \in Loggings}
      \cup {[tracer EXCEPT !.logfwds = l, !.flameshots = f, !.profilers = p, !.loggings = m] :
               l \in Logfwds, f \in Flameshots, p \in Profilers, m \in Loggings,
               tracer \in {[none EXCEPT !.ddtraces = <<TracerRule("java", FALSE)>>],
                          [none EXCEPT !.otels = <<TracerRule("python", FALSE)>>]}}

\* The logs of the application on a volume that can be shared, or on a disk.
Web(mounts) == App("web", <<Plain("MODE", <<"x">>)>>, mounts)
LogPods ==
  LET on(source, containers) == [Pod(containers) EXCEPT !.volumes = <<Volume("files", source)>>]
      files == Mount("files", "/logs")
  IN  {Pod(<<Web(<<>>)>>), on("emptyDir", <<Web(<<files>>)>>), on("hostPath", <<Web(<<files>>)>>),
       on("emptyDir", <<Web(<<>>), App("db", <<>>, <<Mount("files", "/tmp"), files>>)>>)}

SidecarPods ==
  LogPods \cup
  {[p EXCEPT !.annotations = a] : p \in LogPods,
     a \in {At(Instances, "two"), At(Instances, "broken"), At(Instances, ""),
            At(Logs, "one"), At(<<"prometheus", "scrape">>, "true"),
            At(<<"profiler", "python">>, "v1"),
            [k \in {"logfwd", "profiler"} \X {"enabled"} |-> "false"]}}

SidecarCases == {[r EXCEPT !.pod = p] : p \in SidecarPods, r \in RuleSets}

PassingCases == TracingCases \cup SidecarCases

(***************************************************************************)
(* Where the documentation and the code differ                             *)
(***************************************************************************)
LogfwdCase(containers) ==
  [Case(Pod(containers)) EXCEPT !.logfwds = <<LogfwdRule(FALSE, "", <<"/logs">>)>>]

\* Two containers with a log directory each, on volumes of their own.
ClashCases ==
  {[LogfwdCase([i \in 1..2 |-> App(n[i], <<>>, <<Mount(n[i], "/logs")>>)])
      EXCEPT !.pod.volumes = [i \in 1..2 |-> EmptyDir(n[i])]] : n \in {<<"web", "db">>}}

\* A tag with a colon in its value.
TagCases ==
  {[Case(Pod(<<App("web", <<Plain("DD_TAGS", <<"team:c:d", "team:a">>)>>, <<>>)>>))
      EXCEPT !.ddtraces = d] : d \in DDTracers}

(***************************************************************************)
(* Hypotheses of the theorems about the reviews                            *)
(***************************************************************************)
ASSUME MCApart == LateAreQuiet /\ \A c \in Cases : Apart(c.pod)
ASSUME MCPrepared ==
  PathsApart /\ \A c \in Cases : InPlace(c.pod) /\ OwnVolumes(c.pod) /\ BringsDD(c.pod)
ASSUME MCSound ==
  LateAreSound /\ \A c \in PassingCases : Sound(c.pod, OwnMounts(c)) /\ RulesSound(c)
ASSUME MCReach == FreshApart /\ \A c \in PassingCases : FreeNames(c)
ASSUME MCTags == LateHaveOneTag /\ \A c \in PassingCases : OneTagEach(c.pod) /\ ListedOnce(c)
=============================================================================
