-------------------------------- MODULE Pods --------------------------------
(***************************************************************************)
(* The part of a pod that the webhook reads or writes, and the operations  *)
(* of pkg/manager and pkg/envbuilder on it.                                *)
(*                                                                         *)
(* A name, a path and a volume are strings.  A value of an environment     *)
(* variable is the sequence of what the code splits it into: the options   *)
(* of JAVA_TOOL_OPTIONS and NODE_OPTIONS, the directories of PYTHONPATH,   *)
(* the tags of DD_TAGS; any other value is one token.  The key of an       *)
(* annotation is a pair of strings.                                        *)
(***************************************************************************)
EXTENDS Naturals, Sequences, SequencesExt

\* The strings; they have a name of their own for the sake of the proofs, which
\* cite from it only that it holds the literals of the code.
Text == STRING

Blank == ""

\* A variable is "plain", or its value comes from a resource of a container
\* ("limit") or from any other source ("field").
Kinds == {"plain", "field", "limit"}

Env(name, kind, value) == [name |-> name, kind |-> kind, value |-> value]
Plain(name, value) == Env(name, "plain", value)

Mount(name, path) == [name |-> name, path |-> path, readOnly |-> FALSE]
Volume(name, source) == [name |-> name, source |-> source]
EmptyDir(name) == Volume(name, "emptyDir")

EnvVar == [name: Text, kind: Kinds, value: Seq(Text)]
VolumeMount == [name: Text, path: Text, readOnly: BOOLEAN]
PodVolume == [name: Text, source: Text]

\* No security context, and the one that only says which user runs.
NoSecurity == [nonRoot |-> "unset", user |-> "unset"]

\* What is not told apart (pull policy, resources of the rule) is part of the
\* image; "declares" says whether the container declares resources itself.
Container(name, image, command, env, mounts) ==
  [name |-> name, image |-> image, command |-> command, env |-> env,
   mounts |-> mounts, security |-> NoSecurity, declares |-> TRUE]

\* The image of a rule, with the version that an annotation asks for instead.
Image(of, version) == [of |-> of, version |-> version]

PodContainer ==
  [name: Text, image: [of: Text, version: Text], command: Text, env: Seq(EnvVar),
   mounts: Seq(VolumeMount), security: [nonRoot: Text, user: Text], declares: BOOLEAN]

\* A pod, as far as the webhook reads or writes it.
IsPod(p) ==
  /\ p \in [namespace: Text, annotations: {p.annotations},
            security: [nonRoot: Text, user: Text],
            shareProcessNamespace: {"unset", "true", "false"},
            restartPolicy: {"unset", "Always", "OnFailure", "Never"},
            volumes: Seq(PodVolume), init: Seq(PodContainer), containers: Seq(PodContainer)]
  /\ p.annotations \in [DOMAIN p.annotations -> Text]
  /\ IsFiniteSet(DOMAIN p.annotations)
  /\ DOMAIN p.annotations \subseteq Text \X Text

Names(items) == {items[i].name : i \in DOMAIN items}
UniqueNames(items) == \A i, j \in DOMAIN items : items[i].name = items[j].name => i = j

\* SelectSeq, as a fold.
Filter(items, Test(_)) ==
  FoldLeft(LAMBDA kept, x : IF Test(x) THEN Append(kept, x) ELSE kept, <<>>, items)

\* Mutant: without looking for the name.
AppendNamed(items, item) == Append(items, item)

\* Containers, init containers, volumes and the mounts of a container are only
\* ever added, and only under a new name.
AddNamed(items, item) ==
  IF item.name \in Names(items) THEN items ELSE Append(items, item)

AddContainer(pod, c) == [pod EXCEPT !.containers = AddNamed(@, c)]
AddInitContainer(pod, c) == [pod EXCEPT !.init = AddNamed(@, c)]
AddVolume(pod, v) == [pod EXCEPT !.volumes = AddNamed(@, v)]

ContainsContainer(pod, name) == name \in Names(pod.containers)
ContainsInitContainer(pod, name) == name \in Names(pod.init)

\* The same change in every container.
EachContainer(pod, Change(_)) ==
  [pod EXCEPT !.containers = [i \in DOMAIN @ |-> Change(@[i])]]

AddMountTo(c, m) == [c EXCEPT !.mounts = AddNamed(@, m)]
AddVolumeMount(pod, m) == EachContainer(pod, LAMBDA c : AddMountTo(c, m))

\* The first volume of that name decides.
IsEmptyDirVolume(pod, name) ==
  LET i == SelectInSeq(pod.volumes, LAMBDA v : v.name = name)
  IN  i # 0 /\ pod.volumes[i].source = "emptyDir"

\* The mounts of all containers, in order; a path is looked up in all of them.
AllMounts(pod) ==
  FlattenSeq([i \in DOMAIN pod.containers |-> pod.containers[i].mounts])

MountIndex(pod, path) == SelectInSeq(AllMounts(pod), LAMBDA m : m.path = path)
IsMountPath(pod, path) == MountIndex(pod, path) # 0

EnvIndex(envs, name) == SelectInSeq(envs, LAMBDA e : e.name = name)

AddOrUpdateEnvVar(envs, incoming, Resolve(_, _)) ==
  LET i == EnvIndex(envs, incoming.name)
  IN  IF i = 0 THEN Append(envs, incoming)
               ELSE [envs EXCEPT ![i] = Resolve(@, incoming)]

KeepExistingEnvVar(existing, incoming) == existing
ReplaceExistingEnvVar(existing, incoming) == incoming

AddOrUpdateEnvVars(envs, incoming, Resolve(_, _)) ==
  FoldLeft(LAMBDA list, e : AddOrUpdateEnvVar(list, e, Resolve), envs, incoming)

\* The value of a variable in a rule, where placeholders stand for sources.  The
\* table of field references has entries without a fixed key, which the empty
\* string is equal to: it is taken for a reference to a label without a name.
NamelessReference == "metadata.labels['']"
NamelessLabel == <<NamelessReference>>

BuildEnv(e) ==
  IF e.kind = "plain" /\ e.value = <<>>
  THEN Env(e.name, "field", NamelessLabel)
  ELSE e

\* What a rule adds to this pod: resources are those of the first container, and
\* dropped if it declares none.
BuildEnvs(envs, pod) ==
  LET kept == \/ pod.containers = <<>>
              \/ pod.containers[1].declares
  IN  Filter([i \in DOMAIN envs |-> BuildEnv(envs[i])],
             LAMBDA e : e.kind = "limit" => kept)

\* The rules of one kind whose selectors accept the pod, in configuration order.
MatchesAll(rules, ns) == Filter(rules, LAMBDA r : ns \in r.accepts)

\* The namespace of a pod that does not carry one is that of the review.
NamespaceOf(pod, requested) ==
  IF pod.namespace # Blank THEN pod.namespace ELSE requested

Annotated(pod, key) == key \in DOMAIN pod.annotations

\* A switch is off only if it is there and reads as false.
CheckAnnotationIsTrue(pod, key) ==
  Annotated(pod, key) => pod.annotations[key] # "false"

Annotate(pod, keys, value) ==
  [pod EXCEPT !.annotations =
     [k \in DOMAIN @ \cup keys |-> IF k \in keys THEN value ELSE @[k]]]

\* Literals of the code are strings.
ASSUME PodsLiterals ==
  /\ {Blank, NamelessReference, "emptyDir", "hostPath", "downwardAPI"} \subseteq Text
  /\ NoSecurity \in [nonRoot: Text, user: Text]
=============================================================================
