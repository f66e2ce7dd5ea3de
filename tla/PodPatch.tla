------------------------------ MODULE PodPatch ------------------------------
(***************************************************************************)
(* The JSON patch that turns the pod of a review into the mutated pod, and *)
(* what the API server makes of such a patch.                              *)
(*                                                                         *)
(* An operation names a field, and where there is one the container (c)    *)
(* and the index (i) in the list; 0 stands for none.                       *)
(***************************************************************************)
EXTENDS Pods

Op(op, field, c, i, value) ==
  [op |-> op, field |-> field, c |-> c, i |-> i, value |-> value]

\* To "-" of a list, the end of it.
AppendTo(field, c, item) == Op("append", field, c, 0, item)

AnnotationPatch(old, new) ==
  LET changed == {k \in DOMAIN new : k \in DOMAIN old => old[k] # new[k]}
      keys == SetToSeq(changed)
  IN  CASE DOMAIN new = {} -> <<>>
        [] DOMAIN new # {} /\ DOMAIN old = {} -> <<Op("add", "annotations", 0, 0, new)>>
        [] OTHER -> [j \in DOMAIN keys |->
             Op(IF keys[j] \in DOMAIN old THEN "replace" ELSE "add", "annotation", 0, 0,
                [key |-> keys[j], value |-> new[keys[j]]])]

\* A field with one value, which is absent as long as it is "unset".
ScalarPatch(field, old, new) ==
  IF old = new \/ new = "unset" THEN <<>>
  ELSE <<Op(IF old = "unset" THEN "add" ELSE "replace", field, 0, 0, new)>>

\* An absent list is added as a whole, else the items with new names are.
NamedAppendPatch(field, c, old, new) ==
  LET fresh == Filter(new, LAMBDA x : x.name \notin Names(old))
  IN  CASE new = <<>> -> <<>>
        [] new # <<>> /\ old = <<>> -> <<Op("add", field, c, 0, new)>>
        [] OTHER -> [j \in DOMAIN fresh |-> AppendTo(field, c, fresh[j])]

\* Mutant: only variables with new names.
EnvAppendPatch(c, old, new) == NamedAppendPatch("env", c, old, new)

\* A variable that changed its place has the list replaced.
EnvPatch(c, old, new) ==
  LET moved == \/ Len(new) < Len(old)
               \/ \E i \in DOMAIN old : old[i].name # new[i].name
      changed == Filter([i \in DOMAIN old |-> i], LAMBDA i : old[i] # new[i])
  IN  CASE new = <<>> -> <<>>
        [] new # <<>> /\ old = <<>> -> <<Op("add", "env", c, 0, new)>>
        [] new # <<>> /\ old # <<>> /\ moved -> <<Op("replace", "env", c, 0, new)>>
        [] OTHER ->
             [j \in DOMAIN changed |-> Op("replace", "env", c, changed[j], new[changed[j]])]
             \o [j \in 1..(Len(new) - Len(old)) |-> AppendTo("env", c, new[Len(old) + j])]

\* The containers that the pod had, by their place in it and their name.
ContainerFieldPatch(old, new) ==
  LET Fields(i) ==
        LET j == SelectLastInSeq(new, LAMBDA c : c.name = old[i].name)
        IN  IF j = 0 THEN <<>>
            ELSE EnvPatch(i, old[i].env, new[j].env)
                 \o NamedAppendPatch("mounts", i, old[i].mounts, new[j].mounts)
  IN  FlattenSeq([i \in DOMAIN old |-> Fields(i)])

BuildPodInjectionPatch(old, new) ==
  AnnotationPatch(old.annotations, new.annotations)
  \o ScalarPatch("shareProcessNamespace", old.shareProcessNamespace, new.shareProcessNamespace)
  \o ScalarPatch("restartPolicy", old.restartPolicy, new.restartPolicy)
  \o NamedAppendPatch("volumes", 0, old.volumes, new.volumes)
  \o NamedAppendPatch("init", 0, old.init, new.init)
  \o NamedAppendPatch("containers", 0, old.containers, new.containers)
  \o ContainerFieldPatch(old.containers, new.containers)

(***************************************************************************)
(* The API server, which applies all of a patch or nothing (RFC 6902)      *)
(***************************************************************************)
\* An operation on something that is not there is an error.
Applicable(op, current) ==
  CASE op.op = "add" -> TRUE
    [] op.op = "append" -> current # <<>>
    [] op.op = "replace" /\ op.i # 0 -> op.i <= Len(current)
    [] OTHER -> current \notin {<<>>}

ListAfter(op, current) ==
  CASE op.op = "append" -> Append(current, op.value)
    [] op.op = "replace" /\ op.i # 0 -> [current EXCEPT ![op.i] = op.value]
    [] OTHER -> op.value

ApplyOp(result, op) ==
  LET pod == result.pod
      Scalar == op.field \in {"shareProcessNamespace", "restartPolicy", "annotations"}
      current == IF op.c = 0 THEN pod[op.field] ELSE pod.containers[op.c][op.field]
  IN  CASE ~result.ok -> result
        [] result.ok /\ op.field = "annotation" ->
             [ok |-> op.op = "replace" => op.value.key \in DOMAIN pod.annotations,
              pod |-> Annotate(pod, {op.value.key}, op.value.value)]
        [] result.ok /\ Scalar ->
             [ok |-> op.op = "replace" => current # "unset",
              pod |-> [pod EXCEPT ![op.field] = op.value]]
        [] OTHER ->
             IF ~Applicable(op, current) THEN [result EXCEPT !.ok = FALSE]
             ELSE [ok |-> TRUE,
                   pod |-> IF op.c = 0
                           THEN [pod EXCEPT ![op.field] = ListAfter(op, current)]
                           ELSE [pod EXCEPT !.containers[op.c][op.field] = ListAfter(op, current)]]

(***************************************************************************)
(* The changes that the patch has operations for                           *)
(***************************************************************************)
\* A list goes on with items that have new names.
Grows(old, new) ==
  /\ Len(old) <= Len(new)
  /\ \A i \in 1..Len(old) : new[i] = old[i]
  /\ \A i \in Len(old) + 1..Len(new) : new[i].name \notin Names(old)

\* Of a container, the variables and the mounts; a list that is empty is not written.
Edited(old, new) ==
  /\ new = [old EXCEPT !.env = new.env, !.mounts = new.mounts]
  /\ new.env = <<>> => old.env = <<>>
  /\ Grows(old.mounts, new.mounts)

Extends(old, new) ==
  /\ new.namespace = old.namespace /\ new.security = old.security
  /\ DOMAIN old.annotations \subseteq DOMAIN new.annotations
  /\ new.shareProcessNamespace \in {old.shareProcessNamespace, "true"}
  /\ new.restartPolicy \in {old.restartPolicy, "Always"}
  /\ Grows(old.volumes, new.volumes)
  /\ Grows(old.init, new.init)
  /\ Len(old.containers) <= Len(new.containers)
  /\ \A i \in 1..Len(old.containers) : Edited(old.containers[i], new.containers[i])
  /\ \A i \in Len(old.containers) + 1..Len(new.containers) :
       new.containers[i].name \notin Names(old.containers)

(***************************************************************************)
(* The patch, applied                                                      *)
(***************************************************************************)
\* A patch that fails leaves the pod as it was (failurePolicy: Ignore).
ApplyPatch(pod, patch) ==
  LET result == FoldLeft(ApplyOp, [ok |-> TRUE, pod |-> pod], patch)
  IN  IF result.ok THEN result.pod ELSE pod
=============================================================================
