-------------------------- MODULE InjectionProofs ---------------------------
(***************************************************************************)
(* Injection, for any pods, rules, sidecars of others and bounds.  Every   *)
(* injection takes the copy to one that extends it: first for the changes  *)
(* they are made of, then for each of them, so that Inv is inductive and   *)
(* the patch does what they did.  What they do to the libraries of the     *)
(* tracers is followed alongside: no pod gets both.  What a tracer does to *)
(* the containers is then followed variable by variable, and what sidecars *)
(* leave alone is shown to be all that tracers look at: so a tracer is     *)
(* injected as a whole, and a lost agent is loaded again.  Mounts, volumes *)
(* and names are followed to show that the API server accepts the pod.     *)
(***************************************************************************)
EXTENDS Injection, PatchProofs

-----------------------------------------------------------------------------
(* What an injection may do to a pod *)

\* A pod, a pod that extends it, and no two containers of one name that were not there.
Step(p, q) ==
  /\ IsPod(q) /\ Extends(p, q)
  /\ UniqueNames(p.containers) => UniqueNames(q.containers)

\* Growth is a preorder.
LEMMA GrowsReflexive ==
  ASSUME NEW S, NEW s \in Seq(S)
  PROVE  Grows(s, s)
<1>1. Len(s) \in Nat /\ Len(s) + 1..Len(s) = {}
  OBVIOUS
<1> QED BY <1>1 DEF Grows

LEMMA GrowsTransitive ==
  ASSUME NEW S, NEW r \in Seq(S), NEW s \in Seq(S), NEW t \in Seq(S), Grows(r, s), Grows(s, t)
  PROVE  Grows(r, t)
<1>1. /\ Len(r) \in Nat /\ Len(s) \in Nat /\ Len(t) \in Nat
      /\ DOMAIN r = 1..Len(r) /\ DOMAIN s = 1..Len(s)
      /\ Len(r) <= Len(s) /\ Len(s) <= Len(t)
  BY DEF Grows
<1>2. Names(r) \subseteq Names(s)
  <2>1. \A i \in 1..Len(r) : i \in 1..Len(s) /\ s[i] = r[i]
    BY <1>1 DEF Grows
  <2> QED BY <1>1, <2>1 DEF Names
<1>3. \A i \in 1..Len(r) : t[i] = r[i]
  <2>1. \A i \in 1..Len(r) : i \in 1..Len(s)
    BY <1>1
  <2> QED BY <2>1 DEF Grows
<1>4. ASSUME NEW i \in Len(r) + 1..Len(t) PROVE t[i].name \notin Names(r)
  <2>1. CASE i <= Len(s)
    <3>1. i \in 1..Len(s) /\ i \in Len(r) + 1..Len(s)
      BY <1>1, <2>1
    <3> QED BY <3>1 DEF Grows
  <2>2. CASE ~(i <= Len(s))
    <3>1. i \in Len(s) + 1..Len(t)
      BY <1>1, <2>2
    <3> QED BY <1>2, <3>1 DEF Grows
  <2> QED BY <2>1, <2>2
<1> QED BY <1>1, <1>3, <1>4 DEF Grows

\* So is the change of a container, which keeps its name.
LEMMA EditedReflexive ==
  ASSUME NEW c \in PodContainer
  PROVE  Edited(c, c)
<1>1. [c EXCEPT !.env = c.env, !.mounts = c.mounts] = c
  BY DEF PodContainer
<1>2. c.mounts \in Seq(VolumeMount)
  BY DEF PodContainer
<1> QED BY <1>1, <1>2, GrowsReflexive DEF Edited

LEMMA EditedTransitive ==
  ASSUME NEW b \in PodContainer, NEW c \in PodContainer, NEW d \in PodContainer, Edited(b, c), Edited(c, d)
  PROVE  Edited(b, d)
<1>1. d = [b EXCEPT !.env = d.env, !.mounts = d.mounts]
  BY DEF PodContainer, Edited
<1>2. b.mounts \in Seq(VolumeMount) /\ c.mounts \in Seq(VolumeMount) /\ d.mounts \in Seq(VolumeMount)
  BY DEF PodContainer
<1> QED BY <1>1, <1>2, GrowsTransitive DEF Edited

LEMMA EditedKeepsName ==
  ASSUME NEW c \in PodContainer, NEW d, Edited(c, d)
  PROVE  d.name = c.name
BY DEF PodContainer, Edited

\* And a step of a pod.
LEMMA StepReflexive ==
  ASSUME NEW p, IsPod(p)
  PROVE  Step(p, p)
<1>1. /\ p.volumes \in Seq(PodVolume) /\ p.init \in Seq(PodContainer) /\ p.containers \in Seq(PodContainer)
  BY PodIs
<1>2. Grows(p.volumes, p.volumes) /\ Grows(p.init, p.init)
  BY <1>1, GrowsReflexive
<1>3. \A i \in 1..Len(p.containers) : Edited(p.containers[i], p.containers[i])
  <2>1. \A i \in 1..Len(p.containers) : p.containers[i] \in PodContainer
    BY <1>1
  <2> QED BY <2>1, EditedReflexive
<1>4. Len(p.containers) \in Nat /\ Len(p.containers) + 1..Len(p.containers) = {}
  BY <1>1
<1> QED BY <1>2, <1>3, <1>4 DEF Step, Extends

LEMMA StepTransitive ==
  ASSUME NEW p, IsPod(p), NEW q, NEW r, Step(p, q), Step(q, r)
  PROVE  Step(p, r)
<1>1. /\ IsPod(q) /\ IsPod(r) /\ Extends(p, q) /\ Extends(q, r)
      /\ UniqueNames(p.containers) => UniqueNames(r.containers)
  BY DEF Step
<1>2. /\ p.volumes \in Seq(PodVolume) /\ p.init \in Seq(PodContainer) /\ p.containers \in Seq(PodContainer)
      /\ q.volumes \in Seq(PodVolume) /\ q.init \in Seq(PodContainer) /\ q.containers \in Seq(PodContainer)
      /\ r.volumes \in Seq(PodVolume) /\ r.init \in Seq(PodContainer) /\ r.containers \in Seq(PodContainer)
  BY <1>1, PodIs
<1>3. Grows(p.volumes, r.volumes) /\ Grows(p.init, r.init)
  BY <1>1, <1>2, GrowsTransitive DEF Extends
<1> DEFINE l == Len(p.containers)
           m == Len(q.containers)
           n == Len(r.containers)
<1>4. l \in Nat /\ m \in Nat /\ n \in Nat /\ l <= m /\ m <= n
  BY <1>1, <1>2 DEF Extends
<1>5. ASSUME NEW i \in 1..l PROVE Edited(p.containers[i], r.containers[i])
  <2>1. i \in 1..m /\ i \in 1..n
    BY <1>4
  <2>2. p.containers[i] \in PodContainer /\ q.containers[i] \in PodContainer /\ r.containers[i] \in PodContainer
    BY <1>2, <2>1
  <2>3. Edited(p.containers[i], q.containers[i]) /\ Edited(q.containers[i], r.containers[i])
    BY <1>1, <2>1 DEF Extends
  <2> QED BY <2>2, <2>3, EditedTransitive
<1>6. Names(p.containers) \subseteq Names(q.containers)
  <2>1. ASSUME NEW i \in 1..l PROVE i \in DOMAIN q.containers /\ q.containers[i].name = p.containers[i].name
    <3>1. i \in 1..m /\ p.containers[i] \in PodContainer
      BY <1>2, <1>4
    <3>2. Edited(p.containers[i], q.containers[i])
      BY <1>1 DEF Extends
    <3> QED BY <1>2, <3>1, <3>2, EditedKeepsName
  <2>2. DOMAIN p.containers = 1..l
    BY <1>2
  <2> QED BY <2>1, <2>2 DEF Names
<1>7. ASSUME NEW i \in l + 1..n PROVE r.containers[i].name \notin Names(p.containers)
  <2>1. CASE i <= m
    <3>1. i \in 1..m /\ i \in l + 1..m /\ q.containers[i] \in PodContainer
      BY <1>2, <1>4, <2>1
    <3>2. Edited(q.containers[i], r.containers[i]) /\ q.containers[i].name \notin Names(p.containers)
      BY <1>1, <3>1 DEF Extends
    <3> QED BY <3>1, <3>2, EditedKeepsName
  <2>2. CASE ~(i <= m)
    <3>1. i \in m + 1..n
      BY <1>4, <2>2
    <3>2. r.containers[i].name \notin Names(q.containers)
      BY <1>1, <3>1 DEF Extends
    <3> QED BY <1>6, <3>2
  <2> QED BY <2>1, <2>2
<1>8. /\ r.namespace = p.namespace /\ r.security = p.security
      /\ DOMAIN p.annotations \subseteq DOMAIN r.annotations
      /\ r.shareProcessNamespace \in {p.shareProcessNamespace, "true"}
      /\ r.restartPolicy \in {p.restartPolicy, "Always"}
  BY <1>1 DEF Extends
<1>9. Extends(p, r)
  BY <1>3, <1>4, <1>5, <1>7, <1>8 DEF Extends
<1> QED BY <1>1, <1>9 DEF Step

\* A new item at the end, if its name is new.
LEMMA AddNamedIs ==
  ASSUME NEW S, NEW s \in Seq(S), NEW x \in S
  PROVE  /\ AddNamed(s, x) \in Seq(S) /\ Grows(s, AddNamed(s, x))
         /\ UniqueNames(s) => UniqueNames(AddNamed(s, x))
         /\ Names(AddNamed(s, x)) = Names(s) \cup {x.name}
<1> DEFINE t == Append(s, x)
           n == Len(s)
<1>1. n \in Nat /\ DOMAIN s = 1..n
  OBVIOUS
<1>2. CASE x.name \in Names(s)
  <2>1. AddNamed(s, x) = s
    BY <1>2 DEF AddNamed
  <2>2. Names(s) = Names(s) \cup {x.name}
    BY <1>2
  <2> QED BY <2>1, <2>2, GrowsReflexive
<1>3. CASE x.name \notin Names(s)
  <2>1. AddNamed(s, x) = t
    BY <1>3 DEF AddNamed
  <2>2. t \in Seq(S) /\ Len(t) = n + 1 /\ t[n + 1] = x /\ \A i \in 1..n : t[i] = s[i]
    BY AppendProperties
  <2> HIDE DEF t, n
  <2>3. DOMAIN t = 1..n + 1 /\ \A i \in 1..n + 1 : i \in 1..n \/ i = n + 1
    BY <1>1, <2>2
  <2>4. Grows(s, t)
    <3>1. \A i \in Len(s) + 1..Len(t) : i = n + 1
      BY <1>1, <2>2 DEF n
    <3>2. Len(s) <= Len(t)
      BY <1>1, <2>2 DEF n
    <3> QED BY <1>3, <2>2, <3>1, <3>2 DEF Grows, n
  <2>5. \A i \in 1..n : s[i].name # x.name
    BY <1>1, <1>3 DEF Names
  <2>6. ASSUME UniqueNames(s) PROVE UniqueNames(t)
    BY <1>1, <2>2, <2>3, <2>5, <2>6 DEF UniqueNames
  <2>7. Names(t) = Names(s) \cup {x.name}
    <3>1. \A i \in 1..n : i \in 1..n + 1
      BY <1>1
    <3>2. n + 1 \in 1..n + 1
      BY <1>1
    <3> QED BY <1>1, <2>2, <2>3, <3>1, <3>2 DEF Names
  <2> QED BY <2>1, <2>2, <2>4, <2>6, <2>7
<1> QED BY <1>2, <1>3

\* A step that changes one field.
LEMMA FieldStep ==
  ASSUME NEW p, IsPod(p)
  PROVE  /\ \A v \in Seq(PodVolume) : Grows(p.volumes, v) => Step(p, [p EXCEPT !.volumes = v])
         /\ \A v \in Seq(PodContainer) : Grows(p.init, v) => Step(p, [p EXCEPT !.init = v])
         /\ \A v \in Seq(PodContainer) :
              /\ Len(p.containers) <= Len(v)
              /\ \A i \in 1..Len(p.containers) : Edited(p.containers[i], v[i])
              /\ \A i \in Len(p.containers) + 1..Len(v) : v[i].name \notin Names(p.containers)
              /\ UniqueNames(p.containers) => UniqueNames(v)
              => Step(p, [p EXCEPT !.containers = v])
<1>1. DOMAIN p = PodFields
  BY PodIs
<1>2. Step(p, p)
  BY StepReflexive
<1>3. ASSUME NEW v \in Seq(PodVolume), Grows(p.volumes, v)
      PROVE  Step(p, [p EXCEPT !.volumes = v])
  <2> DEFINE q == [p EXCEPT !.volumes = v]
  <2>1. IsPod(q)
    BY PodWith
  <2>2. q.volumes = v /\ \A f \in PodFields : f # "volumes" => q[f] = p[f]
    BY <1>1 DEF PodFields
  <2> HIDE DEF q
  <2>3. Extends(p, q)
    BY <1>2, <1>3, <2>2 DEF Step, Extends, PodFields
  <2>4. q.containers = p.containers
    BY <2>2 DEF PodFields
  <2> QED BY <2>1, <2>3, <2>4 DEF Step, q
<1>4. ASSUME NEW v \in Seq(PodContainer), Grows(p.init, v)
      PROVE  Step(p, [p EXCEPT !.init = v])
  <2> DEFINE q == [p EXCEPT !.init = v]
  <2>1. IsPod(q)
    BY PodWith
  <2>2. q.init = v /\ \A f \in PodFields : f # "init" => q[f] = p[f]
    BY <1>1 DEF PodFields
  <2> HIDE DEF q
  <2>3. Extends(p, q)
    BY <1>2, <1>4, <2>2 DEF Step, Extends, PodFields
  <2>4. q.containers = p.containers
    BY <2>2 DEF PodFields
  <2> QED BY <2>1, <2>3, <2>4 DEF Step, q
<1>5. ASSUME NEW v \in Seq(PodContainer),
             Len(p.containers) <= Len(v),
             \A i \in 1..Len(p.containers) : Edited(p.containers[i], v[i]),
             \A i \in Len(p.containers) + 1..Len(v) : v[i].name \notin Names(p.containers),
             UniqueNames(p.containers) => UniqueNames(v)
      PROVE  Step(p, [p EXCEPT !.containers = v])
  <2> DEFINE q == [p EXCEPT !.containers = v]
  <2>1. IsPod(q)
    BY PodWith
  <2>2. q.containers = v /\ \A f \in PodFields : f # "containers" => q[f] = p[f]
    BY <1>1 DEF PodFields
  <2> HIDE DEF q
  <2>3. Extends(p, q)
    BY <1>2, <1>5, <2>2 DEF Step, Extends, PodFields
  <2> QED BY <1>5, <2>1, <2>2, <2>3 DEF Step, q
<1> QED BY <1>3, <1>4, <1>5

\* A container, an init container or a volume more.
LEMMA AddStep ==
  ASSUME NEW p, IsPod(p)
  PROVE  /\ \A c \in PodContainer : Step(p, AddContainer(p, c)) /\ Step(p, AddInitContainer(p, c))
         /\ \A v \in PodVolume : Step(p, AddVolume(p, v))
<1>1. /\ p.volumes \in Seq(PodVolume) /\ p.init \in Seq(PodContainer) /\ p.containers \in Seq(PodContainer)
  BY PodIs
<1>2. ASSUME NEW c \in PodContainer PROVE Step(p, AddContainer(p, c))
  <2> DEFINE v == AddNamed(p.containers, c)
  <2>1. /\ v \in Seq(PodContainer) /\ Grows(p.containers, v)
        /\ UniqueNames(p.containers) => UniqueNames(v)
    BY <1>1, AddNamedIs
  <2>2. AddContainer(p, c) = [p EXCEPT !.containers = v]
    BY DEF AddContainer
  <2> HIDE DEF v
  <2>3. \A i \in 1..Len(p.containers) : Edited(p.containers[i], v[i])
    <3>1. \A i \in 1..Len(p.containers) : p.containers[i] \in PodContainer /\ v[i] = p.containers[i]
      BY <1>1, <2>1 DEF Grows
    <3> QED BY <3>1, EditedReflexive
  <2> QED BY <2>1, <2>2, <2>3, FieldStep DEF Grows
<1>3. ASSUME NEW c \in PodContainer PROVE Step(p, AddInitContainer(p, c))
  BY <1>1, AddNamedIs, FieldStep DEF AddInitContainer
<1>4. ASSUME NEW v \in PodVolume PROVE Step(p, AddVolume(p, v))
  BY <1>1, AddNamedIs, FieldStep DEF AddVolume
<1> QED BY <1>2, <1>3, <1>4

\* Items with the names of others are as different as those.
LEMMA SameNames ==
  ASSUME NEW a, NEW b, DOMAIN a = DOMAIN b, \A i \in DOMAIN a : b[i].name = a[i].name
  PROVE  UniqueNames(a) => UniqueNames(b)
BY DEF UniqueNames

\* Changes of the containers that there are.
LEMMA EditStep ==
  ASSUME NEW p, IsPod(p), NEW list, list = [i \in DOMAIN p.containers |-> list[i]],
         \A i \in DOMAIN p.containers : list[i] \in PodContainer /\ Edited(p.containers[i], list[i])
  PROVE  Step(p, [p EXCEPT !.containers = list])
<1> DEFINE n == Len(p.containers)
<1>1. p.containers \in Seq(PodContainer) /\ n \in Nat /\ DOMAIN p.containers = 1..n
  BY PodIs
<1>2. list \in Seq(PodContainer) /\ Len(list) = n
  <2>1. list \in [1..n -> PodContainer]
    BY <1>1
  <2>2. list \in Seq(PodContainer)
    BY <1>1, <2>1, SeqDef
  <2> QED BY <1>1, <2>1, <2>2, LenProperties
<1>3. n + 1..Len(list) = {}
  BY <1>1, <1>2
<1>4. UniqueNames(p.containers) => UniqueNames(list)
  <2>1. \A i \in 1..n : list[i].name = p.containers[i].name
    <3> SUFFICES ASSUME NEW i \in 1..n PROVE list[i].name = p.containers[i].name
      OBVIOUS
    <3>1. i \in DOMAIN p.containers
      BY <1>1
    <3>2. p.containers[i] \in PodContainer
      BY <1>1
    <3>3. Edited(p.containers[i], list[i])
      BY <3>1
    <3> QED BY <3>2, <3>3, EditedKeepsName
  <2>2. DOMAIN list = 1..n
    BY <1>1, <1>2
  <2> QED BY <1>1, <2>1, <2>2, SameNames
<1>5. \A i \in 1..n : Edited(p.containers[i], list[i])
  BY <1>1
<1>6. /\ n <= Len(list)
      /\ \A i \in n + 1..Len(list) : list[i].name \notin Names(p.containers)
  BY <1>1, <1>2, <1>3
<1> QED BY <1>2, <1>4, <1>5, <1>6, FieldStep

\* Mounts in every container.
LEMMA MountStep ==
  ASSUME NEW p, IsPod(p), NEW m \in VolumeMount
  PROVE  Step(p, AddVolumeMount(p, m))
<1> DEFINE list == [i \in DOMAIN p.containers |-> AddMountTo(p.containers[i], m)]
<1>1. AddVolumeMount(p, m) = [p EXCEPT !.containers = list]
  BY DEF AddVolumeMount, EachContainer
<1>2. p.containers \in Seq(PodContainer) /\ \A i \in DOMAIN p.containers : p.containers[i] \in PodContainer
  BY PodIs
<1>3. ASSUME NEW c \in PodContainer PROVE AddMountTo(c, m) \in PodContainer /\ Edited(c, AddMountTo(c, m))
  <2> DEFINE v == AddNamed(c.mounts, m)
  <2>1. c.mounts \in Seq(VolumeMount)
    BY DEF PodContainer
  <2>2. v \in Seq(VolumeMount) /\ Grows(c.mounts, v)
    BY <2>1, AddNamedIs
  <2>3. AddMountTo(c, m) = [c EXCEPT !.mounts = v]
    BY DEF AddMountTo
  <2> HIDE DEF v
  <2>4. [c EXCEPT !.mounts = v] \in PodContainer
    BY <2>2 DEF PodContainer
  <2>5. Edited(c, [c EXCEPT !.mounts = v])
    BY <2>2 DEF Edited, PodContainer
  <2> QED BY <2>3, <2>4, <2>5
<1>4. list = [i \in DOMAIN p.containers |-> list[i]]
  OBVIOUS
<1>5. \A i \in DOMAIN p.containers : list[i] \in PodContainer /\ Edited(p.containers[i], list[i])
  BY <1>2, <1>3
<1> HIDE DEF list
<1> QED BY <1>1, <1>4, <1>5, EditStep

\* The other fields.
LEMMA ResetStep ==
  ASSUME NEW p, IsPod(p)
  PROVE  Step(p, ResetSpec(p))
<1> DEFINE q == ResetSpec(p)
<1>1. DOMAIN p = PodFields
  BY PodIs
<1>2. IsPod(q)
  <2>1. IsPod([p EXCEPT !.shareProcessNamespace = "true"])
    BY PodWith
  <2> DEFINE r == [p EXCEPT !.shareProcessNamespace = "true"]
  <2> HIDE DEF r
  <2>2. IsPod([r EXCEPT !.restartPolicy = "Always"])
    BY <2>1, PodWith DEF r
  <2>3. q = [r EXCEPT !.restartPolicy = "Always"]
    BY DEF ResetSpec, r
  <2> QED BY <2>2, <2>3
<1>3. /\ q.shareProcessNamespace = "true" /\ q.restartPolicy = "Always"
      /\ \A f \in PodFields \ {"shareProcessNamespace", "restartPolicy"} : q[f] = p[f]
  BY <1>1 DEF ResetSpec, PodFields
<1> HIDE DEF q
<1>4. Step(p, p)
  BY StepReflexive
<1>5. Extends(p, q)
  BY <1>3, <1>4 DEF Step, Extends, PodFields
<1>6. q.containers = p.containers
  BY <1>3 DEF PodFields
<1> QED BY <1>2, <1>5, <1>6 DEF Step, q

\* Annotations are added or set.
LEMMA AnnotateStep ==
  ASSUME NEW p, IsPod(p), NEW keys \in SUBSET (Text \X Text), IsFiniteSet(keys), NEW v \in Text
  PROVE  Step(p, Annotate(p, keys, v))
<1> DEFINE q == Annotate(p, keys, v)
           old == p.annotations
           new == [k \in DOMAIN old \cup keys |-> IF k \in keys THEN v ELSE old[k]]
<1>1. DOMAIN p = PodFields
  BY PodIs
<1>2. old \in [DOMAIN old -> Text] /\ IsFiniteSet(DOMAIN old) /\ DOMAIN old \subseteq Text \X Text
  BY DEF IsPod
<1>3. q = [p EXCEPT !.annotations = new]
  BY DEF Annotate
<1>4. DOMAIN new = DOMAIN old \cup keys /\ new \in [DOMAIN old \cup keys -> Text]
  BY <1>2
<1>5. IsFiniteSet(DOMAIN new)
  BY <1>2, <1>4, FS_Union
<1> HIDE DEF new
<1>6. q.annotations = new /\ \A f \in PodFields : f # "annotations" => q[f] = p[f]
  BY <1>1, <1>3 DEF PodFields
<1>7. q \in [namespace: Text, annotations: {new},
             security: [nonRoot: Text, user: Text],
             shareProcessNamespace: {"unset", "true", "false"},
             restartPolicy: {"unset", "Always", "OnFailure", "Never"},
             volumes: Seq(PodVolume), init: Seq(PodContainer), containers: Seq(PodContainer)]
  BY <1>3 DEF IsPod
<1> HIDE DEF q
<1>8. IsPod(q)
  BY <1>2, <1>4, <1>5, <1>6, <1>7 DEF IsPod
<1>9. Step(p, p)
  BY StepReflexive
<1>10. Extends(p, q)
  BY <1>4, <1>6, <1>9 DEF Step, Extends, PodFields
<1>11. q.containers = p.containers
  BY <1>6 DEF PodFields
<1> QED BY <1>8, <1>10, <1>11 DEF Step, q

-----------------------------------------------------------------------------
(* Variables *)

\* The least index of a set, and the first element that passes a test.
LEMMA MinIs ==
  ASSUME NEW n \in Nat, NEW I \in SUBSET (1..n), I # {}
  PROVE  Min(I) \in I /\ \A i \in I : Min(I) <= i
<1>1. I \in SUBSET Nat
  OBVIOUS
<1>2. \E x \in I : \A y \in I : x <= y
  BY <1>1, Least
<1> QED BY <1>2 DEF Min

\* The first variable of that name, or 0.
LEMMA EnvIndexIs ==
  ASSUME NEW envs \in Seq(EnvVar), NEW name
  PROVE  /\ EnvIndex(envs, name) \in 0..Len(envs)
         /\ EnvIndex(envs, name) # 0 => envs[EnvIndex(envs, name)].name = name
         /\ \A j \in 1..Len(envs) :
              envs[j].name = name => EnvIndex(envs, name) # 0 /\ EnvIndex(envs, name) <= j
<1> DEFINE I == {i \in 1..Len(envs) : envs[i].name = name}
<1>1. EnvIndex(envs, name) = IF I # {} THEN Min(I) ELSE 0
  BY DEF EnvIndex, SelectInSeq
<1>2. Len(envs) \in Nat /\ I \in SUBSET (1..Len(envs))
  OBVIOUS
<1>3. I # {} => Min(I) \in I /\ \A i \in I : Min(I) <= i
  <2> HIDE DEF I
  <2> QED BY <1>2, MinIs
<1>4. \A j \in 1..Len(envs) : envs[j].name = name => j \in I
  OBVIOUS
<1>5. \A j \in I : j \in 1..Len(envs) /\ envs[j].name = name
  OBVIOUS
<1> HIDE DEF I
<1> DEFINE m == EnvIndex(envs, name)
<1>6. CASE I = {}
  <2>1. m = 0 /\ m \in 0..Len(envs)
    BY <1>1, <1>2, <1>6
  <2> QED BY <1>4, <1>6, <2>1
<1>7. CASE I # {}
  <2>1. m \in I /\ \A i \in I : m <= i
    BY <1>1, <1>3, <1>7
  <2>2. m \in 1..Len(envs)
    BY <1>2, <2>1
  <2> HIDE DEF m
  <2>3. m # 0 /\ m \in 0..Len(envs) /\ envs[m].name = name
    BY <1>2, <1>5, <2>1, <2>2
  <2> QED BY <1>4, <2>1, <2>3 DEF m
<1> QED BY <1>6, <1>7

\* A variable in the place of another one, or at the end.
Placed(envs, new, e) == IF EnvIndex(envs, e.name) = 0 THEN Append(envs, e)
                                                    ELSE [envs EXCEPT ![EnvIndex(envs, e.name)] = new]

\* What is put where a variable was, or at the end.
LEMMA PlacedIs ==
  ASSUME NEW envs \in Seq(EnvVar), NEW e \in EnvVar, NEW new,
         EnvIndex(envs, e.name) # 0 => new \in EnvVar
  PROVE  Placed(envs, new, e) \in Seq(EnvVar) /\ Placed(envs, new, e) # <<>>
<1> DEFINE i == EnvIndex(envs, e.name)
<1>1. i \in 0..Len(envs)
  BY EnvIndexIs
<1> HIDE DEF i
<1>2. CASE i = 0
  <2>1. Append(envs, e) \in Seq(EnvVar) /\ Append(envs, e) # <<>>
    BY AppendProperties
  <2> QED BY <1>2, <2>1 DEF Placed, i
<1>3. CASE i # 0
  <2>1. i \in 1..Len(envs) /\ new \in EnvVar
    BY <1>1, <1>3 DEF i
  <2> DEFINE list == [envs EXCEPT ![i] = new]
  <2>2. list \in Seq(EnvVar) /\ Len(list) = Len(envs)
    BY <2>1, ExceptSeq
  <2>3. Len(envs) # 0 /\ Placed(envs, new, e) = list
    BY <1>3, <2>1 DEF Placed, i
  <2> HIDE DEF list
  <2>4. list # <<>>
    BY <2>2, <2>3
  <2> QED BY <2>2, <2>3, <2>4
<1> QED BY <1>2, <1>3

\* Existing variables are kept, or replaced.
LEMMA AddOrUpdateIs ==
  ASSUME NEW envs \in Seq(EnvVar), NEW e \in EnvVar
  PROVE  /\ AddOrUpdateEnvVar(envs, e, KeepExistingEnvVar) = Placed(envs, envs[EnvIndex(envs, e.name)], e)
         /\ AddOrUpdateEnvVar(envs, e, ReplaceExistingEnvVar) = Placed(envs, e, e)
         /\ EnvIndex(envs, e.name) # 0 => envs[EnvIndex(envs, e.name)] \in EnvVar
<1>1. EnvIndex(envs, e.name) \in 0..Len(envs)
  BY EnvIndexIs
<1>2. EnvIndex(envs, e.name) # 0 => envs[EnvIndex(envs, e.name)] \in EnvVar
  BY <1>1
<1>3. AddOrUpdateEnvVar(envs, e, KeepExistingEnvVar) = Placed(envs, envs[EnvIndex(envs, e.name)], e)
  BY DEF AddOrUpdateEnvVar, Placed, KeepExistingEnvVar
<1>4. AddOrUpdateEnvVar(envs, e, ReplaceExistingEnvVar) = Placed(envs, e, e)
  BY DEF AddOrUpdateEnvVar, Placed, ReplaceExistingEnvVar
<1> QED BY <1>2, <1>3, <1>4

\* Lists of variables that grow out of a first one; none is empty if that is not.
EnvInv(first, k, list) == list \in Seq(EnvVar) /\ (list = <<>> => first = <<>>)

KeepOp(first, list, e) == AddOrUpdateEnvVar(list, e, KeepExistingEnvVar)
ReplaceOp(first, list, e) == AddOrUpdateEnvVar(list, e, ReplaceExistingEnvVar)
Keeping == INSTANCE FoldTheory WITH Op <- KeepOp, Inv <- EnvInv
Replacing == INSTANCE FoldTheory WITH Op <- ReplaceOp, Inv <- EnvInv

\* One variable after the other; the list gets no shorter than one that is not empty.
LEMMA AddOrUpdatesAre ==
  ASSUME NEW first \in Seq(EnvVar), NEW envs \in Seq(EnvVar)
  PROVE  /\ EnvInv(first, 0, AddOrUpdateEnvVars(first, envs, KeepExistingEnvVar))
         /\ EnvInv(first, 0, AddOrUpdateEnvVars(first, envs, ReplaceExistingEnvVar))
<1> DEFINE n == Len(envs)
<1>1. n \in Nat /\ DOMAIN envs = 1..n /\ \A k \in 1..n : envs[k] \in EnvVar
  OBVIOUS
<1> HIDE DEF n
<1>2. EnvInv(first, 0, first)
  BY DEF EnvInv
<1>3. ASSUME NEW k \in 1..n, NEW a, EnvInv(first, k - 1, a)
      PROVE  EnvInv(first, k, KeepOp(first, a, envs[k])) /\ EnvInv(first, k, ReplaceOp(first, a, envs[k]))
  <2>1. a \in Seq(EnvVar) /\ envs[k] \in EnvVar
    BY <1>1, <1>3 DEF EnvInv
  <2>2. /\ KeepOp(first, a, envs[k]) \in Seq(EnvVar) /\ KeepOp(first, a, envs[k]) # <<>>
        /\ ReplaceOp(first, a, envs[k]) \in Seq(EnvVar) /\ ReplaceOp(first, a, envs[k]) # <<>>
    <3> DEFINE e == envs[k]
               old == a[EnvIndex(a, e.name)]
    <3>1. /\ AddOrUpdateEnvVar(a, e, KeepExistingEnvVar) = Placed(a, old, e)
          /\ AddOrUpdateEnvVar(a, e, ReplaceExistingEnvVar) = Placed(a, e, e)
          /\ EnvIndex(a, e.name) # 0 => old \in EnvVar
      BY <2>1, AddOrUpdateIs
    <3>2. e \in EnvVar
      BY <2>1
    <3> HIDE DEF e, old
    <3>3. Placed(a, old, e) \in Seq(EnvVar) /\ Placed(a, old, e) # <<>>
      BY <2>1, <3>1, <3>2, PlacedIs
    <3>4. Placed(a, e, e) \in Seq(EnvVar) /\ Placed(a, e, e) # <<>>
      BY <2>1, <3>2, PlacedIs
    <3> QED BY <3>1, <3>3, <3>4 DEF KeepOp, ReplaceOp, e
  <2> QED BY <2>2 DEF EnvInv
<1>4. EnvInv(first, n, Keeping!Fold(first, first, envs))
  BY <1>1, <1>2, <1>3, Keeping!FoldKeeps, Least DEF Keeping!Ordered
<1>5. EnvInv(first, n, Replacing!Fold(first, first, envs))
  BY <1>1, <1>2, <1>3, Replacing!FoldKeeps, Least DEF Replacing!Ordered
<1>6. AddOrUpdateEnvVars(first, envs, KeepExistingEnvVar) = Keeping!Fold(first, first, envs)
  BY DEF AddOrUpdateEnvVars, FoldLeft, MapThenFoldSet, Max, Keeping!Fold, Keeping!Largest, KeepOp
<1>7. AddOrUpdateEnvVars(first, envs, ReplaceExistingEnvVar) = Replacing!Fold(first, first, envs)
  BY DEF AddOrUpdateEnvVars, FoldLeft, MapThenFoldSet, Max, Replacing!Fold, Replacing!Largest, ReplaceOp
<1> QED BY <1>4, <1>5, <1>6, <1>7 DEF EnvInv

\* What a rule adds.
LimitOp(kept, envs, e) == IF e.kind = "limit" => kept THEN Append(envs, e) ELSE envs
Limiting == INSTANCE FoldTheory WITH Op <- LimitOp, Inv <- NoInv

\* What a rule says becomes variables of a container.
LEMMA BuildEnvIs ==
  ASSUME NEW e \in EnvVar
  PROVE  BuildEnv(e) \in EnvVar
<1>1. NamelessLabel \in Seq(Text)
  BY PodsLiterals DEF NamelessLabel
<1> HIDE DEF NamelessLabel
<1> QED BY <1>1 DEF BuildEnv, EnvVar, Env, Kinds

LEMMA BuildEnvsAre ==
  ASSUME NEW envs \in Seq(EnvVar), NEW p
  PROVE  BuildEnvs(envs, p) \in Seq(EnvVar)
<1> DEFINE n == Len(envs)
           built == [i \in DOMAIN envs |-> BuildEnv(envs[i])]
           kept == p.containers = <<>> \/ p.containers[1].declares
           T == {e \in EnvVar : e.kind = "limit" => kept}
           S == {built[k] : k \in 1..n} \cap T
<1>1. n \in Nat /\ DOMAIN envs = 1..n /\ \A k \in 1..n : envs[k] \in EnvVar
  OBVIOUS
<1>2. DOMAIN built = 1..n /\ \A k \in 1..n : built[k] \in EnvVar
  BY <1>1, BuildEnvIs
<1>3. BuildEnvs(envs, p) = Limiting!Fold(kept, <<>>, built)
  BY DEF BuildEnvs, Filter, FoldLeft, MapThenFoldSet, Max, Limiting!Fold, Limiting!Largest, LimitOp
<1> HIDE DEF built, n, kept
<1>4. Limiting!Filters(kept, built, n, T)
  BY <1>2 DEF Limiting!Filters, LimitOp
<1> HIDE DEF T
<1>5. Limiting!Filtered(Limiting!Fold(kept, <<>>, built), built, n, T)
  BY <1>1, <1>2, <1>4, Limiting!FoldFilters, Least DEF Limiting!Ordered
<1>6. BuildEnvs(envs, p) \in Seq(S)
  BY <1>3, <1>5 DEF Limiting!Filtered
<1>7. S \subseteq EnvVar
  BY DEF T
<1> HIDE DEF S
<1> QED BY <1>6, <1>7, SeqMonotonic

LEMMA SidecarEnvsAre ==
  ASSUME NEW rule, rule.envs \in Seq(EnvVar), NEW p
  PROVE  SidecarEnvs(rule, p) \in Seq(EnvVar)
<1>1. BuildEnvs(rule.envs, p) \in Seq(EnvVar)
  BY BuildEnvsAre
<1>2. <<>> \in Seq(EnvVar)
  OBVIOUS
<1>3. EnvInv(<<>>, 0, AddOrUpdateEnvVars(<<>>, BuildEnvs(rule.envs, p), ReplaceExistingEnvVar))
  BY <1>1, <1>2, AddOrUpdatesAre
<1> QED BY <1>3 DEF SidecarEnvs, EnvInv

-----------------------------------------------------------------------------
(* What a tracer does to a container *)

\* Other variables, the same mounts.
LEMMA EnvEdited ==
  ASSUME NEW c \in PodContainer, NEW list \in Seq(EnvVar), list = <<>> => c.env = <<>>
  PROVE  /\ [c EXCEPT !.env = list] \in PodContainer /\ Edited(c, [c EXCEPT !.env = list])
         /\ [c EXCEPT !.env = list].mounts = c.mounts
<1> DEFINE d == [c EXCEPT !.env = list]
<1>1. d \in PodContainer
  BY DEF PodContainer
<1>2. d.env = list /\ d.mounts = c.mounts /\ d = [c EXCEPT !.env = d.env, !.mounts = d.mounts]
  BY DEF PodContainer
<1> HIDE DEF d
<1>3. Grows(c.mounts, c.mounts)
  <2>1. c.mounts \in Seq(VolumeMount)
    BY DEF PodContainer
  <2> QED BY <2>1, GrowsReflexive
<1>4. Edited(c, d)
  BY <1>2, <1>3 DEF Edited
<1> QED BY <1>1, <1>2, <1>4 DEF d

\* One mount more.
LEMMA MountEdited ==
  ASSUME NEW c \in PodContainer, NEW m \in VolumeMount
  PROVE  /\ AddMountTo(c, m) \in PodContainer /\ Edited(c, AddMountTo(c, m))
         /\ Names(AddMountTo(c, m).mounts) = Names(c.mounts) \cup {m.name}
<1> DEFINE v == AddNamed(c.mounts, m)
<1>1. c.mounts \in Seq(VolumeMount)
  BY DEF PodContainer
<1>2. v \in Seq(VolumeMount) /\ Grows(c.mounts, v) /\ Names(v) = Names(c.mounts) \cup {m.name}
  BY <1>1, AddNamedIs
<1>3. AddMountTo(c, m) = [c EXCEPT !.mounts = v]
  BY DEF AddMountTo
<1> HIDE DEF v
<1>4. [c EXCEPT !.mounts = v] \in PodContainer /\ [c EXCEPT !.mounts = v].mounts = v
  BY <1>2 DEF PodContainer
<1>5. Edited(c, [c EXCEPT !.mounts = v])
  BY <1>2 DEF Edited, PodContainer
<1> QED BY <1>2, <1>3, <1>4, <1>5

-----------------------------------------------------------------------------
(* DDTrace *)

\* A value with the library in it is a list of words, like the one before.
LEMMA DDValueIs ==
  ASSUME NEW key \in DOMAIN DDToken, NEW value \in Seq(Text)
  PROVE  DDValue(key, value) \in Seq(Text)
<1> DEFINE t == DDToken[key]
<1>1. t \in Text /\ ConfD \in Text
  BY TracingLiterals
<1> HIDE DEF t
<1>2. /\ <<t>> \in Seq(Text) /\ <<t>> \o value \in Seq(Text)
      /\ <<ConfD, t>> \in Seq(Text) /\ Append(value, t) \in Seq(Text)
  <2>1. <<t>> \in Seq(Text)
    BY <1>1
  <2>2. <<t>> \o value \in Seq(Text)
    BY <2>1, ConcatProperties
  <2>3. <<ConfD, t>> \in Seq(Text)
    BY <1>1
  <2>4. Append(value, t) \in Seq(Text)
    BY <1>1, AppendProperties
  <2> QED BY <2>1, <2>2, <2>3, <2>4
<1>3. DDValue(key, value) \in {value, <<t>> \o value, <<ConfD, t>>, Append(value, t)}
  BY DEF DDValue, t
<1> QED BY <1>2, <1>3

\* A loader variable is new, or has its value extended.
LEMMA LoadDDIs ==
  ASSUME NEW c \in PodContainer, NEW key \in DOMAIN DDToken
  PROVE  /\ LoadDD(c, key) \in PodContainer /\ Edited(c, LoadDD(c, key))
         /\ LoadDD(c, key).mounts = c.mounts
<1> DEFINE i == EnvIndex(c.env, key)
           e == Plain(key, DDValue(key, <<>>))
           new == [c.env[i] EXCEPT !.value = DDValue(key, @)]
           list == Placed(c.env, new, e)
<1>1. c.env \in Seq(EnvVar)
  BY DEF PodContainer
<1>2. e \in EnvVar /\ e.name = key
  <2>1. DDValue(key, <<>>) \in Seq(Text)
    <3>1. <<>> \in Seq(Text)
      OBVIOUS
    <3> QED BY <3>1, DDValueIs
  <2>2. key \in Text
    BY TracingLiterals
  <2> QED BY <2>1, <2>2 DEF Plain, Env, EnvVar, Kinds
<1>3. i # 0 => new \in EnvVar
  <2> SUFFICES ASSUME i # 0 PROVE new \in EnvVar
    OBVIOUS
  <2>1. i \in 1..Len(c.env)
    BY <1>1, EnvIndexIs
  <2>2. c.env[i] \in EnvVar
    BY <1>1, <2>1
  <2>3. c.env[i].value \in Seq(Text)
    BY <2>2 DEF EnvVar
  <2>4. DDValue(key, c.env[i].value) \in Seq(Text)
    BY <2>3, DDValueIs
  <2> QED BY <2>2, <2>4 DEF EnvVar
<1>4. LoadDD(c, key) = [c EXCEPT !.env = list]
  <2>1. AddOrUpdateEnvVar(c.env, e, LAMBDA old, n : [old EXCEPT !.value = DDValue(key, @)]) = list
    BY <1>2 DEF AddOrUpdateEnvVar, Placed
  <2> QED BY <2>1 DEF LoadDD
<1> HIDE DEF e, new
<1>5. list \in Seq(EnvVar) /\ list # <<>>
  BY <1>1, <1>2, <1>3, PlacedIs
<1> HIDE DEF list
<1> QED BY <1>4, <1>5, EnvEdited

LoadOp(c, d, key) == LoadDD(d, key)
LoadInv(c, k, d) == d \in PodContainer /\ Edited(c, d) /\ d.mounts = c.mounts
Loading == INSTANCE FoldTheory WITH Op <- LoadOp, Inv <- LoadInv

\* All the loader variables of a language.
LEMMA LoadsAre ==
  ASSUME NEW c \in PodContainer, NEW keys \in Seq(DOMAIN DDToken)
  PROVE  LoadInv(c, 0, FoldLeft(LoadDD, c, keys))
<1> DEFINE n == Len(keys)
<1>1. n \in Nat /\ DOMAIN keys = 1..n /\ \A k \in 1..n : keys[k] \in DOMAIN DDToken
  OBVIOUS
<1> HIDE DEF n
<1>2. LoadInv(c, 0, c)
  BY EditedReflexive DEF LoadInv
<1>3. ASSUME NEW k \in 1..n, NEW d, LoadInv(c, k - 1, d)
      PROVE  LoadInv(c, k, LoadOp(c, d, keys[k]))
  <2>1. d \in PodContainer /\ Edited(c, d) /\ d.mounts = c.mounts /\ keys[k] \in DOMAIN DDToken
    BY <1>1, <1>3 DEF LoadInv
  <2>2. /\ LoadDD(d, keys[k]) \in PodContainer /\ Edited(d, LoadDD(d, keys[k]))
        /\ LoadDD(d, keys[k]).mounts = d.mounts
    BY <2>1, LoadDDIs
  <2>3. Edited(c, LoadDD(d, keys[k]))
    BY <2>1, <2>2, EditedTransitive
  <2> QED BY <2>1, <2>2, <2>3 DEF LoadInv, LoadOp
<1>4. LoadInv(c, n, Loading!Fold(c, c, keys))
  BY <1>1, <1>2, <1>3, Loading!FoldKeeps, Least DEF Loading!Ordered
<1>5. FoldLeft(LoadDD, c, keys) = Loading!Fold(c, c, keys)
  BY DEF FoldLeft, MapThenFoldSet, Max, Loading!Fold, Loading!Largest, LoadOp
<1> QED BY <1>4, <1>5 DEF LoadInv

\* Each has a token.
LEMMA DDKeysAre ==
  ASSUME NEW lang \in DOMAIN LoaderKey
  PROVE  DDKeys(lang) \in Seq(DOMAIN DDToken)
<1>1. LoaderKey[lang] \in DOMAIN DDToken /\ LoaderKey.php \in DOMAIN DDToken
  BY DEF LoaderKey, DDToken
<1>2. "DD_LOADER_PACKAGE_PATH" \in DOMAIN DDToken
  BY DEF DDToken
<1>3. <<LoaderKey[lang]>> \in Seq(DOMAIN DDToken)
  BY <1>1
<1>4. <<"DD_LOADER_PACKAGE_PATH", LoaderKey.php>> \in Seq(DOMAIN DDToken)
  BY <1>1, <1>2
<1> QED BY <1>3, <1>4 DEF DDKeys

\* Lists of tags, merged.
TagOp(S, tags, t) == IF t \in DOMAIN TagKey THEN Append(tags, t) ELSE tags
MergeOp(S, tags, t) == IF \E u \in ToSet(tags) : TagKey[u] = TagKey[t] THEN tags ELSE Append(tags, t)
TagsInv(S, k, tags) == tags \in Seq(S)
Tagging == INSTANCE FoldTheory WITH Op <- TagOp, Inv <- TagsInv
Merging == INSTANCE FoldTheory WITH Op <- MergeOp, Inv <- TagsInv

\* Merged tags are tags.
LEMMA AppendKVPairsIs ==
  ASSUME NEW a \in Seq(Text), NEW b \in Seq(Text)
  PROVE  AppendKVPairs(a, b) \in Seq(Text)
<1> DEFINE WellFormed(s) == Tagging!Fold(Text, <<>>, s)
<1>1. AppendKVPairs(a, b) = Merging!Fold(Text, WellFormed(a), WellFormed(b))
  BY DEF AppendKVPairs, Filter, FoldLeft, MapThenFoldSet, Max, Tagging!Fold, Tagging!Largest, TagOp,
         Merging!Fold, Merging!Largest, MergeOp
<1>2. ASSUME NEW s \in Seq(Text) PROVE WellFormed(s) \in Seq(Text)
  <2> DEFINE n == Len(s)
  <2>1. n \in Nat /\ DOMAIN s = 1..n /\ \A k \in 1..n : s[k] \in Text
    OBVIOUS
  <2> HIDE DEF n
  <2>2. TagsInv(Text, 0, <<>>)
    BY DEF TagsInv
  <2>3. ASSUME NEW k \in 1..n, NEW tags, TagsInv(Text, k - 1, tags)
        PROVE  TagsInv(Text, k, TagOp(Text, tags, s[k]))
    BY <2>1, <2>3, AppendProperties DEF TagsInv, TagOp
  <2>4. TagsInv(Text, n, WellFormed(s))
    BY <2>1, <2>2, <2>3, Tagging!FoldKeeps, Least DEF Tagging!Ordered
  <2> QED BY <2>4 DEF TagsInv
<1>3. WellFormed(a) \in Seq(Text) /\ WellFormed(b) \in Seq(Text)
  BY <1>2
<1> HIDE DEF WellFormed
<1>4. ASSUME NEW s \in Seq(Text), NEW first \in Seq(Text) PROVE Merging!Fold(Text, first, s) \in Seq(Text)
  <2> DEFINE n == Len(s)
  <2>1. n \in Nat /\ DOMAIN s = 1..n /\ \A k \in 1..n : s[k] \in Text
    OBVIOUS
  <2> HIDE DEF n
  <2>2. TagsInv(Text, 0, first)
    BY DEF TagsInv
  <2>3. ASSUME NEW k \in 1..n, NEW tags, TagsInv(Text, k - 1, tags)
        PROVE  TagsInv(Text, k, MergeOp(Text, tags, s[k]))
    <3>1. Append(tags, s[k]) \in Seq(Text) /\ tags \in Seq(Text)
      BY <2>1, <2>3, AppendProperties DEF TagsInv
    <3> QED BY <3>1 DEF TagsInv, MergeOp
  <2>4. TagsInv(Text, n, Merging!Fold(Text, first, s))
    BY <2>1, <2>2, <2>3, Merging!FoldKeeps, Least DEF Merging!Ordered
  <2> QED BY <2>4 DEF TagsInv
<1> QED BY <1>1, <1>3, <1>4

\* The variables of a rule, added to those of a container.
LEMMA AddGlobalEnvIs ==
  ASSUME NEW envs \in Seq(EnvVar), NEW e \in EnvVar
  PROVE  /\ AddGlobalEnv(envs, e) \in Seq(EnvVar)
         /\ AddGlobalEnv(envs, e) = <<>> => envs = <<>>
<1> DEFINE old == envs[EnvIndex(envs, e.name)]
           i == EnvIndex(envs, "DD_TAGS")
           rest == RemoveAt(envs, i)
           merged == [e EXCEPT !.value = AppendKVPairs(envs[i].value, @)]
<1>1. Placed(envs, old, e) \in Seq(EnvVar) /\ Placed(envs, old, e) # <<>>
  <2>1. EnvIndex(envs, e.name) # 0 => old \in EnvVar
    BY AddOrUpdateIs
  <2> HIDE DEF old
  <2> QED BY <2>1, PlacedIs
<1>2. AddOrUpdateEnvVar(envs, e, KeepExistingEnvVar) = Placed(envs, old, e)
  BY AddOrUpdateIs
<1> HIDE DEF old
<1>3. AddOrMergeDDTags(envs, e) \in {Append(envs, e), envs, Append(rest, merged)}
  BY DEF AddOrMergeDDTags
<1>4. Append(envs, e) \in Seq(EnvVar) /\ Append(envs, e) # <<>>
  BY AppendProperties
<1>5. CASE i = 0
  <2>1. AddOrMergeDDTags(envs, e) = Append(envs, e)
    BY <1>5 DEF AddOrMergeDDTags
  <2> HIDE DEF i
  <2> QED BY <1>1, <1>2, <1>4, <2>1 DEF AddGlobalEnv
<1>6. CASE i # 0
  <2>1. i \in 1..Len(envs) /\ Len(envs) \in Nat
    <3>1. i \in 0..Len(envs)
      BY EnvIndexIs
    <3> HIDE DEF i
    <3> QED BY <1>6, <3>1
  <2> HIDE DEF i
  <2>2. rest \in Seq(EnvVar)
    <3>1. SubSeq(envs, 1, i - 1) \in Seq(EnvVar) /\ SubSeq(envs, i + 1, Len(envs)) \in Seq(EnvVar)
      BY <2>1, SubSeqProperties
    <3> QED BY <3>1, ConcatProperties DEF RemoveAt
  <2>3. merged \in EnvVar
    <3>1. envs[i].value \in Seq(Text) /\ e.value \in Seq(Text)
      <4>1. envs[i] \in EnvVar
        BY <2>1
      <4> QED BY <4>1 DEF EnvVar
    <3>2. AppendKVPairs(envs[i].value, e.value) \in Seq(Text)
      BY <3>1, AppendKVPairsIs
    <3> QED BY <3>2 DEF EnvVar
  <2> HIDE DEF rest, merged
  <2>4. Append(rest, merged) \in Seq(EnvVar) /\ Append(rest, merged) # <<>>
    BY <2>2, <2>3, AppendProperties
  <2>5. AddGlobalEnv(envs, e) \in {Placed(envs, old, e), Append(envs, e), envs, Append(rest, merged)}
    BY <1>2, <1>3 DEF AddGlobalEnv
  <2> QED BY <1>1, <1>4, <2>4, <2>5
<1> QED BY <1>5, <1>6

GlobalOp(first, envs, e) == AddGlobalEnv(envs, e)
Globals == INSTANCE FoldTheory WITH Op <- GlobalOp, Inv <- EnvInv

\* All the variables of a rule.
LEMMA AddGlobalEnvsAre ==
  ASSUME NEW first \in Seq(EnvVar), NEW envs \in Seq(EnvVar)
  PROVE  EnvInv(first, 0, FoldLeft(AddGlobalEnv, first, envs))
<1> DEFINE n == Len(envs)
<1>1. n \in Nat /\ DOMAIN envs = 1..n /\ \A k \in 1..n : envs[k] \in EnvVar
  OBVIOUS
<1> HIDE DEF n
<1>2. EnvInv(first, 0, first)
  BY DEF EnvInv
<1>3. ASSUME NEW k \in 1..n, NEW a, EnvInv(first, k - 1, a)
      PROVE  EnvInv(first, k, GlobalOp(first, a, envs[k]))
  <2>1. a \in Seq(EnvVar) /\ envs[k] \in EnvVar
    BY <1>1, <1>3 DEF EnvInv
  <2>2. /\ AddGlobalEnv(a, envs[k]) \in Seq(EnvVar)
        /\ AddGlobalEnv(a, envs[k]) = <<>> => a = <<>>
    BY <2>1, AddGlobalEnvIs
  <2> QED BY <1>3, <2>2 DEF EnvInv, GlobalOp
<1>4. EnvInv(first, n, Globals!Fold(first, first, envs))
  BY <1>1, <1>2, <1>3, Globals!FoldKeeps, Least DEF Globals!Ordered
<1>5. FoldLeft(AddGlobalEnv, first, envs) = Globals!Fold(first, first, envs)
  BY DEF FoldLeft, MapThenFoldSet, Max, Globals!Fold, Globals!Largest, GlobalOp
<1> QED BY <1>4, <1>5 DEF EnvInv

-----------------------------------------------------------------------------
(* The volumes of the tracing libraries *)

\* No init container is added, and neither library mounted by the pod that was not.
Quiet(p, q) ==
  /\ Names(q.init) = Names(p.init)
  /\ \A v \in LibraryVolumes : v \in MountNames(q) => v \in MountNames(p)

\* The mounts of the pod, after a change of its containers, and with one more.
LEMMA EachNames ==
  ASSUME NEW p, IsPod(p), NEW list, list = [i \in DOMAIN p.containers |-> list[i]], NEW N,
         \A i \in DOMAIN p.containers : Names(list[i].mounts) \subseteq Names(p.containers[i].mounts) \cup N
  PROVE  /\ MountNames([p EXCEPT !.containers = list]) \subseteq MountNames(p) \cup N
         /\ [p EXCEPT !.containers = list].init = p.init
<1> DEFINE q == [p EXCEPT !.containers = list]
<1>1. q.containers = list /\ q.init = p.init
  BY PodIs DEF PodFields
<1> HIDE DEF q
<1>2. DOMAIN list = DOMAIN p.containers
  OBVIOUS
<1>3. MountNames(q) \subseteq MountNames(p) \cup N
  BY <1>1, <1>2 DEF MountNames
<1> QED BY <1>1, <1>3 DEF q

\* A container adds its mounts to those of the pod.
LEMMA AddContainerNames ==
  ASSUME NEW p, IsPod(p), NEW c \in PodContainer
  PROVE  /\ MountNames(AddContainer(p, c)) \subseteq MountNames(p) \cup Names(c.mounts)
         /\ AddContainer(p, c).init = p.init
<1> DEFINE s == p.containers
           t == AddNamed(s, c)
           q == AddContainer(p, c)
<1>1. q.containers = t /\ q.init = p.init
  BY PodIs DEF PodFields, AddContainer
<1>2. s \in Seq(PodContainer)
  BY PodIs
<1> HIDE DEF q, s
<1>3. \A i \in DOMAIN t : (i \in DOMAIN s /\ t[i] = s[i]) \/ t[i] = c
  <2> DEFINE u == Append(s, c)
             n == Len(s)
  <2>1. n \in Nat /\ DOMAIN s = 1..n
    BY <1>2
  <2>2. DOMAIN u = 1..n + 1 /\ u[n + 1] = c /\ \A i \in 1..n : u[i] = s[i]
    BY <1>2, AppendProperties
  <2>3. t \in {s, u}
    BY DEF AddNamed
  <2> HIDE DEF u, t, n
  <2>4. \A i \in 1..n + 1 : i \in 1..n \/ i = n + 1
    BY <2>1
  <2> QED BY <2>1, <2>2, <2>3, <2>4
<1> HIDE DEF t
<1>4. MountNames(q) \subseteq MountNames(p) \cup Names(c.mounts)
  BY <1>1, <1>3 DEF MountNames, s
<1> QED BY <1>1, <1>4 DEF q

\* A mount in every container adds one name.
LEMMA MountNamesIs ==
  ASSUME NEW p, IsPod(p), NEW m \in VolumeMount
  PROVE  /\ MountNames(AddVolumeMount(p, m)) \subseteq MountNames(p) \cup {m.name}
         /\ AddVolumeMount(p, m).init = p.init
<1> DEFINE list == [i \in DOMAIN p.containers |-> AddMountTo(p.containers[i], m)]
<1>1. AddVolumeMount(p, m) = [p EXCEPT !.containers = list]
  BY DEF AddVolumeMount, EachContainer
<1>2. \A i \in DOMAIN p.containers : p.containers[i] \in PodContainer
  <2>1. p.containers \in Seq(PodContainer)
    BY PodIs
  <2> QED BY <2>1
<1>3. list = [i \in DOMAIN p.containers |-> list[i]]
  OBVIOUS
<1>4. \A i \in DOMAIN p.containers : Names(list[i].mounts) \subseteq Names(p.containers[i].mounts) \cup {m.name}
  BY <1>2, MountEdited
<1> DEFINE N == {m.name}
<1> HIDE DEF list, N
<1>5. \A i \in DOMAIN p.containers : Names(list[i].mounts) \subseteq Names(p.containers[i].mounts) \cup N
  BY <1>4 DEF N
<1>6. /\ MountNames([p EXCEPT !.containers = list]) \subseteq MountNames(p) \cup N
      /\ [p EXCEPT !.containers = list].init = p.init
  BY <1>3, <1>5, EachNames
<1> QED BY <1>1, <1>6 DEF N

\* Quiet changes can follow one another.
LEMMA QuietTransitive ==
  ASSUME NEW p, NEW q, NEW r, Quiet(p, q), Quiet(q, r)
  PROVE  Quiet(p, r)
BY DEF Quiet

\* A change that leaves init containers and containers alone is quiet.
LEMMA SameIsQuiet ==
  ASSUME NEW p, NEW q, q.init = p.init, q.containers = p.containers
  PROVE  Quiet(p, q)
BY DEF Quiet, MountNames

\* The changes of a pod that are quiet.
LEMMA QuietSteps ==
  ASSUME NEW p, IsPod(p)
  PROVE  /\ \A v : Quiet(p, AddVolume(p, v))
         /\ \A keys, v : Quiet(p, Annotate(p, keys, v))
         /\ Quiet(p, ResetSpec(p))
         /\ \A m \in VolumeMount : m.name \notin LibraryVolumes => Quiet(p, AddVolumeMount(p, m))
         /\ \A c \in PodContainer : Names(c.mounts) \cap LibraryVolumes = {} => Quiet(p, AddContainer(p, c))
<1>1. DOMAIN p = PodFields
  BY PodIs
<1>2. ASSUME NEW v PROVE Quiet(p, AddVolume(p, v))
  BY <1>1, SameIsQuiet DEF PodFields, AddVolume
<1>3. ASSUME NEW keys, NEW v PROVE Quiet(p, Annotate(p, keys, v))
  BY <1>1, SameIsQuiet DEF PodFields, Annotate
<1>4. Quiet(p, ResetSpec(p))
  <2>1. ResetSpec(p).init = p.init /\ ResetSpec(p).containers = p.containers
    BY <1>1 DEF PodFields, ResetSpec
  <2> QED BY <2>1, SameIsQuiet
<1>5. ASSUME NEW m \in VolumeMount, m.name \notin LibraryVolumes PROVE Quiet(p, AddVolumeMount(p, m))
  BY <1>5, MountNamesIs DEF Quiet
<1>6. ASSUME NEW c \in PodContainer, Names(c.mounts) \cap LibraryVolumes = {} PROVE Quiet(p, AddContainer(p, c))
  BY <1>6, AddContainerNames DEF Quiet
<1> QED BY <1>2, <1>3, <1>4, <1>5, <1>6

\* What the sidecars and the collection of logs may do to a pod.
Calm(p, q) == Step(p, q) /\ Quiet(p, q)

\* Calm changes can follow one another, and these are calm.
LEMMA CalmReflexive ==
  ASSUME NEW p, IsPod(p)
  PROVE  Calm(p, p)
BY StepReflexive, SameIsQuiet DEF Calm

LEMMA CalmTransitive ==
  ASSUME NEW p, NEW q, NEW r, IsPod(p), Calm(p, q), Calm(q, r)
  PROVE  Calm(p, r)
BY StepTransitive, QuietTransitive DEF Calm

LEMMA CalmSteps ==
  ASSUME NEW p, IsPod(p)
  PROVE  /\ \A v \in PodVolume : Calm(p, AddVolume(p, v))
         /\ Calm(p, ResetSpec(p))
         /\ \A m \in VolumeMount : m.name \notin LibraryVolumes => Calm(p, AddVolumeMount(p, m))
         /\ \A c \in PodContainer : Names(c.mounts) \cap LibraryVolumes = {} => Calm(p, AddContainer(p, c))
BY AddStep, ResetStep, MountStep, QuietSteps DEF Calm

\* The library of one tracer is added: its init container, and its volume's mounts.
Traces(p, q, init, volume) ==
  /\ Step(p, q)
  /\ Names(q.init) = Names(p.init) \cup {init}
  /\ MountNames(q) \subseteq MountNames(p) \cup {volume}

\* It is added to containers that were edited, with an init container and a volume.
LEMMA TracesAre ==
  ASSUME NEW p, IsPod(p), NEW list, list = [i \in DOMAIN p.containers |-> list[i]],
         NEW init \in PodContainer, NEW v \in PodVolume,
         \A i \in DOMAIN p.containers :
            /\ list[i] \in PodContainer /\ Edited(p.containers[i], list[i])
            /\ Names(list[i].mounts) \subseteq Names(p.containers[i].mounts) \cup {v.name}
  PROVE  Traces(p, AddVolume(AddInitContainer([p EXCEPT !.containers = list], init), v), init.name, v.name)
<1> DEFINE q == [p EXCEPT !.containers = list]
           r == AddInitContainer(q, init)
           s == AddVolume(r, v)
           N == {v.name}
<1>1. Step(p, q)
  BY EditStep
<1>2. /\ MountNames(q) \subseteq MountNames(p) \cup N
      /\ q.init = p.init
  <2> HIDE DEF N
  <2>1. \A i \in DOMAIN p.containers : Names(list[i].mounts) \subseteq Names(p.containers[i].mounts) \cup N
    BY DEF N
  <2> QED BY <2>1, EachNames
<1> HIDE DEF q
<1>3. Step(q, r) /\ IsPod(q)
  BY <1>1, AddStep DEF Step
<1>4. /\ r.containers = q.containers
      /\ Names(r.init) = Names(q.init) \cup {init.name}
  <2>1. q.init \in Seq(PodContainer) /\ DOMAIN q = PodFields
    BY <1>3, PodIs
  <2>2. Names(AddNamed(q.init, init)) = Names(q.init) \cup {init.name}
    BY <2>1, AddNamedIs
  <2>3. r.init = AddNamed(q.init, init) /\ r.containers = q.containers
    BY <2>1 DEF AddInitContainer, PodFields
  <2> QED BY <2>2, <2>3
<1> HIDE DEF r
<1>5. Step(r, s) /\ IsPod(r)
  BY <1>3, AddStep DEF Step
<1>6. s.containers = r.containers /\ s.init = r.init
  <2>1. DOMAIN r = PodFields
    BY <1>5, PodIs
  <2> QED BY <2>1 DEF AddVolume, PodFields
<1> HIDE DEF s
<1>7. Step(p, s)
  BY <1>1, <1>3, <1>5, StepTransitive
<1>8. MountNames(s) \subseteq MountNames(p) \cup {v.name} /\ Names(s.init) = Names(p.init) \cup {init.name}
  BY <1>2, <1>4, <1>6 DEF MountNames
<1> QED BY <1>7, <1>8 DEF Traces, q, r, s

\* No other volume of the operator has the name of a library's.
LEMMA OtherNames ==
  LibraryVolumes \cap {PodInfoMount.name, FlameshotVolume, ProfilerMount.name, TmpMount.name, TimezoneMount.name} = {}
<1>1. PodInfoMount.name = PodInfo
  BY DEF PodInfoMount, Mount
<1>2. /\ ProfilerMount.name = "datakit-profiler-volume" /\ TmpMount.name = "tmp"
      /\ TimezoneMount.name = "timezone"
  BY DEF ProfilerMount, TmpMount, TimezoneMount, Mount
<1>3. PodInfo \notin LibraryVolumes /\ FlameshotVolume \notin LibraryVolumes
  BY DEF LibraryVolumes, DDVolume, OTelVolume, PodInfo, FlameshotVolume
<1>4. \A v \in {"datakit-profiler-volume", "tmp", "timezone"} : v \notin LibraryVolumes
  BY DEF LibraryVolumes, DDVolume, OTelVolume
<1> QED BY <1>1, <1>2, <1>3, <1>4

-----------------------------------------------------------------------------
(* The rule that decides *)

AcceptOp(ns, kept, r) == IF ns \in r.accepts THEN Append(kept, r) ELSE kept
AcceptInv(ns, k, kept) == kept \in Seq(TracingRule)
Accepting == INSTANCE FoldTheory WITH Op <- AcceptOp, Inv <- AcceptInv

\* The rules of a namespace are rules.
LEMMA MatchesAllAre ==
  ASSUME NEW rules \in Seq(TracingRule), NEW ns
  PROVE  MatchesAll(rules, ns) \in Seq(TracingRule) /\ ToSet(MatchesAll(rules, ns)) \subseteq ToSet(rules)
<1> DEFINE n == Len(rules)
           T == {r \in ToSet(rules) : ns \in r.accepts}
           S == {rules[k] : k \in 1..n} \cap T
           some == MatchesAll(rules, ns)
<1>1. n \in Nat /\ DOMAIN rules = 1..n /\ \A k \in 1..n : rules[k] \in TracingRule /\ rules[k] \in ToSet(rules)
  BY DEF ToSet
<1>2. some = Accepting!Fold(ns, <<>>, rules)
  BY DEF MatchesAll, Filter, FoldLeft, MapThenFoldSet, Max, Accepting!Fold, Accepting!Largest, AcceptOp
<1> HIDE DEF n
<1>3. Accepting!Filters(ns, rules, n, T)
  BY <1>1 DEF Accepting!Filters, AcceptOp
<1>4. S \subseteq TracingRule /\ S \subseteq ToSet(rules)
  BY <1>1
<1> HIDE DEF T
<1>5. Accepting!Filtered(Accepting!Fold(ns, <<>>, rules), rules, n, T)
  BY <1>1, <1>3, Accepting!FoldFilters, Least DEF Accepting!Ordered
<1>6. some \in Seq(S)
  BY <1>2, <1>5 DEF Accepting!Filtered
<1> HIDE DEF S, some
<1>7. some \in Seq(TracingRule)
  BY <1>4, <1>6, SeqMonotonic
<1>8. ToSet(some) \subseteq ToSet(rules)
  BY <1>4, <1>6 DEF ToSet
<1> QED BY <1>7, <1>8 DEF some

\* A rule that is found is one of the list.
LEMMA SelectRuleIs ==
  ASSUME NEW p, IsPod(p), NEW rules \in Seq(TracingRule), NEW tracer,
         SelectRule(p, rules, tracer).found
  PROVE  /\ SelectRule(p, rules, tracer).rule \in TracingRule /\ SelectRule(p, rules, tracer).version \in Text
         /\ SelectRule(p, rules, tracer).rule \in ToSet(rules)
<1> DEFINE Applies(r) == ~r.checkAnnotation \/ Annotated(p, <<tracer, r.language>>)
           I == {j \in 1..Len(rules) : Applies(rules[j])}
           i == IF I # {} THEN Min(I) ELSE 0
           chosen == [found |-> TRUE, rule |-> rules[i],
                      version |-> IF rules[i].checkAnnotation
                                  THEN p.annotations[<<tracer, rules[i].language>>] ELSE Blank]
<1>1. SelectRule(p, rules, tracer) = IF i = 0 THEN [found |-> FALSE] ELSE chosen
  BY DEF SelectRule, SelectInSeq
<1>2. Len(rules) \in Nat /\ I \in SUBSET (1..Len(rules))
  OBVIOUS
<1>3. \A j \in I : Applies(rules[j]) /\ rules[j] \in TracingRule /\ rules[j] \in ToSet(rules)
  BY DEF ToSet
<1>4. I # {} => Min(I) \in I
  <2> HIDE DEF I
  <2> QED BY <1>2, MinIs
<1> HIDE DEF I, Applies
<1>5. i # 0
  <2> HIDE DEF i, chosen
  <2>1. CASE i = 0
    <3>1. SelectRule(p, rules, tracer).found = FALSE
      BY <1>1, <2>1
    <3> QED BY <3>1
  <2> QED BY <2>1
<1>6. i \in I
  BY <1>4, <1>5
<1> HIDE DEF i
<1>7. rules[i] \in TracingRule /\ Applies(rules[i]) /\ rules[i] \in ToSet(rules)
  BY <1>3, <1>6
<1>8. chosen.version \in Text
  <2>1. CASE rules[i].checkAnnotation
    <3>1. <<tracer, rules[i].language>> \in DOMAIN p.annotations
      BY <1>7, <2>1 DEF Applies, Annotated
    <3>2. p.annotations \in [DOMAIN p.annotations -> Text]
      BY DEF IsPod
    <3> QED BY <2>1, <3>1, <3>2
  <2>2. CASE ~rules[i].checkAnnotation
    BY <2>2, PodsLiterals
  <2> QED BY <2>1, <2>2
<1>9. chosen.rule = rules[i]
  OBVIOUS
<1> HIDE DEF chosen
<1> QED BY <1>1, <1>5, <1>7, <1>8, <1>9

-----------------------------------------------------------------------------
(* DDTrace, on the pod *)

\* A volume and a container of the operator have the shape of any.
LEMMA EmptyDirIs ==
  ASSUME NEW name \in Text
  PROVE  EmptyDir(name) \in PodVolume
BY PodsLiterals DEF EmptyDir, Volume, PodVolume

LEMMA ContainerIs ==
  ASSUME NEW name \in Text, NEW image \in [of: Text, version: Text], NEW command \in Text,
         NEW envs \in Seq(EnvVar), NEW mounts \in Seq(VolumeMount)
  PROVE  Container(name, image, command, envs, mounts) \in PodContainer
BY PodsLiterals DEF Container, PodContainer

\* InjectDDTraceLib does nothing, or adds the library as a whole.
LEMMA DDTraceStep ==
  ASSUME NEW p, IsPod(p), NEW rule \in TracingRule, rule.language \in DOMAIN LoaderKey,
         NEW image \in [of: Text, version: Text]
  PROVE  \/ InjectDDTraceLib(p, rule, image) = p
         \/ Traces(p, InjectDDTraceLib(p, rule, image), DDInit, DDVolume)
<1> DEFINE keys == DDKeys(rule.language)
           init == Container(DDInit, image, rule.language, <<>>, <<DDMount>>)
           envs == BuildEnvs(rule.envs, p)
           Loaded(c) == FoldLeft(LoadDD, c, keys)
           Traced(c) == [AddMountTo(Loaded(c), DDMount) EXCEPT !.env = FoldLeft(AddGlobalEnv, @, envs)]
           list == [i \in DOMAIN p.containers |-> Traced(p.containers[i])]
           v == EmptyDir(DDVolume)
           q == AddVolume(AddInitContainer([p EXCEPT !.containers = list], init), v)
<1>1. InjectDDTraceLib(p, rule, image) = IF Blocked(p, keys) THEN p ELSE q
  BY DEF InjectDDTraceLib, EachContainer
<1>2. keys \in Seq(DOMAIN DDToken)
  BY DDKeysAre
<1>3. envs \in Seq(EnvVar)
  <2>1. rule.envs \in Seq(EnvVar)
    BY DEF TracingRule
  <2> QED BY <2>1, BuildEnvsAre
<1>4. DDMount \in VolumeMount /\ DDInit \in Text /\ DDVolume \in Text
  BY TracingLiterals
<1> HIDE DEF keys, envs
<1>5. ASSUME NEW c \in PodContainer
      PROVE  /\ Traced(c) \in PodContainer /\ Edited(c, Traced(c))
             /\ Names(Traced(c).mounts) \subseteq Names(c.mounts) \cup {DDVolume}
  <2> DEFINE a == Loaded(c)
             b == AddMountTo(a, DDMount)
             new == FoldLeft(AddGlobalEnv, b.env, envs)
  <2>1. a \in PodContainer /\ Edited(c, a) /\ a.mounts = c.mounts
    BY <1>2, LoadsAre DEF LoadInv
  <2> HIDE DEF a
  <2>2. b \in PodContainer /\ Edited(a, b) /\ Names(b.mounts) = Names(a.mounts) \cup {DDMount.name}
    BY <1>4, <2>1, MountEdited
  <2> HIDE DEF b
  <2>3. b.env \in Seq(EnvVar)
    BY <2>2 DEF PodContainer
  <2>4. new \in Seq(EnvVar) /\ (new = <<>> => b.env = <<>>)
    BY <1>3, <2>3, AddGlobalEnvsAre DEF EnvInv
  <2>5. Traced(c) = [b EXCEPT !.env = new]
    BY DEF b, a
  <2> HIDE DEF new
  <2>6. Traced(c) \in PodContainer /\ Edited(b, Traced(c)) /\ Traced(c).mounts = b.mounts
    <3>1. /\ [b EXCEPT !.env = new] \in PodContainer /\ Edited(b, [b EXCEPT !.env = new])
          /\ [b EXCEPT !.env = new].mounts = b.mounts
      BY <2>2, <2>4, EnvEdited
    <3> HIDE DEF Traced
    <3> QED BY <2>5, <3>1
  <2> HIDE DEF Traced
  <2>7. Edited(c, b)
    BY <2>1, <2>2, EditedTransitive
  <2>8. Edited(c, Traced(c))
    BY <2>2, <2>6, <2>7, EditedTransitive
  <2>9. DDMount.name = DDVolume
    BY DEF DDMount, Mount
  <2> QED BY <2>1, <2>2, <2>6, <2>8, <2>9
<1>6. list = [i \in DOMAIN p.containers |-> list[i]] /\ \A i \in DOMAIN p.containers : list[i] = Traced(p.containers[i])
  OBVIOUS
<1>7. init \in PodContainer /\ init.name = DDInit
  <2>1. rule.language \in Text
    BY DEF TracingRule
  <2>2. <<>> \in Seq(EnvVar)
    OBVIOUS
  <2>3. <<DDMount>> \in Seq(VolumeMount)
    BY <1>4
  <2>4. init \in PodContainer
    BY <1>4, <2>1, <2>2, <2>3, ContainerIs
  <2> QED BY <2>4 DEF Container
<1>8. v \in PodVolume /\ v.name = DDVolume
  <2>1. v \in PodVolume
    BY <1>4, EmptyDirIs
  <2> QED BY <2>1 DEF EmptyDir, Volume
<1>9. \A i \in DOMAIN p.containers : p.containers[i] \in PodContainer
  <2>1. p.containers \in Seq(PodContainer)
    BY PodIs
  <2> QED BY <2>1
<1> HIDE DEF Loaded, Traced, list, init, v
<1>10. Traces(p, q, init.name, v.name)
  <2>1. \A i \in DOMAIN p.containers :
          /\ list[i] \in PodContainer /\ Edited(p.containers[i], list[i])
          /\ Names(list[i].mounts) \subseteq Names(p.containers[i].mounts) \cup {v.name}
    BY <1>5, <1>6, <1>8, <1>9
  <2> QED BY <1>6, <1>7, <1>8, <2>1, TracesAre
<1> HIDE DEF q
<1> QED BY <1>1, <1>7, <1>8, <1>10

\* The repair only writes variables.
LEMMA RepairCalm ==
  ASSUME NEW p, IsPod(p)
  PROVE  Calm(p, RepairJavaAgentEnv(p))
<1> DEFINE Repaired(c) == IF HasDDMount(c) /\ ~IsSourced(c, LoaderKey.java) THEN LoadDD(c, LoaderKey.java) ELSE c
           list == [i \in DOMAIN p.containers |-> Repaired(p.containers[i])]
           q == [p EXCEPT !.containers = list]
<1>1. RepairJavaAgentEnv(p) \in {p, q}
  BY DEF RepairJavaAgentEnv, EachContainer
<1>2. LoaderKey.java \in DOMAIN DDToken
  BY DEF LoaderKey, DDToken
<1>3. ASSUME NEW c \in PodContainer
      PROVE  Repaired(c) \in PodContainer /\ Edited(c, Repaired(c)) /\ Repaired(c).mounts = c.mounts
  BY <1>2, LoadDDIs, EditedReflexive
<1>4. list = [i \in DOMAIN p.containers |-> list[i]] /\ \A i \in DOMAIN p.containers : list[i] = Repaired(p.containers[i])
  OBVIOUS
<1> HIDE DEF Repaired, list
<1>5. \A i \in DOMAIN p.containers : p.containers[i] \in PodContainer
  <2>1. p.containers \in Seq(PodContainer)
    BY PodIs
  <2> QED BY <2>1
<1>6. Step(p, q)
  BY <1>3, <1>4, <1>5, EditStep
<1>7. Quiet(p, q)
  <2> DEFINE N == {}
  <2> HIDE DEF N
  <2>1. \A i \in DOMAIN p.containers : Names(list[i].mounts) \subseteq Names(p.containers[i].mounts) \cup N
    BY <1>3, <1>4, <1>5
  <2>2. MountNames(q) \subseteq MountNames(p) \cup N /\ q.init = p.init
    BY <1>4, <2>1, EachNames
  <2> HIDE DEF q
  <2> QED BY <2>2 DEF Quiet, N
<1>8. Calm(p, p)
  BY CalmReflexive
<1> HIDE DEF q
<1> QED BY <1>1, <1>6, <1>7, <1>8 DEF Calm

\* DDTrace is not added beside the init container of OpenTelemetry.
LEMMA DDTraceToPodIs ==
  ASSUME NEW p, IsPod(p), NEW ns, NEW rules \in Seq(TracingRule)
  PROVE  LET q == InjectDDTraceToPod(p, ns, rules).pod
         IN  \/ Calm(p, q)
             \/ Traces(p, q, DDInit, DDVolume) /\ OTelInit \notin Names(p.init)
<1> DEFINE all == MatchesAll(rules, NamespaceOf(p, ns))
           chosen == SelectRule(p, all, "ddtrace")
           lang == chosen.rule.language
           lib == InjectDDTraceLib(p, chosen.rule, Image(chosen.rule.image, chosen.version))
<1>1. all \in Seq(TracingRule)
  BY MatchesAllAre
<1>2. InjectDDTraceToPod(p, ns, rules).pod \in {p, RepairJavaAgentEnv(p)}
      \/ /\ chosen.found /\ OTelInit \notin Names(p.init) /\ lang \in DOMAIN LoaderKey
         /\ InjectDDTraceToPod(p, ns, rules).pod = lib
  BY DEF InjectDDTraceToPod, DDSkips, ContainsInitContainer
<1>3. Calm(p, p) /\ Calm(p, RepairJavaAgentEnv(p))
  BY CalmReflexive, RepairCalm
<1> HIDE DEF all
<1>4. ASSUME chosen.found, lang \in DOMAIN LoaderKey PROVE lib = p \/ Traces(p, lib, DDInit, DDVolume)
  <2>1. chosen.rule \in TracingRule /\ chosen.version \in Text
    BY <1>1, <1>4, SelectRuleIs
  <2> DEFINE image == Image(chosen.rule.image, chosen.version)
             rule == chosen.rule
  <2>2. image \in [of: Text, version: Text]
    BY <2>1 DEF Image, TracingRule
  <2>3. rule \in TracingRule /\ rule.language \in DOMAIN LoaderKey /\ lib = InjectDDTraceLib(p, rule, image)
    BY <1>4, <2>1
  <2> HIDE DEF image, rule, lib, chosen
  <2> QED BY <2>2, <2>3, DDTraceStep
<1> HIDE DEF lib, lang, chosen
<1> QED BY <1>2, <1>3, <1>4

-----------------------------------------------------------------------------
(* OpenTelemetry *)

\* A value with the library in it is a list of words, like the one before.
LEMMA OTelValueIs ==
  ASSUME NEW lang \in OTelLanguages, NEW value \in Seq(Text)
  PROVE  OTelValue(lang, value) \in Seq(Text)
<1>1. lang \in {"java", "python", "nodejs"}
  BY DEF OTelLanguages, OTelPath
<1>2. {JavaAgentOption, RequireOption, PythonPrefix, PythonSuffix} \subseteq Text
  BY TracingLiterals
<1>3. Append(value, JavaAgentOption) \in Seq(Text) /\ Append(value, RequireOption) \in Seq(Text)
  BY <1>2, AppendProperties
<1>4. <<PythonPrefix>> \o value \o <<PythonSuffix>> \in Seq(Text)
  <2>1. <<PythonPrefix>> \in Seq(Text) /\ <<PythonSuffix>> \in Seq(Text)
    BY <1>2
  <2>2. <<PythonPrefix>> \o value \in Seq(Text)
    BY <2>1, ConcatProperties
  <2> QED BY <2>1, <2>2, ConcatProperties
<1>5. OTelValue(lang, value) \in {value, Append(value, JavaAgentOption), Append(value, RequireOption),
                                   <<PythonPrefix>> \o value \o <<PythonSuffix>>}
  BY <1>1 DEF OTelValue
<1> QED BY <1>3, <1>4, <1>5

\* InjectOTelLib adds the library as a whole.
LEMMA OTelTraces ==
  ASSUME NEW p, IsPod(p), NEW rule \in TracingRule, rule.language \in OTelLanguages,
         NEW init \in PodContainer, init.name = OTelInit
  PROVE  Traces(p, InjectOTelLib(p, rule, init), OTelInit, OTelVolume)
<1> DEFINE lang == rule.language
           key == LoaderKey[lang]
           envs == BuildEnvs(rule.envs, p)
           first == Plain(key, OTelValue(lang, <<>>))
           Old(l) == l[EnvIndex(l, key)]
           New(l) == [Old(l) EXCEPT !.value = OTelValue(lang, @)]
           Loaded(l) == Placed(l, New(l), first)
           Traced(c) == [AddMountTo(c, OTelMount(lang)) EXCEPT
                           !.env = AddOrUpdateEnvVars(Loaded(@), envs, KeepExistingEnvVar)]
           list == [i \in DOMAIN p.containers |-> Traced(p.containers[i])]
           v == EmptyDir(OTelVolume)
           q == AddVolume(AddInitContainer([p EXCEPT !.containers = list], init), v)
<1>1. InjectOTelLib(p, rule, init) = q
  <2>1. \A l : AddOrUpdateEnvVar(l, first, LAMBDA old, new : [old EXCEPT !.value = OTelValue(lang, @)]) = Loaded(l)
    BY DEF AddOrUpdateEnvVar, Placed, Plain, Env
  <2> HIDE DEF Loaded
  <2> QED BY <2>1 DEF InjectOTelLib, EachContainer
<1>2. envs \in Seq(EnvVar)
  <2>1. rule.envs \in Seq(EnvVar)
    BY DEF TracingRule
  <2> QED BY <2>1, BuildEnvsAre
<1>3. key \in Text /\ OTelMount(lang) \in VolumeMount /\ OTelVolume \in Text
  BY TracingLiterals
<1>4. first \in EnvVar /\ first.name = key
  <2>1. <<>> \in Seq(Text)
    OBVIOUS
  <2>2. OTelValue(lang, <<>>) \in Seq(Text)
    BY <2>1, OTelValueIs
  <2> HIDE DEF key
  <2> QED BY <1>3, <2>2 DEF Plain, Env, EnvVar, Kinds
<1> HIDE DEF envs, first, key
<1>5. ASSUME NEW l \in Seq(EnvVar) PROVE Loaded(l) \in Seq(EnvVar) /\ Loaded(l) # <<>>
  <2> DEFINE i == EnvIndex(l, key)
  <2>1. i # 0 => New(l) \in EnvVar
    <3> SUFFICES ASSUME i # 0 PROVE New(l) \in EnvVar
      OBVIOUS
    <3>1. i \in 1..Len(l)
      BY EnvIndexIs
    <3>2. l[i] \in EnvVar
      BY <3>1
    <3>3. l[i].value \in Seq(Text)
      BY <3>2 DEF EnvVar
    <3>4. OTelValue(lang, l[i].value) \in Seq(Text)
      BY <3>3, OTelValueIs
    <3> QED BY <3>2, <3>4 DEF EnvVar
  <2> HIDE DEF New
  <2> QED BY <1>4, <2>1, PlacedIs
<1> HIDE DEF Loaded
<1>6. ASSUME NEW c \in PodContainer
      PROVE  /\ Traced(c) \in PodContainer /\ Edited(c, Traced(c))
             /\ Names(Traced(c).mounts) \subseteq Names(c.mounts) \cup {OTelVolume}
  <2> DEFINE b == AddMountTo(c, OTelMount(lang))
             new == AddOrUpdateEnvVars(Loaded(b.env), envs, KeepExistingEnvVar)
  <2>1. b \in PodContainer /\ Edited(c, b) /\ Names(b.mounts) = Names(c.mounts) \cup {OTelMount(lang).name}
    BY <1>3, MountEdited
  <2>2. Traced(c) = [b EXCEPT !.env = new]
    OBVIOUS
  <2> HIDE DEF b
  <2>3. b.env \in Seq(EnvVar)
    BY <2>1 DEF PodContainer
  <2>4. Loaded(b.env) \in Seq(EnvVar) /\ Loaded(b.env) # <<>>
    BY <1>5, <2>3
  <2>5. new \in Seq(EnvVar) /\ new # <<>>
    BY <1>2, <2>4, AddOrUpdatesAre DEF EnvInv
  <2> HIDE DEF new
  <2>6. /\ [b EXCEPT !.env = new] \in PodContainer /\ Edited(b, [b EXCEPT !.env = new])
        /\ [b EXCEPT !.env = new].mounts = b.mounts
    BY <2>1, <2>5, EnvEdited
  <2>7. OTelMount(lang).name = OTelVolume
    BY DEF OTelMount, Mount
  <2> HIDE DEF Traced
  <2>8. Edited(c, Traced(c))
    BY <2>1, <2>2, <2>6, EditedTransitive
  <2> QED BY <2>1, <2>2, <2>6, <2>7, <2>8
<1>7. list = [i \in DOMAIN p.containers |-> list[i]] /\ \A i \in DOMAIN p.containers : list[i] = Traced(p.containers[i])
  OBVIOUS
<1>8. v \in PodVolume /\ v.name = OTelVolume
  <2>1. v \in PodVolume
    BY <1>3, EmptyDirIs
  <2> QED BY <2>1 DEF EmptyDir, Volume
<1>9. \A i \in DOMAIN p.containers : p.containers[i] \in PodContainer
  <2>1. p.containers \in Seq(PodContainer)
    BY PodIs
  <2> QED BY <2>1
<1> HIDE DEF Traced, list, v
<1>10. Traces(p, q, init.name, v.name)
  <2>1. \A i \in DOMAIN p.containers :
          /\ list[i] \in PodContainer /\ Edited(p.containers[i], list[i])
          /\ Names(list[i].mounts) \subseteq Names(p.containers[i].mounts) \cup {v.name}
    BY <1>6, <1>7, <1>8, <1>9
  <2> QED BY <1>7, <1>8, <2>1, TracesAre
<1> HIDE DEF q
<1> QED BY <1>1, <1>8, <1>10

\* OpenTelemetry is not added beside the init container of DDTrace.
LEMMA OTelToPodIs ==
  ASSUME NEW p, IsPod(p), NEW ns, NEW rules \in Seq(TracingRule)
  PROVE  \/ InjectOTelToPod(p, ns, rules) = p
         \/ /\ Traces(p, InjectOTelToPod(p, ns, rules), OTelInit, OTelVolume)
            /\ DDInit \notin Names(p.init)
<1> DEFINE all == MatchesAll(rules, NamespaceOf(p, ns))
           chosen == SelectRule(p, all, "otel")
           rule == chosen.rule
           image == Image(rule.image, chosen.version)
           mounts == <<OTelMount(rule.language)>>
           plain == Container(OTelInit, image, rule.language, <<>>, mounts)
           security == IF p.containers = <<>> THEN NoSecurity ELSE p.containers[1].security
           init == [plain EXCEPT !.security = security]
           lib == InjectOTelLib(p, rule, init)
<1>1. all \in Seq(TracingRule)
  BY MatchesAllAre
<1>2. \/ InjectOTelToPod(p, ns, rules) = p
      \/ /\ chosen.found /\ rule.language \in OTelLanguages
         /\ InjectOTelToPod(p, ns, rules) = lib /\ DDInit \notin Names(p.init)
  BY DEF InjectOTelToPod, OTelFits, Names
<1> HIDE DEF all
<1>4. ASSUME chosen.found, rule.language \in OTelLanguages PROVE Traces(p, lib, OTelInit, OTelVolume)
  <2>1. rule \in TracingRule /\ chosen.version \in Text
    BY <1>1, <1>4, SelectRuleIs
  <2> HIDE DEF chosen
  <2>2. image \in [of: Text, version: Text] /\ rule.language \in Text
    BY <2>1 DEF Image, TracingRule
  <2>3. OTelMount(rule.language) \in VolumeMount /\ OTelInit \in Text
    BY <1>4, TracingLiterals
  <2> HIDE DEF rule, image
  <2>4. mounts \in Seq(VolumeMount) /\ <<>> \in Seq(EnvVar)
    BY <2>3
  <2> HIDE DEF mounts
  <2>5. plain \in PodContainer /\ plain.name = OTelInit
    <3>1. plain \in PodContainer
      BY <2>2, <2>3, <2>4, ContainerIs
    <3> QED BY <3>1 DEF Container
  <2>6. security \in [nonRoot: Text, user: Text]
    <3>1. CASE p.containers = <<>>
      BY <3>1, PodsLiterals
    <3>2. CASE p.containers # <<>>
      <4>1. p.containers \in Seq(PodContainer)
        BY PodIs
      <4>2. 1 \in 1..Len(p.containers)
        BY <3>2, <4>1
      <4>3. p.containers[1] \in PodContainer
        BY <4>1, <4>2
      <4> QED BY <3>2, <4>3 DEF PodContainer
    <3> QED BY <3>1, <3>2
  <2> HIDE DEF plain, security
  <2>7. init \in PodContainer /\ init.name = OTelInit
    BY <2>5, <2>6 DEF PodContainer
  <2> HIDE DEF init
  <2> QED BY <1>4, <2>1, <2>7, OTelTraces
<1> HIDE DEF lib, rule, chosen
<1> QED BY <1>2, <1>4

\* A pod gets the library of a tracer only if it has no init container of the other.
LEMMA TracingIs ==
  ASSUME NEW p, IsPod(p), NEW ns, NEW dd \in Seq(TracingRule), NEW otel \in Seq(TracingRule)
  PROVE  LET q == InjectTracingToPod(p, ns, dd, otel)
         IN  \/ Calm(p, q)
             \/ Traces(p, q, DDInit, DDVolume) /\ OTelInit \notin Names(p.init)
             \/ Traces(p, q, OTelInit, OTelVolume) /\ DDInit \notin Names(p.init)
<1> DEFINE q == InjectDDTraceToPod(p, ns, dd).pod
<1>1. \/ Calm(p, q)
      \/ Traces(p, q, DDInit, DDVolume) /\ OTelInit \notin Names(p.init)
  BY DDTraceToPodIs
<1>2. \/ InjectTracingToPod(p, ns, dd, otel) = q
      \/ InjectTracingToPod(p, ns, dd, otel) = InjectOTelToPod(p, ns, otel)
  BY DEF InjectTracingToPod, InjectDDTraceToPod
<1> HIDE DEF q
<1>3. \/ InjectOTelToPod(p, ns, otel) = p
      \/ /\ Traces(p, InjectOTelToPod(p, ns, otel), OTelInit, OTelVolume)
         /\ DDInit \notin Names(p.init)
  BY OTelToPodIs
<1>4. Calm(p, p)
  BY CalmReflexive
<1> QED BY <1>1, <1>2, <1>3, <1>4

\* Either way it is a step.
LEMMA TracingStep ==
  ASSUME NEW p, IsPod(p), NEW ns, NEW dd \in Seq(TracingRule), NEW otel \in Seq(TracingRule)
  PROVE  Step(p, InjectTracingToPod(p, ns, dd, otel))
BY TracingIs DEF Calm, Traces

-----------------------------------------------------------------------------
(* Mounts and directories *)

MountsInv(S, k, all) == all \in Seq(S)
Gathering == INSTANCE FoldTheory WITH Op <- JoinOp, Inv <- MountsInv

\* The mounts of all containers are mounts of one of them.
LEMMA AllMountsAre ==
  ASSUME NEW p, IsPod(p), NEW M, \A i \in DOMAIN p.containers : p.containers[i].mounts \in Seq(M)
  PROVE  AllMounts(p) \in Seq(M)
<1> DEFINE mounts == [i \in DOMAIN p.containers |-> p.containers[i].mounts]
           n == Len(p.containers)
           S == Seq(M)
<1>1. p.containers \in Seq(PodContainer) /\ n \in Nat /\ DOMAIN p.containers = 1..n
  BY PodIs
<1>2. \A i \in 1..n : p.containers[i].mounts \in S
  BY <1>1
<1>3. DOMAIN mounts = 1..n /\ \A i \in 1..n : mounts[i] \in S
  BY <1>1, <1>2
<1>4. mounts \in Seq(S)
  <2>1. mounts \in [1..n -> S]
    BY <1>1, <1>2
  <2> HIDE DEF mounts
  <2> QED BY <1>1, <2>1, SeqDef
<1>5. AllMounts(p) = FlattenSeq(mounts)
  BY DEF AllMounts
<1> HIDE DEF mounts, n
<1>6. \A s : \A T : s \in Seq(T) => IsSeq(s)
  BY DEF IsSeq
<1>7. IsSeq(mounts) /\ \A i \in DOMAIN mounts : IsSeq(mounts[i])
  BY <1>3, <1>4, <1>6
<1>8. FlattenSeq(mounts) = Joining!Fold(M, <<>>, mounts)
  BY <1>7, FlattenIs
<1>9. Joining!Fold(M, <<>>, mounts) = Gathering!Fold(M, <<>>, mounts)
  BY DEF Joining!Fold, Gathering!Fold, Joining!Largest, Gathering!Largest
<1>10. MountsInv(M, 0, <<>>)
  BY DEF MountsInv
<1>11. ASSUME NEW k \in 1..n, NEW all, MountsInv(M, k - 1, all)
       PROVE  MountsInv(M, k, JoinOp(M, all, mounts[k]))
  BY <1>3, <1>11, ConcatProperties DEF MountsInv, JoinOp
<1>12. MountsInv(M, n, Gathering!Fold(M, <<>>, mounts))
  BY <1>1, <1>3, <1>10, <1>11, Gathering!FoldKeeps, Least DEF Gathering!Ordered
<1> QED BY <1>5, <1>8, <1>9, <1>12 DEF MountsInv

\* The first mount at a path is a mount of some container.
LEMMA MountIndexIs ==
  ASSUME NEW p, IsPod(p), NEW path, IsMountPath(p, path)
  PROVE  /\ AllMounts(p)[MountIndex(p, path)] \in VolumeMount
         /\ AllMounts(p)[MountIndex(p, path)].name \in MountNames(p)
<1> DEFINE all == AllMounts(p)
           I == {j \in 1..Len(all) : all[j].path = path}
<1>1. MountIndex(p, path) = IF I # {} THEN Min(I) ELSE 0
  BY DEF MountIndex, SelectInSeq
<1> DEFINE M == {m \in VolumeMount : m.name \in MountNames(p)}
<1>2. all \in Seq(M)
  <2>1. ASSUME NEW k \in DOMAIN p.containers PROVE p.containers[k].mounts \in Seq(M)
    <3> DEFINE s == p.containers[k].mounts
    <3>1. p.containers[k] \in PodContainer
      <4>1. p.containers \in Seq(PodContainer)
        BY PodIs
      <4> QED BY <4>1
    <3>2. s \in Seq(VolumeMount)
      BY <3>1 DEF PodContainer
    <3>3. Names(s) \subseteq MountNames(p)
      BY DEF MountNames
    <3> HIDE DEF s
    <3>4. Len(s) \in Nat /\ DOMAIN s = 1..Len(s) /\ \A j \in 1..Len(s) : s[j] \in VolumeMount
      BY <3>2
    <3>5. \A j \in 1..Len(s) : s[j] \in M
      BY <3>3, <3>4 DEF Names
    <3>6. s \in [1..Len(s) -> M]
      BY <3>2, <3>4, <3>5
    <3> QED BY <3>4, <3>6, SeqDef DEF s
  <2> HIDE DEF M
  <2> QED BY <2>1, AllMountsAre
<1>3. Len(all) \in Nat /\ I \in SUBSET (1..Len(all))
  BY <1>2
<1> HIDE DEF I
<1>4. MountIndex(p, path) \in 1..Len(all)
  <2>1. I # {}
    BY <1>1 DEF IsMountPath
  <2>2. Min(I) \in I
    BY <1>3, <2>1, MinIs
  <2> QED BY <1>1, <1>3, <2>1, <2>2
<1> HIDE DEF all
<1>5. all[MountIndex(p, path)] \in M
  BY <1>2, <1>4
<1> QED BY <1>5 DEF all

\* A sequence is one over any set that has its elements.
LEMMA SeqOfItself ==
  ASSUME NEW S, NEW T, NEW s \in Seq(T), ToSet(s) \subseteq S
  PROVE  s \in Seq(S)
<1>1. Len(s) \in Nat /\ DOMAIN s = 1..Len(s) /\ \A i \in 1..Len(s) : s[i] \in S
  BY DEF ToSet
<1>2. s \in [1..Len(s) -> S]
  BY <1>1
<1> QED BY <1>1, <1>2, SeqDef

UniqueOp(ctx, seen, p) == IF p \in ToSet(seen) THEN seen ELSE Append(seen, p)
UniqueInv(ctx, k, seen) == seen \in Seq(Text) /\ Len(seen) <= k
SomeInv(S, k, seen) == seen \in Seq(S)
Uniting == INSTANCE FoldTheory WITH Op <- UniqueOp, Inv <- UniqueInv
Selecting == INSTANCE FoldTheory WITH Op <- UniqueOp, Inv <- SomeInv

\* A list without its repetitions is no longer than before.
LEMMA UniqueIs ==
  ASSUME NEW paths \in Seq(Text)
  PROVE  Unique(paths) \in Seq(Text) /\ Len(Unique(paths)) <= Len(paths)
<1> DEFINE n == Len(paths)
<1>1. n \in Nat /\ DOMAIN paths = 1..n /\ \A k \in 1..n : paths[k] \in Text
  OBVIOUS
<1> HIDE DEF n
<1>2. UniqueInv(0, 0, <<>>)
  BY DEF UniqueInv
<1>3. ASSUME NEW k \in 1..n, NEW seen, UniqueInv(0, k - 1, seen)
      PROVE  UniqueInv(0, k, UniqueOp(0, seen, paths[k]))
  <2>1. seen \in Seq(Text) /\ Len(seen) \in Nat /\ Len(seen) <= k - 1 /\ k \in Nat
    BY <1>1, <1>3 DEF UniqueInv
  <2>2. Append(seen, paths[k]) \in Seq(Text) /\ Len(Append(seen, paths[k])) = Len(seen) + 1
    BY <1>1, <2>1, AppendProperties
  <2>3. UniqueOp(0, seen, paths[k]) \in {seen, Append(seen, paths[k])}
    BY DEF UniqueOp
  <2>4. Len(seen) <= k /\ Len(seen) + 1 <= k
    BY <2>1
  <2> QED BY <2>1, <2>2, <2>3, <2>4 DEF UniqueInv
<1>4. UniqueInv(0, n, Uniting!Fold(0, <<>>, paths))
  BY <1>1, <1>2, <1>3, Uniting!FoldKeeps, Least DEF Uniting!Ordered
<1>5. Unique(paths) = Uniting!Fold(0, <<>>, paths)
  BY DEF Unique, FoldLeft, MapThenFoldSet, Max, Uniting!Fold, Uniting!Largest, UniqueOp
<1> QED BY <1>4, <1>5 DEF UniqueInv, n

\* The pairs for a pod, and the name of each.
PairName(p, paths, fresh, i) ==
  IF IsMountPath(p, paths[i]) THEN AllMounts(p)[MountIndex(p, paths[i])].name ELSE fresh[i]
PairOp(ctx, pairs, i) ==
  LET name == PairName(ctx.pod, ctx.paths, ctx.fresh, i)
  IN  IF IsMountPath(ctx.pod, ctx.paths[i]) => IsEmptyDirVolume(ctx.pod, name)
      THEN Append(pairs, Mount(name, ctx.paths[i])) ELSE pairs
PairInv(ctx, k, pairs) ==
  pairs \in Seq(VolumeMount) /\ Names(pairs) \subseteq MountNames(ctx.pod) \cup ToSet(ctx.fresh)
Pairing == INSTANCE FoldTheory WITH Op <- PairOp, Inv <- PairInv

\* An item adds its name.
LEMMA AppendNames ==
  ASSUME NEW S, NEW s \in Seq(S), NEW x \in S
  PROVE  Names(Append(s, x)) = Names(s) \cup {x.name}
<1> DEFINE t == Append(s, x)
           n == Len(s)
<1>1. n \in Nat /\ DOMAIN s = 1..n
  OBVIOUS
<1>2. DOMAIN t = 1..n + 1 /\ t[n + 1] = x /\ \A i \in 1..n : t[i] = s[i]
  BY AppendProperties
<1> HIDE DEF t, n
<1>3. \A i \in 1..n + 1 : i \in 1..n \/ i = n + 1
  BY <1>1
<1>4. n + 1 \in 1..n + 1 /\ \A i \in 1..n : i \in 1..n + 1
  BY <1>1
<1> QED BY <1>1, <1>2, <1>3, <1>4 DEF Names, t

\* A directory gets the volume that some container has there, or a new one.
LEMMA VolumePairsAre ==
  ASSUME NEW p, IsPod(p), NEW paths \in Seq(Text), NEW fresh \in Seq(Text), Len(paths) <= Len(fresh)
  PROVE  /\ GetVolumePairs(p, paths, fresh) \in Seq(VolumeMount)
         /\ Names(GetVolumePairs(p, paths, fresh)) \subseteq MountNames(p) \cup ToSet(fresh)
<1> DEFINE n == Len(paths)
           indices == [i \in DOMAIN paths |-> i]
           ctx == [pod |-> p, paths |-> paths, fresh |-> fresh]
<1>1. n \in Nat /\ DOMAIN paths = 1..n /\ \A k \in 1..n : paths[k] \in Text
  OBVIOUS
<1>2. DOMAIN indices = 1..n /\ \A k \in 1..n : indices[k] = k
  BY <1>1
<1>3. \A k \in 1..n : fresh[k] \in Text /\ fresh[k] \in ToSet(fresh)
  BY <1>1 DEF ToSet
<1>4. GetVolumePairs(p, paths, fresh) = Pairing!Fold(ctx, <<>>, indices)
  BY DEF GetVolumePairs, FoldLeftDomain, FoldLeft, MapThenFoldSet, Max, Pairing!Fold, Pairing!Largest,
         PairOp, PairName
<1>5. ctx.pod = p /\ ctx.paths = paths /\ ctx.fresh = fresh
  OBVIOUS
<1> HIDE DEF n, indices, ctx
<1>6. ASSUME NEW k \in 1..n PROVE /\ PairName(p, paths, fresh, k) \in Text
                                     /\ PairName(p, paths, fresh, k) \in MountNames(p) \cup ToSet(fresh)
  <2>1. CASE IsMountPath(p, paths[k])
    <3>1. AllMounts(p)[MountIndex(p, paths[k])] \in VolumeMount
      BY <2>1, MountIndexIs
    <3>2. AllMounts(p)[MountIndex(p, paths[k])].name \in Text
      BY <3>1 DEF VolumeMount
    <3>3. PairName(p, paths, fresh, k) = AllMounts(p)[MountIndex(p, paths[k])].name
      BY <2>1 DEF PairName
    <3>4. AllMounts(p)[MountIndex(p, paths[k])].name \in MountNames(p)
      BY <2>1, MountIndexIs
    <3> QED BY <3>2, <3>3, <3>4
  <2>2. CASE ~IsMountPath(p, paths[k])
    BY <1>3, <2>2 DEF PairName
  <2> QED BY <2>1, <2>2
<1>7. PairInv(ctx, 0, <<>>)
  BY DEF PairInv, Names
<1>8. ASSUME NEW k \in 1..n, NEW pairs, PairInv(ctx, k - 1, pairs)
      PROVE  PairInv(ctx, k, PairOp(ctx, pairs, indices[k]))
  <2> DEFINE m == Mount(PairName(p, paths, fresh, k), paths[k])
  <2>1. m \in VolumeMount
    BY <1>1, <1>6 DEF Mount, VolumeMount
  <2>2. PairOp(ctx, pairs, k) \in {pairs, Append(pairs, m)}
    BY <1>5 DEF PairOp
  <2> HIDE DEF m
  <2>3. pairs \in Seq(VolumeMount) /\ Append(pairs, m) \in Seq(VolumeMount)
    BY <1>8, <2>1, AppendProperties DEF PairInv
  <2>4. Names(Append(pairs, m)) = Names(pairs) \cup {m.name}
    BY <2>1, <2>3, AppendNames
  <2>5. m.name \in MountNames(p) \cup ToSet(fresh)
    BY <1>6 DEF m, Mount
  <2> QED BY <1>2, <1>5, <1>8, <2>2, <2>3, <2>4, <2>5 DEF PairInv
<1>9. PairInv(ctx, n, Pairing!Fold(ctx, <<>>, indices))
  BY <1>1, <1>2, <1>7, <1>8, Pairing!FoldKeeps, Least DEF Pairing!Ordered
<1> QED BY <1>4, <1>5, <1>9 DEF PairInv

VolumeOp(p, q, m) == AddVolume(q, EmptyDir(m.name))
MountOp(p, q, m) == AddVolumeMount(q, m)
CalmInv(p, k, q) == Calm(p, q)
Volumes == INSTANCE FoldTheory WITH Op <- VolumeOp, Inv <- CalmInv
Mounts == INSTANCE FoldTheory WITH Op <- MountOp, Inv <- CalmInv

\* Shared volumes are no library unless a container mounted one already.
LEMMA ShareCalm ==
  ASSUME NEW p, IsPod(p), NEW pairs \in Seq(VolumeMount), Names(pairs) \cap LibraryVolumes \subseteq MountNames(p)
  PROVE  Calm(p, ShareVolumes(p, pairs))
<1> DEFINE n == Len(pairs)
           q == Volumes!Fold(p, p, pairs)
<1>1. n \in Nat /\ DOMAIN pairs = 1..n /\ \A k \in 1..n : pairs[k] \in VolumeMount
  OBVIOUS
<1> HIDE DEF n
<1>2. CalmInv(p, 0, p)
  BY CalmReflexive DEF CalmInv
<1>3. ASSUME NEW k \in 1..n, NEW a, CalmInv(p, k - 1, a)
      PROVE  CalmInv(p, k, VolumeOp(p, a, pairs[k])) /\ CalmInv(p, k, MountOp(p, a, pairs[k]))
  <2>1. Calm(p, a) /\ IsPod(a) /\ pairs[k] \in VolumeMount
    BY <1>1, <1>3 DEF CalmInv, Calm, Step
  <2>2. EmptyDir(pairs[k].name) \in PodVolume
    BY <2>1, EmptyDirIs DEF VolumeMount
  <2>3. Calm(a, VolumeOp(p, a, pairs[k]))
    BY <2>1, <2>2, CalmSteps DEF VolumeOp
  <2> DEFINE b == MountOp(p, a, pairs[k])
  <2>4. Step(a, b)
    BY <2>1, MountStep DEF MountOp
  <2>5. MountNames(b) \subseteq MountNames(a) \cup {pairs[k].name} /\ b.init = a.init
    BY <2>1, MountNamesIs DEF MountOp
  <2>6. pairs[k].name \in Names(pairs)
    BY <1>1 DEF Names
  <2> HIDE DEF b
  <2>7. Quiet(p, b)
    BY <2>1, <2>5, <2>6 DEF Calm, Quiet
  <2>8. Step(p, b)
    BY <2>1, <2>4, StepTransitive DEF Calm
  <2> QED BY <2>1, <2>3, <2>7, <2>8, CalmTransitive DEF CalmInv, Calm, b
<1>4. CalmInv(p, n, q)
  BY <1>1, <1>2, <1>3, Volumes!FoldKeeps, Least DEF Volumes!Ordered
<1> HIDE DEF q
<1>5. CalmInv(p, 0, q)
  BY <1>4 DEF CalmInv
<1>6. CalmInv(p, n, Mounts!Fold(p, q, pairs))
  BY <1>1, <1>3, <1>5, Mounts!FoldKeeps, Least DEF Mounts!Ordered
<1>7. ShareVolumes(p, pairs) = Mounts!Fold(p, q, pairs)
  BY DEF ShareVolumes, FoldLeft, MapThenFoldSet, Max, Volumes!Fold, Volumes!Largest, VolumeOp, q,
         Mounts!Fold, Mounts!Largest, MountOp
<1> QED BY <1>6, <1>7 DEF CalmInv

-----------------------------------------------------------------------------
(* logfwd *)

\* No new volume is a library.
LEMMA NewNames ==
  LibraryVolumes \cap (ToSet(LogfwdVolumes) \cup ToSet(LogsVolumes)) = {}
BY InjectionAssumption DEF LibraryVolumes

\* A rule that matches is one of the list.
LEMMA MatchesIs ==
  ASSUME NEW S, NEW rules \in Seq(S), NEW ns, Matches(rules, ns).found
  PROVE  /\ Matches(rules, ns).rule \in S /\ Matches(rules, ns).rule \in ToSet(rules)
<1> DEFINE I == {j \in 1..Len(rules) : ns \in rules[j].accepts}
           i == IF I # {} THEN Min(I) ELSE 0
<1>1. Matches(rules, ns) = IF i = 0 THEN [found |-> FALSE] ELSE [found |-> TRUE, rule |-> rules[i]]
  BY DEF Matches, SelectInSeq
<1>2. Len(rules) \in Nat /\ I \in SUBSET (1..Len(rules)) /\ DOMAIN rules = 1..Len(rules)
  OBVIOUS
<1> HIDE DEF I
<1>3. I # {} => Min(I) \in I
  BY <1>2, MinIs
<1>4. i # 0
  <2> HIDE DEF i
  <2>1. CASE i = 0
    <3>1. Matches(rules, ns).found = FALSE
      BY <1>1, <2>1
    <3> QED BY <3>1
  <2> QED BY <2>1
<1>5. i \in 1..Len(rules)
  BY <1>2, <1>3, <1>4
<1> HIDE DEF i
<1>6. rules[i] \in S /\ rules[i] \in ToSet(rules)
  BY <1>2, <1>5 DEF ToSet
<1>7. Matches(rules, ns).rule = rules[i]
  BY <1>1, <1>4
<1> QED BY <1>6, <1>7

\* Directories of a configuration, if there is one.
LEMMA LogPathsAre ==
  ASSUME NEW configs
  PROVE  \/ LogPaths(configs) = <<>>
         \/ \E a \in DOMAIN PathsOf : LogPaths(configs) = PathsOf[a]
<1>1. CASE configs \subseteq DOMAIN PathsOf /\ configs # {}
  <2> DEFINE a == CHOOSE c \in configs : TRUE
  <2>1. a \in configs
    BY <1>1
  <2>2. LogPaths(configs) = PathsOf[a]
    BY <1>1 DEF LogPaths
  <2> QED BY <1>1, <2>1, <2>2
<1>2. CASE ~(configs \subseteq DOMAIN PathsOf /\ configs # {})
  BY <1>2 DEF LogPaths
<1> QED BY <1>1, <1>2

ConfigOp(key, list, c) ==
  AddOrUpdateEnvVar(list, Plain(key, IF c = Blank THEN <<>> ELSE <<c>>), ReplaceExistingEnvVar)
ConfigInv(key, k, list) == list \in Seq(EnvVar)
Configuring == INSTANCE FoldTheory WITH Op <- ConfigOp, Inv <- ConfigInv

\* A configuration goes into its variable.
LEMMA ConfigSet ==
  ASSUME NEW key \in Text, NEW configs \in SUBSET Text, IsFiniteSet(configs), NEW envs \in Seq(EnvVar)
  PROVE  Configuring!Fold(key, envs, SetToSeq(configs)) \in Seq(EnvVar)
<1> DEFINE list == SetToSeq(configs)
           n == Len(list)
<1>1. list \in Seq(configs)
  BY SetListed
<1>2. n \in Nat /\ DOMAIN list = 1..n /\ \A k \in 1..n : list[k] \in Text
  BY <1>1
<1> HIDE DEF list, n
<1>3. ConfigInv(key, 0, envs)
  BY DEF ConfigInv
<1>4. ASSUME NEW k \in 1..n, NEW a, ConfigInv(key, k - 1, a)
      PROVE  ConfigInv(key, k, ConfigOp(key, a, list[k]))
  <2> DEFINE v == IF list[k] = Blank THEN <<>> ELSE <<list[k]>>
             e == Plain(key, v)
  <2>1. v \in Seq(Text)
    BY <1>2
  <2> HIDE DEF v
  <2>2. e \in EnvVar
    BY <2>1 DEF Plain, Env, EnvVar, Kinds
  <2>3. ConfigOp(key, a, list[k]) = AddOrUpdateEnvVar(a, e, ReplaceExistingEnvVar)
    BY DEF ConfigOp, v
  <2> HIDE DEF e
  <2>4. a \in Seq(EnvVar)
    BY <1>4 DEF ConfigInv
  <2>5. Placed(a, e, e) \in Seq(EnvVar)
    BY <2>2, <2>4, PlacedIs
  <2>6. AddOrUpdateEnvVar(a, e, ReplaceExistingEnvVar) = Placed(a, e, e)
    BY <2>2, <2>4, AddOrUpdateIs
  <2> QED BY <2>3, <2>5, <2>6 DEF ConfigInv
<1>5. ConfigInv(key, n, Configuring!Fold(key, envs, list))
  BY <1>2, <1>3, <1>4, Configuring!FoldKeeps, Least DEF Configuring!Ordered
<1> QED BY <1>5 DEF ConfigInv, list

\* There are no more directories than the assumption says.
LEMMA LogPathsTyped ==
  ASSUME NEW configs
  PROVE  LogPaths(configs) \in Seq(Text) /\ Len(LogPaths(configs)) \in Lengths
<1>1. CASE LogPaths(configs) = <<>>
  BY <1>1 DEF Lengths
<1>2. ASSUME NEW a \in DOMAIN PathsOf, LogPaths(configs) = PathsOf[a]
      PROVE  LogPaths(configs) \in Seq(Text) /\ Len(LogPaths(configs)) \in Lengths
  BY <1>2, PathsAssumption DEF Lengths
<1> QED BY <1>1, <1>2, LogPathsAre

\* A list without its repetitions has the same elements.
LEMMA UniqueSubset ==
  ASSUME NEW S, NEW paths \in Seq(S)
  PROVE  ToSet(Unique(paths)) \subseteq S
<1> DEFINE n == Len(paths)
<1>1. n \in Nat /\ DOMAIN paths = 1..n /\ \A k \in 1..n : paths[k] \in S
  OBVIOUS
<1> HIDE DEF n
<1>2. SomeInv(S, 0, <<>>)
  BY DEF SomeInv
<1>3. ASSUME NEW k \in 1..n, NEW seen, SomeInv(S, k - 1, seen)
      PROVE  SomeInv(S, k, UniqueOp(S, seen, paths[k]))
  <2>1. seen \in Seq(S) /\ Append(seen, paths[k]) \in Seq(S)
    BY <1>1, <1>3, AppendProperties DEF SomeInv
  <2>2. UniqueOp(S, seen, paths[k]) \in {seen, Append(seen, paths[k])}
    BY DEF UniqueOp
  <2> QED BY <2>1, <2>2 DEF SomeInv
<1>4. SomeInv(S, n, Selecting!Fold(S, <<>>, paths))
  BY <1>1, <1>2, <1>3, Selecting!FoldKeeps, Least DEF Selecting!Ordered
<1>5. Unique(paths) = Selecting!Fold(S, <<>>, paths)
  BY DEF Unique, FoldLeft, MapThenFoldSet, Max, Selecting!Fold, Selecting!Largest, UniqueOp
<1>6. Unique(paths) \in Seq(S)
  BY <1>4, <1>5 DEF SomeInv
<1> QED BY <1>6 DEF ToSet

\* The directories that log configurations name.
ConfiguredPaths == UNION {ToSet(PathsOf[a]) : a \in DOMAIN PathsOf}

\* What the sidecar gets: the directories, its variables and its mounts.
LogfwdPaths(p, rule) ==
  Unique(LogPaths(InstancesConfig(p)) \o LogPaths(LogConfigsConfig(rule)) \o rule.paths)
LogfwdEnvs(p, rule) ==
  Configuring!Fold("LOGFWD_LOG_CONFIGS",
    Configuring!Fold("LOGFWD_JSON_CONFIG", SidecarEnvs(rule, p), SetToSeq(InstancesConfig(p))),
    SetToSeq(LogConfigsConfig(rule)))
LogfwdMounts(pairs) == Append([i \in DOMAIN pairs |-> ReadOnly(pairs[i])], ReadOnly(PodInfoMount))

\* Injection of logfwd: volumes for directories of the configurations, and a container
\* that mounts them.
LEMMA LogfwdParts ==
  ASSUME NEW p, IsPod(p), NEW rule \in LogfwdRules, LogfwdNamesSuffice(rule)
  PROVE  \E paths \in Seq(Text), c \in PodContainer :
           LET pairs == GetVolumePairs(p, paths, LogfwdVolumes)
           IN  /\ InjectLogfwd(p, rule) =
                    AddContainer(AddVolume(ShareVolumes(p, pairs), Volume(PodInfo, "downwardAPI")), c)
               /\ Len(paths) <= Len(LogfwdVolumes)
               /\ ToSet(paths) \subseteq ToSet(rule.paths) \cup ConfiguredPaths
               /\ c.name = LogfwdContainer /\ c.declares
               /\ Names(c.mounts) \subseteq Names(pairs) \cup {PodInfoMount.name}
               /\ paths = LogfwdPaths(p, rule) /\ c.env = LogfwdEnvs(p, rule)
               /\ c.mounts = LogfwdMounts(pairs)
<1> DEFINE instances == InstancesConfig(p)
           logs == LogConfigsConfig(rule)
           own == SidecarEnvs(rule, p)
           first == Configuring!Fold("LOGFWD_JSON_CONFIG", own, SetToSeq(instances))
           envs == Configuring!Fold("LOGFWD_LOG_CONFIGS", first, SetToSeq(logs))
           joined == LogPaths(instances) \o LogPaths(logs) \o rule.paths
           paths == Unique(joined)
           pairs == GetVolumePairs(p, paths, LogfwdVolumes)
           info == Volume(PodInfo, "downwardAPI")
           q == ShareVolumes(p, pairs)
           r == AddVolume(q, info)
           mounts == Append([i \in DOMAIN pairs |-> ReadOnly(pairs[i])], ReadOnly(PodInfoMount))
           c == Container(LogfwdContainer, Image(rule.image, Blank), Blank, envs, mounts)
<1>1. InjectLogfwd(p, rule) = AddContainer(r, c)
  BY DEF InjectLogfwd, FoldLeft, MapThenFoldSet, Max, Configuring!Fold, Configuring!Largest, ConfigOp
<1>21. paths = LogfwdPaths(p, rule) /\ envs = LogfwdEnvs(p, rule)
  BY DEF LogfwdPaths, LogfwdEnvs
<1>22. mounts = LogfwdMounts(pairs)
  BY DEF LogfwdMounts
<1>2. /\ instances \in SUBSET Text /\ IsFiniteSet(instances)
      /\ logs \in SUBSET Text /\ IsFiniteSet(logs)
  <2>1. \A x : IsFiniteSet({x}) /\ \A S \in SUBSET {x} : IsFiniteSet(S)
    BY FS_Singleton, FS_Subset
  <2>2. instances \in SUBSET Text /\ logs \in SUBSET Text
    BY PodsLiterals, PathsAssumption DEF InstancesConfig, LogConfigsConfig
  <2>3. \E x : instances \in SUBSET {x}
    BY DEF InstancesConfig
  <2>4. logs \in SUBSET {rule.logConfigs}
    BY DEF LogConfigsConfig
  <2> QED BY <2>1, <2>2, <2>3, <2>4
<1>3. own \in Seq(EnvVar)
  <2>1. rule.envs \in Seq(EnvVar)
    BY DEF LogfwdRules
  <2> QED BY <2>1, SidecarEnvsAre
<1>4. joined \in Seq(Text) /\ Len(joined) <= Len(LogfwdVolumes)
  <2> DEFINE a == LogPaths(instances)
             b == LogPaths(logs)
  <2>1. a \in Seq(Text) /\ b \in Seq(Text) /\ Len(a) \in Lengths /\ Len(b) \in Lengths
    BY LogPathsTyped
  <2>2. rule.paths \in Seq(Text)
    BY DEF LogfwdRules
  <2> HIDE DEF a, b
  <2>3. Len(a) + Len(b) + Len(rule.paths) <= Len(LogfwdVolumes)
    BY <2>1 DEF LogfwdNamesSuffice
  <2>4. a \o b \in Seq(Text) /\ Len(a \o b) = Len(a) + Len(b)
    BY <2>1, ConcatProperties
  <2>5. joined \in Seq(Text) /\ Len(joined) = Len(a \o b) + Len(rule.paths)
    BY <2>2, <2>4, ConcatProperties DEF a, b
  <2> QED BY <2>3, <2>4, <2>5
<1> HIDE DEF instances, logs, own, joined
<1>5. envs \in Seq(EnvVar)
  <2>1. first \in Seq(EnvVar)
    BY <1>2, <1>3, ConfigSet, SidecarsLiterals
  <2> HIDE DEF first
  <2> QED BY <1>2, <2>1, ConfigSet, SidecarsLiterals
<1>6. LogfwdVolumes \in Seq(Text)
  BY PathsAssumption
<1> DEFINE S == ToSet(rule.paths) \cup ConfiguredPaths
<1>20. ToSet(paths) \subseteq S
  <2> DEFINE a == LogPaths(instances)
             b == LogPaths(logs)
             d == rule.paths
  <2>1. a \in Seq(S) /\ b \in Seq(S)
    <3>1. \A configs : LogPaths(configs) \in Seq(S)
      <4> SUFFICES ASSUME NEW configs PROVE LogPaths(configs) \in Seq(S)
        OBVIOUS
      <4> DEFINE l == LogPaths(configs)
      <4>1. l \in Seq(Text) /\ ToSet(l) \subseteq S
        <5>1. l \in Seq(Text)
          BY LogPathsTyped
        <5>2. ToSet(<<>>) = {}
          BY DEF ToSet
        <5>3. \A x \in DOMAIN PathsOf : ToSet(PathsOf[x]) \subseteq S
          BY DEF ConfiguredPaths
        <5> HIDE DEF S
        <5> QED BY <5>1, <5>2, <5>3, LogPathsAre
      <4> HIDE DEF l, S
      <4> QED BY <4>1, SeqOfItself DEF l
    <3> QED BY <3>1
  <2>2. d \in Seq(S)
    <3>1. d \in Seq(Text)
      BY DEF LogfwdRules
    <3>2. ToSet(d) \subseteq S
      OBVIOUS
    <3> HIDE DEF S, d
    <3> QED BY <3>1, <3>2, SeqOfItself
  <2> HIDE DEF S, a, b, d
  <2>3. (a \o b) \o d \in Seq(S)
    BY <2>1, <2>2, ConcatProperties
  <2>4. joined \in Seq(S)
    BY <2>3 DEF joined, a, b, d, instances, logs
  <2> QED BY <2>4, UniqueSubset
<1> HIDE DEF S
<1>7. paths \in Seq(Text) /\ Len(paths) <= Len(LogfwdVolumes)
  <2>1. paths \in Seq(Text) /\ Len(paths) <= Len(joined)
    BY <1>4, UniqueIs
  <2> HIDE DEF paths
  <2>2. Len(paths) \in Nat /\ Len(joined) \in Nat /\ Len(LogfwdVolumes) \in Nat
    BY <1>4, <1>6, <2>1
  <2> QED BY <1>4, <2>1, <2>2
<1> HIDE DEF paths, envs
<1>8. pairs \in Seq(VolumeMount)
  BY <1>6, <1>7, VolumePairsAre
<1> HIDE DEF pairs, q
<1>12. mounts \in Seq(VolumeMount) /\ Names(mounts) \subseteq Names(pairs) \cup {PodInfoMount.name}
  <2> DEFINE ro == [i \in DOMAIN pairs |-> ReadOnly(pairs[i])]
  <2>1. \A m \in VolumeMount : ReadOnly(m) \in VolumeMount /\ ReadOnly(m).name = m.name
    BY DEF ReadOnly, VolumeMount
  <2>2. \A i \in DOMAIN pairs : pairs[i] \in VolumeMount
    BY <1>8
  <2>3. Len(pairs) \in Nat /\ ro \in [1..Len(pairs) -> VolumeMount]
    BY <1>8, <2>1, <2>2
  <2>4. ReadOnly(PodInfoMount) \in VolumeMount /\ ReadOnly(PodInfoMount).name = PodInfoMount.name
    BY <2>1, SidecarsLiterals
  <2>6. Names(ro) \subseteq Names(pairs)
    BY <2>1, <2>2 DEF Names
  <2> HIDE DEF ro
  <2>5. ro \in Seq(VolumeMount)
    BY <2>3, SeqDef
  <2> DEFINE end == ReadOnly(PodInfoMount)
  <2> HIDE DEF end
  <2>7. Append(ro, end) \in Seq(VolumeMount) /\ Names(Append(ro, end)) = Names(ro) \cup {end.name}
    BY <2>4, <2>5, AppendProperties, AppendNames DEF end
  <2> QED BY <2>4, <2>6, <2>7 DEF ro, end
<1> HIDE DEF mounts, r
<1>16. c.mounts = mounts /\ c.env = envs /\ c.name = LogfwdContainer /\ c.declares
  BY DEF Container
<1>13. c \in PodContainer
  <2> DEFINE image == Image(rule.image, Blank)
  <2>1. image \in [of: Text, version: Text] /\ Blank \in Text /\ LogfwdContainer \in Text
    BY PodsLiterals, SidecarsLiterals DEF Image, LogfwdRules
  <2> HIDE DEF image
  <2> QED BY <1>5, <1>12, <2>1, ContainerIs DEF image
<1> HIDE DEF c
<1>14. paths \in Seq(Text) /\ c \in PodContainer
  BY <1>7, <1>13
<1> HIDE DEF info
<1>15. /\ Len(paths) <= Len(LogfwdVolumes)
       /\ ToSet(paths) \subseteq ToSet(rule.paths) \cup ConfiguredPaths
  BY <1>7, <1>20 DEF S
<1> QED BY <1>1, <1>12, <1>14, <1>15, <1>16, <1>21, <1>22 DEF pairs, q, r, info

\* The logfwd sidecar is added by calm changes.
LEMMA LogfwdCalm ==
  ASSUME NEW p, IsPod(p), NEW rule \in LogfwdRules, LogfwdNamesSuffice(rule)
  PROVE  Calm(p, InjectLogfwd(p, rule))
<1>1. PICK paths \in Seq(Text), c \in PodContainer :
        LET pairs == GetVolumePairs(p, paths, LogfwdVolumes)
        IN  /\ InjectLogfwd(p, rule) =
                 AddContainer(AddVolume(ShareVolumes(p, pairs), Volume(PodInfo, "downwardAPI")), c)
            /\ Len(paths) <= Len(LogfwdVolumes)
            /\ Names(c.mounts) \subseteq Names(pairs) \cup {PodInfoMount.name}
  BY LogfwdParts
<1> DEFINE pairs == GetVolumePairs(p, paths, LogfwdVolumes)
           info == Volume(PodInfo, "downwardAPI")
           q == ShareVolumes(p, pairs)
           r == AddVolume(q, info)
<1>2. InjectLogfwd(p, rule) = AddContainer(r, c) /\ Names(c.mounts) \subseteq Names(pairs) \cup {PodInfoMount.name}
  BY <1>1
<1>8. pairs \in Seq(VolumeMount) /\ Names(pairs) \cap LibraryVolumes \subseteq MountNames(p)
  <2>1. pairs \in Seq(VolumeMount) /\ Names(pairs) \subseteq MountNames(p) \cup ToSet(LogfwdVolumes)
    BY <1>1, PathsAssumption, VolumePairsAre
  <2> QED BY <2>1, NewNames
<1> HIDE DEF pairs
<1>9. Calm(p, q)
  BY <1>8, ShareCalm
<1>10. info \in PodVolume
  BY SidecarsLiterals, PodsLiterals DEF Volume, PodVolume
<1> HIDE DEF q, info
<1>11. Calm(q, r)
  BY <1>9, <1>10, CalmSteps DEF Calm, Step
<1> HIDE DEF r
<1>14. Calm(p, r)
  BY <1>9, <1>11, CalmTransitive
<1>15. Step(r, AddContainer(r, c))
  BY <1>14, AddStep DEF Calm, Step
<1>17. Quiet(p, AddContainer(r, c))
  <2>1. /\ MountNames(AddContainer(r, c)) \subseteq MountNames(r) \cup Names(c.mounts)
        /\ AddContainer(r, c).init = r.init
    BY <1>14, AddContainerNames DEF Calm, Step
  <2>2. Names(c.mounts) \cap LibraryVolumes \subseteq MountNames(p)
    BY <1>2, <1>8, OtherNames
  <2> QED BY <1>14, <2>1, <2>2 DEF Calm, Quiet
<1>18. Step(p, AddContainer(r, c))
  BY <1>14, <1>15, StepTransitive DEF Calm
<1> QED BY <1>2, <1>17, <1>18 DEF Calm

LEMMA LogfwdToPodCalm ==
  ASSUME NEW p, IsPod(p), NEW ns, NEW rules \in Seq(LogfwdRules),
         \A rule \in ToSet(rules) : LogfwdNamesSuffice(rule)
  PROVE  Calm(p, InjectLogfwdToPod(p, ns, rules))
<1> DEFINE match == Matches(rules, p.namespace)
<1>1. \/ InjectLogfwdToPod(p, ns, rules) = p
      \/ match.found /\ InjectLogfwdToPod(p, ns, rules) = InjectLogfwd(p, match.rule)
  BY DEF InjectLogfwdToPod
<1>2. ASSUME match.found PROVE match.rule \in LogfwdRules /\ LogfwdNamesSuffice(match.rule)
  BY <1>2, MatchesIs
<1> HIDE DEF match
<1> QED BY <1>1, <1>2, CalmReflexive, LogfwdCalm

-----------------------------------------------------------------------------
(* Flameshot *)

\* There are a few annotations for Prometheus.
LEMMA PrometheusFinite ==
  IsFiniteSet(PrometheusKeys)
<1> DEFINE S == {"prometheus"}
           T == {"scrape", "port", "scheme", "path", "param_measurement"}
<1>1. IsFiniteSet(S)
  BY FS_Singleton
<1>2. IsFiniteSet(T)
  <2>1. T = {"scrape"} \cup {"port"} \cup {"scheme"} \cup {"path"} \cup {"param_measurement"}
    OBVIOUS
  <2>2. \A x : IsFiniteSet({x})
    BY FS_Singleton
  <2> HIDE DEF T
  <2> QED BY <2>1, <2>2, FS_Union
<1> HIDE DEF S, T
<1>3. IsFiniteSet(S \X T)
  BY <1>1, <1>2, FS_Product
<1> QED BY <1>3 DEF PrometheusKeys, S, T

\* Annotations for Prometheus leave the containers alone.
LEMMA PrometheusCalm ==
  ASSUME NEW p, IsPod(p)
  PROVE  Calm(p, AddPrometheusAnnotations(p))
<1>1. PrometheusKeys \in SUBSET (Text \X Text) /\ "flameshot" \in Text
  BY SidecarsLiterals
<1>2. IsFiniteSet(PrometheusKeys)
  BY PrometheusFinite
<1>3. Calm(p, Annotate(p, PrometheusKeys, "flameshot"))
  BY <1>1, <1>2, AnnotateStep, QuietSteps DEF Calm
<1>4. AddPrometheusAnnotations(p) \in {p, Annotate(p, PrometheusKeys, "flameshot")}
  BY DEF AddPrometheusAnnotations
<1> QED BY <1>3, <1>4, CalmReflexive

\* The directory of Flameshot is what its variable says.
LEMMA FlameshotPathIs ==
  ASSUME NEW envs \in Seq(EnvVar), EnvIndex(envs, ProfilingPath) # 0
  PROVE  FlameshotPath(envs) \in Text
<1> DEFINE e == envs[EnvIndex(envs, ProfilingPath)]
<1>1. e \in EnvVar
  <2>1. EnvIndex(envs, ProfilingPath) \in 1..Len(envs)
    BY EnvIndexIs
  <2> QED BY <2>1
<1>2. FlameshotPath(envs) = IF e.kind = "plain" /\ e.value # <<>> THEN e.value[1] ELSE WorkingDirectory
  BY DEF FlameshotPath
<1> HIDE DEF e
<1>3. e.value # <<>> => e.value[1] \in Text
  BY <1>1 DEF EnvVar
<1> QED BY <1>2, <1>3, SidecarsLiterals

\* The Flameshot sidecar is added by calm changes.
LEMMA FlameshotCalm ==
  ASSUME NEW p, IsPod(p), NEW rule \in FlameshotRules, NEW envs \in Seq(EnvVar),
         EnvIndex(envs, ProfilingPath) # 0
  PROVE  Calm(p, InjectFlameshot(p, rule, envs))
<1> DEFINE container == Container(FlameshotContainer, Image(rule.image, Blank), Blank, envs, <<>>)
           q == ResetSpec(p)
           r == AddContainer(q, container)
           s == AddVolume(r, EmptyDir(FlameshotVolume))
           m == Mount(FlameshotVolume, FlameshotPath(envs))
           t == AddVolumeMount(s, m)
<1>1. InjectFlameshot(p, rule, envs) \in {t, AddPrometheusAnnotations(t)}
  BY DEF InjectFlameshot
<1>2. {FlameshotContainer, FlameshotVolume, Blank} \subseteq Text
  BY PodsLiterals, SidecarsLiterals
<1>3. container \in PodContainer
  <2> DEFINE image == Image(rule.image, Blank)
             mounts == <<>>
  <2>1. image \in [of: Text, version: Text]
    BY <1>2 DEF Image, FlameshotRules
  <2>2. mounts \in Seq(VolumeMount)
    OBVIOUS
  <2> HIDE DEF image, mounts
  <2> QED BY <1>2, <2>1, <2>2, ContainerIs DEF image, mounts
<1>31. Names(container.mounts) = {}
  BY DEF Container, Names
<1> HIDE DEF container
<1>4. Calm(p, q)
  BY CalmSteps
<1> HIDE DEF q
<1>5. Calm(q, r)
  BY <1>3, <1>31, <1>4, CalmSteps DEF Calm, Step
<1> HIDE DEF r
<1>6. Calm(r, s)
  <2>1. EmptyDir(FlameshotVolume) \in PodVolume
    BY <1>2, EmptyDirIs
  <2> QED BY <1>5, <2>1, CalmSteps DEF Calm, Step
<1> HIDE DEF s
<1>7. Calm(s, t)
  <2>1. m \in VolumeMount
    BY <1>2, FlameshotPathIs DEF Mount, VolumeMount
  <2>2. m.name \notin LibraryVolumes
    BY OtherNames DEF Mount
  <2> HIDE DEF m
  <2> QED BY <1>6, <2>1, <2>2, CalmSteps DEF Calm, Step
<1> HIDE DEF t
<1>8. Calm(t, AddPrometheusAnnotations(t))
  BY <1>7, PrometheusCalm DEF Calm, Step
<1>9. Calm(p, t)
  BY <1>4, <1>5, <1>6, <1>7, CalmTransitive
<1> QED BY <1>1, <1>8, <1>9, CalmTransitive

LEMMA FlameshotToPodCalm ==
  ASSUME NEW p, IsPod(p), NEW ns, NEW rules \in Seq(FlameshotRules)
  PROVE  Calm(p, InjectFlameshotToPod(p, ns, rules))
<1> DEFINE match == Matches(rules, NamespaceOf(p, ns))
           e == Plain("FLAMESHOT_PROCESSES", <<match.rule.processes>>)
           envs == AddOrUpdateEnvVar(SidecarEnvs(match.rule, p), e, ReplaceExistingEnvVar)
<1>1. \/ InjectFlameshotToPod(p, ns, rules) = p
      \/ /\ match.found /\ EnvIndex(envs, ProfilingPath) # 0
         /\ InjectFlameshotToPod(p, ns, rules) = InjectFlameshot(p, match.rule, envs)
  BY DEF InjectFlameshotToPod
<1>2. ASSUME match.found PROVE match.rule \in FlameshotRules /\ envs \in Seq(EnvVar)
  <2>1. match.rule \in FlameshotRules
    BY <1>2, MatchesIs
  <2> HIDE DEF match
  <2> DEFINE own == SidecarEnvs(match.rule, p)
  <2>2. own \in Seq(EnvVar)
    <3>1. match.rule.envs \in Seq(EnvVar)
      BY <2>1 DEF FlameshotRules
    <3> QED BY <3>1, SidecarEnvsAre
  <2>3. e \in EnvVar
    <3>1. match.rule.processes \in Text
      BY <2>1 DEF FlameshotRules
    <3>2. <<match.rule.processes>> \in Seq(Text)
      BY <3>1
    <3> QED BY <3>2, SidecarsLiterals DEF Plain, Env, EnvVar, Kinds
  <2> HIDE DEF own, e
  <2>4. Placed(own, e, e) \in Seq(EnvVar)
    BY <2>2, <2>3, PlacedIs
  <2>5. envs = Placed(own, e, e)
    BY <2>2, <2>3, AddOrUpdateIs DEF own
  <2> QED BY <2>1, <2>4, <2>5
<1> HIDE DEF match, envs
<1> QED BY <1>1, <1>2, CalmReflexive, FlameshotCalm

-----------------------------------------------------------------------------
(* Profiler *)

ThreeOp(p, q, v) == AddVolume(q, v)
Threes == INSTANCE FoldTheory WITH Op <- ThreeOp, Inv <- CalmInv

\* A mount where no container has one.
LEMMA FreeMountCalm ==
  ASSUME NEW p, IsPod(p), NEW m \in VolumeMount, m.name \notin LibraryVolumes
  PROVE  Calm(p, AddMountIfFree(p, m))
<1>1. AddMountIfFree(p, m) \in {p, AddVolumeMount(p, m)}
  BY DEF AddMountIfFree
<1> QED BY <1>1, CalmReflexive, CalmSteps

\* The profiler is added by calm changes.
LEMMA ProfilerCalm ==
  ASSUME NEW p, IsPod(p), NEW rule \in ProfilerRules, NEW image \in [of: Text, version: Text]
  PROVE  Calm(p, InjectProfiler(p, rule, image))
<1> DEFINE q == ResetSpec(p)
           envs == SidecarEnvs(rule, q)
           container == Container(ProfilerContainer, image, Blank, envs, <<>>)
           r == AddContainer(q, container)
           volumes == <<EmptyDir(ProfilerMount.name), EmptyDir(TmpMount.name),
                        Volume(TimezoneMount.name, "hostPath")>>
           s == Threes!Fold(r, r, volumes)
           t == AddVolumeMount(s, ProfilerMount)
           u == AddMountIfFree(t, TmpMount)
<1>1. InjectProfiler(p, rule, image) = AddMountIfFree(u, TimezoneMount)
  BY DEF InjectProfiler, FoldLeft, MapThenFoldSet, Max, Threes!Fold, Threes!Largest, ThreeOp
<1>2. /\ {ProfilerMount, TmpMount, TimezoneMount} \subseteq VolumeMount
      /\ ProfilerContainer \in Text /\ Blank \in Text
  BY PodsLiterals, SidecarsLiterals
<1>21. \A m \in {ProfilerMount, TmpMount, TimezoneMount} : m.name \notin LibraryVolumes
  BY OtherNames
<1>3. Calm(p, q)
  BY CalmSteps
<1> HIDE DEF q
<1>4. container \in PodContainer
  <2> DEFINE mounts == <<>>
  <2>1. envs \in Seq(EnvVar)
    <3>1. rule.envs \in Seq(EnvVar)
      BY DEF ProfilerRules
    <3> QED BY <3>1, SidecarEnvsAre
  <2>2. mounts \in Seq(VolumeMount)
    OBVIOUS
  <2> HIDE DEF envs, mounts
  <2> QED BY <1>2, <2>1, <2>2, ContainerIs DEF mounts
<1>41. Names(container.mounts) = {}
  BY DEF Container, Names
<1> HIDE DEF container
<1>5. Calm(q, r)
  BY <1>3, <1>4, <1>41, CalmSteps DEF Calm, Step
<1> HIDE DEF r
<1>6. Calm(r, s)
  <2>1. ProfilerMount.name \in Text /\ TmpMount.name \in Text /\ TimezoneMount.name \in Text
    BY <1>2 DEF VolumeMount
  <2>2. EmptyDir(ProfilerMount.name) \in PodVolume /\ EmptyDir(TmpMount.name) \in PodVolume
    BY <2>1, EmptyDirIs
  <2>3. Volume(TimezoneMount.name, "hostPath") \in PodVolume
    BY <2>1, PodsLiterals DEF Volume, PodVolume
  <2>4. DOMAIN volumes = 1..3 /\ \A k \in 1..3 : volumes[k] \in PodVolume
    BY <2>2, <2>3
  <2> HIDE DEF volumes
  <2>5. CalmInv(r, 0, r)
    BY <1>5, CalmReflexive DEF CalmInv, Calm, Step
  <2>6. ASSUME NEW k \in 1..3, NEW a, CalmInv(r, k - 1, a)
        PROVE  CalmInv(r, k, ThreeOp(r, a, volumes[k]))
    <3>1. Calm(r, a) /\ IsPod(a) /\ IsPod(r)
      BY <1>5, <2>6 DEF CalmInv, Calm, Step
    <3>2. Calm(a, AddVolume(a, volumes[k]))
      BY <2>4, <3>1, CalmSteps
    <3> QED BY <3>1, <3>2, CalmTransitive DEF CalmInv, ThreeOp
  <2>7. 3 \in Nat
    OBVIOUS
  <2>8. CalmInv(r, 3, s)
    BY <2>4, <2>5, <2>6, <2>7, Threes!FoldKeeps, Least DEF Threes!Ordered
  <2> QED BY <2>8 DEF CalmInv
<1> HIDE DEF s
<1>7. Calm(s, t)
  BY <1>2, <1>21, <1>6, CalmSteps DEF Calm, Step
<1> HIDE DEF t
<1>8. Calm(t, u)
  BY <1>2, <1>21, <1>7, FreeMountCalm DEF Calm, Step
<1> HIDE DEF u
<1>9. Calm(u, AddMountIfFree(u, TimezoneMount))
  BY <1>2, <1>21, <1>8, FreeMountCalm DEF Calm, Step
<1>10. Calm(p, s)
  BY <1>3, <1>5, <1>6, CalmTransitive
<1>11. Calm(p, u)
  BY <1>7, <1>8, <1>10, CalmTransitive
<1>12. Calm(p, AddMountIfFree(u, TimezoneMount))
  BY <1>9, <1>11, CalmTransitive
<1> QED BY <1>1, <1>12

\* The language that is chosen is one with an image.
LEMMA ProfilerChoiceIs ==
  ASSUME NEW p, IsPod(p), NEW rule \in ProfilerRules, ProfilerChoice(p, rule).found
  PROVE  /\ ProfilerChoice(p, rule).version \in Text
         /\ ProfilerImage(rule, ProfilerChoice(p, rule).language) \in Text
<1> DEFINE Fits(l) == IF rule.checkAnnotation THEN Annotated(p, <<"profiler", l>>) ELSE l = rule.language
           L == ProfilerLanguages
           I == {j \in 1..Len(L) : Fits(L[j])}
           i == IF I # {} THEN Min(I) ELSE 0
           choice == [found |-> TRUE, language |-> L[i],
                      version |-> IF rule.checkAnnotation
                                  THEN p.annotations[<<"profiler", L[i]>>] ELSE Blank]
<1>1. ProfilerChoice(p, rule) = IF i = 0 THEN [found |-> FALSE] ELSE choice
  BY DEF ProfilerChoice, SelectInSeq
<1>2. L \in Seq({"java", "python", "golang"})
  BY DEF ProfilerLanguages
<1>3. Len(L) \in Nat /\ I \in SUBSET (1..Len(L)) /\ \A j \in I : Fits(L[j])
  BY <1>2
<1> HIDE DEF I, Fits, L
<1>4. I # {} => Min(I) \in I
  BY <1>3, MinIs
<1>5. i # 0
  <2> HIDE DEF i, choice
  <2>1. CASE i = 0
    <3>1. ProfilerChoice(p, rule).found = FALSE
      BY <1>1, <2>1
    <3> QED BY <3>1
  <2> QED BY <2>1
<1>6. i \in I
  BY <1>4, <1>5
<1> HIDE DEF i
<1>7. L[i] \in {"java", "python", "golang"} /\ Fits(L[i])
  BY <1>2, <1>3, <1>6
<1>8. choice.version \in Text
  <2>1. CASE rule.checkAnnotation
    <3>1. <<"profiler", L[i]>> \in DOMAIN p.annotations
      BY <1>7, <2>1 DEF Fits, Annotated
    <3>2. p.annotations \in [DOMAIN p.annotations -> Text]
      BY DEF IsPod
    <3> QED BY <2>1, <3>1, <3>2
  <2>2. CASE ~rule.checkAnnotation
    BY <2>2, PodsLiterals
  <2> QED BY <2>1, <2>2
<1>9. ProfilerImage(rule, L[i]) \in Text
  BY <1>7 DEF ProfilerImage, ProfilerRules
<1>10. choice.language = L[i]
  OBVIOUS
<1> HIDE DEF choice
<1> QED BY <1>1, <1>5, <1>8, <1>9, <1>10

LEMMA ProfilerToPodCalm ==
  ASSUME NEW p, IsPod(p), NEW ns, NEW rules \in Seq(ProfilerRules)
  PROVE  Calm(p, InjectProfilerToPod(p, ns, rules))
<1> DEFINE match == Matches(rules, NamespaceOf(p, ns))
           rule == match.rule
           choice == ProfilerChoice(p, rule)
           name == ProfilerImage(rule, choice.language)
           image == Image(name, choice.version)
<1>1. \/ InjectProfilerToPod(p, ns, rules) = p
      \/ /\ match.found /\ choice.found
         /\ InjectProfilerToPod(p, ns, rules) = InjectProfiler(p, rule, image)
  BY DEF InjectProfilerToPod
<1>2. ASSUME match.found, choice.found PROVE rule \in ProfilerRules /\ image \in [of: Text, version: Text]
  <2>1. rule \in ProfilerRules
    BY <1>2, MatchesIs
  <2> HIDE DEF rule
  <2>2. choice.version \in Text /\ name \in Text
    BY <1>2, <2>1, ProfilerChoiceIs
  <2> HIDE DEF choice, name
  <2> QED BY <2>1, <2>2 DEF Image
<1> HIDE DEF match, rule, choice, image
<1> QED BY <1>1, <1>2, CalmReflexive, ProfilerCalm

-----------------------------------------------------------------------------
(* Logs that DataKit collects itself *)

\* The collection of logs is prepared by calm changes.
LEMMA LoggingCalm ==
  ASSUME NEW p, IsPod(p), NEW ns, NEW rules \in Seq(LoggingRules),
         \A l \in Lengths : l <= Len(LogsVolumes)
  PROVE  Calm(p, MutateLoggingToPod(p, ns, rules))
<1> DEFINE match == Matches(rules, NamespaceOf(p, ns))
           config == match.rule.config
           paths == Unique(PathsOf[config])
           pairs == GetVolumePairs(p, paths, LogsVolumes)
           q == ShareVolumes(p, pairs)
<1>1. \/ MutateLoggingToPod(p, ns, rules) = p
      \/ match.found /\ config \in DOMAIN PathsOf /\ MutateLoggingToPod(p, ns, rules) = Annotate(q, {Logs}, config)
  BY DEF MutateLoggingToPod
<1>2. ASSUME match.found, config \in DOMAIN PathsOf PROVE Calm(p, Annotate(q, {Logs}, config))
  <2>1. PathsOf[config] \in Seq(Text) /\ config \in Text /\ LogsVolumes \in Seq(Text)
    BY <1>2, PathsAssumption
  <2>2. Len(PathsOf[config]) <= Len(LogsVolumes)
    BY <1>2 DEF Lengths
  <2> HIDE DEF config
  <2>3. paths \in Seq(Text) /\ Len(paths) <= Len(PathsOf[config])
    BY <2>1, UniqueIs
  <2> HIDE DEF paths
  <2>4. Len(paths) <= Len(LogsVolumes)
    <3>1. Len(paths) \in Nat /\ Len(PathsOf[config]) \in Nat /\ Len(LogsVolumes) \in Nat
      BY <2>1, <2>3
    <3> QED BY <2>2, <2>3, <3>1
  <2>5. pairs \in Seq(VolumeMount) /\ Names(pairs) \cap LibraryVolumes \subseteq MountNames(p)
    <3>1. pairs \in Seq(VolumeMount) /\ Names(pairs) \subseteq MountNames(p) \cup ToSet(LogsVolumes)
      BY <2>1, <2>3, <2>4, VolumePairsAre
    <3> QED BY <3>1, NewNames
  <2> HIDE DEF pairs
  <2>6. Calm(p, q)
    BY <2>5, ShareCalm
  <2> HIDE DEF q
  <2>7. Calm(q, Annotate(q, {Logs}, config))
    <3>1. {Logs} \in SUBSET (Text \X Text) /\ IsFiniteSet({Logs})
      BY SidecarsLiterals, FS_Singleton
    <3> QED BY <2>1, <2>6, <3>1, AnnotateStep, QuietSteps DEF Calm, Step
  <2> QED BY <2>6, <2>7, CalmTransitive
<1> HIDE DEF match, config, q
<1> QED BY <1>1, <1>2, CalmReflexive

-----------------------------------------------------------------------------
(* The invariant *)

\* The invariant of the runs, and what the assumption says of the case.
IInv == Inv /\ given \in Cases

\* What the assumption says of the case.
LEMMA CaseIs ==
  ASSUME given \in Cases
  PROVE  /\ IsPod(given.pod) /\ UniqueNames(given.pod.containers)
         /\ given.ddtraces \in Seq(TracingRule) /\ given.otels \in Seq(TracingRule)
         /\ given.logfwds \in Seq(LogfwdRules) /\ given.flameshots \in Seq(FlameshotRules)
         /\ given.profilers \in Seq(ProfilerRules) /\ given.loggings \in Seq(LoggingRules)
         /\ \A rule \in ToSet(given.logfwds) : LogfwdNamesSuffice(rule)
         /\ \A l \in Lengths : l <= Len(LogsVolumes)
<1>1. IsCase(given)
  BY InjectionAssumption
<1>2. NamesSuffice
  BY InjectionAssumption
<1> QED BY <1>1, <1>2 DEF IsCase, NamesSuffice

StageNames == ToSet(Stages) \cup {"idle"}

\* The stages of a review.
LEMMA StagesAre ==
  /\ \A i \in 1..6 : Stages[i] \in StageNames /\ Stages[i] # "idle"
  /\ Stages[1] = "tracing" /\ Stages[6] = "respond" /\ "idle" \in StageNames
<1>1. DOMAIN Stages = 1..6
  BY DEF Stages
<1>2. \A i \in 1..6 : Stages[i] # "idle"
  BY DEF Stages
<1>3. Stages[1] = "tracing" /\ Stages[6] = "respond"
  BY DEF Stages
<1> HIDE DEF Stages
<1> QED BY <1>1, <1>2, <1>3 DEF StageNames, ToSet

\* The invariant holds at first, and every step keeps it.
LEMMA InvInit ==
  Init => IInv
<1> SUFFICES ASSUME Init PROVE IInv
  OBVIOUS
<1>1. IsPod(pod) /\ UniqueNames(pod.containers) /\ work = pod
  BY CaseIs DEF Init
<1>2. Extends(pod, work)
  BY <1>1, StepReflexive DEF Step
<1>3. stage \in StageNames /\ reviews \in 0..MaxReviews /\ others \in 0..MaxOthers
  BY StagesAre, InjectionAssumption DEF Init
<1> QED BY <1>1, <1>2, <1>3 DEF IInv, Inv, TypeOK, Init, StageNames

\* An injection takes a step from one stage to the next.
LEMMA InjectKeeps ==
  ASSUME IInv, NEW i \in 1..5, NEW result, Step(work, result), Inject(i, result)
  PROVE  IInv'
<1>1. IsPod(pod) /\ IsPod(work) /\ Extends(pod, work)
  BY DEF IInv, Inv, TypeOK
<1>2. UniqueNames(pod.containers) /\ UniqueNames(work.containers)
  BY DEF IInv, Inv
<1>3. work' = result /\ pod' = pod
  BY DEF Inject
<1>4. IsPod(work') /\ UniqueNames(work'.containers)
  BY <1>2, <1>3 DEF Step
<1>5. Extends(pod, result)
  <2>1. Step(pod, work)
    BY <1>1, <1>2 DEF Step
  <2> QED BY <1>1, <2>1, StepTransitive DEF Step
<1>6. stage' \in StageNames /\ stage' # "idle"
  <2>1. i + 1 \in 1..6 /\ stage' = Stages[i + 1]
    BY DEF Inject
  <2> HIDE DEF Inject
  <2> QED BY <2>1, StagesAre
<1>7. reviews' = reviews /\ others' = others /\ given' = given
  BY DEF Inject
<1>8. reviews \in 0..MaxReviews /\ others \in 0..MaxOthers /\ given \in Cases
  BY DEF IInv, Inv, TypeOK
<1> QED BY <1>1, <1>2, <1>3, <1>4, <1>5, <1>6, <1>7, <1>8 DEF IInv, Inv, TypeOK, StageNames

\* A step after which no review is under way.
LEMMA RestKeeps ==
  ASSUME IInv, stage' \in StageNames, work' = pod', given' = given,
         reviews' \in 0..MaxReviews, others' \in 0..MaxOthers,
         IsPod(pod'), UniqueNames(pod'.containers)
  PROVE  IInv'
<1>1. Extends(pod', pod')
  BY StepReflexive DEF Step
<1> QED BY <1>1 DEF IInv, Inv, TypeOK, StageNames

\* The variables of one container are replaced.
LEMMA ResetEnvIs ==
  ASSUME NEW p, IsPod(p), NEW i \in DOMAIN p.containers
  PROVE  /\ IsPod([p EXCEPT !.containers[i].env = <<>>])
         /\ UniqueNames(p.containers) => UniqueNames([p EXCEPT !.containers[i].env = <<>>].containers)
<1> DEFINE old == p.containers
           c == [old[i] EXCEPT !.env = <<>>]
           new == [old EXCEPT ![i] = c]
           q == [p EXCEPT !.containers[i].env = <<>>]
<1>1. old \in Seq(PodContainer) /\ DOMAIN p = PodFields
  BY PodIs
<1>2. c \in PodContainer /\ c.name = old[i].name
  <2>1. old[i] \in PodContainer
    BY <1>1
  <2>2. <<>> \in Seq(EnvVar)
    OBVIOUS
  <2> HIDE DEF old
  <2> QED BY <2>1, <2>2 DEF PodContainer
<1>3. q = [p EXCEPT !.containers = new]
  OBVIOUS
<1> HIDE DEF c
<1>4. new \in Seq(PodContainer) /\ Len(new) = Len(old)
  BY <1>1, <1>2, ExceptSeq
<1>5. IsPod(q)
  <2> HIDE DEF new, q
  <2> QED BY <1>3, <1>4, PodWith
<1>6. q.containers = new
  BY <1>1, <1>3 DEF PodFields
<1>7. DOMAIN new = DOMAIN old /\ \A j \in DOMAIN old : new[j].name = old[j].name
  BY <1>2
<1> HIDE DEF new, q, old
<1>8. UniqueNames(old) => UniqueNames(new)
  BY <1>7 DEF UniqueNames
<1> QED BY <1>5, <1>6, <1>8 DEF q, old

\* Every step keeps it: each injection is a step of the copy, the patch leads to the
\* copy, and what other webhooks do leaves a pod with different names.
LEMMA InvNext ==
  IInv /\ [Next]_vars => IInv'
<1> SUFFICES ASSUME IInv, [Next]_vars PROVE IInv'
  OBVIOUS
<1>1. /\ IsPod(pod) /\ UniqueNames(pod.containers) /\ IsPod(work) /\ Extends(pod, work)
      /\ UniqueNames(work.containers)
      /\ stage \in StageNames /\ (stage = "idle" => work = pod)
      /\ reviews \in 0..MaxReviews /\ others \in 0..MaxOthers /\ given \in Cases
  BY DEF IInv, Inv, TypeOK, StageNames
<1>2. MaxReviews \in Nat /\ MaxOthers \in Nat /\ LateSidecars \subseteq PodContainer
  BY InjectionAssumption
<1>3. CASE Receive
  <2>1. stage' \in StageNames
    <3>1. stage' \in {"tracing", "respond"}
      BY <1>3 DEF Receive
    <3>2. 1 \in 1..6 /\ 6 \in 1..6
      OBVIOUS
    <3> QED BY <3>1, <3>2, StagesAre
  <2>2. reviews' \in 0..MaxReviews
    BY <1>1, <1>2, <1>3 DEF Receive
  <2> QED BY <1>1, <1>3, <2>1, <2>2, RestKeeps DEF Receive
<1>4. CASE InjectTracing
  <2>1. Step(work, InjectTracingToPod(work, given.namespace, given.ddtraces, given.otels))
    BY <1>1, CaseIs, TracingStep
  <2> QED BY <1>4, <2>1, InjectKeeps DEF InjectTracing
<1>5. CASE InjectLogfwdSidecar
  <2>1. Step(work, InjectLogfwdToPod(work, given.namespace, given.logfwds))
    BY <1>1, CaseIs, LogfwdToPodCalm DEF Calm
  <2> QED BY <1>5, <2>1, InjectKeeps DEF InjectLogfwdSidecar
<1>6. CASE InjectFlameshotSidecar
  <2>1. Step(work, InjectFlameshotToPod(work, given.namespace, given.flameshots))
    BY <1>1, CaseIs, FlameshotToPodCalm DEF Calm
  <2> QED BY <1>6, <2>1, InjectKeeps DEF InjectFlameshotSidecar
<1>7. CASE InjectProfilerSidecar
  <2>1. Step(work, InjectProfilerToPod(work, given.namespace, given.profilers))
    BY <1>1, CaseIs, ProfilerToPodCalm DEF Calm
  <2> QED BY <1>7, <2>1, InjectKeeps DEF InjectProfilerSidecar
<1>8. CASE MutateLogging
  <2>1. Step(work, MutateLoggingToPod(work, given.namespace, given.loggings))
    BY <1>1, CaseIs, LoggingCalm DEF Calm
  <2> QED BY <1>8, <2>1, InjectKeeps DEF MutateLogging
<1>9. CASE Respond
  <2>1. pod' = work
    BY <1>1, <1>9, PatchLeads DEF Respond
  <2> QED BY <1>1, <1>9, <2>1, StagesAre, RestKeeps DEF Respond
<1>10. CASE Lose
  BY <1>1, <1>10, StagesAre, RestKeeps DEF Lose
<1>11. CASE OtherAdds
  <2>1. PICK c \in LateSidecars : Other(AddContainer(pod, c))
    BY <1>11 DEF OtherAdds
  <2>2. Step(pod, AddContainer(pod, c))
    BY <1>1, <1>2, AddStep
  <2>3. IsPod(pod') /\ UniqueNames(pod'.containers)
    BY <1>1, <2>1, <2>2 DEF Other, Step
  <2>4. others' \in 0..MaxOthers
    BY <1>1, <1>2, <2>1 DEF Other
  <2> QED BY <1>1, <2>1, <2>3, <2>4, RestKeeps DEF Other
<1>12. CASE OtherResetsEnv
  <2>1. PICK i \in DOMAIN pod.containers : Other([pod EXCEPT !.containers[i].env = <<>>])
    BY <1>12 DEF OtherResetsEnv
  <2>2. IsPod(pod') /\ UniqueNames(pod'.containers)
    BY <1>1, <2>1, ResetEnvIs DEF Other
  <2>3. others' \in 0..MaxOthers
    BY <1>1, <1>2, <2>1 DEF Other
  <2> QED BY <1>1, <2>1, <2>2, <2>3, RestKeeps DEF Other
<1>13. CASE UNCHANGED vars
  BY <1>13 DEF vars, IInv, Inv, TypeOK
<1> QED BY <1>3, <1>4, <1>5, <1>6, <1>7, <1>8, <1>9, <1>10, <1>11, <1>12, <1>13 DEF Next

\* The inductive invariant, for any cases, sidecars and bounds.
THEOREM Invariant == Spec => []IInv
BY InvInit, InvNext, PTL DEF Spec

\* Whatever the rules and the pod: every injection makes only changes that the patch has
\* operations for, and no two containers of a pod ever get the same name.
THEOREM InvHolds == Spec => []Inv
<1>1. IInv => Inv
  BY DEF IInv
<1> QED BY <1>1, Invariant, PTL

\* The answer's patch does what the injections did.
THEOREM PatchIsCopy == Spec => PatchLeadsToCopy
<1>1. IInv /\ [Next]_vars => [Respond => pod' = work]_vars
  <2> SUFFICES ASSUME IInv, Respond PROVE pod' = work
    OBVIOUS
  <2>1. /\ IsPod(pod) /\ UniqueNames(pod.containers) /\ IsPod(work) /\ Extends(pod, work)
    BY DEF IInv, Inv, TypeOK
  <2> QED BY <2>1, PatchLeads DEF Respond
<1> QED BY <1>1, Invariant, PTL DEF Spec, PatchLeadsToCopy

-----------------------------------------------------------------------------
(* One tracer *)

\* Sidecars and logs change nothing about the libraries.
LEMMA CalmKeepsApart ==
  ASSUME NEW p, NEW q, Apart(p), Calm(p, q)
  PROVE  Apart(q)
<1>1. DDVolume \in LibraryVolumes /\ OTelVolume \in LibraryVolumes
  BY DEF LibraryVolumes
<1> QED BY <1>1 DEF Apart, Calm, Quiet

\* A tracer is only added where the other one is not.
LEMMA TracesKeepApart ==
  ASSUME NEW p, NEW q, Apart(p),
         \/ Traces(p, q, DDInit, DDVolume) /\ OTelInit \notin Names(p.init)
         \/ Traces(p, q, OTelInit, OTelVolume) /\ DDInit \notin Names(p.init)
  PROVE  Apart(q)
<1>1. DDInit # OTelInit
  BY DEF DDInit, OTelInit
<1>2. DDVolume # OTelVolume
  BY DEF DDVolume, OTelVolume
<1>3. CASE Traces(p, q, DDInit, DDVolume) /\ OTelInit \notin Names(p.init)
  BY <1>1, <1>2, <1>3 DEF Apart, Traces
<1>4. CASE Traces(p, q, OTelInit, OTelVolume) /\ DDInit \notin Names(p.init)
  BY <1>1, <1>2, <1>4 DEF Apart, Traces
<1> QED BY <1>3, <1>4

\* No container of such a pod mounts both libraries.
LEMMA ApartIsOne ==
  ASSUME NEW p, Apart(p)
  PROVE  /\ ~({DDInit, OTelInit} \subseteq Names(p.init))
         /\ \A c \in ToSet(p.containers) : ~({DDVolume, OTelVolume} \subseteq Names(c.mounts))
<1>1. \A c \in ToSet(p.containers) : Names(c.mounts) \subseteq MountNames(p)
  BY DEF ToSet, MountNames
<1> QED BY <1>1 DEF Apart

\* The variables of one container are replaced, and its mounts are not.
LEMMA ResetEnvQuiet ==
  ASSUME NEW p, IsPod(p), NEW i \in DOMAIN p.containers
  PROVE  Quiet(p, [p EXCEPT !.containers[i].env = <<>>])
<1> DEFINE old == p.containers
           new == [old EXCEPT ![i] = [old[i] EXCEPT !.env = <<>>]]
           q == [p EXCEPT !.containers[i].env = <<>>]
           N == {}
<1>1. old \in Seq(PodContainer) /\ DOMAIN p = PodFields
  BY PodIs
<1>2. q = [p EXCEPT !.containers = new]
  OBVIOUS
<1>3. \A j \in DOMAIN old : new[j].mounts = old[j].mounts
  <2>1. old[i] \in PodContainer
    BY <1>1
  <2>2. [old[i] EXCEPT !.env = <<>>].mounts = old[i].mounts
    <3> HIDE DEF old
    <3> QED BY <2>1 DEF PodContainer
  <2> QED BY <2>2
<1>4. new = [j \in DOMAIN old |-> new[j]]
  OBVIOUS
<1> HIDE DEF new, q, N
<1>5. \A j \in DOMAIN old : Names(new[j].mounts) \subseteq Names(old[j].mounts) \cup N
  BY <1>3
<1>6. MountNames(q) \subseteq MountNames(p) \cup N /\ q.init = p.init
  BY <1>2, <1>4, <1>5, EachNames
<1>7. Quiet(p, q)
  BY <1>6 DEF Quiet, N
<1> QED BY <1>7 DEF q

AllApart == Apart(pod) /\ Apart(work)

\* Every step keeps the libraries apart.
LEMMA ApartNext ==
  ASSUME LateAreQuiet, IInv, AllApart, [Next]_vars
  PROVE  AllApart'
<1>1. /\ IsPod(pod) /\ UniqueNames(pod.containers) /\ IsPod(work) /\ Extends(pod, work)
      /\ stage = "idle" => work = pod
      /\ given \in Cases /\ Apart(pod) /\ Apart(work)
  BY DEF IInv, Inv, TypeOK, AllApart
<1>2. LateSidecars \subseteq PodContainer
  BY InjectionAssumption
<1>3. ASSUME NEW i, NEW q, Inject(i, q), Apart(q) PROVE AllApart'
  <2>1. work' = q /\ pod' = pod
    BY <1>3 DEF Inject
  <2> QED BY <1>1, <1>3, <2>1 DEF AllApart
<1>4. CASE Receive
  BY <1>1, <1>4 DEF AllApart, Receive
<1>5. CASE InjectTracing
  <2> DEFINE q == InjectTracingToPod(work, given.namespace, given.ddtraces, given.otels)
  <2>1. \/ Calm(work, q)
        \/ Traces(work, q, DDInit, DDVolume) /\ OTelInit \notin Names(work.init)
        \/ Traces(work, q, OTelInit, OTelVolume) /\ DDInit \notin Names(work.init)
    BY <1>1, CaseIs, TracingIs
  <2>2. Inject(1, q)
    BY <1>5 DEF InjectTracing
  <2> HIDE DEF q
  <2>3. Apart(q)
    BY <1>1, <2>1, CalmKeepsApart, TracesKeepApart
  <2> QED BY <1>3, <2>2, <2>3
<1>6. CASE InjectLogfwdSidecar
  <2>1. Calm(work, InjectLogfwdToPod(work, given.namespace, given.logfwds))
    BY <1>1, CaseIs, LogfwdToPodCalm
  <2> QED BY <1>1, <1>3, <1>6, <2>1, CalmKeepsApart DEF InjectLogfwdSidecar
<1>7. CASE InjectFlameshotSidecar
  <2>1. Calm(work, InjectFlameshotToPod(work, given.namespace, given.flameshots))
    BY <1>1, CaseIs, FlameshotToPodCalm
  <2> QED BY <1>1, <1>3, <1>7, <2>1, CalmKeepsApart DEF InjectFlameshotSidecar
<1>8. CASE InjectProfilerSidecar
  <2>1. Calm(work, InjectProfilerToPod(work, given.namespace, given.profilers))
    BY <1>1, CaseIs, ProfilerToPodCalm
  <2> QED BY <1>1, <1>3, <1>8, <2>1, CalmKeepsApart DEF InjectProfilerSidecar
<1>9. CASE MutateLogging
  <2>1. Calm(work, MutateLoggingToPod(work, given.namespace, given.loggings))
    BY <1>1, CaseIs, LoggingCalm
  <2> QED BY <1>1, <1>3, <1>9, <2>1, CalmKeepsApart DEF MutateLogging
<1>10. CASE Respond
  <2>1. pod' = work
    BY <1>1, <1>10, PatchLeads DEF Respond
  <2> QED BY <1>1, <1>10, <2>1 DEF AllApart, Respond
<1>11. CASE Lose
  BY <1>1, <1>11 DEF AllApart, Lose
<1>12. CASE OtherAdds
  <2>1. PICK c \in LateSidecars : Other(AddContainer(pod, c))
    BY <1>12 DEF OtherAdds
  <2>2. Calm(pod, AddContainer(pod, c))
    BY <1>1, <1>2, CalmSteps DEF LateAreQuiet
  <2>3. Apart(AddContainer(pod, c))
    BY <1>1, <2>2, CalmKeepsApart
  <2> QED BY <2>1, <2>3 DEF Other, AllApart
<1>13. CASE OtherResetsEnv
  <2>1. PICK i \in DOMAIN pod.containers : Other([pod EXCEPT !.containers[i].env = <<>>])
    BY <1>13 DEF OtherResetsEnv
  <2> DEFINE q == [pod EXCEPT !.containers[i].env = <<>>]
  <2>2. Quiet(pod, q)
    BY <1>1, ResetEnvQuiet
  <2>3. pod' = q /\ work' = q
    BY <2>1 DEF Other
  <2> HIDE DEF q
  <2>4. Apart(q)
    <3>1. DDVolume \in LibraryVolumes /\ OTelVolume \in LibraryVolumes
      BY DEF LibraryVolumes
    <3> QED BY <1>1, <2>2, <3>1 DEF Apart, Quiet
  <2> QED BY <2>3, <2>4 DEF AllApart
<1>14. CASE UNCHANGED vars
  BY <1>1, <1>14 DEF vars, AllApart
<1> QED BY <1>4, <1>5, <1>6, <1>7, <1>8, <1>9, <1>10, <1>11, <1>12, <1>13, <1>14 DEF Next

\* No pod gets the libraries of both tracers, over any number of reviews, if it does not
\* come with a mix of them: DDTrace looks for the other init container, OpenTelemetry for
\* DDTrace's, and no sidecar mounts a library that the application does not.
THEOREM OneTracerHolds ==
  ASSUME \A c \in Cases : Apart(c.pod), LateAreQuiet
  PROVE  Spec => []OneTracer
<1>1. Init => AllApart
  <2> SUFFICES ASSUME Init PROVE AllApart
    OBVIOUS
  <2> QED BY DEF Init, AllApart
<1>2. IInv /\ AllApart /\ [Next]_vars => AllApart'
  BY ApartNext
<1>3. AllApart => OneTracer
  BY ApartIsOne DEF AllApart, OneTracer
<1> QED BY <1>1, <1>2, <1>3, Invariant, PTL DEF Spec

-----------------------------------------------------------------------------
(* What sidecars and the collection of logs leave alone *)

LibMounts(c) == {m \in ToSet(c.mounts) : m.name \in LibraryVolumes}

\* The annotations that the operator sets.
OwnKeys == {Logs} \cup PrometheusKeys

Untouched(c, d) ==
  /\ d.env = c.env /\ d.security = c.security /\ d.declares = c.declares
  /\ LibMounts(d) = LibMounts(c)

Beside(p, q) ==
  /\ q.init = p.init /\ q.namespace = p.namespace /\ q.security = p.security
  /\ \A k \in DOMAIN p.annotations : k \in DOMAIN q.annotations /\ q.annotations[k] = p.annotations[k]
  /\ DOMAIN q.annotations \subseteq DOMAIN p.annotations \cup OwnKeys
  /\ DOMAIN p.containers \subseteq DOMAIN q.containers
  /\ \A i \in DOMAIN p.containers : Untouched(p.containers[i], q.containers[i])
  /\ \A i \in DOMAIN q.containers \ DOMAIN p.containers :
       LibMounts(q.containers[i]) = {} /\ q.containers[i].declares
  /\ \A v \in LibraryVolumes : /\ v \in Names(q.volumes) <=> v \in Names(p.volumes)
                               /\ IsEmptyDirVolume(q, v) <=> IsEmptyDirVolume(p, v)

After(p, q) == Step(p, q) /\ Beside(p, q)

LEMMA AfterReflexive ==
  ASSUME NEW p, IsPod(p)
  PROVE  After(p, p)
BY StepReflexive DEF After, Beside, Untouched

LEMMA AfterTransitive ==
  ASSUME NEW p, NEW q, NEW r, IsPod(p), After(p, q), After(q, r)
  PROVE  After(p, r)
<1>1. Step(p, r)
  BY StepTransitive DEF After
<1>2. Beside(p, q) /\ Beside(q, r)
  BY DEF After
<1>3. /\ r.init = p.init /\ r.namespace = p.namespace /\ r.security = p.security
      /\ DOMAIN r.annotations \subseteq DOMAIN p.annotations \cup OwnKeys
      /\ DOMAIN p.containers \subseteq DOMAIN r.containers
      /\ \A v \in LibraryVolumes : /\ v \in Names(r.volumes) <=> v \in Names(p.volumes)
                                   /\ IsEmptyDirVolume(r, v) <=> IsEmptyDirVolume(p, v)
  BY <1>2 DEF Beside
<1>4. \A k \in DOMAIN p.annotations : k \in DOMAIN r.annotations /\ r.annotations[k] = p.annotations[k]
  BY <1>2 DEF Beside
<1>5. \A i \in DOMAIN p.containers : Untouched(p.containers[i], r.containers[i])
  BY <1>2 DEF Beside, Untouched
<1>6. ASSUME NEW i \in DOMAIN r.containers \ DOMAIN p.containers
      PROVE  LibMounts(r.containers[i]) = {} /\ r.containers[i].declares
  BY <1>2 DEF Beside, Untouched
<1> QED BY <1>1, <1>3, <1>4, <1>5, <1>6 DEF After, Beside

\* Libraries stay in their directories.
LEMMA AfterInPlace ==
  ASSUME NEW p, NEW q, InPlace(p), After(p, q)
  PROVE  InPlace(q)
<1>1. \A i \in DOMAIN q.containers : \A m \in LibMounts(q.containers[i]) : m.path \in LibraryPaths
  <2> SUFFICES ASSUME NEW i \in DOMAIN q.containers, NEW m \in LibMounts(q.containers[i])
               PROVE  m.path \in LibraryPaths
    OBVIOUS
  <2>1. i \in DOMAIN p.containers /\ m \in LibMounts(p.containers[i])
    BY DEF After, Beside, Untouched
  <2> QED BY <2>1 DEF InPlace, LibMounts
<1> QED BY <1>1 DEF InPlace, LibMounts

\* The first volume of a name decides, also where others are added.
LEMMA EmptyDirKept ==
  ASSUME NEW s \in Seq(PodVolume), NEW p, NEW q, p.volumes = s, NEW v, q.volumes = AddNamed(s, v),
         NEW name, v.name # name
  PROVE  IsEmptyDirVolume(q, name) <=> IsEmptyDirVolume(p, name)
<1> DEFINE n == Len(s)
           t == Append(s, v)
           I == {i \in 1..n : s[i].name = name}
           J == {i \in 1..Len(t) : t[i].name = name}
<1>1. CASE q.volumes = s
  BY <1>1 DEF IsEmptyDirVolume
<1>2. CASE q.volumes = t
  <2>1. n \in Nat /\ Len(t) = n + 1 /\ t[n + 1] = v /\ \A i \in 1..n : t[i] = s[i]
    OBVIOUS
  <2>2. I = J
    <3> HIDE DEF t, n
    <3>1. \A i \in 1..n + 1 : i \in 1..n \/ i = n + 1
      BY <2>1
    <3>2. \A i \in 1..n : i \in 1..n + 1
      BY <2>1
    <3> QED BY <2>1, <3>1, <3>2
  <2> DEFINE i == IF I # {} THEN Min(I) ELSE 0
  <2>3. IsEmptyDirVolume(p, name) <=> i # 0 /\ s[i].source = "emptyDir"
    BY DEF IsEmptyDirVolume, SelectInSeq
  <2>4. IsEmptyDirVolume(q, name) <=> i # 0 /\ t[i].source = "emptyDir"
    BY <1>2, <2>2 DEF IsEmptyDirVolume, SelectInSeq
  <2>5. i # 0 => i \in 1..n
    <3>1. I # {} => Min(I) \in I
      <4>1. I \in SUBSET (1..n)
        OBVIOUS
      <4> HIDE DEF I, n
      <4> QED BY <2>1, <4>1, MinIs
    <3> QED BY <3>1
  <2> HIDE DEF i, t, n
  <2> QED BY <2>1, <2>3, <2>4, <2>5
<1> QED BY <1>1, <1>2 DEF AddNamed

\* The mounts of libraries, where others are added.
LEMMA LibMountsKept ==
  ASSUME NEW c \in PodContainer, NEW m, m.name \notin LibraryVolumes
  PROVE  Untouched(c, AddMountTo(c, m))
<1> DEFINE s == c.mounts
           t == AddNamed(s, m)
           d == AddMountTo(c, m)
<1>1. s \in Seq(VolumeMount)
  BY DEF PodContainer
<1>2. d.mounts = t /\ d.env = c.env /\ d.security = c.security /\ d.declares = c.declares
  BY DEF AddMountTo, PodContainer
<1>3. \A x : x \in ToSet(t) /\ x # m <=> x \in ToSet(s) /\ x # m
  <2> DEFINE u == Append(s, m)
             n == Len(s)
  <2>1. n \in Nat /\ DOMAIN s = 1..n /\ DOMAIN u = 1..n + 1 /\ u[n + 1] = m /\ \A i \in 1..n : u[i] = s[i]
    BY <1>1
  <2>2. t \in {s, u}
    BY DEF AddNamed
  <2> HIDE DEF u, n, t, s
  <2>3. \A i \in 1..n + 1 : i \in 1..n \/ i = n + 1
    BY <2>1
  <2>4. \A i \in 1..n : i \in 1..n + 1
    BY <2>1
  <2>5. \A x : x \in ToSet(u) /\ x # m <=> x \in ToSet(s) /\ x # m
    BY <2>1, <2>3, <2>4 DEF ToSet
  <2> QED BY <2>2, <2>5
<1> HIDE DEF d, s, t
<1>4. LibMounts(d) = LibMounts(c)
  BY <1>2, <1>3 DEF LibMounts, s
<1> QED BY <1>2, <1>4 DEF Untouched, d

\* The changes that do: volumes and mounts of other names, containers without a library.
LEMMA AfterSteps ==
  ASSUME NEW p, IsPod(p)
  PROVE  /\ \A v \in PodVolume : v.name \notin LibraryVolumes => After(p, AddVolume(p, v))
         /\ After(p, ResetSpec(p))
         /\ \A m \in VolumeMount : m.name \notin LibraryVolumes => After(p, AddVolumeMount(p, m))
         /\ \A c \in PodContainer : LibMounts(c) = {} /\ c.declares => After(p, AddContainer(p, c))
         /\ \A keys \in SUBSET OwnKeys, v \in Text :
              IsFiniteSet(keys) /\ keys \cap DOMAIN p.annotations = {} => After(p, Annotate(p, keys, v))
<1>1. /\ DOMAIN p = PodFields
      /\ p.volumes \in Seq(PodVolume) /\ p.init \in Seq(PodContainer) /\ p.containers \in Seq(PodContainer)
  BY PodIs
<1>2. ASSUME NEW v \in PodVolume, v.name \notin LibraryVolumes PROVE After(p, AddVolume(p, v))
  <2> DEFINE q == AddVolume(p, v)
  <2>1. q.volumes = AddNamed(p.volumes, v) /\ \A f \in PodFields : f # "volumes" => q[f] = p[f]
    BY <1>1 DEF AddVolume, PodFields
  <2>2. Step(p, q)
    BY AddStep
  <2> HIDE DEF q
  <2>3. /\ q.init = p.init /\ q.namespace = p.namespace /\ q.security = p.security
        /\ q.annotations = p.annotations /\ q.containers = p.containers
    BY <2>1 DEF PodFields
  <2>4. \A w \in LibraryVolumes : IsEmptyDirVolume(q, w) <=> IsEmptyDirVolume(p, w)
    BY <1>1, <1>2, <2>1, EmptyDirKept
  <2>5. Names(q.volumes) = Names(p.volumes) \cup {v.name}
    BY <1>1, <2>1, AddNamedIs
  <2> QED BY <1>2, <2>2, <2>3, <2>4, <2>5 DEF After, Beside, Untouched, q
<1>3. After(p, ResetSpec(p))
  <2> DEFINE q == ResetSpec(p)
  <2>1. \A f \in PodFields : f \notin {"shareProcessNamespace", "restartPolicy"} => q[f] = p[f]
    BY <1>1 DEF ResetSpec, PodFields
  <2>2. Step(p, q)
    BY ResetStep
  <2> HIDE DEF q
  <2>3. /\ q.init = p.init /\ q.namespace = p.namespace /\ q.security = p.security
        /\ q.annotations = p.annotations /\ q.containers = p.containers /\ q.volumes = p.volumes
    BY <2>1 DEF PodFields
  <2> QED BY <2>2, <2>3 DEF After, Beside, Untouched, IsEmptyDirVolume, q
<1>4. ASSUME NEW m \in VolumeMount, m.name \notin LibraryVolumes PROVE After(p, AddVolumeMount(p, m))
  <2> DEFINE q == AddVolumeMount(p, m)
             list == [i \in DOMAIN p.containers |-> AddMountTo(p.containers[i], m)]
  <2>1. q.containers = list /\ \A f \in PodFields : f # "containers" => q[f] = p[f]
    BY <1>1 DEF AddVolumeMount, EachContainer, PodFields
  <2>2. Step(p, q)
    BY MountStep
  <2>3. \A i \in DOMAIN p.containers : p.containers[i] \in PodContainer
    BY <1>1
  <2>4. DOMAIN list = DOMAIN p.containers /\ \A i \in DOMAIN p.containers : Untouched(p.containers[i], list[i])
    BY <1>4, <2>3, LibMountsKept
  <2> HIDE DEF q, list
  <2>5. /\ q.init = p.init /\ q.namespace = p.namespace /\ q.security = p.security
        /\ q.annotations = p.annotations /\ q.volumes = p.volumes
    BY <2>1 DEF PodFields
  <2> QED BY <2>1, <2>2, <2>4, <2>5 DEF After, Beside, IsEmptyDirVolume, q
<1>5. ASSUME NEW c \in PodContainer, LibMounts(c) = {}, c.declares PROVE After(p, AddContainer(p, c))
  <2> DEFINE q == AddContainer(p, c)
             s == p.containers
             t == AddNamed(s, c)
  <2>1. q.containers = t /\ \A f \in PodFields : f # "containers" => q[f] = p[f]
    BY <1>1 DEF AddContainer, PodFields
  <2>2. Step(p, q)
    BY AddStep
  <2>3. /\ DOMAIN s \subseteq DOMAIN t /\ \A i \in DOMAIN s : t[i] = s[i]
        /\ \A i \in DOMAIN t \ DOMAIN s : t[i] = c
    <3> DEFINE u == Append(s, c)
               n == Len(s)
    <3>1. n \in Nat /\ DOMAIN s = 1..n /\ DOMAIN u = 1..n + 1 /\ u[n + 1] = c /\ \A i \in 1..n : u[i] = s[i]
      BY <1>1
    <3>2. t \in {s, u}
      BY DEF AddNamed
    <3> HIDE DEF u, n, t, s
    <3>3. (\A i \in 1..n + 1 : i \in 1..n \/ i = n + 1) /\ \A i \in 1..n : i \in 1..n + 1
      BY <3>1
    <3> QED BY <3>1, <3>2, <3>3
  <2> HIDE DEF q, t
  <2>4. /\ q.init = p.init /\ q.namespace = p.namespace /\ q.security = p.security
        /\ q.annotations = p.annotations /\ q.volumes = p.volumes
    BY <2>1 DEF PodFields
  <2> QED BY <1>5, <2>1, <2>2, <2>3, <2>4 DEF After, Beside, Untouched, IsEmptyDirVolume, q, s
<1>6. ASSUME NEW keys \in SUBSET OwnKeys, NEW v \in Text, IsFiniteSet(keys), keys \cap DOMAIN p.annotations = {}
      PROVE  After(p, Annotate(p, keys, v))
  <2> DEFINE q == Annotate(p, keys, v)
             old == p.annotations
             new == [k \in DOMAIN old \cup keys |-> IF k \in keys THEN v ELSE old[k]]
  <2>1. q.annotations = new /\ \A f \in PodFields : f # "annotations" => q[f] = p[f]
    BY <1>1 DEF Annotate, PodFields
  <2>2. Step(p, q)
    <3>1. keys \in SUBSET (Text \X Text)
      BY SidecarsLiterals DEF OwnKeys
    <3> QED BY <1>6, <3>1, AnnotateStep
  <2>3. DOMAIN new = DOMAIN old \cup keys /\ \A k \in DOMAIN old : new[k] = old[k]
    BY <1>6
  <2> HIDE DEF q, new
  <2>4. /\ q.init = p.init /\ q.namespace = p.namespace /\ q.security = p.security
        /\ q.containers = p.containers /\ q.volumes = p.volumes
    BY <2>1 DEF PodFields
  <2> QED BY <2>1, <2>2, <2>3, <2>4 DEF After, Beside, Untouched, IsEmptyDirVolume, q, old
<1> QED BY <1>2, <1>3, <1>4, <1>5, <1>6

-----------------------------------------------------------------------------
(* Shared directories *)

FreeInv(ctx, k, pairs) == pairs \in Seq(VolumeMount) /\ Names(pairs) \cap LibraryVolumes = {}
Freeing == INSTANCE FoldTheory WITH Op <- PairOp, Inv <- FreeInv

\* The volume of a directory that is none of a library's.
LEMMA PairNameFree ==
  ASSUME NEW p, IsPod(p), InPlace(p), NEW path, path \notin LibraryPaths, IsMountPath(p, path)
  PROVE  AllMounts(p)[MountIndex(p, path)].name \notin LibraryVolumes
<1> DEFINE all == AllMounts(p)
           I == {j \in 1..Len(all) : all[j].path = path}
           M == {m \in VolumeMount : m.name \in LibraryVolumes => m.path \in LibraryPaths}
<1>1. MountIndex(p, path) = IF I # {} THEN Min(I) ELSE 0
  BY DEF MountIndex, SelectInSeq
<1>2. all \in Seq(M)
  <2>1. ASSUME NEW k \in DOMAIN p.containers PROVE p.containers[k].mounts \in Seq(M)
    <3> DEFINE s == p.containers[k].mounts
    <3>1. p.containers[k] \in PodContainer
      <4>1. p.containers \in Seq(PodContainer)
        BY PodIs
      <4> QED BY <4>1
    <3>2. s \in Seq(VolumeMount)
      BY <3>1 DEF PodContainer
    <3>3. ToSet(s) \subseteq M
      <4>1. ToSet(s) \subseteq VolumeMount
        <5> HIDE DEF s
        <5> QED BY <3>2 DEF ToSet
      <4> QED BY <4>1 DEF InPlace
    <3> HIDE DEF s, M
    <3> QED BY <3>2, <3>3, SeqOfItself DEF s
  <2> HIDE DEF M
  <2> QED BY <2>1, AllMountsAre
<1>3. Len(all) \in Nat /\ I \in SUBSET (1..Len(all)) /\ \A j \in I : all[j].path = path
  BY <1>2
<1> HIDE DEF I
<1>4. MountIndex(p, path) \in I
  <2>1. I # {}
    BY <1>1 DEF IsMountPath
  <2>2. Min(I) \in I
    BY <1>3, <2>1, MinIs
  <2> QED BY <1>1, <2>1, <2>2
<1>5. all[MountIndex(p, path)] \in M /\ all[MountIndex(p, path)].path = path
  <2> DEFINE j == MountIndex(p, path)
  <2>1. j \in 1..Len(all) /\ all[j].path = path
    BY <1>3, <1>4
  <2> HIDE DEF M, all, j
  <2>2. all[j] \in M
    BY <1>2, <2>1
  <2> QED BY <2>1, <2>2 DEF j
<1> HIDE DEF all
<1> QED BY <1>5 DEF all

\* Directories that are none of a library's are on no volume of a library.
LEMMA PairsAreFree ==
  ASSUME NEW p, IsPod(p), InPlace(p), NEW paths \in Seq(Text), NEW fresh \in Seq(Text),
         Len(paths) <= Len(fresh), ToSet(paths) \cap LibraryPaths = {}, ToSet(fresh) \cap LibraryVolumes = {}
  PROVE  /\ GetVolumePairs(p, paths, fresh) \in Seq(VolumeMount)
         /\ Names(GetVolumePairs(p, paths, fresh)) \cap LibraryVolumes = {}
<1> DEFINE n == Len(paths)
           indices == [i \in DOMAIN paths |-> i]
           ctx == [pod |-> p, paths |-> paths, fresh |-> fresh]
<1>1. n \in Nat /\ DOMAIN paths = 1..n /\ \A k \in 1..n : paths[k] \in Text /\ paths[k] \notin LibraryPaths
  BY DEF ToSet
<1>2. DOMAIN indices = 1..n /\ \A k \in 1..n : indices[k] = k
  BY <1>1
<1>3. \A k \in 1..n : fresh[k] \in Text /\ fresh[k] \notin LibraryVolumes
  BY <1>1 DEF ToSet
<1>4. GetVolumePairs(p, paths, fresh) = Freeing!Fold(ctx, <<>>, indices)
  BY DEF GetVolumePairs, FoldLeftDomain, FoldLeft, MapThenFoldSet, Max, Freeing!Fold, Freeing!Largest,
         PairOp, PairName
<1>5. ctx.pod = p /\ ctx.paths = paths /\ ctx.fresh = fresh
  OBVIOUS
<1> HIDE DEF n, indices, ctx
<1>6. ASSUME NEW k \in 1..n PROVE /\ PairName(p, paths, fresh, k) \in Text
                                  /\ PairName(p, paths, fresh, k) \notin LibraryVolumes
  <2>1. CASE IsMountPath(p, paths[k])
    <3>1. AllMounts(p)[MountIndex(p, paths[k])] \in VolumeMount
      BY <2>1, MountIndexIs
    <3>2. AllMounts(p)[MountIndex(p, paths[k])].name \in Text
      BY <3>1 DEF VolumeMount
    <3>3. PairName(p, paths, fresh, k) = AllMounts(p)[MountIndex(p, paths[k])].name
      BY <2>1 DEF PairName
    <3>4. AllMounts(p)[MountIndex(p, paths[k])].name \notin LibraryVolumes
      BY <1>1, <2>1, PairNameFree
    <3> QED BY <3>2, <3>3, <3>4
  <2>2. CASE ~IsMountPath(p, paths[k])
    BY <1>3, <2>2 DEF PairName
  <2> QED BY <2>1, <2>2
<1>7. FreeInv(ctx, 0, <<>>)
  BY DEF FreeInv, Names
<1>8. ASSUME NEW k \in 1..n, NEW pairs, FreeInv(ctx, k - 1, pairs)
      PROVE  FreeInv(ctx, k, PairOp(ctx, pairs, indices[k]))
  <2> DEFINE m == Mount(PairName(p, paths, fresh, k), paths[k])
  <2>1. m \in VolumeMount /\ m.name \notin LibraryVolumes
    BY <1>1, <1>6 DEF Mount, VolumeMount
  <2>2. PairOp(ctx, pairs, k) \in {pairs, Append(pairs, m)}
    BY <1>5 DEF PairOp
  <2> HIDE DEF m
  <2>3. pairs \in Seq(VolumeMount) /\ Append(pairs, m) \in Seq(VolumeMount)
    BY <1>8, <2>1, AppendProperties DEF FreeInv
  <2>4. Names(Append(pairs, m)) = Names(pairs) \cup {m.name}
    BY <2>1, <2>3, AppendNames
  <2> QED BY <1>2, <1>5, <1>8, <2>1, <2>2, <2>3, <2>4 DEF FreeInv
<1>9. FreeInv(ctx, n, Freeing!Fold(ctx, <<>>, indices))
  BY <1>1, <1>2, <1>7, <1>8, Freeing!FoldKeeps, Least DEF Freeing!Ordered
<1> QED BY <1>4, <1>9 DEF FreeInv

AfterInv(p, k, q) == After(p, q)
Sharing == INSTANCE FoldTheory WITH Op <- VolumeOp, Inv <- AfterInv
Spreading == INSTANCE FoldTheory WITH Op <- MountOp, Inv <- AfterInv

\* To share them touches no library.
LEMMA ShareAfter ==
  ASSUME NEW p, IsPod(p), NEW pairs \in Seq(VolumeMount), Names(pairs) \cap LibraryVolumes = {}
  PROVE  After(p, ShareVolumes(p, pairs))
<1> DEFINE n == Len(pairs)
           q == Sharing!Fold(p, p, pairs)
<1>1. n \in Nat /\ DOMAIN pairs = 1..n /\ \A k \in 1..n : pairs[k] \in VolumeMount /\ pairs[k].name \notin LibraryVolumes
  BY DEF Names
<1> HIDE DEF n
<1>2. AfterInv(p, 0, p)
  BY AfterReflexive DEF AfterInv
<1>3. ASSUME NEW k \in 1..n, NEW a, AfterInv(p, k - 1, a)
      PROVE  AfterInv(p, k, VolumeOp(p, a, pairs[k])) /\ AfterInv(p, k, MountOp(p, a, pairs[k]))
  <2>1. After(p, a) /\ IsPod(a) /\ pairs[k] \in VolumeMount /\ pairs[k].name \notin LibraryVolumes
    BY <1>1, <1>3 DEF AfterInv, After, Step
  <2>2. EmptyDir(pairs[k].name) \in PodVolume /\ EmptyDir(pairs[k].name).name = pairs[k].name
    BY <2>1, EmptyDirIs DEF VolumeMount, EmptyDir, Volume
  <2>3. After(a, VolumeOp(p, a, pairs[k]))
    BY <2>1, <2>2, AfterSteps DEF VolumeOp
  <2>4. After(a, MountOp(p, a, pairs[k]))
    BY <2>1, AfterSteps DEF MountOp
  <2> QED BY <2>1, <2>3, <2>4, AfterTransitive DEF AfterInv
<1>4. AfterInv(p, n, q)
  BY <1>1, <1>2, <1>3, Sharing!FoldKeeps, Least DEF Sharing!Ordered
<1> HIDE DEF q
<1>5. AfterInv(p, 0, q)
  BY <1>4 DEF AfterInv
<1>6. AfterInv(p, n, Spreading!Fold(p, q, pairs))
  BY <1>1, <1>3, <1>5, Spreading!FoldKeeps, Least DEF Spreading!Ordered
<1>7. ShareVolumes(p, pairs) = Spreading!Fold(p, q, pairs)
  BY DEF ShareVolumes, FoldLeft, MapThenFoldSet, Max, Sharing!Fold, Sharing!Largest, VolumeOp, q,
         Spreading!Fold, Spreading!Largest, MountOp
<1> QED BY <1>6, <1>7 DEF AfterInv

-----------------------------------------------------------------------------
(* The sidecars and the collection of logs, after one another *)

\* Each container of a sidecar has a name of its own and no library.
LEMMA NoLibrary ==
  ASSUME NEW c, Names(c.mounts) \cap LibraryVolumes = {}
  PROVE  LibMounts(c) = {}
BY DEF LibMounts, Names, ToSet

\* A container that is added is there, and stays.
LEMMA AddedName ==
  ASSUME NEW p, IsPod(p), NEW c \in PodContainer
  PROVE  c.name \in Names(AddContainer(p, c).containers)
<1>1. DOMAIN p = PodFields /\ p.containers \in Seq(PodContainer)
  BY PodIs
<1>2. AddContainer(p, c).containers = AddNamed(p.containers, c)
  BY <1>1 DEF AddContainer, PodFields
<1> QED BY <1>1, <1>2, AddNamedIs

LEMMA NamesStay ==
  ASSUME NEW p, IsPod(p), NEW q, After(p, q)
  PROVE  Names(p.containers) \subseteq Names(q.containers)
<1>1. p.containers \in Seq(PodContainer) /\ DOMAIN p.containers = 1..Len(p.containers)
  BY PodIs
<1>2. \A i \in DOMAIN p.containers : i \in DOMAIN q.containers /\ q.containers[i].name = p.containers[i].name
  <2> SUFFICES ASSUME NEW i \in DOMAIN p.containers
               PROVE  i \in DOMAIN q.containers /\ q.containers[i].name = p.containers[i].name
    OBVIOUS
  <2>1. Edited(p.containers[i], q.containers[i]) /\ p.containers[i] \in PodContainer
    BY <1>1 DEF After, Step, Extends
  <2>2. i \in DOMAIN q.containers
    BY DEF After, Beside
  <2> QED BY <2>1, <2>2, EditedKeepsName
<1> QED BY <1>2 DEF Names

\* Annotations for Prometheus are added if there are none.
LEMMA PrometheusAfter ==
  ASSUME NEW p, IsPod(p)
  PROVE  After(p, AddPrometheusAnnotations(p))
<1>1. CASE \E key \in DOMAIN p.annotations : key[1] = "prometheus"
  BY <1>1, AfterReflexive DEF AddPrometheusAnnotations
<1>2. CASE ~\E key \in DOMAIN p.annotations : key[1] = "prometheus"
  <2>1. PrometheusKeys \in SUBSET OwnKeys /\ "flameshot" \in Text
    BY SidecarsLiterals DEF OwnKeys
  <2>2. PrometheusKeys \cap DOMAIN p.annotations = {}
    <3>1. \A k \in PrometheusKeys : k[1] = "prometheus"
      BY DEF PrometheusKeys
    <3> QED BY <1>2, <3>1
  <2>3. IsFiniteSet(PrometheusKeys)
    BY PrometheusFinite
  <2>4. AddPrometheusAnnotations(p) = Annotate(p, PrometheusKeys, "flameshot")
    BY <1>2 DEF AddPrometheusAnnotations
  <2> QED BY <2>1, <2>2, <2>3, <2>4, AfterSteps
<1> QED BY <1>1, <1>2

\* Volumes and mounts are no annotations.
SameNotes(p, k, q) == IsPod(q) /\ q.annotations = p.annotations
NotedVolumes == INSTANCE FoldTheory WITH Op <- VolumeOp, Inv <- SameNotes
NotedMounts == INSTANCE FoldTheory WITH Op <- MountOp, Inv <- SameNotes

LEMMA ShareAnnotations ==
  ASSUME NEW p, IsPod(p), NEW pairs \in Seq(VolumeMount)
  PROVE  ShareVolumes(p, pairs).annotations = p.annotations
<1> DEFINE n == Len(pairs)
           q == NotedVolumes!Fold(p, p, pairs)
<1>1. n \in Nat /\ DOMAIN pairs = 1..n /\ \A k \in 1..n : pairs[k] \in VolumeMount
  OBVIOUS
<1> HIDE DEF n
<1>2. SameNotes(p, 0, p)
  BY DEF SameNotes
<1>3. ASSUME NEW k \in 1..n, NEW a, SameNotes(p, k - 1, a)
      PROVE  SameNotes(p, k, VolumeOp(p, a, pairs[k])) /\ SameNotes(p, k, MountOp(p, a, pairs[k]))
  <2>1. IsPod(a) /\ DOMAIN a = PodFields /\ a.annotations = p.annotations /\ pairs[k] \in VolumeMount
    BY <1>1, <1>3, PodIs DEF SameNotes
  <2>2. EmptyDir(pairs[k].name) \in PodVolume
    BY <2>1, EmptyDirIs DEF VolumeMount
  <2>3. IsPod(VolumeOp(p, a, pairs[k]))
    BY <2>1, <2>2, AddStep DEF VolumeOp, Step
  <2>4. IsPod(MountOp(p, a, pairs[k]))
    BY <2>1, MountStep DEF MountOp, Step
  <2>5. VolumeOp(p, a, pairs[k]).annotations = a.annotations
    BY <2>1 DEF VolumeOp, AddVolume, PodFields
  <2>6. MountOp(p, a, pairs[k]).annotations = a.annotations
    BY <2>1 DEF MountOp, AddVolumeMount, EachContainer, PodFields
  <2> QED BY <2>1, <2>3, <2>4, <2>5, <2>6 DEF SameNotes
<1>4. SameNotes(p, n, q)
  BY <1>1, <1>2, <1>3, NotedVolumes!FoldKeeps, Least DEF NotedVolumes!Ordered
<1> HIDE DEF q
<1>5. SameNotes(p, 0, q)
  BY <1>4 DEF SameNotes
<1>6. SameNotes(p, n, NotedMounts!Fold(p, q, pairs))
  BY <1>1, <1>3, <1>5, NotedMounts!FoldKeeps, Least DEF NotedMounts!Ordered
<1>7. ShareVolumes(p, pairs) = NotedMounts!Fold(p, q, pairs)
  BY DEF ShareVolumes, FoldLeft, MapThenFoldSet, Max, NotedVolumes!Fold, NotedVolumes!Largest, VolumeOp, q,
         NotedMounts!Fold, NotedMounts!Largest, MountOp
<1> QED BY <1>6, <1>7 DEF SameNotes

LEMMA LogfwdAfter ==
  ASSUME NEW p, IsPod(p), InPlace(p), PathsApart, NEW rule \in LogfwdRules, LogfwdNamesSuffice(rule),
         ToSet(rule.paths) \cap LibraryPaths = {}
  PROVE  /\ After(p, InjectLogfwd(p, rule))
         /\ LogfwdContainer \in Names(InjectLogfwd(p, rule).containers)
<1>1. PICK paths \in Seq(Text), c \in PodContainer :
        LET pairs == GetVolumePairs(p, paths, LogfwdVolumes)
        IN  /\ InjectLogfwd(p, rule) =
                 AddContainer(AddVolume(ShareVolumes(p, pairs), Volume(PodInfo, "downwardAPI")), c)
            /\ Len(paths) <= Len(LogfwdVolumes)
            /\ ToSet(paths) \subseteq ToSet(rule.paths) \cup ConfiguredPaths
            /\ c.name = LogfwdContainer /\ c.declares
            /\ Names(c.mounts) \subseteq Names(pairs) \cup {PodInfoMount.name}
  BY LogfwdParts
<1> DEFINE pairs == GetVolumePairs(p, paths, LogfwdVolumes)
           info == Volume(PodInfo, "downwardAPI")
           q == ShareVolumes(p, pairs)
           r == AddVolume(q, info)
           s == AddContainer(r, c)
<1>2. InjectLogfwd(p, rule) = s /\ Names(c.mounts) \subseteq Names(pairs) \cup {PodInfoMount.name}
  BY <1>1
<1>3. pairs \in Seq(VolumeMount) /\ Names(pairs) \cap LibraryVolumes = {}
  <2>1. ToSet(paths) \cap LibraryPaths = {}
    BY <1>1 DEF PathsApart, ConfiguredPaths
  <2>2. LogfwdVolumes \in Seq(Text) /\ ToSet(LogfwdVolumes) \cap LibraryVolumes = {}
    BY PathsAssumption, NewNames
  <2> QED BY <1>1, <2>1, <2>2, PairsAreFree
<1> HIDE DEF pairs
<1>4. After(p, q)
  BY <1>3, ShareAfter
<1> HIDE DEF q
<1>5. After(q, r)
  <2>1. info \in PodVolume
    BY SidecarsLiterals, PodsLiterals DEF Volume, PodVolume
  <2>2. info.name \notin LibraryVolumes
    BY OtherNames DEF Volume, PodInfoMount, Mount
  <2> HIDE DEF info
  <2> QED BY <1>4, <2>1, <2>2, AfterSteps DEF After, Step
<1> HIDE DEF r
<1>6. IsPod(r)
  BY <1>5 DEF After, Step
<1>7. After(r, s)
  <2>1. LibMounts(c) = {}
    BY <1>2, <1>3, OtherNames, NoLibrary
  <2> QED BY <1>1, <1>6, <2>1, AfterSteps
<1>8. LogfwdContainer \in Names(s.containers)
  BY <1>1, <1>6, AddedName
<1> HIDE DEF s
<1> QED BY <1>2, <1>4, <1>5, <1>7, <1>8, AfterTransitive

LEMMA FlameshotAfter ==
  ASSUME NEW p, IsPod(p), NEW rule \in FlameshotRules, NEW envs \in Seq(EnvVar),
         EnvIndex(envs, ProfilingPath) # 0
  PROVE  /\ After(p, InjectFlameshot(p, rule, envs))
         /\ FlameshotContainer \in Names(InjectFlameshot(p, rule, envs).containers)
<1> DEFINE container == Container(FlameshotContainer, Image(rule.image, Blank), Blank, envs, <<>>)
           q == ResetSpec(p)
           r == AddContainer(q, container)
           s == AddVolume(r, EmptyDir(FlameshotVolume))
           m == Mount(FlameshotVolume, FlameshotPath(envs))
           t == AddVolumeMount(s, m)
           u == InjectFlameshot(p, rule, envs)
<1>1. u \in {t, AddPrometheusAnnotations(t)}
  BY DEF InjectFlameshot
<1>2. {FlameshotContainer, FlameshotVolume, Blank} \subseteq Text /\ FlameshotVolume \notin LibraryVolumes
  BY PodsLiterals, SidecarsLiterals, OtherNames
<1>3. container \in PodContainer
  <2> DEFINE image == Image(rule.image, Blank)
             mounts == <<>>
  <2>1. image \in [of: Text, version: Text]
    BY <1>2 DEF Image, FlameshotRules
  <2>2. mounts \in Seq(VolumeMount)
    OBVIOUS
  <2> HIDE DEF image, mounts
  <2> QED BY <1>2, <2>1, <2>2, ContainerIs DEF image, mounts
<1>4. container.name = FlameshotContainer /\ container.declares /\ LibMounts(container) = {}
  BY DEF Container, LibMounts, ToSet
<1> HIDE DEF container, u
<1>5. After(p, q)
  BY AfterSteps
<1> HIDE DEF q
<1>6. After(q, r) /\ container.name \in Names(r.containers)
  BY <1>3, <1>4, <1>5, AfterSteps, AddedName DEF After, Step
<1> HIDE DEF r
<1>7. After(r, s)
  <2>1. EmptyDir(FlameshotVolume) \in PodVolume /\ EmptyDir(FlameshotVolume).name = FlameshotVolume
    BY <1>2, EmptyDirIs DEF EmptyDir, Volume
  <2> QED BY <1>2, <1>6, <2>1, AfterSteps DEF After, Step
<1> HIDE DEF s
<1>8. After(s, t)
  <2>1. m \in VolumeMount /\ m.name = FlameshotVolume
    BY <1>2, FlameshotPathIs DEF Mount, VolumeMount
  <2> HIDE DEF m
  <2> QED BY <1>2, <1>7, <2>1, AfterSteps DEF After, Step
<1> HIDE DEF t
<1>9. After(t, AddPrometheusAnnotations(t))
  BY <1>8, PrometheusAfter DEF After, Step
<1>10. After(t, u)
  BY <1>1, <1>8, <1>9, AfterReflexive DEF After, Step
<1>11. After(r, u)
  BY <1>6, <1>7, <1>8, <1>10, AfterTransitive DEF After, Step
<1>12. After(p, u)
  BY <1>5, <1>6, <1>11, AfterTransitive
<1>13. container.name \in Names(u.containers)
  BY <1>6, <1>11, NamesStay DEF After, Step
<1> QED BY <1>4, <1>12, <1>13 DEF u

LEMMA FreeMountAfter ==
  ASSUME NEW p, IsPod(p), NEW m \in VolumeMount, m.name \notin LibraryVolumes
  PROVE  After(p, AddMountIfFree(p, m))
BY AfterReflexive, AfterSteps DEF AddMountIfFree

ThreeAfter == INSTANCE FoldTheory WITH Op <- ThreeOp, Inv <- AfterInv

LEMMA ProfilerAfter ==
  ASSUME NEW p, IsPod(p), NEW rule \in ProfilerRules, NEW image \in [of: Text, version: Text]
  PROVE  /\ After(p, InjectProfiler(p, rule, image))
         /\ ProfilerContainer \in Names(InjectProfiler(p, rule, image).containers)
<1> DEFINE q == ResetSpec(p)
           envs == SidecarEnvs(rule, q)
           container == Container(ProfilerContainer, image, Blank, envs, <<>>)
           r == AddContainer(q, container)
           volumes == <<EmptyDir(ProfilerMount.name), EmptyDir(TmpMount.name),
                        Volume(TimezoneMount.name, "hostPath")>>
           s == ThreeAfter!Fold(r, r, volumes)
           t == AddVolumeMount(s, ProfilerMount)
           u == AddMountIfFree(t, TmpMount)
           w == AddMountIfFree(u, TimezoneMount)
<1>1. InjectProfiler(p, rule, image) = w
  BY DEF InjectProfiler, FoldLeft, MapThenFoldSet, Max, ThreeAfter!Fold, ThreeAfter!Largest, ThreeOp
<1>2. /\ {ProfilerMount, TmpMount, TimezoneMount} \subseteq VolumeMount
      /\ ProfilerContainer \in Text /\ Blank \in Text
  BY PodsLiterals, SidecarsLiterals
<1>21. \A m \in {ProfilerMount, TmpMount, TimezoneMount} : m.name \notin LibraryVolumes
  BY OtherNames
<1>3. After(p, q)
  BY AfterSteps
<1> HIDE DEF q
<1>4. container \in PodContainer
  <2> DEFINE mounts == <<>>
  <2>1. envs \in Seq(EnvVar)
    <3>1. rule.envs \in Seq(EnvVar)
      BY DEF ProfilerRules
    <3> QED BY <3>1, SidecarEnvsAre
  <2>2. mounts \in Seq(VolumeMount)
    OBVIOUS
  <2> HIDE DEF envs, mounts
  <2> QED BY <1>2, <2>1, <2>2, ContainerIs DEF mounts
<1>41. container.name = ProfilerContainer /\ container.declares /\ LibMounts(container) = {}
  BY DEF Container, LibMounts, ToSet
<1> HIDE DEF container
<1>5. After(q, r) /\ container.name \in Names(r.containers)
  BY <1>3, <1>4, <1>41, AfterSteps, AddedName DEF After, Step
<1> HIDE DEF r
<1>6. After(r, s)
  <2>1. ProfilerMount.name \in Text /\ TmpMount.name \in Text /\ TimezoneMount.name \in Text
    BY <1>2 DEF VolumeMount
  <2>2. \A n \in Text : EmptyDir(n) \in PodVolume /\ EmptyDir(n).name = n
    BY EmptyDirIs DEF EmptyDir, Volume
  <2>3. Volume(TimezoneMount.name, "hostPath") \in PodVolume /\ Volume(TimezoneMount.name, "hostPath").name = TimezoneMount.name
    BY <2>1, PodsLiterals DEF Volume, PodVolume
  <2>4. DOMAIN volumes = 1..3 /\ \A k \in 1..3 : volumes[k] \in PodVolume /\ volumes[k].name \notin LibraryVolumes
    BY <1>21, <2>1, <2>2, <2>3
  <2> HIDE DEF volumes
  <2>5. AfterInv(r, 0, r)
    BY <1>5, AfterReflexive DEF AfterInv, After, Step
  <2>6. ASSUME NEW k \in 1..3, NEW a, AfterInv(r, k - 1, a)
        PROVE  AfterInv(r, k, ThreeOp(r, a, volumes[k]))
    <3>1. After(r, a) /\ IsPod(a) /\ IsPod(r)
      BY <1>5, <2>6 DEF AfterInv, After, Step
    <3>2. After(a, AddVolume(a, volumes[k]))
      BY <2>4, <3>1, AfterSteps
    <3> QED BY <3>1, <3>2, AfterTransitive DEF AfterInv, ThreeOp
  <2>7. 3 \in Nat
    OBVIOUS
  <2>8. AfterInv(r, 3, s)
    BY <2>4, <2>5, <2>6, <2>7, ThreeAfter!FoldKeeps, Least DEF ThreeAfter!Ordered
  <2> QED BY <2>8 DEF AfterInv
<1> HIDE DEF s
<1>7. After(s, t)
  BY <1>2, <1>21, <1>6, AfterSteps DEF After, Step
<1> HIDE DEF t
<1>8. After(t, u)
  BY <1>2, <1>21, <1>7, FreeMountAfter DEF After, Step
<1> HIDE DEF u
<1>9. After(u, w)
  BY <1>2, <1>21, <1>8, FreeMountAfter DEF After, Step
<1> HIDE DEF w
<1>10. After(r, w)
  BY <1>5, <1>6, <1>7, <1>8, <1>9, AfterTransitive DEF After, Step
<1>11. After(p, w)
  BY <1>3, <1>5, <1>10, AfterTransitive
<1>12. container.name \in Names(w.containers)
  BY <1>5, <1>10, NamesStay DEF After, Step
<1> QED BY <1>1, <1>11, <1>12, <1>41

LEMMA LoggingAfter ==
  ASSUME NEW p, IsPod(p), InPlace(p), PathsApart, NEW config \in DOMAIN PathsOf, ~Annotated(p, Logs),
         \A l \in Lengths : l <= Len(LogsVolumes)
  PROVE  LET q == ShareVolumes(p, GetVolumePairs(p, Unique(PathsOf[config]), LogsVolumes))
         IN  After(p, Annotate(q, {Logs}, config)) /\ Annotated(Annotate(q, {Logs}, config), Logs)
<1> DEFINE all == PathsOf[config]
           paths == Unique(all)
           pairs == GetVolumePairs(p, paths, LogsVolumes)
           q == ShareVolumes(p, pairs)
           r == Annotate(q, {Logs}, config)
<1>1. all \in Seq(Text) /\ config \in Text /\ LogsVolumes \in Seq(Text) /\ Len(all) <= Len(LogsVolumes)
  BY PathsAssumption DEF Lengths
<1>2. ToSet(all) \cap LibraryPaths = {}
  BY DEF PathsApart
<1> HIDE DEF all
<1>3. paths \in Seq(Text) /\ Len(paths) <= Len(LogsVolumes) /\ ToSet(paths) \cap LibraryPaths = {}
  <2>1. paths \in Seq(Text) /\ Len(paths) <= Len(all)
    BY <1>1, UniqueIs
  <2>2. all \in Seq(ToSet(all))
    BY <1>1, SeqOfItself
  <2>3. ToSet(paths) \subseteq ToSet(all)
    BY <2>2, UniqueSubset
  <2> HIDE DEF paths
  <2>4. Len(paths) \in Nat /\ Len(all) \in Nat /\ Len(LogsVolumes) \in Nat
    BY <1>1, <2>1
  <2> QED BY <1>1, <1>2, <2>1, <2>3, <2>4
<1> HIDE DEF paths
<1>4. pairs \in Seq(VolumeMount) /\ Names(pairs) \cap LibraryVolumes = {}
  <2>1. ToSet(LogsVolumes) \cap LibraryVolumes = {}
    BY NewNames
  <2> QED BY <1>1, <1>3, <2>1, PairsAreFree
<1> HIDE DEF pairs
<1>5. After(p, q)
  BY <1>4, ShareAfter
<1>6. q.annotations = p.annotations
  BY <1>4, ShareAnnotations
<1> HIDE DEF q
<1>7. After(q, r)
  <2>1. {Logs} \in SUBSET OwnKeys /\ IsFiniteSet({Logs}) /\ {Logs} \cap DOMAIN q.annotations = {}
    BY <1>6, FS_Singleton DEF OwnKeys, Annotated
  <2> QED BY <1>1, <1>5, <2>1, AfterSteps DEF After, Step
<1>8. Annotated(r, Logs)
  <2>1. DOMAIN q = PodFields
    BY <1>5, PodIs DEF After, Step
  <2> QED BY <2>1 DEF Annotated, Annotate, PodFields
<1> HIDE DEF r
<1>9. After(p, r)
  BY <1>5, <1>7, AfterTransitive
<1> QED BY <1>8, <1>9 DEF r, q, pairs, paths, all

-----------------------------------------------------------------------------
(* The first variable of a name *)

First(envs, k, x) == EnvIndex(envs, k) # 0 /\ envs[EnvIndex(envs, k)] = x

\* It is the one that none of that name is before.
LEMMA FirstIs ==
  ASSUME NEW envs \in Seq(EnvVar), NEW k, NEW x
  PROVE  First(envs, k, x) <=> \E i \in 1..Len(envs) : /\ envs[i] = x /\ x.name = k
                                                     /\ \A j \in 1..i - 1 : envs[j].name # k
<1> DEFINE n == EnvIndex(envs, k)
<1>1. /\ n \in 0..Len(envs) /\ (n # 0 => envs[n].name = k)
      /\ \A j \in 1..Len(envs) : envs[j].name = k => n # 0 /\ n <= j
      /\ Len(envs) \in Nat
  BY EnvIndexIs
<1> HIDE DEF n
<1>2. ASSUME First(envs, k, x)
      PROVE  \E i \in 1..Len(envs) : envs[i] = x /\ x.name = k /\ \A j \in 1..i - 1 : envs[j].name # k
  <2>1. n \in 1..Len(envs) /\ envs[n] = x /\ x.name = k
    BY <1>1, <1>2 DEF First, n
  <2>2. \A j \in 1..n - 1 : j \in 1..Len(envs) /\ ~(n <= j)
    BY <1>1
  <2> QED BY <1>1, <2>1, <2>2
<1>3. ASSUME NEW i \in 1..Len(envs), envs[i] = x, x.name = k, \A j \in 1..i - 1 : envs[j].name # k
      PROVE  First(envs, k, x)
  <2>1. n # 0 /\ n <= i /\ envs[n].name = k
    BY <1>1, <1>3
  <2>2. n = i
    <3>1. n \notin 1..i - 1
      BY <1>3, <2>1
    <3> QED BY <1>1, <2>1, <3>1
  <2> QED BY <1>3, <2>1, <2>2 DEF First, n
<1> QED BY <1>2, <1>3

\* It is only there if it is there.
LEMMA FirstExists ==
  ASSUME NEW envs \in Seq(EnvVar), NEW k
  PROVE  /\ EnvIndex(envs, k) # 0 => First(envs, k, envs[EnvIndex(envs, k)]) /\ envs[EnvIndex(envs, k)] \in EnvVar
         /\ EnvIndex(envs, k) # 0 <=> \E i \in 1..Len(envs) : envs[i].name = k
<1>1. /\ EnvIndex(envs, k) \in 0..Len(envs) /\ (EnvIndex(envs, k) # 0 => envs[EnvIndex(envs, k)].name = k)
      /\ \A j \in 1..Len(envs) : envs[j].name = k => EnvIndex(envs, k) # 0
  BY EnvIndexIs
<1>2. EnvIndex(envs, k) # 0 => EnvIndex(envs, k) \in 1..Len(envs) /\ Len(envs) \in Nat
  BY <1>1
<1> QED BY <1>1, <1>2 DEF First

\* It stays the first when a variable is appended,
LEMMA FirstAppended ==
  ASSUME NEW envs \in Seq(EnvVar), NEW e \in EnvVar
  PROVE  /\ \A k, x : First(envs, k, x) => First(Append(envs, e), k, x)
         /\ \A k : k # e.name /\ EnvIndex(envs, k) = 0 => EnvIndex(Append(envs, e), k) = 0
         /\ EnvIndex(envs, e.name) = 0 => First(Append(envs, e), e.name, e)
<1> DEFINE n == Len(envs)
           t == Append(envs, e)
<1>1. n \in Nat /\ t \in Seq(EnvVar) /\ Len(t) = n + 1 /\ t[n + 1] = e /\ \A i \in 1..n : t[i] = envs[i]
  BY AppendProperties
<1> HIDE DEF n, t
<1>2. ASSUME NEW k, NEW x, First(envs, k, x) PROVE First(t, k, x)
  <2>1. PICK i \in 1..n : envs[i] = x /\ x.name = k /\ \A j \in 1..i - 1 : envs[j].name # k
    BY <1>2, FirstIs DEF n
  <2>2. i \in 1..Len(t) /\ \A j \in 1..i - 1 : j \in 1..n
    BY <1>1
  <2>3. t[i] = x /\ x.name = k /\ \A j \in 1..i - 1 : t[j].name # k
    BY <1>1, <2>1, <2>2
  <2> QED BY <1>1, <2>2, <2>3, FirstIs
<1>3. ASSUME EnvIndex(envs, e.name) = 0 PROVE First(t, e.name, e)
  <2>1. \A j \in 1..n : envs[j].name # e.name
    BY <1>3, FirstExists DEF n
  <2>2. n + 1 \in 1..Len(t) /\ \A j \in 1..(n + 1) - 1 : j \in 1..n
    BY <1>1
  <2>3. t[n + 1] = e /\ \A j \in 1..(n + 1) - 1 : t[j].name # e.name
    BY <1>1, <2>1, <2>2
  <2> QED BY <1>1, <2>2, <2>3, FirstIs
<1>4. ASSUME NEW k, k # e.name, EnvIndex(envs, k) = 0 PROVE EnvIndex(t, k) = 0
  <2>1. \A i \in 1..n : envs[i].name # k
    BY <1>4, FirstExists DEF n
  <2>2. \A i \in 1..Len(t) : i \in 1..n \/ i = n + 1
    BY <1>1
  <2>3. \A i \in 1..Len(t) : t[i].name # k
    BY <1>1, <1>4, <2>1, <2>2
  <2> QED BY <1>1, <2>3, FirstExists
<1> QED BY <1>2, <1>3, <1>4 DEF t

\* when another one is replaced by one of the same name,
LEMMA FirstReplaced ==
  ASSUME NEW envs \in Seq(EnvVar), NEW n, EnvIndex(envs, n) # 0, NEW e \in EnvVar, e.name = n
  PROVE  /\ [envs EXCEPT ![EnvIndex(envs, n)] = e] \in Seq(EnvVar)
         /\ \A k, x : First(envs, k, x) /\ k # n => First([envs EXCEPT ![EnvIndex(envs, n)] = e], k, x)
         /\ \A k : EnvIndex(envs, k) = 0 => EnvIndex([envs EXCEPT ![EnvIndex(envs, n)] = e], k) = 0
         /\ First([envs EXCEPT ![EnvIndex(envs, n)] = e], n, e)
<1> DEFINE m == EnvIndex(envs, n)
           t == [envs EXCEPT ![m] = e]
<1>1. m \in 1..Len(envs) /\ First(envs, n, envs[m]) /\ Len(envs) \in Nat
  BY EnvIndexIs, FirstExists
<1>2. envs[m].name = n
  BY EnvIndexIs
<1> HIDE DEF m
<1>3. t \in Seq(EnvVar) /\ Len(t) = Len(envs) /\ \A j \in 1..Len(envs) : t[j] = IF j = m THEN e ELSE envs[j]
  BY <1>1, ExceptSeq
<1> HIDE DEF t
<1>4. \A j \in 1..Len(envs) : t[j].name = envs[j].name
  BY <1>2, <1>3
<1>5. ASSUME NEW k, NEW x, First(envs, k, x), k # n PROVE First(t, k, x)
  <2>1. PICK i \in 1..Len(envs) : envs[i] = x /\ x.name = k /\ \A j \in 1..i - 1 : envs[j].name # k
    BY <1>5, FirstIs
  <2>2. \A j \in 1..i - 1 : j \in 1..Len(envs)
    BY <1>1
  <2>3. t[i] = x
    BY <1>2, <1>3, <1>5, <2>1
  <2>4. \A j \in 1..i - 1 : t[j].name # k
    BY <1>4, <2>1, <2>2
  <2> QED BY <1>3, <2>1, <2>3, <2>4, FirstIs
<1>6. First(t, n, e)
  <2>1. PICK i \in 1..Len(envs) : envs[i] = envs[m] /\ envs[m].name = n /\ \A j \in 1..i - 1 : envs[j].name # n
    BY <1>1, FirstIs
  <2>2. \A j \in 1..m - 1 : j \in 1..Len(envs) /\ envs[j].name # n
    BY <1>1, EnvIndexIs DEF m
  <2>3. \A j \in 1..m - 1 : t[j].name # n
    BY <1>4, <2>2
  <2> QED BY <1>1, <1>3, <2>3, FirstIs
<1>7. ASSUME NEW k, EnvIndex(envs, k) = 0 PROVE EnvIndex(t, k) = 0
  <2>1. \A i \in 1..Len(envs) : envs[i].name # k
    BY <1>7, FirstExists
  <2>2. \A i \in 1..Len(t) : t[i].name # k
    BY <1>3, <1>4, <2>1
  <2> QED BY <1>3, <2>2, FirstExists
<1> QED BY <1>3, <1>5, <1>6, <1>7 DEF t, m

\* and when one of another name is taken out.
LEMMA FirstRemoved ==
  ASSUME NEW envs \in Seq(EnvVar), NEW m \in 1..Len(envs)
  PROVE  /\ RemoveAt(envs, m) \in Seq(EnvVar)
         /\ \A k, x : First(envs, k, x) /\ k # envs[m].name => First(RemoveAt(envs, m), k, x)
<1> DEFINE a == SubSeq(envs, 1, m - 1)
           b == SubSeq(envs, m + 1, Len(envs))
           t == a \o b
<1>1. Len(envs) \in Nat /\ m \in Nat /\ m >= 1 /\ m <= Len(envs)
  OBVIOUS
<1>2. /\ a \in Seq(EnvVar) /\ Len(a) = m - 1 /\ \A i \in 1..m - 1 : a[i] = envs[i]
      /\ b \in Seq(EnvVar) /\ Len(b) = Len(envs) - m /\ \A i \in 1..Len(envs) - m : b[i] = envs[m + i]
  <2>1. a \in Seq(EnvVar) /\ Len(a) = m - 1 /\ \A i \in 1..m - 1 : a[i] = envs[i]
    BY <1>1, SubSeqProperties
  <2>2. b \in Seq(EnvVar) /\ Len(b) = Len(envs) - m /\ \A i \in 1..Len(envs) - m : b[i] = envs[m + i]
    BY <1>1, SubSeqProperties
  <2> QED BY <2>1, <2>2
<1> HIDE DEF a, b
<1>3. /\ t \in Seq(EnvVar) /\ Len(t) = Len(envs) - 1
      /\ \A i \in 1..m - 1 : t[i] = envs[i]
      /\ \A i \in m..Len(envs) - 1 : t[i] = envs[i + 1]
  <2>1. t \in Seq(EnvVar) /\ Len(t) = Len(a) + Len(b)
    BY <1>2, ConcatProperties
  <2>2. \A i \in 1..Len(t) : t[i] = IF i <= Len(a) THEN a[i] ELSE b[i - Len(a)]
    BY <1>2, ConcatProperties
  <2> HIDE DEF t
  <2>3. \A i \in 1..m - 1 : t[i] = envs[i]
    BY <1>1, <1>2, <2>1, <2>2
  <2>4. ASSUME NEW i \in m..Len(envs) - 1 PROVE t[i] = envs[i + 1]
    <3>1. i \in 1..Len(t) /\ ~(i <= Len(a)) /\ i - Len(a) \in 1..Len(envs) - m /\ m + (i - Len(a)) = i + 1
      BY <1>1, <1>2, <2>1
    <3> QED BY <1>2, <2>2, <3>1
  <2> QED BY <1>1, <1>2, <2>1, <2>3, <2>4
<1> HIDE DEF t
<1>4. ASSUME NEW k, NEW x, First(envs, k, x), k # envs[m].name PROVE First(t, k, x)
  <2>1. PICK i \in 1..Len(envs) : envs[i] = x /\ x.name = k /\ \A j \in 1..i - 1 : envs[j].name # k
    BY <1>4, FirstIs
  <2>2. i # m
    BY <1>4, <2>1
  <2>3. CASE i < m
    <3>1. i \in 1..Len(t) /\ i \in 1..m - 1 /\ \A j \in 1..i - 1 : j \in 1..m - 1
      BY <1>1, <1>3, <2>3
    <3>2. t[i] = x /\ \A j \in 1..i - 1 : t[j].name # k
      BY <1>3, <2>1, <3>1
    <3> QED BY <1>3, <2>1, <3>1, <3>2, FirstIs
  <2>4. CASE i > m
    <3>1. /\ i - 1 \in 1..Len(t) /\ i - 1 \in m..Len(envs) - 1 /\ (i - 1) + 1 = i
          /\ \A j \in 1..(i - 1) - 1 : \/ (j \in 1..m - 1 /\ j \in 1..i - 1)
                                      \/ (j \in m..Len(envs) - 1 /\ j + 1 \in 1..i - 1)
      BY <1>1, <1>3, <2>4
    <3>2. t[i - 1] = x
      BY <1>3, <2>1, <3>1
    <3>3. \A j \in 1..(i - 1) - 1 : t[j].name # k
      BY <1>3, <2>1, <3>1
    <3> QED BY <1>3, <2>1, <3>1, <3>2, <3>3, FirstIs
  <2> QED BY <1>1, <2>2, <2>3, <2>4
<1>5. RemoveAt(envs, m) = t
  BY DEF RemoveAt, t, a, b
<1> QED BY <1>3, <1>4, <1>5

-----------------------------------------------------------------------------
(* What DDTrace makes of a container *)

\* A variable that loads the library.
Carries(k, x) ==
  /\ x.kind = "plain" /\ x.value # <<>>
  /\ k # "DD_LOADER_PACKAGE_PATH" => DDToken[k] \in ToSet(x.value)

\* The value that is written does.
LEMMA DDValueCarries ==
  ASSUME NEW key \in DOMAIN DDToken, NEW value \in Seq(Text)
  PROVE  /\ DDValue(key, value) # <<>>
         /\ key # "DD_LOADER_PACKAGE_PATH" => DDToken[key] \in ToSet(DDValue(key, value))
<1> DEFINE t == DDToken[key]
<1>1. t \in Text /\ ConfD \in Text
  BY TracingLiterals
<1> HIDE DEF t
<1> DEFINE n == Len(value)
           a == <<t>> \o value
           b == <<ConfD, t>>
           c == Append(value, t)
<1>2. DDValue(key, value) = a \/ DDValue(key, value) = b \/ DDValue(key, value) = c
      \/ /\ DDValue(key, value) = value
         /\ t \in ToSet(value) \/ (key = "DD_LOADER_PACKAGE_PATH" /\ value # <<>>)
  BY DEF DDValue, t
<1>3. a # <<>> /\ t \in ToSet(a)
  <2> DEFINE u == <<t>>
  <2>1. u \in Seq(Text) /\ Len(u) = 1 /\ u[1] = t
    BY <1>1
  <2> HIDE DEF u
  <2>2. /\ a \in Seq(Text) /\ Len(a) = Len(u) + n
        /\ \A i \in 1..Len(a) : a[i] = IF i <= Len(u) THEN u[i] ELSE value[i - Len(u)]
    BY <2>1, ConcatProperties DEF u
  <2>3. n \in Nat
    OBVIOUS
  <2> HIDE DEF a, n
  <2>4. 1 \in 1..Len(a) /\ a[1] = t
    BY <2>1, <2>2, <2>3
  <2>5. 1 \in DOMAIN a
    BY <2>2, <2>4
  <2> QED BY <2>2, <2>4, <2>5 DEF ToSet
<1>4. b # <<>> /\ t \in ToSet(b)
  <2>1. b # <<>> /\ 2 \in DOMAIN b /\ b[2] = t
    OBVIOUS
  <2> HIDE DEF b
  <2> QED BY <2>1 DEF ToSet
<1>5. c # <<>> /\ t \in ToSet(c)
  <2>1. c \in Seq(Text) /\ Len(c) = n + 1 /\ c[n + 1] = t /\ n \in Nat
    BY <1>1, AppendProperties
  <2> HIDE DEF c, n
  <2>2. n + 1 \in DOMAIN c
    BY <2>1
  <2> QED BY <2>1, <2>2 DEF ToSet
<1>6. t \in ToSet(value) => value # <<>>
  BY DEF ToSet
<1> HIDE DEF a, b, c
<1> QED BY <1>2, <1>3, <1>4, <1>5, <1>6 DEF t

\* The variable loads the library, and any other one stays the first of its name.
LEMMA LoadDDFirst ==
  ASSUME NEW c \in PodContainer, NEW key \in DOMAIN DDToken
  PROVE  /\ ~IsSourced(c, key) => \E x : First(LoadDD(c, key).env, key, x) /\ Carries(key, x)
         /\ \A k, x : First(c.env, k, x) /\ k # key => First(LoadDD(c, key).env, k, x)
         /\ \A k : EnvIndex(c.env, k) = 0 /\ k # key => EnvIndex(LoadDD(c, key).env, k) = 0
<1> DEFINE envs == c.env
           i == EnvIndex(envs, key)
           e == Plain(key, DDValue(key, <<>>))
           new == [envs[i] EXCEPT !.value = DDValue(key, @)]
           list == IF i = 0 THEN Append(envs, e) ELSE [envs EXCEPT ![i] = new]
<1>1. envs \in Seq(EnvVar)
  BY DEF PodContainer
<1>2. e \in EnvVar /\ e.name = key /\ Carries(key, e)
  <2>1. <<>> \in Seq(Text)
    OBVIOUS
  <2>2. DDValue(key, <<>>) \in Seq(Text) /\ key \in Text
    BY <2>1, DDValueIs, TracingLiterals
  <2>3. /\ DDValue(key, <<>>) # <<>>
        /\ key # "DD_LOADER_PACKAGE_PATH" => DDToken[key] \in ToSet(DDValue(key, <<>>))
    BY <2>1, DDValueCarries
  <2> DEFINE w == DDValue(key, <<>>)
  <2> HIDE DEF w
  <2> QED BY <2>2, <2>3 DEF Plain, Env, EnvVar, Kinds, Carries, w
<1>3. LoadDD(c, key).env = list
  <2>1. AddOrUpdateEnvVar(envs, e, LAMBDA old, n : [old EXCEPT !.value = DDValue(key, @)]) = list
    BY <1>2 DEF AddOrUpdateEnvVar
  <2>2. LoadDD(c, key) = [c EXCEPT !.env = list]
    BY <2>1 DEF LoadDD
  <2> HIDE DEF list
  <2> QED BY <2>2 DEF PodContainer
<1> HIDE DEF e
<1>4. CASE i = 0
  <2>1. list = Append(envs, e)
    BY <1>4
  <2> HIDE DEF i, list, envs
  <2> QED BY <1>1, <1>2, <1>3, <1>4, <2>1, FirstAppended DEF i, envs
<1>5. CASE i # 0
  <2>1. envs[i] \in EnvVar /\ First(envs, key, envs[i]) /\ envs[i].name = key
    BY <1>1, <1>5, FirstExists, EnvIndexIs
  <2>2. envs[i].value \in Seq(Text)
    BY <2>1 DEF EnvVar
  <2>3. /\ DDValue(key, envs[i].value) \in Seq(Text) /\ DDValue(key, envs[i].value) # <<>>
        /\ key # "DD_LOADER_PACKAGE_PATH" => DDToken[key] \in ToSet(DDValue(key, envs[i].value))
    BY <2>2, DDValueIs, DDValueCarries
  <2> DEFINE old == envs[i]
             w == DDValue(key, old.value)
  <2>4. new = [old EXCEPT !.value = w]
    OBVIOUS
  <2> HIDE DEF old, w
  <2>5. [old EXCEPT !.value = w] \in EnvVar /\ [old EXCEPT !.value = w].name = key
    BY <2>1, <2>3 DEF EnvVar, old, w
  <2>6. old.kind = "plain" => Carries(key, [old EXCEPT !.value = w])
    <3>1. [old EXCEPT !.value = w].kind = old.kind /\ [old EXCEPT !.value = w].value = w
      BY <2>1 DEF EnvVar, old
    <3> DEFINE x == [old EXCEPT !.value = w]
    <3> HIDE DEF x
    <3>2. x.kind = old.kind /\ x.value = w
      BY <3>1 DEF x
    <3>3. old.kind = "plain" => Carries(key, x)
      BY <2>3, <3>2 DEF Carries, w, old
    <3> QED BY <3>3 DEF x
  <2>7. ~IsSourced(c, key) => old.kind = "plain"
    BY <1>5 DEF IsSourced, old
  <2>8. list = [envs EXCEPT ![i] = new] /\ new \in EnvVar /\ new.name = key
    BY <1>5, <2>4, <2>5
  <2>9. ~IsSourced(c, key) => Carries(key, new)
    BY <2>4, <2>6, <2>7
  <2> HIDE DEF list, new
  <2>10. /\ \A k, x : First(envs, k, x) /\ k # key => First(list, k, x)
         /\ \A k : EnvIndex(envs, k) = 0 => EnvIndex(list, k) = 0
         /\ First(list, key, new)
    BY <1>1, <1>5, <2>8, FirstReplaced
  <2> QED BY <1>3, <2>9, <2>10
<1> QED BY <1>4, <1>5

\* A variable of a rule displaces no other but the tags.
LEMMA GlobalFirst ==
  ASSUME NEW envs \in Seq(EnvVar), NEW e \in EnvVar, NEW k, k # "DD_TAGS", NEW x, First(envs, k, x)
  PROVE  First(AddGlobalEnv(envs, e), k, x)
<1>1. First(Append(envs, e), k, x)
  BY FirstAppended
<1>2. CASE e.name # "DD_TAGS"
  <2> DEFINE i == EnvIndex(envs, e.name)
             t == [envs EXCEPT ![i] = envs[i]]
  <2>1. AddGlobalEnv(envs, e) = IF i = 0 THEN Append(envs, e) ELSE t
    BY <1>2 DEF AddGlobalEnv, AddOrUpdateEnvVar, KeepExistingEnvVar
  <2>2. t = envs
    OBVIOUS
  <2> QED BY <1>1, <2>1, <2>2
<1>3. CASE e.name = "DD_TAGS"
  <2> DEFINE i == EnvIndex(envs, "DD_TAGS")
             rest == RemoveAt(envs, i)
             merged == [e EXCEPT !.value = AppendKVPairs(envs[i].value, @)]
  <2>1. AddGlobalEnv(envs, e) \in {envs, Append(envs, e)}
        \/ (i # 0 /\ AddGlobalEnv(envs, e) = Append(rest, merged))
    <3>1. AddOrMergeDDTags(envs, e) \in {envs, Append(envs, e)}
          \/ (i # 0 /\ AddOrMergeDDTags(envs, e) = Append(rest, merged))
      <4>1. CASE i = 0
        BY <4>1 DEF AddOrMergeDDTags
      <4>2. CASE i # 0 /\ envs[i].kind # "plain"
        BY <4>2 DEF AddOrMergeDDTags
      <4>3. CASE i # 0 /\ ~(envs[i].kind # "plain")
        BY <4>3 DEF AddOrMergeDDTags
      <4> QED BY <4>1, <4>2, <4>3
    <3> HIDE DEF i, rest, merged
    <3>2. AddGlobalEnv(envs, e) \in {AddOrMergeDDTags(envs, e), envs}
      BY <1>3 DEF AddGlobalEnv
    <3> QED BY <3>1, <3>2
  <2>2. CASE i # 0
    <3>1. i \in 1..Len(envs) /\ envs[i].name = "DD_TAGS" /\ envs[i] \in EnvVar
      BY <2>2, EnvIndexIs, FirstExists
    <3> HIDE DEF i
    <3>2. rest \in Seq(EnvVar) /\ First(rest, k, x)
      BY <3>1, FirstRemoved
    <3>3. merged \in EnvVar
      <4>1. envs[i].value \in Seq(Text) /\ e.value \in Seq(Text)
        BY <3>1 DEF EnvVar
      <4>2. AppendKVPairs(envs[i].value, e.value) \in Seq(Text)
        BY <4>1, AppendKVPairsIs
      <4> QED BY <4>2 DEF EnvVar
    <3> HIDE DEF rest, merged
    <3>4. First(Append(rest, merged), k, x)
      BY <3>2, <3>3, FirstAppended
    <3> QED BY <1>1, <2>1, <3>4
  <2> HIDE DEF rest, merged
  <2> QED BY <1>1, <2>1, <2>2
<1> QED BY <1>2, <1>3

FirstInv(ctx, n, envs) == envs \in Seq(EnvVar) /\ First(envs, ctx.name, ctx.first)
GlobalFirsts == INSTANCE FoldTheory WITH Op <- GlobalOp, Inv <- FirstInv
KeepFirsts == INSTANCE FoldTheory WITH Op <- KeepOp, Inv <- FirstInv

\* Nor do all of them.
LEMMA GlobalFirstsAre ==
  ASSUME NEW envs \in Seq(EnvVar), NEW more \in Seq(EnvVar), NEW k, k # "DD_TAGS", NEW x, First(envs, k, x)
  PROVE  First(FoldLeft(AddGlobalEnv, envs, more), k, x)
<1> DEFINE n == Len(more)
           ctx == [name |-> k, first |-> x]
<1>1. n \in Nat /\ DOMAIN more = 1..n /\ \A j \in 1..n : more[j] \in EnvVar
  OBVIOUS
<1>2. ctx.name = k /\ ctx.first = x
  OBVIOUS
<1> HIDE DEF n, ctx
<1>3. FirstInv(ctx, 0, envs)
  BY <1>2 DEF FirstInv
<1>4. ASSUME NEW j \in 1..n, NEW a, FirstInv(ctx, j - 1, a)
      PROVE  FirstInv(ctx, j, GlobalOp(ctx, a, more[j]))
  <2>1. a \in Seq(EnvVar) /\ First(a, k, x) /\ more[j] \in EnvVar
    BY <1>1, <1>2, <1>4 DEF FirstInv
  <2>2. AddGlobalEnv(a, more[j]) \in Seq(EnvVar) /\ First(AddGlobalEnv(a, more[j]), k, x)
    BY <2>1, AddGlobalEnvIs, GlobalFirst
  <2> QED BY <1>2, <2>2 DEF FirstInv, GlobalOp
<1>5. FirstInv(ctx, n, GlobalFirsts!Fold(ctx, envs, more))
  BY <1>1, <1>3, <1>4, GlobalFirsts!FoldKeeps, Least DEF GlobalFirsts!Ordered
<1>6. FoldLeft(AddGlobalEnv, envs, more) = GlobalFirsts!Fold(ctx, envs, more)
  BY DEF FoldLeft, MapThenFoldSet, Max, GlobalFirsts!Fold, GlobalFirsts!Largest, GlobalOp
<1> QED BY <1>2, <1>5, <1>6 DEF FirstInv

\* Where existing variables are kept, none is displaced.
LEMMA KeepFirstsAre ==
  ASSUME NEW envs \in Seq(EnvVar), NEW more \in Seq(EnvVar), NEW k, NEW x, First(envs, k, x)
  PROVE  First(AddOrUpdateEnvVars(envs, more, KeepExistingEnvVar), k, x)
<1> DEFINE n == Len(more)
           ctx == [name |-> k, first |-> x]
<1>1. n \in Nat /\ DOMAIN more = 1..n /\ \A j \in 1..n : more[j] \in EnvVar
  OBVIOUS
<1>2. ctx.name = k /\ ctx.first = x
  OBVIOUS
<1> HIDE DEF n, ctx
<1>3. FirstInv(ctx, 0, envs)
  BY <1>2 DEF FirstInv
<1>4. ASSUME NEW j \in 1..n, NEW a, FirstInv(ctx, j - 1, a)
      PROVE  FirstInv(ctx, j, KeepOp(ctx, a, more[j]))
  <2> DEFINE e == more[j]
             i == EnvIndex(a, e.name)
             t == [a EXCEPT ![i] = a[i]]
  <2>1. a \in Seq(EnvVar) /\ First(a, k, x) /\ e \in EnvVar
    BY <1>1, <1>2, <1>4 DEF FirstInv
  <2>2. KeepOp(ctx, a, e) = IF i = 0 THEN Append(a, e) ELSE t
    BY DEF KeepOp, AddOrUpdateEnvVar, KeepExistingEnvVar
  <2>3. t = a
    BY <2>1
  <2> HIDE DEF t, i
  <2>4. Append(a, e) \in Seq(EnvVar) /\ First(Append(a, e), k, x)
    BY <2>1, AppendProperties, FirstAppended
  <2> QED BY <1>2, <2>1, <2>2, <2>3, <2>4 DEF FirstInv
<1>5. FirstInv(ctx, n, KeepFirsts!Fold(ctx, envs, more))
  BY <1>1, <1>3, <1>4, KeepFirsts!FoldKeeps, Least DEF KeepFirsts!Ordered
<1>6. AddOrUpdateEnvVars(envs, more, KeepExistingEnvVar) = KeepFirsts!Fold(ctx, envs, more)
  BY DEF AddOrUpdateEnvVars, FoldLeft, MapThenFoldSet, Max, KeepFirsts!Fold, KeepFirsts!Largest, KeepOp
<1> QED BY <1>2, <1>5, <1>6 DEF FirstInv

\* The languages with a loader variable, and these variables.
LEMMA LoadsFirst ==
  ASSUME NEW c \in PodContainer, NEW lang \in DOMAIN LoaderKey,
         \A k \in ToSet(DDKeys(lang)) : ~IsSourced(c, k)
  PROVE  \A k \in ToSet(DDKeys(lang)) :
            k # "DD_TAGS" /\ \E x : First(FoldLeft(LoadDD, c, DDKeys(lang)).env, k, x) /\ Carries(k, x)
<1> DEFINE keys == DDKeys(lang)
<1>1. /\ \A k \in DOMAIN DDToken : k # "DD_TAGS"
      /\ LoaderKey[lang] \in DOMAIN DDToken /\ LoaderKey.php \in DOMAIN DDToken
      /\ "DD_LOADER_PACKAGE_PATH" \in DOMAIN DDToken /\ "DD_LOADER_PACKAGE_PATH" # LoaderKey.php
  BY DEF LoaderKey, DDToken
<1>2. CASE lang # "php"
  <2> DEFINE key == LoaderKey[lang]
             one == <<key>>
  <2>1. keys = one
    BY <1>2 DEF DDKeys
  <2>2. ToSet(one) = {key}
    BY DEF ToSet
  <2>3. FoldLeft(LoadDD, c, one) = Loading!Fold(c, c, one)
    BY DEF FoldLeft, MapThenFoldSet, Max, Loading!Fold, Loading!Largest, LoadOp
  <2>4. DOMAIN one = {1} /\ one[1] = key
    OBVIOUS
  <2> HIDE DEF one, key, keys
  <2>5. Loading!Fold(c, c, one) = LoadOp(c, c, key)
    BY <2>4, Loading!FoldFew, Least DEF Loading!Ordered
  <2>6. \E x : First(LoadDD(c, key).env, key, x) /\ Carries(key, x)
    BY <1>1, <2>1, <2>2, LoadDDFirst DEF key, keys
  <2> QED BY <1>1, <2>1, <2>2, <2>3, <2>5, <2>6 DEF LoadOp, key, keys
<1>3. CASE lang = "php"
  <2> DEFINE a == "DD_LOADER_PACKAGE_PATH"
             b == LoaderKey.php
             two == <<a, b>>
             one == <<a>>
             last == <<b>>
  <2>1. keys = two
    BY <1>3 DEF DDKeys
  <2>2. ToSet(two) = {a, b}
    BY DEF ToSet
  <2>3. FoldLeft(LoadDD, c, two) = Loading!Fold(c, c, two)
    BY DEF FoldLeft, MapThenFoldSet, Max, Loading!Fold, Loading!Largest, LoadOp
  <2>4. /\ DOMAIN two = 1..1 + 1 /\ two[1] = a /\ two[1 + 1] = b
        /\ DOMAIN one = 1..1 /\ one[1] = a /\ DOMAIN last = 1..1 /\ last[1] = b
    OBVIOUS
  <2>5. a \in DOMAIN DDToken /\ b \in DOMAIN DDToken /\ a # b
    BY <1>1
  <2> HIDE DEF one, two, last, a, b, keys
  <2>6. Loading!Fold(c, c, two) = Loading!Fold(c, Loading!Fold(c, c, one), last)
    <3>1. \A i \in 1..1 : two[i] = one[i] /\ two[1 + i] = last[i]
      BY <2>4
    <3> DEFINE m == 1
    <3>2. m \in Nat /\ \A i \in 1..m : two[i] = one[i] /\ two[m + i] = last[i]
      BY <3>1
    <3>3. DOMAIN two = 1..m + m /\ DOMAIN one = 1..m /\ DOMAIN last = 1..m
      BY <2>4
    <3> HIDE DEF m
    <3> QED BY <3>2, <3>3, Loading!FoldConcat, Least DEF Loading!Ordered
  <2>7. \A base : Loading!Fold(c, base, one) = LoadOp(c, base, a) /\ Loading!Fold(c, base, last) = LoadOp(c, base, b)
    <3>1. 1..1 = {1}
      OBVIOUS
    <3> QED BY <2>4, <3>1, Loading!FoldFew, Least DEF Loading!Ordered
  <2> DEFINE d == LoadDD(c, a)
             e == LoadDD(d, b)
  <2>8. FoldLeft(LoadDD, c, two) = e
    BY <2>3, <2>6, <2>7 DEF LoadOp
  <2>9. ~IsSourced(c, a) /\ ~IsSourced(c, b)
    BY <2>1, <2>2 DEF keys
  <2>10. /\ d \in PodContainer
         /\ \E x : First(d.env, a, x) /\ Carries(a, x)
    BY <2>5, <2>9, LoadDDIs, LoadDDFirst
  <2>11. ~IsSourced(d, b)
    <3>1. CASE EnvIndex(c.env, b) = 0
      <4>1. EnvIndex(d.env, b) = 0
        BY <2>5, <3>1, LoadDDFirst
      <4> QED BY <4>1 DEF IsSourced
    <3>2. CASE EnvIndex(c.env, b) # 0
      <4> DEFINE x == c.env[EnvIndex(c.env, b)]
      <4>1. First(c.env, b, x) /\ x.kind = "plain"
        BY <2>9, <3>2 DEF First, IsSourced
      <4> HIDE DEF x
      <4>2. First(d.env, b, x)
        BY <2>5, <4>1, LoadDDFirst
      <4> HIDE DEF d
      <4> QED BY <4>1, <4>2 DEF First, IsSourced
    <3> QED BY <3>1, <3>2
  <2> HIDE DEF d
  <2>12. \E x : First(e.env, b, x) /\ Carries(b, x)
    BY <2>5, <2>10, <2>11, LoadDDFirst
  <2>13. \E x : First(e.env, a, x) /\ Carries(a, x)
    BY <2>5, <2>10, LoadDDFirst
  <2> HIDE DEF e
  <2>14. \A k \in {a, b} : k # "DD_TAGS" /\ \E x : First(e.env, k, x) /\ Carries(k, x)
    BY <1>1, <2>5, <2>12, <2>13
  <2> QED BY <2>1, <2>2, <2>8, <2>14 DEF keys
<1> QED BY <1>2, <1>3

\* What the injection makes of a container.
DDTraced(c, lang, envs) ==
  [AddMountTo(FoldLeft(LoadDD, c, DDKeys(lang)), DDMount) EXCEPT !.env = FoldLeft(AddGlobalEnv, @, envs)]

\* A mount that is new is the one that is added.
LEMMA MountAdded ==
  ASSUME NEW c \in PodContainer, NEW m \in VolumeMount, m.name \notin Names(c.mounts)
  PROVE  m \in ToSet(AddMountTo(c, m).mounts)
<1> DEFINE s == c.mounts
           t == Append(s, m)
           n == Len(s)
<1>1. s \in Seq(VolumeMount)
  BY DEF PodContainer
<1>2. AddMountTo(c, m).mounts = t
  <2>1. AddNamed(s, m) = t
    BY DEF AddNamed
  <2> HIDE DEF s, t
  <2>2. AddMountTo(c, m) = [c EXCEPT !.mounts = t]
    BY <2>1 DEF AddMountTo, s
  <2> QED BY <2>2 DEF PodContainer
<1> HIDE DEF s
<1>3. t \in Seq(VolumeMount) /\ Len(t) = n + 1 /\ t[n + 1] = m /\ n \in Nat
  BY <1>1, AppendProperties
<1> HIDE DEF t, n
<1>4. n + 1 \in DOMAIN t
  BY <1>3
<1> QED BY <1>2, <1>3, <1>4 DEF ToSet

\* The container loads the library, if it had not the volume of another one.
LEMMA DDTracedLoads ==
  ASSUME NEW c \in PodContainer, NEW lang \in DOMAIN LoaderKey, NEW envs \in Seq(EnvVar),
         \A k \in ToSet(DDKeys(lang)) : ~IsSourced(c, k)
  PROVE  /\ \A k \in ToSet(DDKeys(lang)) : \E x : First(DDTraced(c, lang, envs).env, k, x) /\ Carries(k, x)
         /\ DDTraced(c, lang, envs).mounts = AddMountTo(c, DDMount).mounts
         /\ DDVolume \notin Names(c.mounts) => LoadsDD(DDTraced(c, lang, envs), lang)
<1> DEFINE keys == DDKeys(lang)
           a == FoldLeft(LoadDD, c, keys)
           b == AddMountTo(a, DDMount)
           new == FoldLeft(AddGlobalEnv, b.env, envs)
           d == DDTraced(c, lang, envs)
<1>1. keys \in Seq(DOMAIN DDToken) /\ DDMount \in VolumeMount
  BY DDKeysAre, TracingLiterals
<1>2. a \in PodContainer /\ a.mounts = c.mounts
  BY <1>1, LoadsAre DEF LoadInv
<1>3. \A k \in ToSet(keys) : k # "DD_TAGS" /\ \E x : First(a.env, k, x) /\ Carries(k, x)
  BY LoadsFirst
<1>4. d = [b EXCEPT !.env = new]
  BY DEF DDTraced
<1> HIDE DEF a, d, keys
<1>5. b \in PodContainer /\ b.env = a.env /\ b.mounts = AddMountTo(c, DDMount).mounts
  <2>1. b \in PodContainer
    BY <1>1, <1>2, MountEdited
  <2>2. b.env = a.env /\ b.mounts = AddNamed(a.mounts, DDMount)
    BY <1>2 DEF AddMountTo, PodContainer
  <2>3. AddMountTo(c, DDMount).mounts = AddNamed(c.mounts, DDMount)
    BY DEF AddMountTo, PodContainer
  <2> QED BY <1>2, <2>1, <2>2, <2>3
<1> HIDE DEF b
<1>6. b.env \in Seq(EnvVar)
  BY <1>5 DEF PodContainer
<1>7. d.env = new /\ d.mounts = b.mounts
  <2> HIDE DEF new
  <2> QED BY <1>4, <1>5 DEF PodContainer
<1>8. \A k \in ToSet(keys) : \E x : First(new, k, x) /\ Carries(k, x)
  <2>1. \A k \in ToSet(keys) : k # "DD_TAGS" /\ \E x : First(b.env, k, x) /\ Carries(k, x)
    BY <1>3, <1>5
  <2> HIDE DEF keys
  <2>2. \A k, x : k # "DD_TAGS" /\ First(b.env, k, x) => First(new, k, x)
    BY <1>6, GlobalFirstsAre
  <2> QED BY <2>1, <2>2
<1> HIDE DEF new
<1>9. ASSUME DDVolume \notin Names(c.mounts) PROVE LoadsDD(d, lang)
  <2>1. DDMount.name = DDVolume
    BY DEF DDMount, Mount
  <2>2. DDMount \in ToSet(d.mounts)
    BY <1>1, <1>5, <1>7, <1>9, <2>1, MountAdded
  <2>3. HasDDMount(d)
    BY <2>1, <2>2 DEF HasDDMount, ToSet
  <2>4. ASSUME NEW k \in ToSet(keys)
        PROVE  LET i == EnvIndex(d.env, k)
               IN  /\ i # 0
                   /\ d.env[i].kind = "plain" /\ d.env[i].value # <<>>
                   /\ k # "DD_LOADER_PACKAGE_PATH" => DDToken[k] \in ToSet(d.env[i].value)
    BY <1>7, <1>8 DEF First, Carries
  <2> QED BY <2>3, <2>4 DEF LoadsDD, keys
<1> QED BY <1>5, <1>7, <1>8, <1>9 DEF keys, d

-----------------------------------------------------------------------------
(* What a pod is made of after an injection *)

\* The fields of a pod to which a library was added.
LEMMA BuiltIs ==
  ASSUME NEW p, IsPod(p), NEW list, NEW init, NEW v
  PROVE  LET q == AddVolume(AddInitContainer([p EXCEPT !.containers = list], init), v)
         IN  /\ q.containers = list
             /\ q.init = AddNamed(p.init, init)
             /\ q.volumes = AddNamed(p.volumes, v)
             /\ \A f \in PodFields : f \notin {"containers", "init", "volumes"} => q[f] = p[f]
BY PodIs DEF PodFields, AddVolume, AddInitContainer

\* The volume of a library is shared, if it is not there as another one.
LEMMA OwnAdded ==
  ASSUME NEW p, IsPod(p), OwnVolumes(p), NEW name \in LibraryVolumes,
         NEW q, q.volumes = AddNamed(p.volumes, EmptyDir(name))
  PROVE  IsEmptyDirVolume(q, name) /\ OwnVolumes(q)
<1> DEFINE s == p.volumes
           v == EmptyDir(name)
           t == Append(s, v)
           n == Len(s)
           J == {i \in 1..Len(t) : t[i].name = name}
<1>1. s \in Seq(PodVolume) /\ v \in PodVolume /\ v.name = name /\ v.source = "emptyDir"
  <2>1. name \in Text
    BY TracingLiterals DEF LibraryVolumes
  <2> QED BY <2>1, PodIs, EmptyDirIs DEF EmptyDir, Volume
<1> HIDE DEF s, v
<1>2. IsEmptyDirVolume(q, name)
  <2>1. CASE name \in Names(s)
    <3>1. q.volumes = p.volumes
      BY <1>1, <2>1 DEF AddNamed, s, v
    <3>2. IsEmptyDirVolume(p, name)
      BY <2>1 DEF OwnVolumes, s
    <3> QED BY <3>1, <3>2 DEF IsEmptyDirVolume
  <2>2. CASE name \notin Names(s)
    <3>1. q.volumes = t
      BY <1>1, <2>2 DEF AddNamed, s, v
    <3>2. n \in Nat /\ DOMAIN s = 1..n /\ Len(t) = n + 1 /\ t[n + 1] = v /\ \A i \in 1..n : t[i] = s[i]
      BY <1>1, AppendProperties
    <3> HIDE DEF t, n
    <3>3. \A i \in 1..n : s[i].name # name
      BY <2>2, <3>2 DEF Names
    <3>4. J = {n + 1}
      <4>1. \A i \in 1..n + 1 : i \in 1..n \/ i = n + 1
        BY <3>2
      <4>2. n + 1 \in 1..n + 1
        BY <3>2
      <4> QED BY <1>1, <3>2, <3>3, <4>1, <4>2
    <3>5. Min(J) = n + 1
      BY <3>4 DEF Min
    <3>6. IsEmptyDirVolume(q, name) <=> (IF J # {} THEN Min(J) ELSE 0) # 0 /\ t[IF J # {} THEN Min(J) ELSE 0].source = "emptyDir"
      BY <3>1 DEF IsEmptyDirVolume, SelectInSeq
    <3> HIDE DEF J
    <3> QED BY <1>1, <3>2, <3>4, <3>5, <3>6
  <2> QED BY <2>1, <2>2
<1>3. ASSUME NEW w \in LibraryVolumes, w # name, w \in Names(q.volumes) PROVE IsEmptyDirVolume(q, w)
  <2>1. Names(q.volumes) = Names(s) \cup {name}
    BY <1>1, AddNamedIs DEF s, v
  <2>2. IsEmptyDirVolume(p, w)
    BY <1>3, <2>1 DEF OwnVolumes, s
  <2> QED BY <1>1, <1>3, <2>2, EmptyDirKept DEF s, v
<1> QED BY <1>2, <1>3 DEF OwnVolumes

\* InjectDDTraceLib, with a name for what it makes of a container.
LEMMA DDLibIs ==
  ASSUME NEW p, NEW rule, NEW image
  PROVE  InjectDDTraceLib(p, rule, image) =
           IF Blocked(p, DDKeys(rule.language)) THEN p
           ELSE AddVolume(AddInitContainer(
                  [p EXCEPT !.containers =
                     [i \in DOMAIN p.containers |->
                        DDTraced(p.containers[i], rule.language, BuildEnvs(rule.envs, p))]],
                  Container(DDInit, image, rule.language, <<>>, <<DDMount>>)), EmptyDir(DDVolume))
BY DEF InjectDDTraceLib, EachContainer, DDTraced

-----------------------------------------------------------------------------
(* What OpenTelemetry makes of a container *)

OTelTokens(lang) ==
  [java |-> {JavaAgentOption}, nodejs |-> {RequireOption}, python |-> {PythonPrefix, PythonSuffix}][lang]

OTelLoaded(list, lang) ==
  AddOrUpdateEnvVar(list, Plain(LoaderKey[lang], OTelValue(lang, <<>>)),
                    LAMBDA old, new : [old EXCEPT !.value = OTelValue(lang, @)])

OTelTraced(c, lang, envs) ==
  [AddMountTo(c, OTelMount(lang)) EXCEPT
     !.env = AddOrUpdateEnvVars(OTelLoaded(@, lang), envs, KeepExistingEnvVar)]

\* InjectOTelLib, with a name for it.
LEMMA OTelLibIs ==
  ASSUME NEW p, NEW rule, NEW init
  PROVE  InjectOTelLib(p, rule, init) =
           AddVolume(AddInitContainer(
             [p EXCEPT !.containers =
                [i \in DOMAIN p.containers |->
                   OTelTraced(p.containers[i], rule.language, BuildEnvs(rule.envs, p))]], init),
             EmptyDir(OTelVolume))
BY DEF InjectOTelLib, EachContainer, OTelTraced, OTelLoaded

\* What is counted is there.
LEMMA CountIs ==
  ASSUME NEW value \in Seq(Text), NEW token, Count(value, token) = 1
  PROVE  token \in ToSet(value)
<1> DEFINE I == {i \in DOMAIN value : value[i] = token}
<1>1. I # {}
  <2> SUFFICES ASSUME I = {} PROVE FALSE
    OBVIOUS
  <2>1. Cardinality(I) = 0
    BY FS_EmptySet
  <2> HIDE DEF I
  <2> QED BY <2>1 DEF Count, I
<1> QED BY <1>1 DEF ToSet

\* The value that is written loads the library.
LEMMA OTelValueLoads ==
  ASSUME NEW lang \in OTelLanguages, NEW value \in Seq(Text)
  PROVE  OTelTokens(lang) \subseteq ToSet(OTelValue(lang, value))
<1>1. {JavaAgentOption, RequireOption, PythonPrefix, PythonSuffix} \subseteq Text
  BY TracingLiterals
<1>2. ASSUME NEW t \in Text PROVE t \in ToSet(Append(value, t))
  <2> DEFINE u == Append(value, t)
             n == Len(value)
  <2>1. u \in Seq(Text) /\ Len(u) = n + 1 /\ u[n + 1] = t /\ n \in Nat
    BY AppendProperties
  <2> HIDE DEF u, n
  <2>2. n + 1 \in DOMAIN u
    BY <2>1
  <2>3. t \in ToSet(u)
    BY <2>1, <2>2 DEF ToSet
  <2> QED BY <2>3 DEF u
<1>3. CASE lang = "java"
  <2>1. OTelValue(lang, value) = IF JavaAgentOption \in ToSet(value) THEN value ELSE Append(value, JavaAgentOption)
    BY <1>3 DEF OTelValue
  <2>2. OTelTokens(lang) = {JavaAgentOption}
    BY <1>3 DEF OTelTokens
  <2> QED BY <1>1, <1>2, <2>1, <2>2
<1>4. CASE lang = "nodejs"
  <2>1. OTelValue(lang, value) = IF Count(value, RequireOption) = 1 THEN value ELSE Append(value, RequireOption)
    BY <1>4 DEF OTelValue
  <2>2. OTelTokens(lang) = {RequireOption}
    BY <1>4 DEF OTelTokens
  <2> QED BY <1>1, <1>2, <2>1, <2>2, CountIs
<1>5. CASE lang = "python"
  <2> DEFINE a == <<PythonPrefix>>
             b == <<PythonSuffix>>
             u == a \o value
             w == u \o b
  <2>1. OTelValue(lang, value) = IF IsOTelPythonPathInjected(value) THEN value ELSE w
    BY <1>5 DEF OTelValue
  <2>2. OTelTokens(lang) = {PythonPrefix, PythonSuffix}
    BY <1>5 DEF OTelTokens
  <2>3. IsOTelPythonPathInjected(value) => {PythonPrefix, PythonSuffix} \subseteq ToSet(value)
    BY CountIs DEF IsOTelPythonPathInjected
  <2>4. {PythonPrefix, PythonSuffix} \subseteq ToSet(w)
    <3>1. a \in Seq(Text) /\ b \in Seq(Text) /\ Len(a) = 1 /\ Len(b) = 1 /\ a[1] = PythonPrefix /\ b[1] = PythonSuffix
      BY <1>1
    <3> HIDE DEF a, b
    <3>2. /\ u \in Seq(Text) /\ Len(u) = 1 + Len(value) /\ Len(value) \in Nat
          /\ \A i \in 1..Len(u) : u[i] = IF i <= 1 THEN a[i] ELSE value[i - 1]
      BY <3>1, ConcatProperties
    <3> HIDE DEF u
    <3>3. /\ w \in Seq(Text) /\ Len(w) = Len(u) + 1
          /\ \A i \in 1..Len(u) + 1 : w[i] = IF i <= Len(u) THEN u[i] ELSE b[i - Len(u)]
      <4>1. u \in Seq(Text) /\ b \in Seq(Text) /\ Len(b) = 1
        BY <3>1, <3>2
      <4>2. \A s, t \in Seq(Text) :
              /\ s \o t \in Seq(Text) /\ Len(s \o t) = Len(s) + Len(t)
              /\ \A i \in 1..Len(s) + Len(t) : (s \o t)[i] = IF i <= Len(s) THEN s[i] ELSE t[i - Len(s)]
        BY ConcatProperties
      <4>3. /\ u \o b \in Seq(Text) /\ Len(u \o b) = Len(u) + Len(b)
            /\ \A i \in 1..Len(u) + Len(b) : (u \o b)[i] = IF i <= Len(u) THEN u[i] ELSE b[i - Len(u)]
        BY <4>1, <4>2
      <4> QED BY <4>1, <4>3
    <3> HIDE DEF w
    <3>4. 1 \in DOMAIN w /\ w[1] = PythonPrefix
      BY <3>1, <3>2, <3>3
    <3>5. Len(u) + 1 \in DOMAIN w /\ w[Len(u) + 1] = PythonSuffix
      BY <3>1, <3>2, <3>3
    <3> QED BY <3>4, <3>5 DEF ToSet
  <2> HIDE DEF w
  <2> QED BY <2>1, <2>2, <2>3, <2>4
<1> QED BY <1>3, <1>4, <1>5 DEF OTelLanguages, OTelPath

\* The loader variable is new, or has its value extended.
LEMMA OTelLoadedFirst ==
  ASSUME NEW l \in Seq(EnvVar), NEW lang \in OTelLanguages
  PROVE  LET key == LoaderKey[lang]
             new == OTelLoaded(l, lang)
         IN  /\ new \in Seq(EnvVar) /\ new # <<>>
             /\ \E x : /\ First(new, key, x) /\ OTelTokens(lang) \subseteq ToSet(x.value)
                       /\ \A y : First(l, key, y) => x = [y EXCEPT !.value = OTelValue(lang, @)]
             /\ \A k, x : First(l, k, x) /\ k # key => First(new, k, x)
<1> DEFINE key == LoaderKey[lang]
           i == EnvIndex(l, key)
           e == Plain(key, OTelValue(lang, <<>>))
           x == [l[i] EXCEPT !.value = OTelValue(lang, @)]
           new == OTelLoaded(l, lang)
           two == [l EXCEPT ![i] = x]
<1>1. e \in EnvVar /\ e.name = key /\ OTelTokens(lang) \subseteq ToSet(e.value)
  <2>1. <<>> \in Seq(Text)
    OBVIOUS
  <2> DEFINE w == OTelValue(lang, <<>>)
  <2>2. w \in Seq(Text) /\ key \in Text /\ OTelTokens(lang) \subseteq ToSet(w)
    BY <2>1, OTelValueIs, OTelValueLoads, TracingLiterals
  <2>3. e = Plain(key, w)
    OBVIOUS
  <2> HIDE DEF w, key, e
  <2> QED BY <2>2, <2>3 DEF Plain, Env, EnvVar, Kinds
<1>2. new = IF i = 0 THEN Append(l, e) ELSE two
  BY <1>1 DEF OTelLoaded, AddOrUpdateEnvVar
<1> HIDE DEF e, new, key
<1>3. CASE i = 0
  <2>1. new = Append(l, e)
    BY <1>2, <1>3
  <2>2. new \in Seq(EnvVar) /\ new # <<>>
    BY <1>1, <2>1, AppendProperties
  <2>3. First(new, key, e) /\ \A k, y : First(l, k, y) => First(new, k, y)
    BY <1>1, <1>3, <2>1, FirstAppended
  <2>4. \A y : ~First(l, key, y)
    BY <1>3 DEF First
  <2> HIDE DEF i
  <2> QED BY <1>1, <2>2, <2>3, <2>4 DEF new, key
<1>4. CASE i # 0
  <2> DEFINE old == l[i]
             w == OTelValue(lang, old.value)
  <2>1. old \in EnvVar /\ old.name = key /\ First(l, key, old) /\ i \in 1..Len(l)
    BY <1>4, FirstExists, EnvIndexIs
  <2>2. old.value \in Seq(Text)
    BY <2>1 DEF EnvVar
  <2>3. w \in Seq(Text) /\ OTelTokens(lang) \subseteq ToSet(w)
    BY <2>2, OTelValueIs, OTelValueLoads
  <2>4. x = [old EXCEPT !.value = w]
    OBVIOUS
  <2> HIDE DEF w, old
  <2>5. [old EXCEPT !.value = w] \in EnvVar /\ [old EXCEPT !.value = w].name = key /\ [old EXCEPT !.value = w].value = w
    BY <2>1, <2>3 DEF EnvVar
  <2>6. x \in EnvVar /\ x.name = key /\ x.value = w
    BY <2>4, <2>5
  <2>7. \A y : First(l, key, y) => y = old
    BY <2>1 DEF First
  <2>8. x = [old EXCEPT !.value = OTelValue(lang, @)]
    BY DEF old
  <2> HIDE DEF x
  <2>9. /\ two \in Seq(EnvVar) /\ \A k, y : First(l, k, y) /\ k # key => First(two, k, y)
        /\ First(two, key, x)
    BY <1>4, <2>6, FirstReplaced
  <2>10. two # <<>>
    <3>1. Len(two) = Len(l)
      BY <2>1, <2>6, ExceptSeq
    <3> HIDE DEF two, i
    <3> QED BY <2>1, <3>1
  <2>11. new = two
    BY <1>2, <1>4
  <2> HIDE DEF two, i
  <2> QED BY <2>3, <2>6, <2>7, <2>8, <2>9, <2>10, <2>11 DEF new, key
<1> QED BY <1>3, <1>4

\* The container loads the library, if it had not the volume of another one.
LEMMA OTelTracedLoads ==
  ASSUME NEW c \in PodContainer, NEW lang \in OTelLanguages, NEW envs \in Seq(EnvVar)
  PROVE  LET d == OTelTraced(c, lang, envs)
         IN  /\ d.env = AddOrUpdateEnvVars(OTelLoaded(c.env, lang), envs, KeepExistingEnvVar)
             /\ \E x : First(d.env, LoaderKey[lang], x) /\ OTelTokens(lang) \subseteq ToSet(x.value)
             /\ d.mounts = AddMountTo(c, OTelMount(lang)).mounts
             /\ OTelVolume \notin Names(c.mounts) => LoadsOTel(d, lang)
<1> DEFINE m == OTelMount(lang)
           b == AddMountTo(c, m)
           new == AddOrUpdateEnvVars(OTelLoaded(b.env, lang), envs, KeepExistingEnvVar)
           d == OTelTraced(c, lang, envs)
           key == LoaderKey[lang]
<1>1. m \in VolumeMount /\ m.name = OTelVolume
  BY TracingLiterals DEF OTelMount, Mount
<1>2. d = [b EXCEPT !.env = new]
  BY DEF OTelTraced
<1> HIDE DEF d, m
<1>3. b \in PodContainer
  BY <1>1, MountEdited
<1>4. b.env = c.env /\ c.env \in Seq(EnvVar)
  BY DEF AddMountTo, PodContainer
<1> HIDE DEF b
<1>5. d.env = new /\ d.mounts = b.mounts
  <2> HIDE DEF new
  <2> QED BY <1>2, <1>3 DEF PodContainer
<1>6. \E x : First(new, key, x) /\ OTelTokens(lang) \subseteq ToSet(x.value)
  <2> DEFINE l == OTelLoaded(b.env, lang)
  <2>1. l \in Seq(EnvVar) /\ \E x : First(l, key, x) /\ OTelTokens(lang) \subseteq ToSet(x.value)
    BY <1>4, OTelLoadedFirst
  <2> HIDE DEF l, key
  <2>2. \A x : First(l, key, x) => First(AddOrUpdateEnvVars(l, envs, KeepExistingEnvVar), key, x)
    BY <2>1, KeepFirstsAre
  <2> QED BY <2>1, <2>2 DEF l
<1>7. ASSUME OTelVolume \notin Names(c.mounts) PROVE LoadsOTel(d, lang)
  <2>1. m \in ToSet(d.mounts)
    BY <1>1, <1>5, <1>7, MountAdded DEF b
  <2>2. LET i == EnvIndex(d.env, key) IN i # 0 /\ OTelTokens(lang) \subseteq ToSet(d.env[i].value)
    BY <1>5, <1>6 DEF First
  <2> QED BY <2>1, <2>2 DEF LoadsOTel, OTelTokens, m
<1> QED BY <1>4, <1>5, <1>6, <1>7 DEF d, b, m, key

-----------------------------------------------------------------------------
(* What tracing makes of a pod *)

\* One of four things, by the rules that were chosen.
DDAdded(p, q, ns, rules) ==
  /\ Names(p.init) \cap {DDInit, OTelInit} = {}
  /\ LET chosen == SelectRule(p, MatchesAll(rules, NamespaceOf(p, ns)), "ddtrace")
         rule == chosen.rule
         lang == rule.language
     IN  /\ chosen.found /\ rule \in TracingRule /\ rule \in ToSet(rules) /\ lang \in DOMAIN LoaderKey /\ ~Blocked(p, DDKeys(lang))
         /\ \E init \in PodContainer :
              /\ init.name = DDInit /\ init.command = lang /\ init.mounts = <<DDMount>> /\ init.env = <<>>
              /\ q = AddVolume(AddInitContainer(
                       [p EXCEPT !.containers =
                          [i \in DOMAIN p.containers |->
                             DDTraced(p.containers[i], lang, BuildEnvs(rule.envs, p))]], init), EmptyDir(DDVolume))

OTelAdded(p, q, ns, rules) ==
  /\ DDInit \notin Names(p.init)
  /\ LET chosen == SelectRule(p, MatchesAll(rules, NamespaceOf(p, ns)), "otel")
         rule == chosen.rule
         lang == rule.language
     IN  /\ chosen.found /\ rule \in TracingRule /\ rule \in ToSet(rules) /\ lang \in OTelLanguages
         /\ \E init \in PodContainer :
              /\ init.name = OTelInit /\ init.command = lang /\ init.mounts = <<OTelMount(lang)>> /\ init.env = <<>>
              /\ OTelFits(p, rule, init)
              /\ q = AddVolume(AddInitContainer(
                       [p EXCEPT !.containers =
                          [i \in DOMAIN p.containers |->
                             OTelTraced(p.containers[i], lang, BuildEnvs(rule.envs, p))]], init), EmptyDir(OTelVolume))

LEMMA TracingForms ==
  ASSUME NEW p, IsPod(p), NEW ns, NEW ddtraces \in Seq(TracingRule), NEW otels \in Seq(TracingRule)
  PROVE  LET q == InjectTracingToPod(p, ns, ddtraces, otels)
         IN  \/ q = p
             \/ DDInit \in Names(p.init) /\ q = RepairJavaAgentEnv(p)
             \/ DDAdded(p, q, ns, ddtraces)
             \/ OTelAdded(p, q, ns, otels)
<1> DEFINE q == InjectTracingToPod(p, ns, ddtraces, otels)
           dd == InjectDDTraceToPod(p, ns, ddtraces)
           d == SelectRule(p, MatchesAll(ddtraces, NamespaceOf(p, ns)), "ddtrace")
           o == SelectRule(p, MatchesAll(otels, NamespaceOf(p, ns)), "otel")
<1>1. /\ d.found => d.rule \in TracingRule /\ d.rule \in ToSet(ddtraces) /\ d.version \in Text
      /\ o.found => o.rule \in TracingRule /\ o.rule \in ToSet(otels) /\ o.version \in Text
  <2> DEFINE some == MatchesAll(ddtraces, NamespaceOf(p, ns))
             other == MatchesAll(otels, NamespaceOf(p, ns))
  <2>1. /\ some \in Seq(TracingRule) /\ ToSet(some) \subseteq ToSet(ddtraces)
        /\ other \in Seq(TracingRule) /\ ToSet(other) \subseteq ToSet(otels)
    BY MatchesAllAre
  <2>2. \A rules \in Seq(TracingRule) : \A tracer :
          LET chosen == SelectRule(p, rules, tracer)
          IN  chosen.found => chosen.rule \in TracingRule /\ chosen.rule \in ToSet(rules) /\ chosen.version \in Text
    BY SelectRuleIs
  <2> QED BY <2>1, <2>2
<1>2. \/ q = dd.pod /\ (DDInit \in Names(p.init) \/ dd.selected)
      \/ /\ q = InjectOTelToPod(dd.pod, ns, otels)
         /\ DDInit \notin Names(p.init) /\ ~dd.selected
  BY DEF InjectTracingToPod, ContainsInitContainer
<1> DEFINE lib == InjectDDTraceLib(p, d.rule, Image(d.rule.image, d.version))
<1>3. \/ dd.pod = p
      \/ dd.pod = RepairJavaAgentEnv(p) /\ DDInit \in Names(p.init) /\ dd.selected
      \/ /\ dd.pod = lib /\ Names(p.init) \cap {DDInit, OTelInit} = {} /\ dd.selected
         /\ d.found /\ d.rule.language \in DOMAIN LoaderKey
  BY DEF InjectDDTraceToPod, DDSkips, ContainsInitContainer
<1> HIDE DEF q, dd, d, lib
<1>4. ASSUME Names(p.init) \cap {DDInit, OTelInit} = {}, d.found, d.rule.language \in DOMAIN LoaderKey
      PROVE  lib = p \/ DDAdded(p, lib, ns, ddtraces)
  <2> DEFINE rule == d.rule
             lang == rule.language
             image == Image(rule.image, d.version)
             init == Container(DDInit, image, lang, <<>>, <<DDMount>>)
             r == AddVolume(AddInitContainer(
                       [p EXCEPT !.containers =
                          [i \in DOMAIN p.containers |->
                             DDTraced(p.containers[i], lang, BuildEnvs(rule.envs, p))]], init), EmptyDir(DDVolume))
  <2>1. /\ rule \in TracingRule /\ rule \in ToSet(ddtraces)
        /\ image \in [of: Text, version: Text] /\ lang \in Text
    <3>1. rule \in TracingRule /\ rule \in ToSet(ddtraces) /\ d.version \in Text
      BY <1>1, <1>4
    <3> QED BY <3>1 DEF Image, TracingRule
  <2>2. lib = IF Blocked(p, DDKeys(lang)) THEN p ELSE r
    BY DDLibIs DEF lib
  <2>3. init \in PodContainer
    <3>1. <<>> \in Seq(EnvVar)
      OBVIOUS
    <3>2. DDMount \in VolumeMount /\ DDInit \in Text
      BY TracingLiterals
    <3>3. <<DDMount>> \in Seq(VolumeMount)
      BY <3>2
    <3> HIDE DEF image, lang
    <3> QED BY <2>1, <3>1, <3>2, <3>3, ContainerIs
  <2>4. init.name = DDInit /\ init.command = lang /\ init.mounts = <<DDMount>> /\ init.env = <<>>
    BY DEF Container
  <2> HIDE DEF init
  <2>5. \E i \in PodContainer :
           /\ i.name = DDInit /\ i.command = lang /\ i.mounts = <<DDMount>> /\ i.env = <<>>
           /\ r = AddVolume(AddInitContainer(
                    [p EXCEPT !.containers =
                       [j \in DOMAIN p.containers |->
                          DDTraced(p.containers[j], lang, BuildEnvs(rule.envs, p))]], i), EmptyDir(DDVolume))
    BY <2>3, <2>4
  <2>6. ~Blocked(p, DDKeys(lang)) => DDAdded(p, r, ns, ddtraces)
    <3> HIDE DEF r
    <3> QED BY <1>4, <2>1, <2>5 DEF DDAdded, d
  <2> HIDE DEF r
  <2> QED BY <2>2, <2>6
<1>5. ASSUME DDInit \notin Names(p.init)
      PROVE  LET r == InjectOTelToPod(p, ns, otels) IN r = p \/ OTelAdded(p, r, ns, otels)
  <2> DEFINE rule == o.rule
             lang == rule.language
             image == Image(rule.image, o.version)
             mounts == <<OTelMount(lang)>>
             plain == Container(OTelInit, image, lang, <<>>, mounts)
             security == IF p.containers = <<>> THEN NoSecurity ELSE p.containers[1].security
             init == [plain EXCEPT !.security = security]
             inject == InjectOTelToPod(p, ns, otels)
             r == AddVolume(AddInitContainer(
                       [p EXCEPT !.containers =
                          [i \in DOMAIN p.containers |->
                             OTelTraced(p.containers[i], lang, BuildEnvs(rule.envs, p))]], init), EmptyDir(OTelVolume))
  <2>1. \/ inject = p
        \/ /\ inject = InjectOTelLib(p, rule, init)
           /\ o.found /\ lang \in OTelLanguages /\ OTelFits(p, rule, init)
    BY DEF InjectOTelToPod
  <2>2. InjectOTelLib(p, rule, init) = r
    <3> HIDE DEF init
    <3> QED BY OTelLibIs
  <2>3. ASSUME o.found, lang \in OTelLanguages
        PROVE  init \in PodContainer /\ init.name = OTelInit /\ init.command = lang /\ init.mounts = <<OTelMount(lang)>> /\ init.env = <<>>
    <3>1. rule \in TracingRule /\ image \in [of: Text, version: Text] /\ lang \in Text
      <4>1. rule \in TracingRule /\ o.version \in Text
        BY <1>1, <2>3
      <4> QED BY <4>1 DEF Image, TracingRule
    <3>2. OTelMount(lang) \in VolumeMount /\ OTelInit \in Text
      BY <2>3, TracingLiterals
    <3>3. mounts \in Seq(VolumeMount)
      BY <3>2
    <3>4. <<>> \in Seq(EnvVar)
      OBVIOUS
    <3>5. plain.name = OTelInit /\ plain.command = lang /\ plain.mounts = mounts /\ plain.env = <<>>
      BY DEF Container
    <3>6. security \in [nonRoot: Text, user: Text]
      <4>1. CASE p.containers = <<>>
        BY <4>1, PodsLiterals
      <4>2. CASE p.containers # <<>>
        <5>1. p.containers \in Seq(PodContainer)
          BY PodIs
        <5>2. p.containers[1] \in PodContainer
          BY <4>2, <5>1
        <5> QED BY <4>2, <5>2 DEF PodContainer
      <4> QED BY <4>1, <4>2
    <3> HIDE DEF image, lang, mounts, security
    <3>7. plain \in PodContainer
      BY <3>1, <3>2, <3>3, <3>4, ContainerIs
    <3> HIDE DEF plain
    <3>8. init \in PodContainer /\ init.name = plain.name /\ init.command = plain.command /\ init.mounts = plain.mounts /\ init.env = plain.env
      BY <3>6, <3>7 DEF PodContainer
    <3> HIDE DEF init
    <3> QED BY <3>5, <3>8 DEF mounts, lang
  <2> HIDE DEF init, inject, o
  <2>4. ASSUME o.found, lang \in OTelLanguages, OTelFits(p, rule, init) PROVE OTelAdded(p, r, ns, otels)
    <3>1. rule \in TracingRule /\ rule \in ToSet(otels)
      BY <1>1, <2>4
    <3>2. \E i \in PodContainer :
             /\ i.name = OTelInit /\ i.command = lang /\ i.mounts = <<OTelMount(lang)>> /\ i.env = <<>>
             /\ OTelFits(p, rule, i)
             /\ r = AddVolume(AddInitContainer(
                      [p EXCEPT !.containers =
                         [j \in DOMAIN p.containers |->
                            OTelTraced(p.containers[j], lang, BuildEnvs(rule.envs, p))]], i), EmptyDir(OTelVolume))
      BY <2>3, <2>4
    <3> HIDE DEF r
    <3> QED BY <1>5, <2>4, <3>1, <3>2 DEF OTelAdded, o
  <2> HIDE DEF r
  <2> QED BY <2>1, <2>2, <2>4 DEF inject
<1>6. DDInit \notin Names(p.init) /\ ~dd.selected => dd.pod = p
  BY <1>3
<1> QED BY <1>2, <1>3, <1>4, <1>5, <1>6 DEF q

-----------------------------------------------------------------------------
(* Repair of a lost agent *)

\* What is appended is new in a set of items.
LEMMA AddedIs ==
  ASSUME NEW S, NEW s \in Seq(S), NEW x \in S
  PROVE  /\ ToSet(s) \subseteq ToSet(AddNamed(s, x))
         /\ ToSet(AddNamed(s, x)) \subseteq ToSet(s) \cup {x}
         /\ x.name \notin Names(s) => AddNamed(s, x) = Append(s, x)
<1> DEFINE t == Append(s, x)
           n == Len(s)
<1>1. n \in Nat /\ DOMAIN s = 1..n /\ DOMAIN t = 1..n + 1 /\ t[n + 1] = x /\ \A i \in 1..n : t[i] = s[i]
  BY AppendProperties
<1>2. AddNamed(s, x) \in {s, t} /\ (x.name \notin Names(s) => AddNamed(s, x) = t)
  BY DEF AddNamed
<1> HIDE DEF t, n
<1>3. ToSet(t) \subseteq ToSet(s) \cup {x} /\ ToSet(s) \subseteq ToSet(t)
  <2>1. \A i \in 1..n + 1 : i \in 1..n \/ i = n + 1
    BY <1>1
  <2>2. \A i \in 1..n : i \in 1..n + 1
    BY <1>1
  <2> QED BY <1>1, <2>1, <2>2 DEF ToSet
<1> QED BY <1>2, <1>3 DEF t

\* The repair writes the variable of each container that mounts the library, in a pod
\* whose init container brings it.
LEMMA RepairIs ==
  ASSUME NEW p, IsPod(p), OwnVolumes(p), BringsDD(p), DDInit \in Names(p.init)
  PROVE  LET q == RepairJavaAgentEnv(p)
         IN  /\ q = [p EXCEPT !.containers = q.containers]
             /\ q.containers = [i \in DOMAIN p.containers |-> q.containers[i]]
             /\ \A i \in DOMAIN p.containers :
                  LET c == p.containers[i]
                  IN  q.containers[i] = IF HasDDMount(c) /\ ~IsSourced(c, LoaderKey.java)
                                        THEN LoadDD(c, LoaderKey.java) ELSE c
<1> DEFINE Repaired(c) == IF HasDDMount(c) /\ ~IsSourced(c, LoaderKey.java) THEN LoadDD(c, LoaderKey.java) ELSE c
           list == [i \in DOMAIN p.containers |-> Repaired(p.containers[i])]
           I == {i \in 1..Len(p.init) : p.init[i].name = DDInit}
           i == IF I # {} THEN Min(I) ELSE 0
<1>1. p.init \in Seq(PodContainer) /\ DOMAIN p = PodFields
  BY PodIs
<1>2. IsEmptyDirVolume(p, DDVolume)
  BY DEF OwnVolumes, BringsDD, LibraryVolumes
<1>3. HasDDMount(p.init[i])
  <2>1. Len(p.init) \in Nat /\ DOMAIN p.init = 1..Len(p.init)
    BY <1>1
  <2>2. I # {} /\ I \in SUBSET (1..Len(p.init))
    BY <2>1 DEF Names
  <2>3. \A j \in I : HasDDMount(p.init[j])
    BY <2>1 DEF BringsDD
  <2> HIDE DEF I
  <2>4. Min(I) \in I
    BY <2>1, <2>2, MinIs
  <2> QED BY <2>2, <2>3, <2>4
<1>4. RepairJavaAgentEnv(p) = [p EXCEPT !.containers = list]
  <2>1. SelectInSeq(p.init, LAMBDA c : c.name = DDInit) = i
    BY DEF SelectInSeq
  <2> HIDE DEF i
  <2> QED BY <1>2, <1>3, <2>1 DEF RepairJavaAgentEnv, EachContainer
<1>5. list = [j \in DOMAIN p.containers |-> list[j]]
  OBVIOUS
<1>6. \A j \in DOMAIN p.containers : list[j] = Repaired(p.containers[j])
  OBVIOUS
<1> HIDE DEF list
<1>7. RepairJavaAgentEnv(p).containers = list
  BY <1>1, <1>4 DEF PodFields
<1> QED BY <1>4, <1>5, <1>6, <1>7

\* A container that mounts the library of DDTrace loads the agent, if it can.
AgentLoaded(c) ==
  HasDDMount(c) =>
    LET i == EnvIndex(c.env, LoaderKey.java)
    IN  i # 0 /\ (c.env[i].kind = "plain" => DDToken.JAVA_TOOL_OPTIONS \in ToSet(c.env[i].value))

\* The repair sees to that.
LEMMA RepairLoads ==
  ASSUME NEW p, IsPod(p), OwnVolumes(p), BringsDD(p), DDInit \in Names(p.init)
  PROVE  \A i \in DOMAIN RepairJavaAgentEnv(p).containers : AgentLoaded(RepairJavaAgentEnv(p).containers[i])
<1> DEFINE list == RepairJavaAgentEnv(p).containers
           key == LoaderKey.java
<1>1. /\ list = [i \in DOMAIN p.containers |-> list[i]]
      /\ \A i \in DOMAIN p.containers :
           LET c == p.containers[i]
           IN  list[i] = IF HasDDMount(c) /\ ~IsSourced(c, key) THEN LoadDD(c, key) ELSE c
  BY RepairIs
<1>2. key \in DOMAIN DDToken /\ key = "JAVA_TOOL_OPTIONS" /\ key # "DD_LOADER_PACKAGE_PATH"
  BY DEF LoaderKey, DDToken
<1> HIDE DEF list, key
<1>3. ASSUME NEW i \in DOMAIN p.containers PROVE AgentLoaded(list[i])
  <2> DEFINE c == p.containers[i]
  <2>1. c \in PodContainer
    <3>1. p.containers \in Seq(PodContainer)
      BY PodIs
    <3> QED BY <3>1
  <2>2. list[i] = IF HasDDMount(c) /\ ~IsSourced(c, key) THEN LoadDD(c, key) ELSE c
    BY <1>1
  <2> HIDE DEF c
  <2>3. CASE HasDDMount(c) /\ ~IsSourced(c, key)
    <3>1. \E x : First(list[i].env, key, x) /\ Carries(key, x)
      BY <1>2, <2>1, <2>2, <2>3, LoadDDFirst
    <3> QED BY <1>2, <3>1 DEF First, Carries, AgentLoaded, key
  <2>4. CASE HasDDMount(c) /\ IsSourced(c, key)
    BY <2>2, <2>4 DEF AgentLoaded, IsSourced, key
  <2>5. CASE ~HasDDMount(c)
    BY <2>2, <2>5 DEF AgentLoaded
  <2> QED BY <2>3, <2>4, <2>5
<1>4. DOMAIN list = DOMAIN p.containers
  BY <1>1
<1> QED BY <1>3, <1>4 DEF list

\* Nothing that runs after it takes that away.
LEMMA AgentStays ==
  ASSUME NEW p, NEW q, After(p, q), \A i \in DOMAIN p.containers : AgentLoaded(p.containers[i])
  PROVE  \A i \in DOMAIN q.containers : AgentLoaded(q.containers[i])
<1>1. \A c : HasDDMount(c) <=> \E m \in LibMounts(c) : m.name = DDVolume /\ m.path = DDMount.path
  BY DEF HasDDMount, LibMounts, ToSet, LibraryVolumes
<1>2. ASSUME NEW i \in DOMAIN q.containers PROVE AgentLoaded(q.containers[i])
  <2>1. CASE i \in DOMAIN p.containers
    <3>1. Untouched(p.containers[i], q.containers[i]) /\ AgentLoaded(p.containers[i])
      BY <2>1 DEF After, Beside
    <3> QED BY <1>1, <3>1 DEF AgentLoaded, Untouched
  <2>2. CASE i \notin DOMAIN p.containers
    <3>1. LibMounts(q.containers[i]) = {}
      BY <2>2 DEF After, Beside
    <3> QED BY <1>1, <3>1 DEF AgentLoaded
  <2> QED BY <2>1, <2>2
<1> QED BY <1>2

-----------------------------------------------------------------------------
(* What the guards of the injections look at *)

\* Resources are taken over from the first container.
Kept(p) == p.containers = <<>> \/ p.containers[1].declares

Alike(p, q) ==
  /\ q.namespace = p.namespace
  /\ \A k \in DOMAIN p.annotations : k \in DOMAIN q.annotations /\ q.annotations[k] = p.annotations[k]
  /\ DOMAIN q.annotations \subseteq DOMAIN p.annotations \cup OwnKeys
  /\ Names(p.containers) \subseteq Names(q.containers)
  /\ Kept(p) <=> Kept(q)

LEMMA AlikeTransitive ==
  ASSUME NEW p, NEW q, NEW r, Alike(p, q), Alike(q, r)
  PROVE  Alike(p, r)
BY DEF Alike

\* The changes of sidecars and logs leave it as it is.
LEMMA AfterAlike ==
  ASSUME NEW p, IsPod(p), NEW q, After(p, q)
  PROVE  Alike(p, q)
<1>1. Step(p, q) /\ Beside(p, q) /\ IsPod(q)
  BY DEF After, Step
<1>2. Names(p.containers) \subseteq Names(q.containers)
  BY <1>1, NamesStay
<1> DEFINE s == p.containers
           t == q.containers
<1>3. s \in Seq(PodContainer) /\ t \in Seq(PodContainer)
  BY <1>1, PodIs
<1>4. /\ DOMAIN s \subseteq DOMAIN t
      /\ \A i \in DOMAIN s : t[i].declares = s[i].declares
      /\ \A i \in DOMAIN t \ DOMAIN s : t[i].declares
  BY <1>1 DEF Beside, Untouched
<1> HIDE DEF s, t
<1>5. (s = <<>> \/ s[1].declares) <=> (t = <<>> \/ t[1].declares)
  <2>1. CASE s = <<>>
    <3>1. t # <<>> => 1 \in DOMAIN t
      BY <1>3
    <3>2. 1 \notin DOMAIN s
      BY <2>1
    <3> QED BY <1>4, <2>1, <3>1, <3>2
  <2>2. CASE s # <<>>
    <3>1. 1 \in DOMAIN s
      BY <1>3, <2>2
    <3>2. 1 \in DOMAIN t
      BY <1>4, <3>1
    <3>3. t # <<>>
      BY <3>2
    <3> QED BY <1>4, <2>2, <3>1, <3>3
  <2> QED BY <2>1, <2>2
<1> QED BY <1>1, <1>2, <1>5 DEF Alike, Beside, Kept, s, t

\* Switches and requests are none of the annotations that the operator sets.
LEMMA SameNote ==
  ASSUME NEW p, NEW q, Alike(p, q), NEW a, NEW b,
         a \in {"admission", "ddtrace", "otel", "logfwd", "flameshot", "profiler"}
  PROVE  /\ Annotated(q, <<a, b>>) <=> Annotated(p, <<a, b>>)
         /\ Annotated(p, <<a, b>>) => q.annotations[<<a, b>>] = p.annotations[<<a, b>>]
         /\ CheckAnnotationIsTrue(q, <<a, b>>) <=> CheckAnnotationIsTrue(p, <<a, b>>)
<1> DEFINE k == <<a, b>>
<1>1. k \notin OwnKeys
  <2>1. k[1] = a
    OBVIOUS
  <2>2. \A o \in OwnKeys : o[1] \in {"datakit", "prometheus"}
    BY DEF OwnKeys, Logs, PrometheusKeys
  <2> HIDE DEF k
  <2> QED BY <2>1, <2>2
<1> HIDE DEF k
<1>2. /\ Annotated(q, k) <=> Annotated(p, k)
      /\ Annotated(p, k) => q.annotations[k] = p.annotations[k]
  BY <1>1 DEF Alike, Annotated
<1>3. CheckAnnotationIsTrue(q, k) <=> CheckAnnotationIsTrue(p, k)
  BY <1>2 DEF CheckAnnotationIsTrue
<1> QED BY <1>2, <1>3 DEF k

\* The variables of a rule are built alike.
LEMMA SameEnvs ==
  ASSUME NEW p, NEW q, Alike(p, q)
  PROVE  /\ \A envs : BuildEnvs(envs, q) = BuildEnvs(envs, p)
         /\ \A ns : NamespaceOf(q, ns) = NamespaceOf(p, ns)
<1>1. ASSUME NEW envs PROVE BuildEnvs(envs, q) = BuildEnvs(envs, p)
  <2> DEFINE built == [i \in DOMAIN envs |-> BuildEnv(envs[i])]
             Built(kept) == Limiting!Fold(kept, <<>>, built)
  <2>1. BuildEnvs(envs, q) = Limiting!Fold(Kept(q), <<>>, built)
    BY DEF Kept, BuildEnvs, Filter, FoldLeft, MapThenFoldSet, Max, Limiting!Fold, Limiting!Largest, LimitOp
  <2>2. BuildEnvs(envs, p) = Limiting!Fold(Kept(p), <<>>, built)
    BY DEF Kept, BuildEnvs, Filter, FoldLeft, MapThenFoldSet, Max, Limiting!Fold, Limiting!Largest, LimitOp
  <2>3. Kept(p) = Kept(q)
    <3>1. Kept(p) \in BOOLEAN /\ Kept(q) \in BOOLEAN
      BY DEF Kept
    <3> QED BY <3>1 DEF Alike
  <2> HIDE DEF built
  <2> QED BY <2>1, <2>2, <2>3
<1>2. q.namespace = p.namespace
  BY DEF Alike
<1> QED BY <1>1, <1>2 DEF NamespaceOf

\* What an injection did it does not do again, and what it did not do it does not do
\* later, where others only changed what it does not look at.
LEMMA LogfwdSettles ==
  ASSUME NEW p, IsPod(p), InPlace(p), PathsApart, NEW ns, NEW rules \in Seq(LogfwdRules),
         \A rule \in ToSet(rules) : LogfwdNamesSuffice(rule) /\ ToSet(rule.paths) \cap LibraryPaths = {}
  PROVE  LET r == InjectLogfwdToPod(p, ns, rules)
         IN  After(p, r) /\ \A q : Alike(r, q) => InjectLogfwdToPod(q, ns, rules) = q
<1> DEFINE Match(x) == Matches(rules, x.namespace)
           Guard(x) == /\ CheckAnnotationIsTrue(x, <<"logfwd", "enabled">>)
                       /\ ~ContainsContainer(x, LogfwdContainer)
                       /\ Match(x).found
                       /\ Match(x).rule.checkAnnotation => Annotated(x, Instances)
           r == InjectLogfwdToPod(p, ns, rules)
<1>1. \A x : InjectLogfwdToPod(x, ns, rules) = IF Guard(x) THEN InjectLogfwd(x, Match(x).rule) ELSE x
  BY DEF InjectLogfwdToPod
<1>2. CASE Guard(p)
  <2>1. Match(p).rule \in LogfwdRules /\ LogfwdNamesSuffice(Match(p).rule)
        /\ ToSet(Match(p).rule.paths) \cap LibraryPaths = {}
    <3>1. Match(p).found
      BY <1>2
    <3>2. Match(p).rule \in LogfwdRules /\ Match(p).rule \in ToSet(rules)
      BY <3>1, MatchesIs
    <3> QED BY <3>2
  <2> HIDE DEF Guard, Match, r
  <2>2. r = InjectLogfwd(p, Match(p).rule)
    BY <1>1, <1>2 DEF r
  <2>3. After(p, r) /\ LogfwdContainer \in Names(r.containers)
    BY <2>1, <2>2, LogfwdAfter
  <2>4. \A q : Alike(r, q) => ~Guard(q)
    BY <2>3 DEF Alike, ContainsContainer, Guard
  <2> QED BY <1>1, <2>3, <2>4 DEF r
<1>3. CASE ~Guard(p)
  <2>1. r = p
    BY <1>1, <1>3
  <2>2. ASSUME NEW q, Alike(p, q) PROVE ~Guard(q)
    <3>1. /\ CheckAnnotationIsTrue(q, <<"logfwd", "enabled">>) <=> CheckAnnotationIsTrue(p, <<"logfwd", "enabled">>)
          /\ Annotated(q, Instances) <=> Annotated(p, Instances)
      BY <2>2, SameNote DEF Instances
    <3>2. Match(q) = Match(p) /\ (ContainsContainer(p, LogfwdContainer) => ContainsContainer(q, LogfwdContainer))
      BY <2>2 DEF Alike, ContainsContainer
    <3> HIDE DEF Match
    <3> QED BY <1>3, <3>1, <3>2
  <2> HIDE DEF Guard, Match, r
  <2> QED BY <1>1, <2>1, <2>2, AfterReflexive DEF r
<1> QED BY <1>2, <1>3

LEMMA FlameshotSettles ==
  ASSUME NEW p, IsPod(p), NEW ns, NEW rules \in Seq(FlameshotRules)
  PROVE  LET r == InjectFlameshotToPod(p, ns, rules)
         IN  After(p, r) /\ \A q : Alike(r, q) => InjectFlameshotToPod(q, ns, rules) = q
<1> DEFINE Match(x) == Matches(rules, NamespaceOf(x, ns))
           Own(x) == SidecarEnvs(Match(x).rule, x)
           Envs(x) == AddOrUpdateEnvVar(Own(x), Plain("FLAMESHOT_PROCESSES", <<Match(x).rule.processes>>),
                                        ReplaceExistingEnvVar)
           Guard(x) == /\ CheckAnnotationIsTrue(x, <<"flameshot", "enabled">>)
                       /\ ~ContainsContainer(x, FlameshotContainer)
                       /\ Match(x).found
                       /\ Match(x).rule.processes # Blank
                       /\ EnvIndex(Envs(x), ProfilingPath) # 0
                       /\ HasFlameshotPort(Envs(x))
           r == InjectFlameshotToPod(p, ns, rules)
<1>1. \A x : InjectFlameshotToPod(x, ns, rules) = IF Guard(x) THEN InjectFlameshot(x, Match(x).rule, Envs(x)) ELSE x
  BY DEF InjectFlameshotToPod
<1>2. CASE Guard(p)
  <2>1. Match(p).rule \in FlameshotRules
    <3>1. Match(p).found
      BY <1>2
    <3> QED BY <3>1, MatchesIs
  <2> HIDE DEF Match
  <2>2. Own(p) \in Seq(EnvVar)
    <3>1. Match(p).rule.envs \in Seq(EnvVar)
      BY <2>1 DEF FlameshotRules
    <3> QED BY <3>1, SidecarEnvsAre
  <2>3. Envs(p) \in Seq(EnvVar)
    <3> DEFINE e == Plain("FLAMESHOT_PROCESSES", <<Match(p).rule.processes>>)
    <3>1. e \in EnvVar
      <4>1. Match(p).rule.processes \in Text
        BY <2>1 DEF FlameshotRules
      <4>2. <<Match(p).rule.processes>> \in Seq(Text)
        BY <4>1
      <4> QED BY <4>2, SidecarsLiterals DEF Plain, Env, EnvVar, Kinds
    <3> HIDE DEF Own, e
    <3>2. Placed(Own(p), e, e) \in Seq(EnvVar)
      BY <2>2, <3>1, PlacedIs
    <3>3. Envs(p) = Placed(Own(p), e, e)
      BY <2>2, <3>1, AddOrUpdateIs DEF e
    <3> QED BY <3>2, <3>3
  <2>4. EnvIndex(Envs(p), ProfilingPath) # 0
    BY <1>2
  <2> HIDE DEF Envs, Own
  <2>5. r = InjectFlameshot(p, Match(p).rule, Envs(p))
    <3> HIDE DEF Guard
    <3> QED BY <1>1, <1>2
  <2> HIDE DEF r
  <2>6. After(p, r) /\ FlameshotContainer \in Names(r.containers)
    BY <2>1, <2>3, <2>4, <2>5, FlameshotAfter
  <2>7. \A q : Alike(r, q) => ~Guard(q)
    BY <2>6 DEF Alike, ContainsContainer
  <2> HIDE DEF Guard
  <2> QED BY <1>1, <2>6, <2>7 DEF r
<1>3. CASE ~Guard(p)
  <2>1. r = p
    <3> HIDE DEF Guard, Match, Envs, Own
    <3> QED BY <1>1, <1>3
  <2>2. ASSUME NEW q, Alike(p, q) PROVE ~Guard(q)
    <3>1. CheckAnnotationIsTrue(q, <<"flameshot", "enabled">>) <=> CheckAnnotationIsTrue(p, <<"flameshot", "enabled">>)
      BY <2>2, SameNote
    <3>2. ContainsContainer(p, FlameshotContainer) => ContainsContainer(q, FlameshotContainer)
      BY <2>2 DEF Alike, ContainsContainer
    <3>3. Match(q) = Match(p)
      <4>1. NamespaceOf(q, ns) = NamespaceOf(p, ns)
        BY <2>2, SameEnvs
      <4> QED BY <4>1
    <3> HIDE DEF Match
    <3>4. Own(q) = Own(p)
      <4>1. \A envs : BuildEnvs(envs, q) = BuildEnvs(envs, p)
        BY <2>2, SameEnvs
      <4> QED BY <3>3, <4>1 DEF SidecarEnvs
    <3> HIDE DEF Own
    <3>5. Envs(q) = Envs(p)
      BY <3>3, <3>4
    <3> HIDE DEF Envs
    <3> QED BY <1>3, <3>1, <3>2, <3>3, <3>5
  <2> HIDE DEF Guard, Match, r, Envs, Own
  <2> QED BY <1>1, <2>1, <2>2, AfterReflexive DEF r
<1> QED BY <1>2, <1>3

\* The same language is chosen.
LEMMA SameChoice ==
  ASSUME NEW p, NEW q, Alike(p, q), NEW rule
  PROVE  ProfilerChoice(q, rule) = ProfilerChoice(p, rule)
<1> DEFINE Fits(x, l) == IF rule.checkAnnotation THEN Annotated(x, <<"profiler", l>>) ELSE l = rule.language
           L == ProfilerLanguages
           I(x) == {j \in 1..Len(L) : Fits(x, L[j])}
           Index(S) == IF S # {} THEN Min(S) ELSE 0
           Choice(x, i) == [found |-> TRUE, language |-> L[i],
                            version |-> IF rule.checkAnnotation
                                        THEN x.annotations[<<"profiler", L[i]>>] ELSE Blank]
<1>1. \A x : ProfilerChoice(x, rule) = IF Index(I(x)) = 0 THEN [found |-> FALSE] ELSE Choice(x, Index(I(x)))
  BY DEF ProfilerChoice, SelectInSeq
<1>2. \A l : /\ Annotated(q, <<"profiler", l>>) <=> Annotated(p, <<"profiler", l>>)
             /\ Annotated(p, <<"profiler", l>>) => q.annotations[<<"profiler", l>>] = p.annotations[<<"profiler", l>>]
  BY SameNote
<1>3. Len(L) \in Nat
  BY DEF ProfilerLanguages
<1> HIDE DEF L
<1>4. I(q) = I(p) /\ I(p) \in SUBSET (1..Len(L))
  BY <1>2
<1>5. Index(I(p)) # 0 => Index(I(p)) \in I(p)
  <2> HIDE DEF I
  <2> QED BY <1>3, <1>4, MinIs
<1>6. \A i \in I(p) : Choice(q, i) = Choice(p, i)
  BY <1>2
<1> HIDE DEF I, Index, Choice
<1> QED BY <1>1, <1>4, <1>5, <1>6

LEMMA ProfilerSettles ==
  ASSUME NEW p, IsPod(p), NEW ns, NEW rules \in Seq(ProfilerRules)
  PROVE  LET r == InjectProfilerToPod(p, ns, rules)
         IN  After(p, r) /\ \A q : Alike(r, q) => InjectProfilerToPod(q, ns, rules) = q
<1> DEFINE Match(x) == Matches(rules, NamespaceOf(x, ns))
           Choice(x) == ProfilerChoice(x, Match(x).rule)
           Name(x) == ProfilerImage(Match(x).rule, Choice(x).language)
           Guard(x) == /\ CheckAnnotationIsTrue(x, <<"profiler", "enabled">>)
                       /\ ~ContainsContainer(x, ProfilerContainer)
                       /\ Match(x).found
                       /\ Choice(x).found
                       /\ Name(x) # Blank
           image == Image(Name(p), Choice(p).version)
           r == InjectProfilerToPod(p, ns, rules)
<1>1. \A x : InjectProfilerToPod(x, ns, rules) =
               IF Guard(x) THEN InjectProfiler(x, Match(x).rule, Image(Name(x), Choice(x).version)) ELSE x
  BY DEF InjectProfilerToPod
<1>2. CASE Guard(p)
  <2>1. Match(p).rule \in ProfilerRules
    <3>1. Match(p).found
      BY <1>2
    <3> QED BY <3>1, MatchesIs
  <2> HIDE DEF Match
  <2>2. Choice(p).version \in Text /\ Name(p) \in Text
    BY <1>2, <2>1, ProfilerChoiceIs
  <2> HIDE DEF Choice, Name
  <2>3. image \in [of: Text, version: Text]
    BY <2>2 DEF Image
  <2>4. r = InjectProfiler(p, Match(p).rule, image)
    <3> HIDE DEF Guard
    <3> QED BY <1>1, <1>2
  <2> HIDE DEF r, image
  <2>5. After(p, r) /\ ProfilerContainer \in Names(r.containers)
    BY <2>1, <2>3, <2>4, ProfilerAfter
  <2>6. \A q : Alike(r, q) => ~Guard(q)
    BY <2>5 DEF Alike, ContainsContainer
  <2> HIDE DEF Guard
  <2> QED BY <1>1, <2>5, <2>6 DEF r
<1>3. CASE ~Guard(p)
  <2>1. r = p
    <3> HIDE DEF Guard, Match, Choice, Name
    <3> QED BY <1>1, <1>3
  <2>2. ASSUME NEW q, Alike(p, q) PROVE ~Guard(q)
    <3>1. CheckAnnotationIsTrue(q, <<"profiler", "enabled">>) <=> CheckAnnotationIsTrue(p, <<"profiler", "enabled">>)
      BY <2>2, SameNote
    <3>2. ContainsContainer(p, ProfilerContainer) => ContainsContainer(q, ProfilerContainer)
      BY <2>2 DEF Alike, ContainsContainer
    <3>3. Match(q) = Match(p)
      <4>1. NamespaceOf(q, ns) = NamespaceOf(p, ns)
        BY <2>2, SameEnvs
      <4> QED BY <4>1
    <3> HIDE DEF Match
    <3>4. Choice(q) = Choice(p)
      BY <2>2, <3>3, SameChoice
    <3> HIDE DEF Choice
    <3> QED BY <1>3, <3>1, <3>2, <3>3, <3>4
  <2> HIDE DEF Guard, Match, r, Choice, Name, image
  <2> QED BY <1>1, <2>1, <2>2, AfterReflexive DEF r
<1> QED BY <1>2, <1>3

LEMMA LoggingSettles ==
  ASSUME NEW p, IsPod(p), InPlace(p), PathsApart, NEW ns, NEW rules \in Seq(LoggingRules),
         \A l \in Lengths : l <= Len(LogsVolumes)
  PROVE  LET r == MutateLoggingToPod(p, ns, rules)
         IN  After(p, r) /\ \A q : Alike(r, q) => MutateLoggingToPod(q, ns, rules) = q
<1> DEFINE Match(x) == Matches(rules, NamespaceOf(x, ns))
           Config(x) == Match(x).rule.config
           Guard(x) == ~Annotated(x, Logs) /\ Match(x).found /\ Config(x) \in DOMAIN PathsOf
           Noted(x) == Annotate(ShareVolumes(x, GetVolumePairs(x, Unique(PathsOf[Config(x)]), LogsVolumes)),
                                {Logs}, Config(x))
           r == MutateLoggingToPod(p, ns, rules)
<1>1. \A x : MutateLoggingToPod(x, ns, rules) = IF Guard(x) THEN Noted(x) ELSE x
  BY DEF MutateLoggingToPod
<1>2. \A q : Alike(p, q) => Match(q) = Match(p)
  BY SameEnvs
<1> HIDE DEF Match
<1>3. CASE Guard(p)
  <2> HIDE DEF Config
  <2>1. After(p, Noted(p)) /\ Annotated(Noted(p), Logs)
    BY <1>3, LoggingAfter
  <2>2. r = Noted(p)
    <3> HIDE DEF Guard, Noted
    <3> QED BY <1>1, <1>3
  <2> HIDE DEF r
  <2>3. \A q : Alike(r, q) => ~Guard(q)
    BY <2>1, <2>2 DEF Alike, Annotated
  <2> HIDE DEF Guard, Noted
  <2> QED BY <1>1, <2>1, <2>2, <2>3 DEF r
<1>4. CASE ~Guard(p)
  <2>1. r = p
    <3> HIDE DEF Guard, Noted
    <3> QED BY <1>1, <1>4
  <2>2. \A q : Alike(p, q) => ~Guard(q)
    BY <1>2, <1>4 DEF Alike, Annotated
  <2> HIDE DEF Guard, Noted, r
  <2> QED BY <1>1, <2>1, <2>2, AfterReflexive DEF r
<1> QED BY <1>3, <1>4

\* A pod in which the libraries are as reviews bring them.
Prepared(p) == InPlace(p) /\ OwnVolumes(p) /\ BringsDD(p)

\* Sidecars and logs leave a pod so.
LEMMA AfterPrepared ==
  ASSUME NEW p, NEW q, Prepared(p), After(p, q)
  PROVE  Prepared(q)
<1>1. InPlace(q)
  BY AfterInPlace DEF Prepared
<1>2. Beside(p, q) /\ OwnVolumes(p) /\ BringsDD(p) /\ DDVolume \in LibraryVolumes
  BY DEF After, Prepared, LibraryVolumes
<1>3. OwnVolumes(q)
  BY <1>2 DEF Beside, OwnVolumes
<1>4. BringsDD(q)
  BY <1>2 DEF Beside, BringsDD
<1> QED BY <1>1, <1>3, <1>4 DEF Prepared

\* A library's mount is added where it belongs.
LEMMA InPlaceAdded ==
  ASSUME NEW p, IsPod(p), InPlace(p), NEW m \in VolumeMount, m.path \in LibraryPaths,
         NEW q, DOMAIN q.containers = DOMAIN p.containers,
         \A i \in DOMAIN p.containers : q.containers[i].mounts = AddMountTo(p.containers[i], m).mounts
  PROVE  InPlace(q)
<1> SUFFICES ASSUME NEW i \in DOMAIN p.containers, NEW x \in ToSet(q.containers[i].mounts),
                    x.name \in LibraryVolumes
             PROVE  x.path \in LibraryPaths
  BY DEF InPlace
<1> DEFINE c == p.containers[i]
<1>1. c \in PodContainer
  <2>1. p.containers \in Seq(PodContainer)
    BY PodIs
  <2> QED BY <2>1
<1>2. c.mounts \in Seq(VolumeMount) /\ AddMountTo(c, m).mounts = AddNamed(c.mounts, m)
  BY <1>1 DEF AddMountTo, PodContainer
<1>3. x \in ToSet(AddNamed(c.mounts, m))
  BY <1>2
<1>4. x \in ToSet(c.mounts) \cup {m}
  BY <1>2, <1>3, AddedIs
<1> QED BY <1>4 DEF InPlace

\* Tracing leaves a pod so, too.
LEMMA TracingPrepared ==
  ASSUME NEW p, IsPod(p), Prepared(p), NEW ns,
         NEW ddtraces \in Seq(TracingRule), NEW otels \in Seq(TracingRule)
  PROVE  Prepared(InjectTracingToPod(p, ns, ddtraces, otels))
<1> DEFINE q == InjectTracingToPod(p, ns, ddtraces, otels)
<1>1. \/ q = p
      \/ DDInit \in Names(p.init) /\ q = RepairJavaAgentEnv(p)
      \/ DDAdded(p, q, ns, ddtraces)
      \/ OTelAdded(p, q, ns, otels)
  BY TracingForms
<1>2. p.containers \in Seq(PodContainer) /\ p.init \in Seq(PodContainer) /\ DOMAIN p = PodFields
  BY PodIs
<1>3. InPlace(p) /\ OwnVolumes(p) /\ BringsDD(p)
  BY DEF Prepared
<1> SUFFICES Prepared(q)
  OBVIOUS
<1> HIDE DEF q
<1>4. CASE DDInit \in Names(p.init) /\ q = RepairJavaAgentEnv(p)
  <2> DEFINE list == q.containers
  <2>1. /\ q = [p EXCEPT !.containers = list]
        /\ list = [i \in DOMAIN p.containers |-> list[i]]
        /\ \A i \in DOMAIN p.containers :
             \/ list[i] = p.containers[i]
             \/ list[i] = LoadDD(p.containers[i], LoaderKey.java)
    BY <1>3, <1>4, RepairIs
  <2>2. \A i \in DOMAIN p.containers : list[i].mounts = p.containers[i].mounts
    <3>1. \A c \in PodContainer : LoadDD(c, LoaderKey.java).mounts = c.mounts
      BY DEF LoadDD, PodContainer
    <3>2. \A i \in DOMAIN p.containers : p.containers[i] \in PodContainer
      BY <1>2
    <3>3. \A i \in DOMAIN p.containers :
            list[i] = p.containers[i] \/ list[i] = LoadDD(p.containers[i], LoaderKey.java)
      <4> HIDE DEF list
      <4> QED BY <2>1
    <3> HIDE DEF list
    <3> QED BY <3>1, <3>2, <3>3
  <2>3. DOMAIN list = DOMAIN p.containers
    <3> HIDE DEF list
    <3> QED BY <2>1
  <2>4. q.init = p.init /\ q.volumes = p.volumes
    <3> HIDE DEF list
    <3> QED BY <1>2, <2>1 DEF PodFields
  <2>5. InPlace(q)
    BY <1>3, <2>2, <2>3 DEF InPlace
  <2>6. OwnVolumes(q) /\ BringsDD(q)
    BY <1>3, <2>4 DEF OwnVolumes, BringsDD, IsEmptyDirVolume
  <2> QED BY <2>5, <2>6 DEF Prepared
<1>5. ASSUME NEW m \in VolumeMount, m.path \in LibraryPaths, NEW init \in PodContainer, NEW v,
             NEW list, NEW name \in LibraryVolumes, v = EmptyDir(name),
             q = AddVolume(AddInitContainer([p EXCEPT !.containers = list], init), v),
             DOMAIN list = DOMAIN p.containers,
             \A i \in DOMAIN list : list[i].mounts = AddMountTo(p.containers[i], m).mounts,
             init.name = DDInit => name = DDVolume /\ HasDDMount(init)
      PROVE  Prepared(q)
  <2>1. q.containers = list /\ q.init = AddNamed(p.init, init) /\ q.volumes = AddNamed(p.volumes, v)
    BY <1>5, BuiltIs
  <2>2. InPlace(q)
    BY <1>3, <1>5, <2>1, InPlaceAdded
  <2>3. OwnVolumes(q)
    BY <1>3, <1>5, <2>1, OwnAdded
  <2>4. Names(q.volumes) = Names(p.volumes) \cup {name}
    <3>1. v \in PodVolume /\ v.name = name
      <4>1. name \in Text
        BY <1>5, TracingLiterals DEF LibraryVolumes
      <4> QED BY <1>5, <4>1, EmptyDirIs DEF EmptyDir, Volume
    <3>2. p.volumes \in Seq(PodVolume)
      BY PodIs
    <3> QED BY <2>1, <3>1, <3>2, AddNamedIs
  <2>5. \A i \in DOMAIN q.init : q.init[i] \in ToSet(p.init) \cup {init}
    <3>1. ToSet(q.init) \subseteq ToSet(p.init) \cup {init}
      BY <1>2, <1>5, <2>1, AddedIs
    <3> QED BY <3>1 DEF ToSet
  <2>6. Names(q.init) = Names(p.init) \cup {init.name}
    BY <1>2, <1>5, <2>1, AddNamedIs
  <2>7. BringsDD(q)
    <3> SUFFICES ASSUME DDInit \in Names(q.init)
                 PROVE  /\ DDVolume \in Names(q.volumes)
                        /\ \A i \in DOMAIN q.init : q.init[i].name = DDInit => HasDDMount(q.init[i])
      BY DEF BringsDD
    <3>1. DDVolume \in Names(q.volumes)
      BY <1>3, <1>5, <2>4, <2>6 DEF BringsDD
    <3>2. \A x \in ToSet(p.init) : x.name = DDInit => HasDDMount(x)
      <4>1. \A x \in ToSet(p.init) : \E i \in DOMAIN p.init : x = p.init[i]
        BY DEF ToSet
      <4> QED BY <1>3, <4>1 DEF BringsDD, Names
    <3> QED BY <1>5, <2>5, <3>1, <3>2
  <2> QED BY <2>2, <2>3, <2>7 DEF Prepared
<1>6. CASE DDAdded(p, q, ns, ddtraces)
  <2> DEFINE chosen == SelectRule(p, MatchesAll(ddtraces, NamespaceOf(p, ns)), "ddtrace")
             rule == chosen.rule
             lang == rule.language
             envs == BuildEnvs(rule.envs, p)
             list == [i \in DOMAIN p.containers |-> DDTraced(p.containers[i], lang, envs)]
  <2>1. PICK init \in PodContainer :
          /\ init.name = DDInit /\ init.mounts = <<DDMount>>
          /\ q = AddVolume(AddInitContainer([p EXCEPT !.containers = list], init), EmptyDir(DDVolume))
    BY <1>6 DEF DDAdded
  <2>2. rule \in TracingRule /\ lang \in DOMAIN LoaderKey /\ ~Blocked(p, DDKeys(lang))
    BY <1>6 DEF DDAdded
  <2> HIDE DEF rule, lang
  <2>3. envs \in Seq(EnvVar)
    <3>1. rule.envs \in Seq(EnvVar)
      BY <2>2 DEF TracingRule
    <3> QED BY <3>1, BuildEnvsAre
  <2> HIDE DEF envs
  <2>4. \A i \in DOMAIN p.containers : list[i].mounts = AddMountTo(p.containers[i], DDMount).mounts
    <3> SUFFICES ASSUME NEW i \in DOMAIN p.containers
                 PROVE  DDTraced(p.containers[i], lang, envs).mounts = AddMountTo(p.containers[i], DDMount).mounts
      OBVIOUS
    <3>1. \A k \in ToSet(DDKeys(lang)) : ~IsSourced(p.containers[i], k)
      BY <2>2 DEF Blocked
    <3>2. p.containers[i] \in PodContainer
      BY <1>2
    <3> QED BY <2>2, <2>3, <3>1, <3>2, DDTracedLoads
  <2>5. DOMAIN list = DOMAIN p.containers
    OBVIOUS
  <2> HIDE DEF list
  <2>6. DDMount \in VolumeMount /\ DDMount.path \in LibraryPaths /\ DDMount.name = DDVolume
    BY TracingLiterals DEF LibraryPaths, DDMount, Mount
  <2>7. HasDDMount(init)
    <3>1. 1 \in DOMAIN init.mounts /\ init.mounts[1] = DDMount
      BY <2>1
    <3> QED BY <2>6, <3>1 DEF HasDDMount
  <2>8. DDVolume \in LibraryVolumes
    BY DEF LibraryVolumes
  <2> QED BY <1>5, <2>1, <2>4, <2>5, <2>6, <2>7, <2>8
<1>7. CASE OTelAdded(p, q, ns, otels)
  <2> DEFINE chosen == SelectRule(p, MatchesAll(otels, NamespaceOf(p, ns)), "otel")
             rule == chosen.rule
             lang == rule.language
             envs == BuildEnvs(rule.envs, p)
             list == [i \in DOMAIN p.containers |-> OTelTraced(p.containers[i], lang, envs)]
             m == OTelMount(lang)
  <2>1. PICK init \in PodContainer :
          /\ init.name = OTelInit
          /\ q = AddVolume(AddInitContainer([p EXCEPT !.containers = list], init), EmptyDir(OTelVolume))
    BY <1>7 DEF OTelAdded
  <2>2. rule \in TracingRule /\ lang \in OTelLanguages
    BY <1>7 DEF OTelAdded
  <2> HIDE DEF rule, lang
  <2>3. envs \in Seq(EnvVar)
    <3>1. rule.envs \in Seq(EnvVar)
      BY <2>2 DEF TracingRule
    <3> QED BY <3>1, BuildEnvsAre
  <2> HIDE DEF envs
  <2>4. \A i \in DOMAIN p.containers : list[i].mounts = AddMountTo(p.containers[i], m).mounts
    <3> SUFFICES ASSUME NEW i \in DOMAIN p.containers
                 PROVE  OTelTraced(p.containers[i], lang, envs).mounts = AddMountTo(p.containers[i], m).mounts
      OBVIOUS
    <3>1. p.containers[i] \in PodContainer
      BY <1>2
    <3> QED BY <2>2, <2>3, <3>1, OTelTracedLoads
  <2>5. DOMAIN list = DOMAIN p.containers
    OBVIOUS
  <2> HIDE DEF list
  <2>6. m \in VolumeMount /\ m.path \in LibraryPaths
    BY <2>2, TracingLiterals DEF LibraryPaths, OTelMount, Mount
  <2> HIDE DEF m
  <2>7. OTelInit # DDInit /\ OTelVolume \in LibraryVolumes
    BY DEF LibraryVolumes, DDInit, OTelInit
  <2> QED BY <1>5, <2>1, <2>4, <2>5, <2>6, <2>7
<1> QED BY <1>1, <1>4, <1>6, <1>7

-----------------------------------------------------------------------------
(* Whole libraries *)

\* What WholeOrNothing says of a pod and what tracing makes of it.
Whole(p, q) ==
  LET new == [i \in 1..(Len(q.init) - Len(p.init)) |-> q.init[Len(p.init) + i]]
      all == ToSet(q.containers)
  IN  IF new = <<>>
      THEN q.volumes = p.volumes \/ Names(p.init) \cap {DDInit, OTelInit} # {}
      ELSE IF new[1].name = DDInit
      THEN /\ IsEmptyDirVolume(q, DDVolume)
           /\ \A c \in all : LoadsDD(c, new[1].command)
      ELSE /\ IsEmptyDirVolume(q, OTelVolume)
           /\ \A c \in all : LoadsOTel(c, new[1].command)

LEMMA NothingNew ==
  ASSUME NEW p, NEW q, IsPod(p), q.init = p.init,
         q.volumes = p.volumes \/ Names(p.init) \cap {DDInit, OTelInit} # {}
  PROVE  Whole(p, q)
<1> DEFINE n == Len(p.init)
           new == [i \in 1..(n - n) |-> q.init[n + i]]
<1>1. n \in Nat
  <2>1. p.init \in Seq(PodContainer)
    BY PodIs
  <2> QED BY <2>1
<1>2. n - n = 0 /\ 1..0 = {}
  BY <1>1
<1>3. new = <<>>
  BY <1>2
<1>4. new = [i \in 1..(Len(q.init) - Len(p.init)) |-> q.init[Len(p.init) + i]]
  OBVIOUS
<1> HIDE DEF new, n
<1> QED BY <1>3, <1>4 DEF Whole

LEMMA OneNew ==
  ASSUME NEW p, NEW q, IsPod(p), NEW init \in PodContainer, q.init = Append(p.init, init),
         \/ /\ init.name = DDInit /\ IsEmptyDirVolume(q, DDVolume)
            /\ \A c \in ToSet(q.containers) : LoadsDD(c, init.command)
         \/ /\ init.name # DDInit /\ IsEmptyDirVolume(q, OTelVolume)
            /\ \A c \in ToSet(q.containers) : LoadsOTel(c, init.command)
  PROVE  Whole(p, q)
<1> DEFINE n == Len(p.init)
           k == Len(q.init) - n
           new == [i \in 1..k |-> q.init[n + i]]
<1>1. n \in Nat /\ Len(q.init) = n + 1 /\ q.init[n + 1] = init
  <2>1. p.init \in Seq(PodContainer)
    BY PodIs
  <2> QED BY <2>1, AppendProperties
<1> HIDE DEF n
<1>2. k = 1
  BY <1>1
<1> HIDE DEF k
<1>3. 1 \in 1..k
  BY <1>2
<1>4. new[1] = init /\ DOMAIN new # {}
  BY <1>1, <1>3
<1>5. new # <<>>
  <2> HIDE DEF new
  <2> QED BY <1>4
<1>6. new = [i \in 1..(Len(q.init) - Len(p.init)) |-> q.init[Len(p.init) + i]]
  BY DEF n, k
<1> HIDE DEF new
<1> QED BY <1>4, <1>5, <1>6 DEF Whole

\* Tracing adds a library as a whole, or nothing.
LEMMA TracingWhole ==
  ASSUME NEW p, IsPod(p), Apart(p), Prepared(p), NEW ns,
         NEW ddtraces \in Seq(TracingRule), NEW otels \in Seq(TracingRule)
  PROVE  Whole(p, InjectTracingToPod(p, ns, ddtraces, otels))
<1> DEFINE q == InjectTracingToPod(p, ns, ddtraces, otels)
<1>1. \/ q = p
      \/ DDInit \in Names(p.init) /\ q = RepairJavaAgentEnv(p)
      \/ DDAdded(p, q, ns, ddtraces)
      \/ OTelAdded(p, q, ns, otels)
  BY TracingForms
<1>2. p.containers \in Seq(PodContainer) /\ p.init \in Seq(PodContainer) /\ DOMAIN p = PodFields
  BY PodIs
<1>3. OwnVolumes(p) /\ BringsDD(p)
  BY DEF Prepared
<1> SUFFICES Whole(p, q)
  OBVIOUS
<1> HIDE DEF q
<1>4. CASE q = p
  BY <1>4, NothingNew
<1>5. CASE DDInit \in Names(p.init) /\ q = RepairJavaAgentEnv(p)
  <2>1. q = [p EXCEPT !.containers = q.containers]
    BY <1>3, <1>5, RepairIs
  <2>2. q.init = p.init
    BY <1>2, <2>1 DEF PodFields
  <2> QED BY <1>5, <2>2, NothingNew
<1>6. \A i \in DOMAIN p.containers : Names(p.containers[i].mounts) \subseteq MountNames(p)
  BY DEF MountNames
<1>7. \A r : \A c \in ToSet(r.containers) : \E i \in DOMAIN r.containers : c = r.containers[i]
  BY DEF ToSet
<1>10. ASSUME NEW list, NEW init, NEW v, q = AddVolume(AddInitContainer([p EXCEPT !.containers = list], init), v)
       PROVE  q.containers = list /\ q.init = AddNamed(p.init, init) /\ q.volumes = AddNamed(p.volumes, v)
  BY <1>2, <1>10 DEF PodFields, AddVolume, AddInitContainer
<1>8. CASE DDAdded(p, q, ns, ddtraces)
  <2> DEFINE chosen == SelectRule(p, MatchesAll(ddtraces, NamespaceOf(p, ns)), "ddtrace")
             rule == chosen.rule
             lang == rule.language
             envs == BuildEnvs(rule.envs, p)
             list == [i \in DOMAIN p.containers |-> DDTraced(p.containers[i], lang, envs)]
  <2>1. PICK init \in PodContainer :
          /\ init.name = DDInit /\ init.command = lang
          /\ q = AddVolume(AddInitContainer([p EXCEPT !.containers = list], init), EmptyDir(DDVolume))
    BY <1>8 DEF DDAdded
  <2>2. rule \in TracingRule /\ lang \in DOMAIN LoaderKey /\ ~Blocked(p, DDKeys(lang))
    BY <1>8 DEF DDAdded
  <2>3. Names(p.init) \cap {DDInit, OTelInit} = {}
    BY <1>8 DEF DDAdded
  <2> HIDE DEF rule, lang
  <2>4. envs \in Seq(EnvVar)
    <3>1. rule.envs \in Seq(EnvVar)
      BY <2>2 DEF TracingRule
    <3> QED BY <3>1, BuildEnvsAre
  <2> HIDE DEF envs
  <2>5. \A i \in DOMAIN p.containers : LoadsDD(list[i], lang)
    <3> SUFFICES ASSUME NEW i \in DOMAIN p.containers
                 PROVE  LoadsDD(DDTraced(p.containers[i], lang, envs), lang)
      OBVIOUS
    <3>1. \A k \in ToSet(DDKeys(lang)) : ~IsSourced(p.containers[i], k)
      BY <2>2 DEF Blocked
    <3>2. p.containers[i] \in PodContainer
      BY <1>2
    <3>3. DDVolume \notin Names(p.containers[i].mounts)
      BY <1>6, <2>3 DEF Apart
    <3> QED BY <2>2, <2>4, <3>1, <3>2, <3>3, DDTracedLoads
  <2>6. DOMAIN list = DOMAIN p.containers
    OBVIOUS
  <2> HIDE DEF list
  <2>7. /\ q.containers = list /\ q.init = AddNamed(p.init, init)
        /\ q.volumes = AddNamed(p.volumes, EmptyDir(DDVolume))
    BY <1>10, <2>1
  <2>8. q.init = Append(p.init, init)
    BY <1>2, <2>1, <2>3, <2>7 DEF AddNamed
  <2>9. IsEmptyDirVolume(q, DDVolume)
    <3>1. DDVolume \in LibraryVolumes
      BY DEF LibraryVolumes
    <3> QED BY <1>3, <2>7, <3>1, OwnAdded
  <2>10. \A c \in ToSet(q.containers) : LoadsDD(c, init.command)
    <3>1. \A c \in ToSet(q.containers) : \E i \in DOMAIN list : c = list[i]
      BY <1>7, <2>7
    <3> QED BY <2>1, <2>5, <2>6, <3>1
  <2> QED BY <2>1, <2>8, <2>9, <2>10, OneNew
<1>9. CASE OTelAdded(p, q, ns, otels)
  <2> DEFINE chosen == SelectRule(p, MatchesAll(otels, NamespaceOf(p, ns)), "otel")
             rule == chosen.rule
             lang == rule.language
             envs == BuildEnvs(rule.envs, p)
             list == [i \in DOMAIN p.containers |-> OTelTraced(p.containers[i], lang, envs)]
  <2>1. PICK init \in PodContainer :
          /\ init.name = OTelInit /\ init.command = lang
          /\ q = AddVolume(AddInitContainer([p EXCEPT !.containers = list], init), EmptyDir(OTelVolume))
    BY <1>9 DEF OTelAdded
  <2>2. rule \in TracingRule /\ lang \in OTelLanguages
    BY <1>9 DEF OTelAdded
  <2> HIDE DEF rule, lang
  <2>3. envs \in Seq(EnvVar)
    <3>1. rule.envs \in Seq(EnvVar)
      BY <2>2 DEF TracingRule
    <3> QED BY <3>1, BuildEnvsAre
  <2> HIDE DEF envs
  <2>4. ASSUME OTelInit \notin Names(p.init)
        PROVE  \A i \in DOMAIN p.containers : LoadsOTel(list[i], lang)
    <3> SUFFICES ASSUME NEW i \in DOMAIN p.containers
                 PROVE  LoadsOTel(OTelTraced(p.containers[i], lang, envs), lang)
      OBVIOUS
    <3>1. p.containers[i] \in PodContainer
      BY <1>2
    <3>2. OTelVolume \notin Names(p.containers[i].mounts)
      BY <1>6, <2>4 DEF Apart
    <3> QED BY <2>2, <2>3, <3>1, <3>2, OTelTracedLoads
  <2>5. DOMAIN list = DOMAIN p.containers
    OBVIOUS
  <2> HIDE DEF list
  <2>6. /\ q.containers = list /\ q.init = AddNamed(p.init, init)
        /\ q.volumes = AddNamed(p.volumes, EmptyDir(OTelVolume))
    BY <1>10, <2>1
  <2>7. CASE OTelInit \in Names(p.init)
    <3>1. q.init = p.init
      BY <2>1, <2>6, <2>7 DEF AddNamed
    <3> QED BY <2>7, <3>1, NothingNew
  <2>8. CASE OTelInit \notin Names(p.init)
    <3>1. q.init = Append(p.init, init)
      BY <2>1, <2>6, <2>8 DEF AddNamed
    <3>2. IsEmptyDirVolume(q, OTelVolume)
      <4>1. OTelVolume \in LibraryVolumes
        BY DEF LibraryVolumes
      <4> QED BY <1>3, <2>6, <4>1, OwnAdded
    <3>3. \A c \in ToSet(q.containers) : LoadsOTel(c, init.command)
      <4>1. \A c \in ToSet(q.containers) : \E i \in DOMAIN list : c = list[i]
        BY <1>7, <2>6
      <4>2. \A i \in DOMAIN p.containers : LoadsOTel(list[i], lang)
        BY <2>4, <2>8
      <4> QED BY <2>1, <2>5, <4>1, <4>2
    <3>4. OTelInit # DDInit
      BY DEF OTelInit, DDInit
    <3> QED BY <2>1, <3>1, <3>2, <3>3, <3>4, OneNew
  <2> QED BY <2>7, <2>8
<1> QED BY <1>1, <1>4, <1>5, <1>8, <1>9

-----------------------------------------------------------------------------
(* The stages of a review *)

Logfwd(p) == InjectLogfwdToPod(p, given.namespace, given.logfwds)
Flameshot(p) == InjectFlameshotToPod(p, given.namespace, given.flameshots)
Profiler(p) == InjectProfilerToPod(p, given.namespace, given.profilers)
Logging(p) == MutateLoggingToPod(p, given.namespace, given.loggings)
Traced(p) == InjectTracingToPod(p, given.namespace, given.ddtraces, given.otels)

\* An injection that has nothing to do on a pod has nothing to do on one alike.
LEMMA StagesSettle ==
  ASSUME given \in Cases, PathsApart, NEW p, IsPod(p), InPlace(p)
  PROVE  /\ After(p, Logfwd(p)) /\ \A q : Alike(Logfwd(p), q) => Logfwd(q) = q
         /\ After(p, Flameshot(p)) /\ \A q : Alike(Flameshot(p), q) => Flameshot(q) = q
         /\ After(p, Profiler(p)) /\ \A q : Alike(Profiler(p), q) => Profiler(q) = q
         /\ After(p, Logging(p)) /\ \A q : Alike(Logging(p), q) => Logging(q) = q
<1>1. \A rule \in ToSet(given.logfwds) : ToSet(rule.paths) \cap LibraryPaths = {}
  BY DEF PathsApart
<1>2. After(p, Logfwd(p)) /\ \A q : Alike(Logfwd(p), q) => Logfwd(q) = q
  BY <1>1, CaseIs, LogfwdSettles DEF Logfwd
<1>3. After(p, Flameshot(p)) /\ \A q : Alike(Flameshot(p), q) => Flameshot(q) = q
  BY CaseIs, FlameshotSettles DEF Flameshot
<1>4. After(p, Profiler(p)) /\ \A q : Alike(Profiler(p), q) => Profiler(q) = q
  BY CaseIs, ProfilerSettles DEF Profiler
<1>5. After(p, Logging(p)) /\ \A q : Alike(Logging(p), q) => Logging(q) = q
  BY CaseIs, LoggingSettles DEF Logging
<1> QED BY <1>2, <1>3, <1>4, <1>5

SidecarStage ==
  InjectLogfwdSidecar \/ InjectFlameshotSidecar \/ InjectProfilerSidecar \/ MutateLogging

\* The stages after the first change nothing that tracing looks at.
LEMMA SidecarStageIs ==
  ASSUME IInv, PathsApart, Prepared(work), SidecarStage
  PROVE  /\ After(work, work') /\ pod' = pod /\ given' = given /\ served' = served
         /\ stage \notin {"idle", "tracing"} /\ stage' \notin {"idle", "tracing"}
<1>1. given \in Cases /\ IsPod(work) /\ InPlace(work)
  BY DEF IInv, Inv, TypeOK, Prepared
<1>2. /\ After(work, Logfwd(work)) /\ After(work, Flameshot(work))
      /\ After(work, Profiler(work)) /\ After(work, Logging(work))
  BY <1>1, StagesSettle
<1>3. ASSUME NEW i \in 2..5, NEW q, Inject(i, q), After(work, q)
      PROVE  /\ After(work, work') /\ pod' = pod /\ given' = given /\ served' = served
             /\ stage \notin {"idle", "tracing"} /\ stage' \notin {"idle", "tracing"}
  <2>1. Stages[i] \notin {"idle", "tracing"} /\ Stages[i + 1] \notin {"idle", "tracing"}
    BY DEF Stages
  <2> QED BY <1>3, <2>1 DEF Inject
<1>4. 2 \in 2..5 /\ 3 \in 2..5 /\ 4 \in 2..5 /\ 5 \in 2..5
  OBVIOUS
<1>5. CASE InjectLogfwdSidecar
  BY <1>2, <1>3, <1>4, <1>5 DEF InjectLogfwdSidecar, Logfwd
<1>6. CASE InjectFlameshotSidecar
  BY <1>2, <1>3, <1>4, <1>6 DEF InjectFlameshotSidecar, Flameshot
<1>7. CASE InjectProfilerSidecar
  BY <1>2, <1>3, <1>4, <1>7 DEF InjectProfilerSidecar, Profiler
<1>8. CASE MutateLogging
  BY <1>2, <1>3, <1>4, <1>8 DEF MutateLogging, Logging
<1> QED BY <1>5, <1>6, <1>7, <1>8 DEF SidecarStage

LEMMA TracingStageIs ==
  ASSUME InjectTracing
  PROVE  /\ work' = Traced(work) /\ pod' = pod /\ given' = given /\ served' = served
         /\ stage = "tracing" /\ stage' \notin {"idle", "tracing"}
BY DEF InjectTracing, Inject, Stages, Traced

\* What other webhooks do.
LEMMA OtherKeepsPrepared ==
  ASSUME LateAreQuiet, NEW p, IsPod(p), Prepared(p)
  PROVE  /\ \A c \in LateSidecars : Prepared(AddContainer(p, c))
         /\ \A i \in DOMAIN p.containers : Prepared([p EXCEPT !.containers[i].env = <<>>])
<1>1. p.containers \in Seq(PodContainer) /\ DOMAIN p = PodFields
  BY PodIs
<1>2. InPlace(p) /\ OwnVolumes(p) /\ BringsDD(p)
  BY DEF Prepared
<1>3. ASSUME NEW c \in LateSidecars PROVE Prepared(AddContainer(p, c))
  <2> DEFINE q == AddContainer(p, c)
             list == AddNamed(p.containers, c)
  <2>1. q.containers = list /\ q.init = p.init /\ q.volumes = p.volumes
    BY <1>1 DEF AddContainer, PodFields
  <2>2. c \in PodContainer
    BY InjectionAssumption
  <2> HIDE DEF q
  <2>3. ToSet(list) \subseteq ToSet(p.containers) \cup {c}
    BY <1>1, <2>2, AddedIs
  <2> HIDE DEF list
  <2>4. \A m \in ToSet(c.mounts) : m.name \notin LibraryVolumes
    <3>1. \A m \in ToSet(c.mounts) : m.name \in Names(c.mounts)
      BY DEF ToSet, Names
    <3> QED BY <3>1 DEF LateAreQuiet
  <2>5. \A d \in ToSet(p.containers) : \A m \in ToSet(d.mounts) :
           m.name \in LibraryVolumes => m.path \in LibraryPaths
    <3>1. \A d \in ToSet(p.containers) : \E i \in DOMAIN p.containers : d = p.containers[i]
      BY DEF ToSet
    <3> QED BY <1>2, <3>1 DEF InPlace
  <2>6. \A i \in DOMAIN list : list[i] \in ToSet(list)
    BY DEF ToSet
  <2>7. InPlace(q)
    BY <2>1, <2>3, <2>4, <2>5, <2>6 DEF InPlace
  <2>8. OwnVolumes(q) /\ BringsDD(q)
    BY <1>2, <2>1 DEF OwnVolumes, BringsDD, IsEmptyDirVolume
  <2> QED BY <2>7, <2>8 DEF Prepared, q
<1>4. ASSUME NEW i \in DOMAIN p.containers PROVE Prepared([p EXCEPT !.containers[i].env = <<>>])
  <2> DEFINE old == p.containers
             new == [old EXCEPT ![i] = [old[i] EXCEPT !.env = <<>>]]
             q == [p EXCEPT !.containers[i].env = <<>>]
  <2>1. q.containers = new /\ q.init = p.init /\ q.volumes = p.volumes
    BY <1>1 DEF PodFields
  <2>2. DOMAIN new = DOMAIN old /\ \A j \in DOMAIN old : new[j].mounts = old[j].mounts
    <3>1. old[i] \in PodContainer
      BY <1>1
    <3>2. [old[i] EXCEPT !.env = <<>>].mounts = old[i].mounts
      <4> HIDE DEF old
      <4> QED BY <3>1 DEF PodContainer
    <3> QED BY <3>2
  <2> HIDE DEF new, q
  <2>3. InPlace(q)
    BY <1>2, <2>1, <2>2 DEF InPlace
  <2>4. OwnVolumes(q) /\ BringsDD(q)
    BY <1>2, <2>1 DEF OwnVolumes, BringsDD, IsEmptyDirVolume
  <2> QED BY <2>3, <2>4 DEF Prepared, q
<1> QED BY <1>3, <1>4

AllPrepared == Prepared(pod) /\ Prepared(work)

\* Every step keeps the libraries as reviews bring them.
LEMMA PreparedNext ==
  ASSUME LateAreQuiet, PathsApart, IInv, AllPrepared, [Next]_vars
  PROVE  AllPrepared'
<1>1. /\ IsPod(pod) /\ UniqueNames(pod.containers) /\ IsPod(work) /\ Extends(pod, work)
      /\ given \in Cases /\ Prepared(pod) /\ Prepared(work)
  BY DEF IInv, Inv, TypeOK, AllPrepared
<1>2. CASE Receive
  BY <1>1, <1>2 DEF AllPrepared, Receive
<1>3. CASE InjectTracing
  <2>1. work' = Traced(work) /\ pod' = pod
    BY <1>3, TracingStageIs
  <2>2. Prepared(Traced(work))
    BY <1>1, CaseIs, TracingPrepared DEF Traced
  <2> QED BY <1>1, <2>1, <2>2 DEF AllPrepared
<1>4. CASE SidecarStage
  <2>1. After(work, work') /\ pod' = pod
    BY <1>1, <1>4, SidecarStageIs
  <2>2. Prepared(work')
    BY <1>1, <2>1, AfterPrepared
  <2> QED BY <1>1, <2>1, <2>2 DEF AllPrepared
<1>5. CASE Respond
  <2>1. pod' = work
    BY <1>1, <1>5, PatchLeads DEF Respond
  <2> QED BY <1>1, <1>5, <2>1 DEF AllPrepared, Respond
<1>6. CASE Lose
  BY <1>1, <1>6 DEF AllPrepared, Lose
<1>7. CASE OtherAdds
  BY <1>1, <1>7, OtherKeepsPrepared DEF OtherAdds, Other, AllPrepared
<1>8. CASE OtherResetsEnv
  BY <1>1, <1>8, OtherKeepsPrepared DEF OtherResetsEnv, Other, AllPrepared
<1>9. CASE UNCHANGED vars
  BY <1>1, <1>9 DEF vars, AllPrepared
<1> QED BY <1>2, <1>3, <1>4, <1>5, <1>6, <1>7, <1>8, <1>9 DEF Next, SidecarStage

\* What is assumed of the cases where several reviews are followed: the pods are as
\* reviews bring them, and logs are collected from no directory of a library.
CasesPrepared == PathsApart /\ LateAreQuiet /\ \A c \in Cases : Prepared(c.pod)

LEMMA AlwaysPrepared ==
  ASSUME CasesPrepared
  PROVE  Spec => []AllPrepared
<1>1. Init => AllPrepared
  <2> SUFFICES ASSUME Init PROVE AllPrepared
    OBVIOUS
  <2> QED BY DEF Init, AllPrepared, CasesPrepared
<1>2. IInv /\ AllPrepared /\ [Next]_vars => AllPrepared'
  BY PreparedNext DEF CasesPrepared
<1> QED BY <1>1, <1>2, Invariant, PTL DEF Spec

\* Pods stay such that one tracer at most is in them.
LEMMA AlwaysApart ==
  ASSUME LateAreQuiet, \A c \in Cases : Apart(c.pod)
  PROVE  Spec => []AllApart
<1>1. Init => AllApart
  <2> SUFFICES ASSUME Init PROVE AllApart
    OBVIOUS
  <2> QED BY DEF Init, AllApart
<1>2. IInv /\ AllApart /\ [Next]_vars => AllApart'
  BY ApartNext
<1> QED BY <1>1, <1>2, Invariant, PTL DEF Spec

\* A tracer is injected as a whole or not at all, in every review of any pod that comes
\* as reviews leave pods: the init container comes with the volume, and every container
\* with the mount and the variables that load the library, whatever variables the user,
\* the rule and other webhooks have set.
THEOREM WholeOrNothingHolds ==
  ASSUME CasesPrepared, \A c \in Cases : Apart(c.pod)
  PROVE  Spec => WholeOrNothing
<1>1. Spec => []AllPrepared
  BY AlwaysPrepared
<1>2. Spec => []AllApart
  BY AlwaysApart DEF CasesPrepared
<1>3. ASSUME IInv, AllPrepared, AllApart, InjectTracing PROVE Whole(work, work')
  <2>1. given \in Cases /\ IsPod(work) /\ Apart(work) /\ Prepared(work)
    BY <1>3 DEF IInv, Inv, TypeOK, AllApart, AllPrepared
  <2>2. work' = Traced(work)
    BY <1>3, TracingStageIs
  <2>3. Whole(work, Traced(work))
    BY <2>1, CaseIs, TracingWhole DEF Traced
  <2> QED BY <2>2, <2>3
<1> DEFINE Step1 ==
      InjectTracing =>
        LET new == [i \in 1..(Len(work'.init) - Len(work.init)) |-> work'.init[Len(work.init) + i]]
            all == ToSet(work'.containers)
        IN  IF new = <<>>
            THEN work'.volumes = work.volumes \/ Names(work.init) \cap {DDInit, OTelInit} # {}
            ELSE IF new[1].name = DDInit
            THEN /\ IsEmptyDirVolume(work', DDVolume)
                 /\ \A c \in all : LoadsDD(c, new[1].command)
            ELSE /\ IsEmptyDirVolume(work', OTelVolume)
                 /\ \A c \in all : LoadsOTel(c, new[1].command)
<1>4. IInv /\ AllPrepared /\ AllApart => [Step1]_vars
  BY <1>3 DEF Whole
<1> QED BY <1>1, <1>2, <1>4, Invariant, PTL DEF WholeOrNothing

-----------------------------------------------------------------------------
(* The agent of Java *)

\* Where the pod is one that DDTrace traces for Java, the copy loads the agent from the
\* first stage on.
JavaInv ==
  /\ stage = "tracing" => work = pod
  /\ (stage \notin {"idle", "tracing"} /\ JavaIsTraced(pod)) =>
       \A i \in DOMAIN work.containers : AgentLoaded(work.containers[i])

\* Where the agent is looked for, the tracing of the pod is its repair.
LEMMA TracedRepairs ==
  ASSUME NEW p, JavaIsTraced(p)
  PROVE  DDInit \in Names(p.init) /\ Traced(p) = RepairJavaAgentEnv(p)
<1> DEFINE chosen == SelectRule(p, MatchesAll(given.ddtraces, NamespaceOf(p, given.namespace)), "ddtrace")
<1>1. /\ CheckAnnotationIsTrue(p, <<"ddtrace", "enabled">>)
      /\ chosen.found /\ chosen.rule.language = "java"
      /\ ContainsInitContainer(p, DDInit) /\ ~ContainsInitContainer(p, OTelInit)
  BY DEF JavaIsTraced
<1>2. InjectDDTraceToPod(p, given.namespace, given.ddtraces).pod = RepairJavaAgentEnv(p)
  <2> DEFINE c == SelectRule(p, MatchesAll(given.ddtraces, NamespaceOf(p, given.namespace)), "ddtrace")
  <2> HIDE DEF chosen
  <2>1. c = chosen
    BY DEF chosen
  <2>2. ~DDSkips(p, c)
    BY <1>1, <2>1 DEF DDSkips
  <2>3. InjectDDTraceToPod(p, given.namespace, given.ddtraces) =
          [selected |-> TRUE,
            pod |-> IF ContainsInitContainer(p, DDInit)
                    THEN IF c.rule.language = "java" THEN RepairJavaAgentEnv(p) ELSE p
                    ELSE IF c.rule.language \in DOMAIN LoaderKey
                    THEN InjectDDTraceLib(p, c.rule, Image(c.rule.image, c.version))
                    ELSE p]
    BY <2>2 DEF InjectDDTraceToPod
  <2> HIDE DEF c
  <2> QED BY <1>1, <2>1, <2>3
<1>3. Traced(p) = RepairJavaAgentEnv(p)
  BY <1>1, <1>2 DEF Traced, InjectTracingToPod
<1> QED BY <1>1, <1>3 DEF ContainsInitContainer

\* No step loses a repaired agent.
LEMMA JavaNext ==
  ASSUME PathsApart, IInv, AllPrepared, JavaInv, [Next]_vars
  PROVE  JavaInv'
<1>1. /\ IsPod(work) /\ given \in Cases /\ Prepared(pod) /\ Prepared(work)
  BY DEF IInv, Inv, TypeOK, AllPrepared
<1>2. CASE Receive
  <2>1. /\ pod' = pod /\ given' = given /\ work' = pod
        /\ stage' = IF /\ given.operation = "CREATE"
                       /\ CheckAnnotationIsTrue(pod, <<"admission", "enabled">>)
                    THEN "tracing" ELSE "respond"
    BY <1>2 DEF Receive
  <2>2. JavaIsTraced(pod)' => stage' = "tracing"
    BY <2>1 DEF JavaIsTraced
  <2> QED BY <2>1, <2>2 DEF JavaInv
<1>3. CASE InjectTracing
  <2>1. /\ work' = Traced(work) /\ pod' = pod /\ given' = given
        /\ stage = "tracing" /\ stage' \notin {"idle", "tracing"}
    BY <1>3, TracingStageIs
  <2>2. work = pod
    BY <2>1 DEF JavaInv
  <2>3. ASSUME JavaIsTraced(pod)
        PROVE  \A i \in DOMAIN work'.containers : AgentLoaded(work'.containers[i])
    <3>1. DDInit \in Names(work.init) /\ work' = RepairJavaAgentEnv(work)
      BY <2>1, <2>2, <2>3, TracedRepairs
    <3> QED BY <1>1, <3>1, RepairLoads DEF Prepared
  <2>4. JavaIsTraced(pod)' <=> JavaIsTraced(pod)
    BY <2>1 DEF JavaIsTraced
  <2> QED BY <2>1, <2>3, <2>4 DEF JavaInv
<1>4. CASE SidecarStage
  <2>1. /\ After(work, work') /\ pod' = pod /\ given' = given
        /\ stage \notin {"idle", "tracing"} /\ stage' \notin {"idle", "tracing"}
    BY <1>1, <1>4, SidecarStageIs
  <2>2. JavaIsTraced(pod)' <=> JavaIsTraced(pod)
    BY <2>1 DEF JavaIsTraced
  <2>3. JavaIsTraced(pod) => \A i \in DOMAIN work'.containers : AgentLoaded(work'.containers[i])
    BY <2>1, AgentStays DEF JavaInv
  <2> QED BY <2>1, <2>2, <2>3 DEF JavaInv
<1>5. CASE Respond \/ Lose
  BY <1>5 DEF JavaInv, Respond, Lose
<1>6. CASE OtherAdds \/ OtherResetsEnv
  BY <1>6 DEF JavaInv, OtherAdds, OtherResetsEnv, Other
<1>7. CASE UNCHANGED vars
  <2>1. JavaIsTraced(pod)' <=> JavaIsTraced(pod)
    BY <1>7 DEF JavaIsTraced, vars
  <2> QED BY <1>7, <2>1 DEF JavaInv, vars
<1> QED BY <1>2, <1>3, <1>4, <1>5, <1>6, <1>7 DEF Next, SidecarStage

\* When another webhook replaced the variables of a container after the agent of Java was
\* injected, the next review that is answered loads the agent again in every container
\* that mounts it, also where sidecars were added in between.
THEOREM JavaAgentRestoredHolds ==
  ASSUME CasesPrepared
  PROVE  Spec => JavaAgentRestored
<1>1. Spec => []AllPrepared
  BY AlwaysPrepared
<1>2. Init => JavaInv
  BY DEF Init, JavaInv
<1>3. IInv /\ AllPrepared /\ JavaInv /\ [Next]_vars => JavaInv'
  BY JavaNext DEF CasesPrepared
<1>4. ASSUME IInv, JavaInv, Respond, JavaIsTraced(pod)
      PROVE  \A c \in ToSet(pod'.containers) : AgentLoaded(c)
  <2>1. IsPod(pod) /\ UniqueNames(pod.containers) /\ IsPod(work) /\ Extends(pod, work)
    BY <1>4 DEF IInv, Inv, TypeOK
  <2>2. pod' = work /\ stage = "respond"
    BY <1>4, <2>1, PatchLeads DEF Respond
  <2>3. \A c \in ToSet(work.containers) : \E i \in DOMAIN work.containers : c = work.containers[i]
    BY DEF ToSet
  <2> QED BY <1>4, <2>2, <2>3 DEF JavaInv
<1> DEFINE Restores ==
      (Respond /\ JavaIsTraced(pod)) =>
         \A c \in ToSet(pod'.containers) :
            HasDDMount(c) =>
              LET i == EnvIndex(c.env, LoaderKey.java)
              IN  i # 0 /\ (c.env[i].kind = "plain" =>
                              DDToken.JAVA_TOOL_OPTIONS \in ToSet(c.env[i].value))
<1>5. IInv /\ JavaInv => [Restores]_vars
  BY <1>4 DEF AgentLoaded
<1> QED BY <1>1, <1>2, <1>3, <1>5, Invariant, PTL DEF Spec, JavaAgentRestored

-----------------------------------------------------------------------------
(* Pods that the API server accepts *)

\* More volumes do no harm.
LEMMA AcceptableMore ==
  ASSUME NEW c, NEW V, NEW W, V \subseteq W, Acceptable(c, V)
  PROVE  Acceptable(c, W)
BY DEF Acceptable

\* With fewer mounts a directory still comes from one volume.
LEMMA OneVolumeLess ==
  ASSUME NEW S, NEW T, S \subseteq T, OneVolume(T)
  PROVE  OneVolume(S)
BY DEF OneVolume

\* A mount that is added to a container is the only one at its path.
LEMMA AcceptableMount ==
  ASSUME NEW c \in PodContainer, NEW m \in VolumeMount, NEW V, Acceptable(c, V), m.name \in V,
         OneVolume(ToSet(c.mounts) \cup {m}),
         NEW d, d.mounts = AddNamed(c.mounts, m), \A i \in DOMAIN d.env : HasSource(d.env[i])
  PROVE  Acceptable(d, V) /\ ToSet(d.mounts) \subseteq ToSet(c.mounts) \cup {m}
<1> DEFINE s == c.mounts
           t == Append(s, m)
           n == Len(s)
<1>1. s \in Seq(VolumeMount)
  BY DEF PodContainer
<1>2. Names(d.mounts) \subseteq V /\ ToSet(d.mounts) \subseteq ToSet(s) \cup {m}
  BY <1>1, AddNamedIs, AddedIs DEF Acceptable
<1>3. \A i, j \in DOMAIN d.mounts : d.mounts[i].path = d.mounts[j].path => i = j
  <2>1. CASE m.name \in Names(s)
    <3>1. d.mounts = s
      BY <2>1 DEF AddNamed
    <3> QED BY <3>1 DEF Acceptable
  <2>2. CASE m.name \notin Names(s)
    <3>1. d.mounts = t
      BY <2>2 DEF AddNamed
    <3>2. n \in Nat /\ DOMAIN s = 1..n /\ DOMAIN t = 1..n + 1 /\ t[n + 1] = m /\ \A i \in 1..n : t[i] = s[i]
      BY <1>1, AppendProperties
    <3>3. \A i, j \in 1..n : s[i].path = s[j].path => i = j
      BY <3>2 DEF Acceptable
    <3>4. \A i \in 1..n : s[i].path # m.path
      <4>1. \A i \in 1..n : s[i] \in ToSet(s) /\ s[i].name # m.name
        BY <2>2, <3>2 DEF ToSet, Names
      <4> QED BY <4>1 DEF OneVolume
    <3> HIDE DEF s, t, n
    <3>5. \A i \in 1..n + 1 : i \in 1..n \/ i = n + 1
      BY <3>2
    <3> QED BY <3>1, <3>2, <3>3, <3>4, <3>5
  <2> QED BY <2>1, <2>2
<1> QED BY <1>2, <1>3 DEF Acceptable

\* A change of the containers that there are: other variables, and a mount more.
LEMMA SoundEdits ==
  ASSUME NEW p, IsPod(p), NEW own, Sound(p, own), NEW list, list = [i \in DOMAIN p.containers |-> list[i]],
         \A i \in DOMAIN p.containers : list[i].name = p.containers[i].name
                                        /\ Acceptable(list[i], Names(p.volumes)),
         NEW M, \A i \in DOMAIN p.containers : ToSet(list[i].mounts) \subseteq ToSet(p.containers[i].mounts) \cup M,
         OneVolume(MountsOf(p) \cup own \cup M)
  PROVE  LET q == [p EXCEPT !.containers = list]
         IN  Sound(q, own) /\ MountsOf(q) \subseteq MountsOf(p) \cup M
<1> DEFINE q == [p EXCEPT !.containers = list]
<1>1. q.containers = list /\ q.init = p.init /\ q.volumes = p.volumes
  BY PodIs DEF PodFields
<1> HIDE DEF q
<1>2. DOMAIN list = DOMAIN p.containers
  OBVIOUS
<1>3. MountsOf(q) \subseteq MountsOf(p) \cup M
  BY <1>1, <1>2 DEF MountsOf
<1>4. OneVolume(MountsOf(q) \cup own)
  BY <1>3, OneVolumeLess
<1>5. Names(list) = Names(p.containers)
  BY <1>2 DEF Names
<1>6. Sound(q, own)
  BY <1>1, <1>2, <1>4, <1>5 DEF Sound
<1> QED BY <1>3, <1>6 DEF q

\* A volume more.
LEMMA SoundVolume ==
  ASSUME NEW p, IsPod(p), NEW own, Sound(p, own), NEW v \in PodVolume
  PROVE  LET q == AddVolume(p, v)
         IN  Sound(q, own) /\ MountsOf(q) = MountsOf(p) /\ Names(q.volumes) = Names(p.volumes) \cup {v.name}
<1> DEFINE q == AddVolume(p, v)
           t == AddNamed(p.volumes, v)
<1>1. q.containers = p.containers /\ q.init = p.init /\ q.volumes = t
  BY PodIs DEF PodFields, AddVolume
<1>2. p.volumes \in Seq(PodVolume)
  BY PodIs
<1>3. (UniqueNames(p.volumes) => UniqueNames(t)) /\ Names(t) = Names(p.volumes) \cup {v.name}
  BY <1>2, AddNamedIs
<1> HIDE DEF q, t
<1>4. MountsOf(q) = MountsOf(p)
  BY <1>1 DEF MountsOf
<1>5. \A c : Acceptable(c, Names(p.volumes)) => Acceptable(c, Names(t))
  BY <1>3, AcceptableMore
<1>6. Sound(q, own)
  BY <1>1, <1>3, <1>4, <1>5 DEF Sound
<1> QED BY <1>1, <1>3, <1>4, <1>6 DEF q

\* An init container more.
LEMMA SoundInit ==
  ASSUME NEW p, IsPod(p), NEW own, Sound(p, own), LateAreSound, NEW c \in PodContainer,
         c.name \in {DDInit, OTelInit}, Acceptable(c, Names(p.volumes))
  PROVE  Sound(AddInitContainer(p, c), own)
<1> DEFINE q == AddInitContainer(p, c)
           t == AddNamed(p.init, c)
<1>1. q.containers = p.containers /\ q.init = t /\ q.volumes = p.volumes
  BY PodIs DEF PodFields, AddInitContainer
<1>2. p.init \in Seq(PodContainer)
  BY PodIs
<1>3. (UniqueNames(p.init) => UniqueNames(t)) /\ Names(t) = Names(p.init) \cup {c.name}
      /\ ToSet(t) \subseteq ToSet(p.init) \cup {c}
  BY <1>2, AddNamedIs, AddedIs
<1> HIDE DEF q, t
<1>4. MountsOf(q) = MountsOf(p)
  BY <1>1 DEF MountsOf
<1>5. \A i \in DOMAIN t : Acceptable(t[i], Names(p.volumes))
  <2>1. \A i \in DOMAIN t : t[i] \in ToSet(p.init) \cup {c}
    BY <1>3 DEF ToSet
  <2>2. \A d \in ToSet(p.init) : Acceptable(d, Names(p.volumes))
    BY DEF Sound, ToSet
  <2> QED BY <2>1, <2>2
<1>6. c.name \notin Names(p.containers) \cup SidecarNames \cup LateNames
  <2>1. {DDInit, OTelInit} \cap SidecarNames = {}
    BY DEF DDInit, OTelInit, SidecarNames, LogfwdContainer, FlameshotContainer, ProfilerContainer
  <2> QED BY <2>1 DEF Sound, LateAreSound
<1>7. Sound(q, own)
  BY <1>1, <1>3, <1>4, <1>5, <1>6 DEF Sound
<1> QED BY <1>7 DEF q

\* A container more.
LEMMA SoundContainer ==
  ASSUME NEW p, IsPod(p), NEW own, Sound(p, own), NEW c \in PodContainer, c.name \notin Names(p.init),
         c.name \notin {DDInit, OTelInit}, Acceptable(c, Names(p.volumes)),
         OneVolume(MountsOf(p) \cup own \cup ToSet(c.mounts))
  PROVE  LET q == AddContainer(p, c)
         IN  Sound(q, own) /\ MountsOf(q) \subseteq MountsOf(p) \cup ToSet(c.mounts)
<1> DEFINE q == AddContainer(p, c)
           t == AddNamed(p.containers, c)
<1>1. q.containers = t /\ q.init = p.init /\ q.volumes = p.volumes
  BY PodIs DEF PodFields, AddContainer
<1>2. p.containers \in Seq(PodContainer)
  BY PodIs
<1>3. Names(t) = Names(p.containers) \cup {c.name} /\ ToSet(t) \subseteq ToSet(p.containers) \cup {c}
  BY <1>2, AddNamedIs, AddedIs
<1> HIDE DEF q, t
<1>4. \A i \in DOMAIN t : t[i] \in ToSet(p.containers) \cup {c}
  BY <1>3 DEF ToSet
<1>5. \A d \in ToSet(p.containers) : Acceptable(d, Names(p.volumes)) /\ ToSet(d.mounts) \subseteq MountsOf(p)
  BY DEF Sound, ToSet, MountsOf
<1>6. MountsOf(q) \subseteq MountsOf(p) \cup ToSet(c.mounts)
  <2>1. \A i \in DOMAIN t : ToSet(t[i].mounts) \subseteq MountsOf(p) \cup ToSet(c.mounts)
    BY <1>4, <1>5
  <2> QED BY <1>1, <2>1 DEF MountsOf
<1>7. OneVolume(MountsOf(q) \cup own)
  BY <1>6, OneVolumeLess
<1>8. \A i \in DOMAIN t : Acceptable(t[i], Names(p.volumes))
  BY <1>4, <1>5
<1>9. Sound(q, own)
  BY <1>1, <1>3, <1>7, <1>8 DEF Sound
<1> QED BY <1>6, <1>9 DEF q

\* A mount in every container.
LEMMA SoundMount ==
  ASSUME NEW p, IsPod(p), NEW own, Sound(p, own), NEW m \in VolumeMount, m.name \in Names(p.volumes),
         OneVolume(MountsOf(p) \cup own \cup {m})
  PROVE  LET q == AddVolumeMount(p, m)
         IN  /\ Sound(q, own) /\ MountsOf(q) \subseteq MountsOf(p) \cup {m}
             /\ q.volumes = p.volumes /\ q.init = p.init
<1> DEFINE list == [i \in DOMAIN p.containers |-> AddMountTo(p.containers[i], m)]
           M == {m}
<1>1. AddVolumeMount(p, m) = [p EXCEPT !.containers = list]
  BY DEF AddVolumeMount, EachContainer
<1>2. \A i \in DOMAIN p.containers : p.containers[i] \in PodContainer
  <2>1. p.containers \in Seq(PodContainer)
    BY PodIs
  <2> QED BY <2>1
<1>3. list = [i \in DOMAIN p.containers |-> list[i]]
  OBVIOUS
<1>4. ASSUME NEW i \in DOMAIN p.containers
      PROVE  /\ list[i].name = p.containers[i].name /\ Acceptable(list[i], Names(p.volumes))
             /\ ToSet(list[i].mounts) \subseteq ToSet(p.containers[i].mounts) \cup M
  <2> DEFINE c == p.containers[i]
             d == AddMountTo(c, m)
  <2>1. c \in PodContainer /\ Acceptable(c, Names(p.volumes)) /\ ToSet(c.mounts) \subseteq MountsOf(p)
    BY <1>2 DEF Sound, MountsOf
  <2> HIDE DEF c
  <2>2. d.name = c.name /\ d.mounts = AddNamed(c.mounts, m) /\ d.env = c.env
    BY <2>1 DEF AddMountTo, PodContainer
  <2> HIDE DEF d
  <2>3. OneVolume(ToSet(c.mounts) \cup {m})
    BY <2>1, OneVolumeLess
  <2>4. \A j \in DOMAIN d.env : HasSource(d.env[j])
    BY <2>1, <2>2 DEF Acceptable
  <2>5. Acceptable(d, Names(p.volumes)) /\ ToSet(d.mounts) \subseteq ToSet(c.mounts) \cup {m}
    BY <2>1, <2>2, <2>3, <2>4, AcceptableMount
  <2>6. list[i] = d
    BY DEF d, c
  <2> HIDE DEF list
  <2> QED BY <2>2, <2>5, <2>6 DEF c
<1> HIDE DEF list, M
<1>5. OneVolume(MountsOf(p) \cup own \cup M)
  BY DEF M
<1> DEFINE q == [p EXCEPT !.containers = list]
<1>6. Sound(q, own) /\ MountsOf(q) \subseteq MountsOf(p) \cup M
  BY <1>3, <1>4, <1>5, SoundEdits
<1>7. q.volumes = p.volumes /\ q.init = p.init
  BY PodIs DEF PodFields
<1> HIDE DEF q
<1> QED BY <1>1, <1>6, <1>7 DEF M, q

\* Other fields do not matter.
LEMMA SoundSame ==
  ASSUME NEW p, NEW own, Sound(p, own), NEW q,
         q.containers = p.containers, q.init = p.init, q.volumes = p.volumes
  PROVE  Sound(q, own) /\ MountsOf(q) = MountsOf(p)
<1>1. MountsOf(q) = MountsOf(p)
  BY DEF MountsOf
<1> QED BY <1>1 DEF Sound

-----------------------------------------------------------------------------
(* Directories of different places *)

\* A sequence without repetitions, and what is seen so far as Unique goes through one.
Distinct(s) == \A i, j \in DOMAIN s : s[i] = s[j] => i = j

DistinctInv(all, k, seen) ==
  seen \in Seq(Text) /\ Distinct(seen) /\ \A i \in 1..k : all[i] \in ToSet(seen)
Differing == INSTANCE FoldTheory WITH Op <- UniqueOp, Inv <- DistinctInv

\* An element at the end.
LEMMA AppendSet ==
  ASSUME NEW S, NEW s \in Seq(S), NEW x \in S
  PROVE  /\ ToSet(Append(s, x)) = ToSet(s) \cup {x}
         /\ x \notin ToSet(s) /\ Distinct(s) => Distinct(Append(s, x))
<1> DEFINE t == Append(s, x)
           n == Len(s)
<1>1. n \in Nat /\ DOMAIN s = 1..n
  OBVIOUS
<1>2. DOMAIN t = 1..n + 1 /\ t[n + 1] = x /\ \A i \in 1..n : t[i] = s[i]
  BY AppendProperties
<1> HIDE DEF t, n
<1>3. \A i \in 1..n + 1 : i \in 1..n \/ i = n + 1
  BY <1>1
<1>4. n + 1 \in 1..n + 1 /\ \A i \in 1..n : i \in 1..n + 1
  BY <1>1
<1>5. ToSet(t) = ToSet(s) \cup {x}
  BY <1>1, <1>2, <1>3, <1>4 DEF ToSet
<1>6. ASSUME x \notin ToSet(s), Distinct(s) PROVE Distinct(t)
  <2>1. \A i \in 1..n : s[i] # x
    BY <1>1, <1>6 DEF ToSet
  <2> QED BY <1>1, <1>2, <1>3, <1>6, <2>1 DEF Distinct
<1> QED BY <1>5, <1>6 DEF t

\* A list without its repetitions names each directory once, and every one.
LEMMA UniqueDistinct ==
  ASSUME NEW paths \in Seq(Text)
  PROVE  Distinct(Unique(paths)) /\ ToSet(paths) \subseteq ToSet(Unique(paths))
<1> DEFINE n == Len(paths)
<1>1. n \in Nat /\ DOMAIN paths = 1..n /\ \A k \in 1..n : paths[k] \in Text
  OBVIOUS
<1> HIDE DEF n
<1>2. DistinctInv(paths, 0, <<>>)
  BY DEF DistinctInv, Distinct
<1>3. ASSUME NEW k \in 1..n, NEW seen, DistinctInv(paths, k - 1, seen)
      PROVE  DistinctInv(paths, k, UniqueOp(paths, seen, paths[k]))
  <2> DEFINE x == paths[k]
             t == Append(seen, x)
  <2>1. seen \in Seq(Text) /\ x \in Text /\ Distinct(seen) /\ \A i \in 1..k - 1 : paths[i] \in ToSet(seen)
    BY <1>1, <1>3 DEF DistinctInv
  <2>2. \A i \in 1..k : i \in 1..k - 1 \/ i = k
    BY <1>1
  <2>3. CASE x \in ToSet(seen)
    <3>1. UniqueOp(paths, seen, x) = seen
      BY <2>3 DEF UniqueOp
    <3> QED BY <2>1, <2>2, <2>3, <3>1 DEF DistinctInv
  <2>4. CASE x \notin ToSet(seen)
    <3>1. UniqueOp(paths, seen, x) = t
      BY <2>4 DEF UniqueOp
    <3> HIDE DEF x
    <3>2. t \in Seq(Text) /\ ToSet(t) = ToSet(seen) \cup {x} /\ Distinct(t)
      BY <2>1, <2>4, AppendProperties, AppendSet
    <3> HIDE DEF t
    <3> QED BY <2>1, <2>2, <3>1, <3>2 DEF DistinctInv, x
  <2> QED BY <2>3, <2>4
<1>4. DistinctInv(paths, n, Differing!Fold(paths, <<>>, paths))
  BY <1>1, <1>2, <1>3, Differing!FoldKeeps, Least DEF Differing!Ordered
<1>5. Unique(paths) = Differing!Fold(paths, <<>>, paths)
  BY DEF Unique, FoldLeft, MapThenFoldSet, Max, Differing!Fold, Differing!Largest, UniqueOp
<1> QED BY <1>1, <1>4, <1>5 DEF DistinctInv, ToSet

-----------------------------------------------------------------------------
(* Mounts at a place *)

\* The mounts joined so far hold those of every list passed.
HoldsInv(lists, k, all) == all \in Seq(VolumeMount) /\ \A i \in 1..k : ToSet(lists[i]) \subseteq ToSet(all)
Holding == INSTANCE FoldTheory WITH Op <- JoinOp, Inv <- HoldsInv

\* Two lists after one another have the elements of both.
LEMMA ConcatSet ==
  ASSUME NEW S, NEW s \in Seq(S), NEW t \in Seq(S)
  PROVE  s \o t \in Seq(S) /\ ToSet(s) \subseteq ToSet(s \o t) /\ ToSet(t) \subseteq ToSet(s \o t)
<1> DEFINE both == s \o t
           m == Len(s)
           n == Len(t)
<1>1. m \in Nat /\ n \in Nat /\ DOMAIN s = 1..m /\ DOMAIN t = 1..n
  OBVIOUS
<1>2. both \in Seq(S) /\ Len(both) = m + n
  BY ConcatProperties
<1>3. \A i \in 1..m : both[i] = s[i]
  OBVIOUS
<1>4. \A i \in 1..n : both[m + i] = t[i]
  OBVIOUS
<1>5. DOMAIN both = 1..m + n
  BY <1>2
<1> HIDE DEF both, m, n
<1>6. (\A i \in 1..m : i \in 1..m + n) /\ \A i \in 1..n : m + i \in 1..m + n
  BY <1>1
<1>7. ToSet(s) \subseteq ToSet(both) /\ ToSet(t) \subseteq ToSet(both)
  BY <1>1, <1>3, <1>4, <1>5, <1>6 DEF ToSet
<1> QED BY <1>2, <1>7 DEF both

\* Every mount of a container is among all the mounts.
LEMMA AllMountsHold ==
  ASSUME NEW p, IsPod(p)
  PROVE  AllMounts(p) \in Seq(VolumeMount) /\ ToSet(AllMounts(p)) = MountsOf(p)
<1> DEFINE mounts == [i \in DOMAIN p.containers |-> p.containers[i].mounts]
           n == Len(p.containers)
<1>1. p.containers \in Seq(PodContainer) /\ n \in Nat /\ DOMAIN p.containers = 1..n
  BY PodIs
<1>2. DOMAIN mounts = 1..n
  BY <1>1
<1>3. \A i \in 1..n : mounts[i] \in Seq(VolumeMount) /\ mounts[i] = p.containers[i].mounts
  <2>1. \A c \in PodContainer : c.mounts \in Seq(VolumeMount)
    BY DEF PodContainer
  <2>2. \A i \in 1..n : p.containers[i] \in PodContainer
    BY <1>1
  <2> QED BY <1>1, <2>1, <2>2
<1>4. mounts \in Seq(Seq(VolumeMount))
  <2>1. mounts = [i \in 1..n |-> mounts[i]]
    BY <1>1
  <2> HIDE DEF mounts
  <2>2. mounts \in [1..n -> Seq(VolumeMount)]
    BY <1>3, <2>1
  <2> QED BY <1>1, <2>2, SeqDef
<1>5. AllMounts(p) = FlattenSeq(mounts)
  BY DEF AllMounts
<1> HIDE DEF mounts, n
<1>6. \A s : \A T : s \in Seq(T) => IsSeq(s)
  BY DEF IsSeq
<1>7. IsSeq(mounts) /\ \A i \in DOMAIN mounts : IsSeq(mounts[i])
  BY <1>2, <1>3, <1>4, <1>6
<1>8. FlattenSeq(mounts) = Joining!Fold(mounts, <<>>, mounts)
  BY <1>7, FlattenIs
<1>9. Joining!Fold(mounts, <<>>, mounts) = Holding!Fold(mounts, <<>>, mounts)
  BY DEF Joining!Fold, Holding!Fold, Joining!Largest, Holding!Largest
<1>10. HoldsInv(mounts, 0, <<>>)
  BY DEF HoldsInv
<1>11. ASSUME NEW k \in 1..n, NEW all, HoldsInv(mounts, k - 1, all)
       PROVE  HoldsInv(mounts, k, JoinOp(mounts, all, mounts[k]))
  <2>1. \A i \in 1..k : i \in 1..k - 1 \/ i = k
    BY <1>1
  <2>2. all \in Seq(VolumeMount) /\ mounts[k] \in Seq(VolumeMount)
        /\ \A i \in 1..k - 1 : ToSet(mounts[i]) \subseteq ToSet(all)
    BY <1>3, <1>11 DEF HoldsInv
  <2>3. /\ all \o mounts[k] \in Seq(VolumeMount)
        /\ ToSet(all) \subseteq ToSet(all \o mounts[k]) /\ ToSet(mounts[k]) \subseteq ToSet(all \o mounts[k])
    BY <2>2, ConcatSet
  <2> DEFINE both == all \o mounts[k]
  <2> HIDE DEF both
  <2>4. HoldsInv(mounts, k, both)
    BY <2>1, <2>2, <2>3 DEF HoldsInv, both
  <2> QED BY <2>4 DEF JoinOp, both
<1>12. HoldsInv(mounts, n, Holding!Fold(mounts, <<>>, mounts))
  BY <1>1, <1>2, <1>10, <1>11, Holding!FoldKeeps, Least DEF Holding!Ordered
<1>13. MountsOf(p) \subseteq ToSet(AllMounts(p)) /\ AllMounts(p) \in Seq(VolumeMount)
  BY <1>1, <1>3, <1>5, <1>8, <1>9, <1>12 DEF HoldsInv, MountsOf
<1>14. AllMounts(p) \in Seq(MountsOf(p))
  <2> DEFINE M == MountsOf(p)
  <2>1. ASSUME NEW i \in DOMAIN p.containers PROVE p.containers[i].mounts \in Seq(M)
    <3> DEFINE s == p.containers[i].mounts
    <3>1. s \in Seq(VolumeMount) /\ ToSet(s) \subseteq M
      BY <1>1, <1>3 DEF MountsOf
    <3> HIDE DEF s, M
    <3> QED BY <3>1, SeqOfItself DEF s
  <2> HIDE DEF M
  <2>2. AllMounts(p) \in Seq(M)
    BY <2>1, AllMountsAre
  <2> QED BY <2>2 DEF M
<1> DEFINE all == AllMounts(p)
           M == MountsOf(p)
<1>15. all \in Seq(M)
  BY <1>14
<1> HIDE DEF all, M
<1>16. ToSet(all) \subseteq M
  BY <1>15 DEF ToSet
<1> QED BY <1>13, <1>16 DEF all, M

\* A directory is mounted if a mount of some container is there, the first of them.
LEMMA MountPlaceIs ==
  ASSUME NEW p, IsPod(p), NEW path
  PROVE  /\ IsMountPath(p, path) =>
              AllMounts(p)[MountIndex(p, path)] \in MountsOf(p) /\ AllMounts(p)[MountIndex(p, path)].path = path
         /\ ~IsMountPath(p, path) => \A m \in MountsOf(p) : m.path # path
<1> DEFINE all == AllMounts(p)
           I == {j \in 1..Len(all) : all[j].path = path}
           i == MountIndex(p, path)
<1>1. i = IF I # {} THEN Min(I) ELSE 0
  BY DEF MountIndex, SelectInSeq
<1>2. all \in Seq(VolumeMount) /\ ToSet(all) = MountsOf(p)
  BY AllMountsHold
<1>3. Len(all) \in Nat /\ DOMAIN all = 1..Len(all) /\ I \in SUBSET (1..Len(all))
  BY <1>2
<1>4. I # {} => i \in I
  <2> HIDE DEF I, i
  <2> QED BY <1>1, <1>3, MinIs
<1>5. IsMountPath(p, path) <=> i # 0
  BY DEF IsMountPath
<1> HIDE DEF all, i
<1>6. CASE I # {}
  <2>1. i \in 1..Len(all) /\ all[i].path = path
    BY <1>4, <1>6
  <2>2. i # 0 /\ all[i] \in MountsOf(p)
    BY <1>2, <1>3, <2>1 DEF ToSet
  <2> QED BY <1>5, <2>1, <2>2 DEF all, i
<1>7. CASE I = {}
  <2>1. i = 0
    BY <1>1, <1>7
  <2>2. \A m \in MountsOf(p) : m.path # path
    BY <1>2, <1>3, <1>7 DEF ToSet
  <2> QED BY <1>5, <2>1, <2>2
<1> QED BY <1>6, <1>7

-----------------------------------------------------------------------------
(* Volumes for directories *)

\* The pair of the i-th directory, if its volume can be shared.
PairOf(ctx, i) == Mount(PairName(ctx.pod, ctx.paths, ctx.fresh, i), ctx.paths[i])
Shareable(ctx, i) ==
  IsMountPath(ctx.pod, ctx.paths[i]) =>
    IsEmptyDirVolume(ctx.pod, PairName(ctx.pod, ctx.paths, ctx.fresh, i))

\* Every directory is mounted once; what is paired so far, directory by directory.
OneEach(mounts) == \A i, j \in DOMAIN mounts : mounts[i].path = mounts[j].path => i = j

\* The directories passed that can be shared are among the pairs.
PlacedInv(ctx, k, pairs) ==
  /\ pairs \in Seq(VolumeMount) /\ OneEach(pairs)
  /\ \A j \in DOMAIN pairs : \E i \in 1..k : pairs[j] = PairOf(ctx, i) /\ Shareable(ctx, i)
  /\ \A i \in 1..k : Shareable(ctx, i) => PairOf(ctx, i) \in ToSet(pairs)
Placing == INSTANCE FoldTheory WITH Op <- PairOp, Inv <- PlacedInv

\* A mount at a new place, at the end.
LEMMA AppendMount ==
  ASSUME NEW s \in Seq(VolumeMount), NEW m \in VolumeMount, OneEach(s), \A i \in DOMAIN s : s[i].path # m.path
  PROVE  /\ Append(s, m) \in Seq(VolumeMount) /\ OneEach(Append(s, m))
         /\ \A i \in DOMAIN Append(s, m) : Append(s, m)[i] = m \/ (i \in DOMAIN s /\ Append(s, m)[i] = s[i])
<1> DEFINE t == Append(s, m)
           n == Len(s)
<1>1. n \in Nat /\ DOMAIN s = 1..n
  OBVIOUS
<1>2. t \in Seq(VolumeMount) /\ DOMAIN t = 1..n + 1 /\ t[n + 1] = m /\ \A i \in 1..n : t[i] = s[i]
  BY AppendProperties
<1> HIDE DEF t, n
<1>3. \A i \in 1..n + 1 : i \in 1..n \/ i = n + 1
  BY <1>1
<1>4. OneEach(t)
  BY <1>1, <1>2, <1>3 DEF OneEach
<1>5. \A i \in DOMAIN t : t[i] = m \/ (i \in DOMAIN s /\ t[i] = s[i])
  BY <1>1, <1>2, <1>3
<1> QED BY <1>2, <1>4, <1>5 DEF t

\* The name of a pair is a string.
LEMMA PairOfIs ==
  ASSUME NEW p, IsPod(p), NEW paths \in Seq(Text), NEW fresh \in Seq(Text), Len(paths) <= Len(fresh),
         NEW i \in 1..Len(paths)
  PROVE  LET pair == PairOf([pod |-> p, paths |-> paths, fresh |-> fresh], i)
         IN  /\ pair \in VolumeMount /\ pair.path = paths[i] /\ ~pair.readOnly
             /\ ~IsMountPath(p, paths[i]) => pair.name = fresh[i]
             /\ IsMountPath(p, paths[i]) => \E m \in MountsOf(p) : m.path = paths[i] /\ m.name = pair.name
<1> DEFINE pair == PairOf([pod |-> p, paths |-> paths, fresh |-> fresh], i)
<1>1. i \in 1..Len(paths) /\ paths[i] \in Text /\ i \in 1..Len(fresh) /\ fresh[i] \in Text
  OBVIOUS
<1>2. pair = Mount(PairName(p, paths, fresh, i), paths[i])
  BY DEF PairOf
<1> HIDE DEF pair
<1> DEFINE m == AllMounts(p)[MountIndex(p, paths[i])]
<1>3. ASSUME IsMountPath(p, paths[i])
      PROVE  m \in MountsOf(p) /\ m.path = paths[i] /\ m.name \in Text
  <2>1. m \in VolumeMount
    BY <1>3, MountIndexIs
  <2> QED BY <1>3, <2>1, MountPlaceIs DEF VolumeMount
<1>4. PairName(p, paths, fresh, i) = IF IsMountPath(p, paths[i]) THEN m.name ELSE fresh[i]
  BY DEF PairName
<1> HIDE DEF m
<1>5. PairName(p, paths, fresh, i) \in Text
  BY <1>1, <1>3, <1>4
<1>6. pair \in VolumeMount /\ pair.path = paths[i] /\ ~pair.readOnly /\ pair.name = PairName(p, paths, fresh, i)
  BY <1>1, <1>2, <1>5 DEF Mount, VolumeMount
<1> QED BY <1>3, <1>4, <1>6 DEF pair

\* Each directory whose volume can be shared has a pair, and there are no others.
LEMMA PairsPlaced ==
  ASSUME NEW p, IsPod(p), NEW paths \in Seq(Text), Distinct(paths), NEW fresh \in Seq(Text),
         Len(paths) <= Len(fresh)
  PROVE  PlacedInv([pod |-> p, paths |-> paths, fresh |-> fresh], Len(paths), GetVolumePairs(p, paths, fresh))
<1> DEFINE n == Len(paths)
           indices == [i \in DOMAIN paths |-> i]
           ctx == [pod |-> p, paths |-> paths, fresh |-> fresh]
<1>1. n \in Nat /\ DOMAIN paths = 1..n /\ \A k \in 1..n : paths[k] \in Text
  OBVIOUS
<1>2. DOMAIN indices = 1..n /\ \A k \in 1..n : indices[k] = k
  BY <1>1
<1>3. GetVolumePairs(p, paths, fresh) = Placing!Fold(ctx, <<>>, indices)
  BY DEF GetVolumePairs, FoldLeftDomain, FoldLeft, MapThenFoldSet, Max, Placing!Fold, Placing!Largest,
         PairOp, PairName
<1>4. ASSUME NEW i \in 1..n
      PROVE  /\ PairOf(ctx, i) \in VolumeMount /\ PairOf(ctx, i).path = paths[i] /\ ~PairOf(ctx, i).readOnly
             /\ IsMountPath(p, paths[i]) =>
                  \E m \in MountsOf(p) : m.path = paths[i] /\ m.name = PairOf(ctx, i).name
  BY PairOfIs
<1> HIDE DEF indices, ctx, n
<1>5. PlacedInv(ctx, 0, <<>>)
  BY DEF PlacedInv, OneEach
<1>6. ASSUME NEW k \in 1..n, NEW pairs, PlacedInv(ctx, k - 1, pairs)
      PROVE  PlacedInv(ctx, k, PairOp(ctx, pairs, k))
  <2> DEFINE m == PairOf(ctx, k)
  <2>1. m \in VolumeMount /\ m.path = paths[k] /\ \A i \in 1..n : PairOf(ctx, i).path = paths[i]
    BY <1>1, <1>4
  <2>2. PairOp(ctx, pairs, k) = IF Shareable(ctx, k) THEN Append(pairs, m) ELSE pairs
    BY DEF PairOp, PairOf, Shareable
  <2>3. (\A i \in 1..k : i \in 1..k - 1 \/ i = k) /\ (\A i \in 1..k - 1 : i \in 1..k /\ i # k) /\ k \in 1..k
        /\ \A i \in 1..k : i \in 1..n
    BY <1>1
  <2> HIDE DEF m
  <2>4. CASE ~Shareable(ctx, k)
    <3>1. \A i \in 1..k : Shareable(ctx, i) => i \in 1..k - 1
      BY <2>3, <2>4
    <3> QED BY <1>6, <2>2, <2>3, <2>4, <3>1 DEF PlacedInv
  <2>5. CASE Shareable(ctx, k)
    <3> DEFINE t == Append(pairs, m)
    <3>1. pairs \in Seq(VolumeMount) /\ OneEach(pairs)
      BY <1>6 DEF PlacedInv
    <3>2. \A j \in DOMAIN pairs : pairs[j].path # m.path
      <4>1. \A i \in 1..k - 1 : paths[i] # paths[k]
        BY <1>1, <2>3 DEF Distinct
      <4> QED BY <1>6, <2>1, <2>3, <4>1 DEF PlacedInv
    <3>3. /\ t \in Seq(VolumeMount) /\ OneEach(t)
          /\ \A j \in DOMAIN t : t[j] = m \/ (j \in DOMAIN pairs /\ t[j] = pairs[j])
      BY <2>1, <3>1, <3>2, AppendMount
    <3>4. ToSet(t) = ToSet(pairs) \cup {m}
      BY <2>1, <3>1, AppendSet
    <3> HIDE DEF t
    <3>5. \A j \in DOMAIN t : \E i \in 1..k : t[j] = PairOf(ctx, i) /\ Shareable(ctx, i)
      <4>1. \A j \in DOMAIN pairs : \E i \in 1..k : pairs[j] = PairOf(ctx, i) /\ Shareable(ctx, i)
        BY <1>6, <2>3 DEF PlacedInv
      <4>2. \E i \in 1..k : m = PairOf(ctx, i) /\ Shareable(ctx, i)
        BY <2>3, <2>5 DEF m
      <4> QED BY <3>3, <4>1, <4>2
    <3>6. \A i \in 1..k : Shareable(ctx, i) => PairOf(ctx, i) \in ToSet(t)
      BY <1>6, <2>3, <3>4 DEF PlacedInv, m
    <3>7. PlacedInv(ctx, k, t)
      BY <3>3, <3>5, <3>6 DEF PlacedInv
    <3> QED BY <2>2, <2>5, <3>7 DEF t
  <2> QED BY <2>4, <2>5
<1>7. PlacedInv(ctx, n, Placing!Fold(ctx, <<>>, indices))
  BY <1>1, <1>2, <1>5, <1>6, Placing!FoldKeeps, Least DEF Placing!Ordered
<1> QED BY <1>3, <1>7 DEF ctx, n

\* The pairs leave each directory on one volume.
LEMMA PairsOneVolume ==
  ASSUME NEW p, IsPod(p), NEW paths \in Seq(Text), Distinct(paths), NEW fresh \in Seq(Text),
         Len(paths) <= Len(fresh),
         NEW own, OneVolume(MountsOf(p) \cup own), \A m \in own : m.path \notin ToSet(paths)
  PROVE  /\ GetVolumePairs(p, paths, fresh) \in Seq(VolumeMount)
         /\ OneEach(GetVolumePairs(p, paths, fresh))
         /\ \A m \in ToSet(GetVolumePairs(p, paths, fresh)) : m.path \in ToSet(paths) /\ ~m.readOnly
         /\ OneVolume(MountsOf(p) \cup own \cup ToSet(GetVolumePairs(p, paths, fresh)))
<1> DEFINE ctx == [pod |-> p, paths |-> paths, fresh |-> fresh]
           pairs == GetVolumePairs(p, paths, fresh)
           n == Len(paths)
           P == ToSet(pairs)
<1>1. PlacedInv(ctx, n, pairs)
  BY PairsPlaced
<1>2. DOMAIN paths = 1..n
  OBVIOUS
<1>3. ASSUME NEW i \in 1..n
      PROVE  /\ PairOf(ctx, i) \in VolumeMount /\ PairOf(ctx, i).path = paths[i] /\ ~PairOf(ctx, i).readOnly
             /\ IsMountPath(p, paths[i]) =>
                  \E m \in MountsOf(p) : m.path = paths[i] /\ m.name = PairOf(ctx, i).name
  BY PairOfIs
<1> HIDE DEF ctx, pairs, n, P
<1>4. \A x \in P : \E i \in 1..n : x = PairOf(ctx, i)
  BY <1>1 DEF PlacedInv, ToSet, P
<1>5. \A i \in 1..n : PairOf(ctx, i).path = paths[i] /\ paths[i] \in ToSet(paths) /\ ~PairOf(ctx, i).readOnly
  BY <1>2, <1>3 DEF ToSet
<1>6. \A x \in P, y \in P : x.path = y.path => x.name = y.name
  BY <1>1 DEF PlacedInv, OneEach, ToSet, P
<1>7. \A x \in P, y \in own : x.path # y.path
  BY <1>4, <1>5
<1>8. ASSUME NEW x \in P, NEW y \in MountsOf(p), x.path = y.path
      PROVE  x.name = y.name
  <2>1. PICK i \in 1..n : x = PairOf(ctx, i)
    BY <1>4
  <2>2. x.path = paths[i]
    BY <1>5, <2>1
  <2>3. IsMountPath(p, paths[i])
    BY <1>8, <2>2, MountPlaceIs
  <2>4. PICK m \in MountsOf(p) : m.path = paths[i] /\ m.name = x.name
    BY <1>3, <2>1, <2>3
  <2> QED BY <1>8, <2>2, <2>4 DEF OneVolume
<1> DEFINE M == MountsOf(p)
<1>9. OneVolume(M \cup own \cup P)
  <2> HIDE DEF M
  <2>1. OneVolume(M \cup own) /\ \A x \in P, y \in M : x.path = y.path => x.name = y.name
    BY <1>8 DEF M
  <2> QED BY <1>6, <1>7, <2>1 DEF OneVolume
<1> QED BY <1>1, <1>4, <1>5, <1>9 DEF PlacedInv, P, pairs

-----------------------------------------------------------------------------
(* Shared volumes *)

\* The names of the containers stay as they are.
LEMMA MountKeepsNames ==
  ASSUME NEW p, IsPod(p), NEW m \in VolumeMount
  PROVE  Names(AddVolumeMount(p, m).containers) = Names(p.containers)
<1> DEFINE list == [i \in DOMAIN p.containers |-> AddMountTo(p.containers[i], m)]
<1>1. AddVolumeMount(p, m) = [p EXCEPT !.containers = list]
  BY DEF AddVolumeMount, EachContainer
<1>2. [p EXCEPT !.containers = list].containers = list
  BY PodIs DEF PodFields
<1>3. \A i \in DOMAIN p.containers : list[i].name = p.containers[i].name
  <2>1. \A i \in DOMAIN p.containers : p.containers[i] \in PodContainer
    BY PodIs
  <2>2. \A c \in PodContainer : AddMountTo(c, m).name = c.name
    BY DEF AddMountTo, PodContainer
  <2> QED BY <2>1, <2>2
<1>4. DOMAIN list = DOMAIN p.containers
  OBVIOUS
<1> HIDE DEF list
<1> QED BY <1>1, <1>2, <1>3, <1>4 DEF Names

\* The pod as the volumes, then the mounts, of the pairs are added one by one.
WithVolumes(ctx, k, q) ==
  /\ IsPod(q) /\ Sound(q, ctx.own) /\ q.init = ctx.pod.init /\ q.containers = ctx.pod.containers
  /\ MountsOf(q) = MountsOf(ctx.pod)
  /\ Names(q.volumes) \subseteq Names(ctx.pod.volumes) \cup Names(ctx.pairs)
  /\ \A j \in 1..k : ctx.pairs[j].name \in Names(q.volumes)
WithMounts(ctx, k, q) ==
  /\ IsPod(q) /\ Sound(q, ctx.own) /\ q.init = ctx.pod.init /\ Names(q.containers) = Names(ctx.pod.containers)
  /\ MountsOf(q) \subseteq MountsOf(ctx.pod) \cup ToSet(ctx.pairs)
  /\ Names(ctx.pairs) \subseteq Names(q.volumes)
  /\ Names(q.volumes) \subseteq Names(ctx.pod.volumes) \cup Names(ctx.pairs)
SoundVolumes == INSTANCE FoldTheory WITH Op <- VolumeOp, Inv <- WithVolumes
SoundMounts == INSTANCE FoldTheory WITH Op <- MountOp, Inv <- WithMounts

\* A pod stays sound when volumes are shared in it.
LEMMA ShareSound ==
  ASSUME NEW p, IsPod(p), NEW own, Sound(p, own), NEW pairs \in Seq(VolumeMount),
         OneVolume(MountsOf(p) \cup own \cup ToSet(pairs))
  PROVE  WithMounts([pod |-> p, own |-> own, pairs |-> pairs], 0, ShareVolumes(p, pairs))
<1> DEFINE ctx == [pod |-> p, own |-> own, pairs |-> pairs]
           n == Len(pairs)
           q == SoundVolumes!Fold(ctx, p, pairs)
<1>1. n \in Nat /\ DOMAIN pairs = 1..n /\ \A k \in 1..n : pairs[k] \in VolumeMount
  OBVIOUS
<1>2. ctx.pod = p /\ ctx.own = own /\ ctx.pairs = pairs
  OBVIOUS
<1> HIDE DEF n, ctx
<1>3. WithVolumes(ctx, 0, p)
  BY <1>2 DEF WithVolumes
<1>4. ASSUME NEW k \in 1..n, NEW a, WithVolumes(ctx, k - 1, a)
      PROVE  WithVolumes(ctx, k, VolumeOp(ctx, a, pairs[k]))
  <2> DEFINE v == EmptyDir(pairs[k].name)
             b == AddVolume(a, v)
  <2>1. /\ IsPod(a) /\ Sound(a, own) /\ a.init = p.init /\ a.containers = p.containers /\ MountsOf(a) = MountsOf(p)
        /\ \A j \in 1..k - 1 : pairs[j].name \in Names(a.volumes)
        /\ Names(a.volumes) \subseteq Names(p.volumes) \cup Names(pairs)
    BY <1>2, <1>4 DEF WithVolumes
  <2>2. v \in PodVolume /\ v.name = pairs[k].name /\ v.name \in Names(pairs)
    BY <1>1, EmptyDirIs DEF VolumeMount, EmptyDir, Volume, Names
  <2>3. VolumeOp(ctx, a, pairs[k]) = b
    BY DEF VolumeOp
  <2> HIDE DEF v
  <2>4. Sound(b, own) /\ MountsOf(b) = MountsOf(a) /\ Names(b.volumes) = Names(a.volumes) \cup {v.name}
    BY <2>1, <2>2, SoundVolume
  <2>5. IsPod(b)
    BY <2>1, <2>2, AddStep DEF Step
  <2>6. b.init = a.init /\ b.containers = a.containers
    BY <2>1, PodIs DEF PodFields, AddVolume
  <2> HIDE DEF b
  <2>7. \A j \in 1..k : j \in 1..k - 1 \/ j = k
    BY <1>1
  <2> QED BY <1>2, <2>1, <2>2, <2>3, <2>4, <2>5, <2>6, <2>7 DEF WithVolumes
<1>5. WithVolumes(ctx, n, q)
  BY <1>1, <1>3, <1>4, SoundVolumes!FoldKeeps, Least DEF SoundVolumes!Ordered
<1> HIDE DEF q
<1>6. WithMounts(ctx, 0, q)
  BY <1>1, <1>2, <1>5 DEF WithVolumes, WithMounts, Names
<1>7. ASSUME NEW k \in 1..n, NEW a, WithMounts(ctx, k - 1, a)
      PROVE  WithMounts(ctx, k, MountOp(ctx, a, pairs[k]))
  <2> DEFINE m == pairs[k]
             b == AddVolumeMount(a, m)
             M == MountsOf(p)
             P == ToSet(pairs)
  <2>1. /\ IsPod(a) /\ Sound(a, own) /\ a.init = p.init /\ Names(a.containers) = Names(p.containers)
        /\ MountsOf(a) \subseteq M \cup P /\ Names(pairs) \subseteq Names(a.volumes)
        /\ Names(a.volumes) \subseteq Names(p.volumes) \cup Names(pairs)
    BY <1>2, <1>7 DEF WithMounts
  <2>2. m \in VolumeMount /\ m.name \in Names(pairs) /\ m \in P
    BY <1>1 DEF Names, ToSet
  <2>3. OneVolume(M \cup own \cup P)
    OBVIOUS
  <2>4. MountOp(ctx, a, pairs[k]) = b
    BY DEF MountOp
  <2> HIDE DEF m, M, P
  <2>5. OneVolume(MountsOf(a) \cup own \cup {m})
    BY <2>1, <2>2, <2>3, OneVolumeLess
  <2>6. m.name \in Names(a.volumes)
    BY <2>1, <2>2
  <2>7. Sound(b, own) /\ MountsOf(b) \subseteq MountsOf(a) \cup {m} /\ b.volumes = a.volumes /\ b.init = a.init
    BY <2>1, <2>2, <2>5, <2>6, SoundMount
  <2>8. IsPod(b)
    BY <2>1, <2>2, MountStep DEF Step
  <2>9. Names(b.containers) = Names(a.containers)
    BY <2>1, <2>2, MountKeepsNames
  <2> HIDE DEF b
  <2> QED BY <1>2, <2>1, <2>2, <2>4, <2>7, <2>8, <2>9 DEF WithMounts, M, P
<1>8. WithMounts(ctx, n, SoundMounts!Fold(ctx, q, pairs))
  BY <1>1, <1>6, <1>7, SoundMounts!FoldKeeps, Least DEF SoundMounts!Ordered
<1>9. ShareVolumes(p, pairs) = SoundMounts!Fold(ctx, q, pairs)
  BY DEF ShareVolumes, FoldLeft, MapThenFoldSet, Max, SoundVolumes!Fold, SoundVolumes!Largest, VolumeOp, q,
         SoundMounts!Fold, SoundMounts!Largest, MountOp
<1> QED BY <1>8, <1>9 DEF WithMounts, ctx

-----------------------------------------------------------------------------
(* Variables that have a source *)

\* The variables that have a value or a source.
Sourced == {e \in EnvVar : HasSource(e)}

\* What is put where a variable was, or at the end, is all that is new.
LEMMA PlacedWithin ==
  ASSUME NEW S, S \subseteq EnvVar, NEW envs \in Seq(S), NEW e \in S, NEW new,
         EnvIndex(envs, e.name) # 0 => new \in S
  PROVE  Placed(envs, new, e) \in Seq(S)
<1> DEFINE i == EnvIndex(envs, e.name)
<1>1. i \in 0..Len(envs)
  <2>1. envs \in Seq(EnvVar)
    BY SeqMonotonic
  <2> QED BY <2>1, EnvIndexIs
<1>2. Append(envs, e) \in Seq(S)
  BY AppendProperties
<1>3. ASSUME i # 0 PROVE [envs EXCEPT ![i] = new] \in Seq(S)
  <2>1. i \in 1..Len(envs) /\ new \in S
    BY <1>1, <1>3
  <2> HIDE DEF i
  <2> QED BY <2>1, ExceptSeq
<1> QED BY <1>2, <1>3 DEF Placed

\* A list of such variables, as it is changed one by one.
SomeEnvs(S, k, list) == list \in Seq(S)
KeepWithin == INSTANCE FoldTheory WITH Op <- KeepOp, Inv <- SomeEnvs
ReplaceWithin == INSTANCE FoldTheory WITH Op <- ReplaceOp, Inv <- SomeEnvs

\* One variable after the other: each is one of the two lists.
LEMMA UpdatesWithin ==
  ASSUME NEW S, S \subseteq EnvVar, NEW first \in Seq(S), NEW envs \in Seq(S)
  PROVE  /\ AddOrUpdateEnvVars(first, envs, KeepExistingEnvVar) \in Seq(S)
         /\ AddOrUpdateEnvVars(first, envs, ReplaceExistingEnvVar) \in Seq(S)
<1> DEFINE n == Len(envs)
<1>1. n \in Nat /\ DOMAIN envs = 1..n /\ \A k \in 1..n : envs[k] \in S
  OBVIOUS
<1> HIDE DEF n
<1>2. SomeEnvs(S, 0, first)
  BY DEF SomeEnvs
<1>3. ASSUME NEW k \in 1..n, NEW a, SomeEnvs(S, k - 1, a)
      PROVE  SomeEnvs(S, k, KeepOp(S, a, envs[k])) /\ SomeEnvs(S, k, ReplaceOp(S, a, envs[k]))
  <2> DEFINE e == envs[k]
             i == EnvIndex(a, e.name)
             old == a[i]
  <2>1. a \in Seq(S) /\ e \in S
    BY <1>1, <1>3 DEF SomeEnvs
  <2>2. a \in Seq(EnvVar)
    BY <2>1, SeqMonotonic
  <2> HIDE DEF e
  <2>3. /\ AddOrUpdateEnvVar(a, e, KeepExistingEnvVar) = Placed(a, old, e)
        /\ AddOrUpdateEnvVar(a, e, ReplaceExistingEnvVar) = Placed(a, e, e)
        /\ i \in 0..Len(a)
    BY <2>1, <2>2, AddOrUpdateIs, EnvIndexIs
  <2> HIDE DEF i
  <2>4. i # 0 => old \in S
    BY <2>1, <2>3
  <2> HIDE DEF old
  <2>5. Placed(a, old, e) \in Seq(S) /\ Placed(a, e, e) \in Seq(S)
    BY <2>1, <2>4, PlacedWithin DEF i
  <2> QED BY <2>3, <2>5 DEF SomeEnvs, KeepOp, ReplaceOp, e
<1>4. SomeEnvs(S, n, KeepWithin!Fold(S, first, envs))
  BY <1>1, <1>2, <1>3, KeepWithin!FoldKeeps, Least DEF KeepWithin!Ordered
<1>5. SomeEnvs(S, n, ReplaceWithin!Fold(S, first, envs))
  BY <1>1, <1>2, <1>3, ReplaceWithin!FoldKeeps, Least DEF ReplaceWithin!Ordered
<1>6. AddOrUpdateEnvVars(first, envs, KeepExistingEnvVar) = KeepWithin!Fold(S, first, envs)
  BY DEF AddOrUpdateEnvVars, FoldLeft, MapThenFoldSet, Max, KeepWithin!Fold, KeepWithin!Largest, KeepOp
<1>7. AddOrUpdateEnvVars(first, envs, ReplaceExistingEnvVar) = ReplaceWithin!Fold(S, first, envs)
  BY DEF AddOrUpdateEnvVars, FoldLeft, MapThenFoldSet, Max, ReplaceWithin!Fold, ReplaceWithin!Largest, ReplaceOp
<1> QED BY <1>4, <1>5, <1>6, <1>7 DEF SomeEnvs

\* The variables that a rule brings into the pod.
Brought(envs) == {BuildEnv(envs[i]) : i \in DOMAIN envs}

\* The variables that a rule brings are built from the variables of the rule.
LEMMA BuildWithin ==
  ASSUME NEW envs \in Seq(EnvVar), NEW p
  PROVE  Brought(envs) \subseteq EnvVar /\ BuildEnvs(envs, p) \in Seq(Brought(envs))
<1> DEFINE n == Len(envs)
           built == [i \in DOMAIN envs |-> BuildEnv(envs[i])]
           kept == p.containers = <<>> \/ p.containers[1].declares
           T == {e \in EnvVar : e.kind = "limit" => kept}
           S == {built[k] : k \in 1..n} \cap T
<1>1. n \in Nat /\ DOMAIN envs = 1..n /\ \A k \in 1..n : envs[k] \in EnvVar
  OBVIOUS
<1>2. DOMAIN built = 1..n /\ \A k \in 1..n : built[k] \in EnvVar /\ built[k] = BuildEnv(envs[k])
  BY <1>1, BuildEnvIs
<1>3. BuildEnvs(envs, p) = Limiting!Fold(kept, <<>>, built)
  BY DEF BuildEnvs, Filter, FoldLeft, MapThenFoldSet, Max, Limiting!Fold, Limiting!Largest, LimitOp
<1> HIDE DEF built, n, kept
<1>4. Limiting!Filters(kept, built, n, T)
  BY <1>2 DEF Limiting!Filters, LimitOp
<1> HIDE DEF T
<1>5. Limiting!Filtered(Limiting!Fold(kept, <<>>, built), built, n, T)
  BY <1>1, <1>2, <1>4, Limiting!FoldFilters, Least DEF Limiting!Ordered
<1>6. BuildEnvs(envs, p) \in Seq(S)
  BY <1>3, <1>5 DEF Limiting!Filtered
<1>7. S \subseteq Brought(envs) /\ Brought(envs) \subseteq EnvVar
  BY <1>1, <1>2 DEF Brought
<1> HIDE DEF S
<1> QED BY <1>6, <1>7, SeqMonotonic

\* The variables of a sidecar are those of its rule and its own.
LEMMA SidecarWithin ==
  ASSUME NEW rule, rule.envs \in Seq(EnvVar), NEW p
  PROVE  SidecarEnvs(rule, p) \in Seq(Brought(rule.envs))
<1> DEFINE S == Brought(rule.envs)
<1>1. S \subseteq EnvVar /\ BuildEnvs(rule.envs, p) \in Seq(S)
  BY BuildWithin
<1>2. <<>> \in Seq(S)
  OBVIOUS
<1> HIDE DEF S
<1>3. AddOrUpdateEnvVars(<<>>, BuildEnvs(rule.envs, p), ReplaceExistingEnvVar) \in Seq(S)
  BY <1>1, <1>2, UpdatesWithin
<1> QED BY <1>3 DEF SidecarEnvs, S

\* A value that got a library is no reference without a name.
LEMMA NamelessIs ==
  /\ \A key \in DOMAIN DDToken : DDToken[key] \notin ToSet(NamelessLabel)
  /\ \A lang \in OTelLanguages : OTelTokens(lang) \cap ToSet(NamelessLabel) = {} /\ OTelTokens(lang) # {}
<1>1. ToSet(NamelessLabel) = {NamelessReference}
  BY DEF NamelessLabel, ToSet
<1>2. \A key \in DOMAIN DDToken : DDToken[key] # NamelessReference
  BY DEF DDToken, NamelessReference
<1>3. NamelessReference \notin {JavaAgentOption, RequireOption, PythonPrefix, PythonSuffix}
  BY DEF NamelessReference, JavaAgentOption, RequireOption, PythonPrefix, PythonSuffix, OTelPath
<1>4. \A lang \in OTelLanguages : /\ OTelTokens(lang) # {}
                                 /\ OTelTokens(lang) \subseteq {JavaAgentOption, RequireOption, PythonPrefix, PythonSuffix}
  BY DEF OTelLanguages, OTelPath, OTelTokens
<1> HIDE DEF OTelTokens
<1> QED BY <1>1, <1>2, <1>3, <1>4

\* Adding tokens changes a value, not where it comes from.
LEMMA TokensAdded ==
  ASSUME NEW value \in Seq(Text), NEW t \in Text
  PROVE  /\ t \in ToSet(Append(value, t)) /\ t \in ToSet(<<t>> \o value)
<1> DEFINE one == <<t>>
<1>1. one \in Seq(Text) /\ t \in ToSet(one)
  BY DEF ToSet
<1> HIDE DEF one
<1>2. t \in ToSet(one \o value)
  BY <1>1, ConcatSet
<1>3. t \in ToSet(Append(value, t))
  BY AppendSet
<1> QED BY <1>2, <1>3 DEF one

\* A value with the Datadog tracer's token has a name.
LEMMA DDValueNamed ==
  ASSUME NEW key \in DOMAIN DDToken, NEW value \in Seq(Text), value # NamelessLabel
  PROVE  DDValue(key, value) # NamelessLabel
<1> DEFINE t == DDToken[key]
<1>1. t \in Text /\ t \notin ToSet(NamelessLabel)
  BY TracingLiterals, NamelessIs
<1>2. t \in ToSet(<<ConfD, t>>)
  BY DEF ToSet
<1>3. DDValue(key, value) \in {value, <<t>> \o value, <<ConfD, t>>, Append(value, t)}
  BY DEF DDValue
<1> HIDE DEF t
<1>4. t \in ToSet(<<t>> \o value) /\ t \in ToSet(Append(value, t))
  BY <1>1, TokensAdded
<1> QED BY <1>1, <1>2, <1>3, <1>4

\* A value with the OpenTelemetry tracer's token has a name.
LEMMA OTelValueNamed ==
  ASSUME NEW lang \in OTelLanguages, NEW value \in Seq(Text)
  PROVE  OTelValue(lang, value) # NamelessLabel
BY NamelessIs, OTelValueLoads

\* A plain variable has its value; others keep the source they have.
LEMMA SourcedIs ==
  /\ \A e \in EnvVar : e.kind = "plain" => e \in Sourced
  /\ \A e \in Sourced : \A v \in Seq(Text) :
       (e.value # NamelessLabel => v # NamelessLabel) => [e EXCEPT !.value = v] \in Sourced
  /\ \A name \in Text : \A v \in Seq(Text) : Plain(name, v) \in Sourced
BY DEF Sourced, HasSource, EnvVar, Plain, Env, Kinds

-----------------------------------------------------------------------------
(* The variables of the tracers have a source *)

\* Loading a library keeps the sources of the variables.
LEMMA LoadSourced ==
  ASSUME NEW c \in PodContainer, NEW key \in DOMAIN DDToken, c.env \in Seq(Sourced)
  PROVE  LoadDD(c, key).env \in Seq(Sourced)
<1> DEFINE i == EnvIndex(c.env, key)
           old == c.env[i]
           v == DDValue(key, old.value)
           w == DDValue(key, <<>>)
           e == Plain(key, w)
           new == [c.env[i] EXCEPT !.value = DDValue(key, @)]
           list == Placed(c.env, new, e)
<1>1. c.env \in Seq(EnvVar)
  BY DEF PodContainer
<1>2. e \in Sourced /\ e.name = key
  <2>1. <<>> \in Seq(Text)
    OBVIOUS
  <2>2. w \in Seq(Text) /\ key \in Text
    BY <2>1, DDValueIs, TracingLiterals
  <2> HIDE DEF w
  <2>3. e \in Sourced
    BY <2>2, SourcedIs
  <2> QED BY <2>3 DEF Plain, Env
<1>3. i # 0 => new \in Sourced
  <2> SUFFICES ASSUME i # 0 PROVE new \in Sourced
    OBVIOUS
  <2>1. i \in 1..Len(c.env)
    BY <1>1, EnvIndexIs
  <2>2. old \in Sourced /\ old \in EnvVar
    BY <1>1, <2>1
  <2>3. old.value \in Seq(Text)
    BY <2>2 DEF EnvVar
  <2>4. v \in Seq(Text) /\ (old.value # NamelessLabel => v # NamelessLabel)
    BY <2>3, DDValueIs, DDValueNamed
  <2>5. new = [old EXCEPT !.value = v]
    OBVIOUS
  <2> HIDE DEF old, v, new
  <2> QED BY <2>2, <2>4, <2>5, SourcedIs
<1>4. LoadDD(c, key) = [c EXCEPT !.env = list]
  <2>1. AddOrUpdateEnvVar(c.env, e, LAMBDA x, n : [x EXCEPT !.value = DDValue(key, @)]) = list
    BY <1>2 DEF AddOrUpdateEnvVar, Placed
  <2> QED BY <2>1 DEF LoadDD
<1> HIDE DEF e, new
<1>5. list \in Seq(Sourced)
  <2>1. Sourced \subseteq EnvVar
    BY DEF Sourced
  <2> HIDE DEF i
  <2> QED BY <1>2, <1>3, <2>1, PlacedWithin DEF i
<1> HIDE DEF list
<1>6. [c EXCEPT !.env = list].env = list
  BY DEF PodContainer
<1> QED BY <1>4, <1>5, <1>6

\* A container whose variables have sources, as the libraries are loaded one by one.
SourcedContainer(c, k, d) == d \in PodContainer /\ d.env \in Seq(Sourced)
SourcedLoads == INSTANCE FoldTheory WITH Op <- LoadOp, Inv <- SourcedContainer

\* Loading every library keeps the sources of the variables.
LEMMA LoadsSourced ==
  ASSUME NEW c \in PodContainer, NEW keys \in Seq(DOMAIN DDToken), c.env \in Seq(Sourced)
  PROVE  FoldLeft(LoadDD, c, keys).env \in Seq(Sourced)
<1> DEFINE n == Len(keys)
<1>1. n \in Nat /\ DOMAIN keys = 1..n /\ \A k \in 1..n : keys[k] \in DOMAIN DDToken
  OBVIOUS
<1> HIDE DEF n
<1>2. SourcedContainer(c, 0, c)
  BY DEF SourcedContainer
<1>3. ASSUME NEW k \in 1..n, NEW d, SourcedContainer(c, k - 1, d)
      PROVE  SourcedContainer(c, k, LoadOp(c, d, keys[k]))
  <2>1. d \in PodContainer /\ d.env \in Seq(Sourced) /\ keys[k] \in DOMAIN DDToken
    BY <1>1, <1>3 DEF SourcedContainer
  <2> QED BY <2>1, LoadDDIs, LoadSourced DEF SourcedContainer, LoadOp
<1>4. SourcedContainer(c, n, SourcedLoads!Fold(c, c, keys))
  BY <1>1, <1>2, <1>3, SourcedLoads!FoldKeeps, Least DEF SourcedLoads!Ordered
<1>5. FoldLeft(LoadDD, c, keys) = SourcedLoads!Fold(c, c, keys)
  BY DEF FoldLeft, MapThenFoldSet, Max, SourcedLoads!Fold, SourcedLoads!Largest, LoadOp
<1> QED BY <1>4, <1>5 DEF SourcedContainer

\* The merged tags are plain.
LEMMA GlobalSourced ==
  ASSUME NEW envs \in Seq(Sourced), NEW e \in Sourced
  PROVE  AddGlobalEnv(envs, e) \in Seq(Sourced)
<1> DEFINE k == EnvIndex(envs, e.name)
           old == envs[k]
           i == EnvIndex(envs, "DD_TAGS")
           rest == RemoveAt(envs, i)
           merged == [e EXCEPT !.value = AppendKVPairs(envs[i].value, @)]
<1>1. Sourced \subseteq EnvVar /\ envs \in Seq(EnvVar) /\ e \in EnvVar
  <2>1. Sourced \subseteq EnvVar
    BY DEF Sourced
  <2> HIDE DEF Sourced
  <2> QED BY <2>1, SeqMonotonic
<1>2. k \in 0..Len(envs) /\ i \in 0..Len(envs)
  BY <1>1, EnvIndexIs
<1>3. Append(envs, e) \in Seq(Sourced)
  BY AppendProperties
<1>4. CASE e.name # "DD_TAGS"
  <2>1. AddGlobalEnv(envs, e) = AddOrUpdateEnvVar(envs, e, KeepExistingEnvVar)
    BY <1>4 DEF AddGlobalEnv
  <2>2. AddOrUpdateEnvVar(envs, e, KeepExistingEnvVar) = Placed(envs, old, e)
    BY <1>1, AddOrUpdateIs
  <2>3. k # 0 => old \in Sourced
    BY <1>2
  <2> HIDE DEF old
  <2> QED BY <1>1, <2>1, <2>2, <2>3, PlacedWithin
<1>5. CASE e.name = "DD_TAGS" /\ e.kind = "plain"
  <2>1. AddGlobalEnv(envs, e) = AddOrMergeDDTags(envs, e)
    BY <1>5 DEF AddGlobalEnv
  <2>2. CASE i = 0
    <3>1. AddOrMergeDDTags(envs, e) = Append(envs, e)
      BY <2>2 DEF AddOrMergeDDTags
    <3> QED BY <1>3, <2>1, <3>1
  <2>3. CASE i # 0
    <3>1. AddOrMergeDDTags(envs, e) \in {envs, Append(rest, merged)}
      BY <2>3 DEF AddOrMergeDDTags
    <3>2. i \in 1..Len(envs) /\ envs[i] \in EnvVar
      BY <1>1, <1>2, <2>3
    <3>3. rest \in Seq(Sourced)
      <4> HIDE DEF i
      <4>1. SubSeq(envs, 1, i - 1) \in Seq(Sourced) /\ SubSeq(envs, i + 1, Len(envs)) \in Seq(Sourced)
        BY <3>2, SubSeqProperties
      <4> QED BY <4>1, ConcatProperties DEF RemoveAt
    <3> DEFINE v == AppendKVPairs(envs[i].value, e.value)
    <3>4. v \in Seq(Text)
      <4>1. envs[i].value \in Seq(Text) /\ e.value \in Seq(Text)
        BY <1>1, <3>2 DEF EnvVar
      <4> QED BY <4>1, AppendKVPairsIs
    <3>5. merged = [e EXCEPT !.value = v]
      OBVIOUS
    <3> HIDE DEF v, merged
    <3>6. [e EXCEPT !.value = v] \in EnvVar /\ [e EXCEPT !.value = v].kind = "plain"
      BY <1>1, <1>5, <3>4 DEF EnvVar
    <3>7. merged \in Sourced
      BY <3>5, <3>6, SourcedIs
    <3> HIDE DEF rest
    <3>8. Append(rest, merged) \in Seq(Sourced)
      BY <3>3, <3>7, AppendProperties
    <3> QED BY <2>1, <3>1, <3>8
  <2> QED BY <2>2, <2>3
<1>6. CASE e.name = "DD_TAGS" /\ e.kind # "plain"
  BY <1>6 DEF AddGlobalEnv
<1> QED BY <1>4, <1>5, <1>6

\* The variables of the agent, added one by one, have a source.
SourcedGlobals == INSTANCE FoldTheory WITH Op <- GlobalOp, Inv <- SomeEnvs

\* The variables that point to the agent have a source.
LEMMA GlobalsSourced ==
  ASSUME NEW first \in Seq(Sourced), NEW envs \in Seq(Sourced)
  PROVE  FoldLeft(AddGlobalEnv, first, envs) \in Seq(Sourced)
<1> DEFINE n == Len(envs)
<1>1. n \in Nat /\ DOMAIN envs = 1..n /\ \A k \in 1..n : envs[k] \in Sourced
  OBVIOUS
<1> HIDE DEF n
<1>2. SomeEnvs(Sourced, 0, first)
  BY DEF SomeEnvs
<1>3. ASSUME NEW k \in 1..n, NEW a, SomeEnvs(Sourced, k - 1, a)
      PROVE  SomeEnvs(Sourced, k, GlobalOp(Sourced, a, envs[k]))
  BY <1>1, <1>3, GlobalSourced DEF SomeEnvs, GlobalOp
<1>4. SomeEnvs(Sourced, n, SourcedGlobals!Fold(Sourced, first, envs))
  BY <1>1, <1>2, <1>3, SourcedGlobals!FoldKeeps, Least DEF SourcedGlobals!Ordered
<1>5. FoldLeft(AddGlobalEnv, first, envs) = SourcedGlobals!Fold(Sourced, first, envs)
  BY DEF FoldLeft, MapThenFoldSet, Max, SourcedGlobals!Fold, SourcedGlobals!Largest, GlobalOp
<1> QED BY <1>4, <1>5 DEF SomeEnvs

\* The variables of the OpenTelemetry tracer have a source.
LEMMA OTelSourced ==
  ASSUME NEW l \in Seq(Sourced), NEW lang \in OTelLanguages
  PROVE  OTelLoaded(l, lang) \in Seq(Sourced)
<1> DEFINE key == LoaderKey[lang]
           w == OTelValue(lang, <<>>)
           e == Plain(key, w)
           i == EnvIndex(l, key)
           old == l[i]
           v == OTelValue(lang, old.value)
           new == [l[i] EXCEPT !.value = OTelValue(lang, @)]
<1>1. Sourced \subseteq EnvVar /\ l \in Seq(EnvVar)
  <2>1. Sourced \subseteq EnvVar
    BY DEF Sourced
  <2> HIDE DEF Sourced
  <2> QED BY <2>1, SeqMonotonic
<1>2. e \in Sourced /\ e.name = key
  <2>1. <<>> \in Seq(Text)
    OBVIOUS
  <2>2. w \in Seq(Text) /\ key \in Text
    BY <2>1, OTelValueIs, TracingLiterals
  <2> HIDE DEF w, key
  <2>3. e \in Sourced
    BY <2>2, SourcedIs
  <2> QED BY <2>3 DEF Plain, Env
<1>3. i # 0 => new \in Sourced
  <2> SUFFICES ASSUME i # 0 PROVE new \in Sourced
    OBVIOUS
  <2>1. i \in 1..Len(l)
    BY <1>1, EnvIndexIs
  <2>2. old \in Sourced /\ old \in EnvVar
    BY <1>1, <2>1
  <2>3. old.value \in Seq(Text)
    BY <2>2 DEF EnvVar
  <2>4. v \in Seq(Text) /\ v # NamelessLabel
    BY <2>3, OTelValueIs, OTelValueNamed
  <2>5. new = [old EXCEPT !.value = v]
    OBVIOUS
  <2> HIDE DEF old, v, new
  <2> QED BY <2>2, <2>4, <2>5, SourcedIs
<1>4. OTelLoaded(l, lang) = Placed(l, new, e)
  BY <1>2 DEF OTelLoaded, AddOrUpdateEnvVar, Placed
<1> HIDE DEF e, new
<1>5. EnvIndex(l, e.name) # 0 => new \in Sourced
  BY <1>2, <1>3
<1> QED BY <1>1, <1>2, <1>4, <1>5, PlacedWithin

\* What the tracers make of the variables of a container.
LEMMA TracedSourced ==
  ASSUME NEW c \in PodContainer, c.env \in Seq(Sourced), NEW envs \in Seq(Sourced)
  PROVE  /\ \A lang \in DOMAIN LoaderKey : DDTraced(c, lang, envs).env \in Seq(Sourced)
         /\ \A lang \in OTelLanguages : OTelTraced(c, lang, envs).env \in Seq(Sourced)
<1>1. ASSUME NEW lang \in DOMAIN LoaderKey PROVE DDTraced(c, lang, envs).env \in Seq(Sourced)
  <2> DEFINE keys == DDKeys(lang)
             a == FoldLeft(LoadDD, c, keys)
             b == AddMountTo(a, DDMount)
             new == FoldLeft(AddGlobalEnv, b.env, envs)
  <2>1. keys \in Seq(DOMAIN DDToken) /\ DDMount \in VolumeMount
    BY DDKeysAre, TracingLiterals
  <2>2. DDTraced(c, lang, envs) = [b EXCEPT !.env = new]
    BY DEF DDTraced
  <2> HIDE DEF keys
  <2>3. a \in PodContainer /\ a.env \in Seq(Sourced)
    BY <2>1, LoadsAre, LoadsSourced DEF LoadInv
  <2> HIDE DEF a
  <2>4. b \in PodContainer /\ b.env = a.env
    <3>1. b \in PodContainer
      BY <2>1, <2>3, MountEdited
    <3> QED BY <2>3, <3>1 DEF AddMountTo, PodContainer
  <2> HIDE DEF b
  <2>5. new \in Seq(Sourced)
    BY <2>3, <2>4, GlobalsSourced
  <2> HIDE DEF new
  <2>6. [b EXCEPT !.env = new].env = new
    BY <2>4 DEF PodContainer
  <2> QED BY <2>2, <2>5, <2>6
<1>2. ASSUME NEW lang \in OTelLanguages PROVE OTelTraced(c, lang, envs).env \in Seq(Sourced)
  <2> DEFINE l == OTelLoaded(c.env, lang)
  <2>1. Sourced \subseteq EnvVar /\ envs \in Seq(EnvVar)
    <3>1. Sourced \subseteq EnvVar
      BY DEF Sourced
    <3> HIDE DEF Sourced
    <3> QED BY <3>1, SeqMonotonic
  <2>2. OTelTraced(c, lang, envs).env = AddOrUpdateEnvVars(l, envs, KeepExistingEnvVar)
    BY <2>1, OTelTracedLoads
  <2>3. l \in Seq(Sourced)
    BY OTelSourced
  <2> HIDE DEF l, Sourced
  <2> QED BY <2>1, <2>2, <2>3, UpdatesWithin
<1> QED BY <1>1, <1>2

-----------------------------------------------------------------------------
(* The sidecars, in a sound pod *)

\* A rule brings no variable without a source.
RuleSourced(rule) == Brought(rule.envs) \subseteq Sourced

\* The variables of a sidecar have a source when those of its rule do.
LEMMA SidecarSourced ==
  ASSUME NEW rule, rule.envs \in Seq(EnvVar), RuleSourced(rule), NEW p
  PROVE  SidecarEnvs(rule, p) \in Seq(Sourced) /\ BuildEnvs(rule.envs, p) \in Seq(Sourced)
<1>1. /\ SidecarEnvs(rule, p) \in Seq(Brought(rule.envs))
      /\ BuildEnvs(rule.envs, p) \in Seq(Brought(rule.envs))
  BY SidecarWithin, BuildWithin
<1> QED BY <1>1, SeqMonotonic DEF RuleSourced

\* A variable that has a source is a variable.
LEMMA SourcedAre ==
  ASSUME NEW envs \in Seq(Sourced)
  PROVE  envs \in Seq(EnvVar) /\ \A i \in DOMAIN envs : HasSource(envs[i])
<1>1. Sourced \subseteq EnvVar /\ \A e \in Sourced : HasSource(e)
  BY DEF Sourced
<1> HIDE DEF Sourced
<1> QED BY <1>1, SeqMonotonic

\* Variables with sources, as the configurations are added one by one.
SourcedEnvs(key, k, list) == list \in Seq(Sourced)
SourcedConfigs == INSTANCE FoldTheory WITH Op <- ConfigOp, Inv <- SourcedEnvs

\* The configurations of logfwd's sidecar have a source.
LEMMA ConfigSourced ==
  ASSUME NEW key \in Text, NEW configs \in SUBSET Text, IsFiniteSet(configs), NEW envs \in Seq(Sourced)
  PROVE  Configuring!Fold(key, envs, SetToSeq(configs)) \in Seq(Sourced)
<1> DEFINE list == SetToSeq(configs)
           n == Len(list)
<1>1. list \in Seq(configs)
  BY SetListed
<1>2. n \in Nat /\ DOMAIN list = 1..n /\ \A k \in 1..n : list[k] \in Text
  BY <1>1
<1> HIDE DEF list, n
<1>3. SourcedEnvs(key, 0, envs)
  BY DEF SourcedEnvs
<1>4. ASSUME NEW k \in 1..n, NEW a, SourcedEnvs(key, k - 1, a)
      PROVE  SourcedEnvs(key, k, ConfigOp(key, a, list[k]))
  <2> DEFINE v == IF list[k] = Blank THEN <<>> ELSE <<list[k]>>
             e == Plain(key, v)
  <2>1. v \in Seq(Text)
    BY <1>2
  <2> HIDE DEF v
  <2>2. e \in Sourced /\ e \in EnvVar
    BY <2>1, SourcedIs DEF Sourced
  <2>3. ConfigOp(key, a, list[k]) = AddOrUpdateEnvVar(a, e, ReplaceExistingEnvVar)
    BY DEF ConfigOp, v
  <2> HIDE DEF e
  <2>4. a \in Seq(Sourced) /\ a \in Seq(EnvVar)
    BY <1>4, SourcedAre DEF SourcedEnvs
  <2>5. Sourced \subseteq EnvVar
    BY DEF Sourced
  <2>6. Placed(a, e, e) \in Seq(Sourced)
    BY <2>2, <2>4, <2>5, PlacedWithin
  <2>7. AddOrUpdateEnvVar(a, e, ReplaceExistingEnvVar) = Placed(a, e, e)
    BY <2>2, <2>4, AddOrUpdateIs
  <2> QED BY <2>3, <2>6, <2>7 DEF SourcedEnvs
<1>5. SourcedEnvs(key, n, SourcedConfigs!Fold(key, envs, list))
  BY <1>2, <1>3, <1>4, SourcedConfigs!FoldKeeps, Least DEF SourcedConfigs!Ordered
<1>6. SourcedConfigs!Fold(key, envs, list) = Configuring!Fold(key, envs, list)
  BY DEF SourcedConfigs!Fold, SourcedConfigs!Largest, Configuring!Fold, Configuring!Largest
<1> QED BY <1>5, <1>6 DEF SourcedEnvs, list

\* Every variable of logfwd's sidecar has a source.
LEMMA LogfwdSourced ==
  ASSUME NEW p, IsPod(p), NEW rule \in LogfwdRules, RuleSourced(rule)
  PROVE  LogfwdEnvs(p, rule) \in Seq(Sourced)
<1> DEFINE instances == InstancesConfig(p)
           logs == LogConfigsConfig(rule)
           own == SidecarEnvs(rule, p)
           first == Configuring!Fold("LOGFWD_JSON_CONFIG", own, SetToSeq(instances))
<1>1. /\ instances \in SUBSET Text /\ IsFiniteSet(instances)
      /\ logs \in SUBSET Text /\ IsFiniteSet(logs)
  <2>1. \A x : IsFiniteSet({x}) /\ \A S \in SUBSET {x} : IsFiniteSet(S)
    BY FS_Singleton, FS_Subset
  <2>2. instances \in SUBSET Text /\ logs \in SUBSET Text
    BY PodsLiterals, PathsAssumption DEF InstancesConfig, LogConfigsConfig
  <2>3. \E x : instances \in SUBSET {x}
    BY DEF InstancesConfig
  <2>4. logs \in SUBSET {rule.logConfigs}
    BY DEF LogConfigsConfig
  <2> QED BY <2>1, <2>2, <2>3, <2>4
<1>2. own \in Seq(Sourced)
  <2>1. rule.envs \in Seq(EnvVar)
    BY DEF LogfwdRules
  <2> QED BY <2>1, SidecarSourced
<1> HIDE DEF instances, logs, own
<1>3. first \in Seq(Sourced)
  BY <1>1, <1>2, ConfigSourced, SidecarsLiterals
<1> HIDE DEF first
<1>4. Configuring!Fold("LOGFWD_LOG_CONFIGS", first, SetToSeq(logs)) \in Seq(Sourced)
  BY <1>1, <1>3, ConfigSourced, SidecarsLiterals
<1> QED BY <1>4 DEF LogfwdEnvs, first, own, logs, instances

\* Mounts in the same places of the same volumes.
LEMMA OneVolumeAlike ==
  ASSUME NEW S, NEW T, OneVolume(S), \A x \in T : \E y \in S : x.path = y.path /\ x.name = y.name
  PROVE  OneVolume(T)
BY DEF OneVolume

\* The mounts of the logfwd sidecar.
LEMMA LogfwdMountsAre ==
  ASSUME NEW pairs \in Seq(VolumeMount), OneEach(pairs), \A m \in ToSet(pairs) : m.path # PodInfoMount.path
  PROVE  LET mounts == LogfwdMounts(pairs)
         IN  /\ mounts \in Seq(VolumeMount) /\ OneEach(mounts)
             /\ Names(mounts) \subseteq Names(pairs) \cup {PodInfo}
             /\ \A x \in ToSet(mounts) : \E y \in ToSet(pairs) \cup {PodInfoMount} : x.path = y.path /\ x.name = y.name
             /\ \A y \in ToSet(pairs) : \E x \in ToSet(mounts) : x.path = y.path /\ x.name = y.name
<1> DEFINE ro == [i \in DOMAIN pairs |-> ReadOnly(pairs[i])]
           end == ReadOnly(PodInfoMount)
           mounts == Append(ro, end)
           n == Len(pairs)
<1>1. n \in Nat /\ DOMAIN pairs = 1..n /\ \A i \in 1..n : pairs[i] \in VolumeMount /\ pairs[i] \in ToSet(pairs)
  BY DEF ToSet
<1>2. \A m \in VolumeMount : ReadOnly(m) \in VolumeMount /\ ReadOnly(m).name = m.name /\ ReadOnly(m).path = m.path
  BY DEF ReadOnly, VolumeMount
<1>3. PodInfoMount \in VolumeMount /\ PodInfoMount.name = PodInfo
  BY SidecarsLiterals DEF PodInfoMount, Mount
<1>4. end \in VolumeMount /\ end.name = PodInfoMount.name /\ end.path = PodInfoMount.path
  BY <1>2, <1>3
<1>5. /\ ro \in [1..n -> VolumeMount]
      /\ \A i \in 1..n : ro[i].name = pairs[i].name /\ ro[i].path = pairs[i].path
  BY <1>1, <1>2
<1> HIDE DEF ro, end, n
<1>6. ro \in Seq(VolumeMount) /\ DOMAIN ro = 1..n /\ Len(ro) = n
  BY <1>1, <1>5, SeqDef
<1>7. OneEach(ro)
  BY <1>1, <1>5, <1>6 DEF OneEach
<1>8. \A i \in DOMAIN ro : ro[i].path # end.path
  BY <1>1, <1>4, <1>5, <1>6
<1>9. /\ mounts \in Seq(VolumeMount) /\ OneEach(mounts)
      /\ \A i \in DOMAIN mounts : mounts[i] = end \/ (i \in DOMAIN ro /\ mounts[i] = ro[i])
  BY <1>4, <1>6, <1>7, <1>8, AppendMount
<1>10. \A i \in 1..n : i \in DOMAIN mounts /\ mounts[i] = ro[i]
  BY <1>1, <1>4, <1>6, AppendProperties
<1> HIDE DEF mounts
<1>11. Names(mounts) \subseteq Names(pairs) \cup {PodInfo}
  BY <1>1, <1>3, <1>4, <1>5, <1>6, <1>9 DEF Names
<1>12. \A x \in ToSet(mounts) : \E y \in ToSet(pairs) \cup {PodInfoMount} : x.path = y.path /\ x.name = y.name
  <2>1. \A i \in 1..n : \E y \in ToSet(pairs) : ro[i].path = y.path /\ ro[i].name = y.name
    BY <1>1, <1>5
  <2>2. \A i \in DOMAIN mounts : \E y \in ToSet(pairs) \cup {PodInfoMount} : mounts[i].path = y.path /\ mounts[i].name = y.name
    BY <1>4, <1>6, <1>9, <2>1
  <2>3. \A x \in ToSet(mounts) : \E i \in DOMAIN mounts : x = mounts[i]
    BY DEF ToSet
  <2> QED BY <2>2, <2>3
<1>13. \A y \in ToSet(pairs) : \E x \in ToSet(mounts) : x.path = y.path /\ x.name = y.name
  BY <1>1, <1>5, <1>10 DEF ToSet
<1>14. mounts = LogfwdMounts(pairs)
  BY DEF LogfwdMounts, mounts, ro, end
<1> QED BY <1>9, <1>11, <1>12, <1>13, <1>14

\* No logs are collected from the places of the injections.
Clear(own, paths) == \A m \in own : m.path \notin paths

\* logfwd keeps a pod sound, when no place of the injections is a directory of its rule.
LEMMA LogfwdSound ==
  ASSUME NEW p, IsPod(p), NEW own, Sound(p, own), PodInfoMount \in own,
         NEW rule \in LogfwdRules, LogfwdNamesSuffice(rule), RuleSourced(rule),
         Clear(own, ToSet(rule.paths) \cup ConfiguredPaths)
  PROVE  Sound(InjectLogfwd(p, rule), own)
<1>1. PICK paths \in Seq(Text), c \in PodContainer :
        LET pairs == GetVolumePairs(p, paths, LogfwdVolumes)
        IN  /\ InjectLogfwd(p, rule) =
                 AddContainer(AddVolume(ShareVolumes(p, pairs), Volume(PodInfo, "downwardAPI")), c)
            /\ Len(paths) <= Len(LogfwdVolumes)
            /\ ToSet(paths) \subseteq ToSet(rule.paths) \cup ConfiguredPaths
            /\ c.name = LogfwdContainer
            /\ paths = LogfwdPaths(p, rule) /\ c.env = LogfwdEnvs(p, rule)
            /\ c.mounts = LogfwdMounts(pairs)
  BY LogfwdParts
<1> DEFINE pairs == GetVolumePairs(p, paths, LogfwdVolumes)
           info == Volume(PodInfo, "downwardAPI")
           q == ShareVolumes(p, pairs)
           r == AddVolume(q, info)
           M == MountsOf(p)
<1>2. InjectLogfwd(p, rule) = AddContainer(r, c) /\ c.mounts = LogfwdMounts(pairs)
  BY <1>1
<1>3. Distinct(paths) /\ OneVolume(M \cup own) /\ Clear(own, ToSet(paths))
  <2>1. Distinct(paths)
    <3> DEFINE joined == LogPaths(InstancesConfig(p)) \o LogPaths(LogConfigsConfig(rule)) \o rule.paths
    <3>1. joined \in Seq(Text)
      <4>1. /\ LogPaths(InstancesConfig(p)) \in Seq(Text) /\ LogPaths(LogConfigsConfig(rule)) \in Seq(Text)
            /\ rule.paths \in Seq(Text)
        BY LogPathsTyped DEF LogfwdRules
      <4> QED BY <4>1, ConcatProperties
    <3>2. paths = Unique(joined)
      BY <1>1 DEF LogfwdPaths
    <3> HIDE DEF joined
    <3> QED BY <3>1, <3>2, UniqueDistinct
  <2> QED BY <1>1, <2>1 DEF Sound, Clear
<1>4. LogfwdVolumes \in Seq(Text)
  BY PathsAssumption
<1>5. /\ pairs \in Seq(VolumeMount) /\ OneEach(pairs)
      /\ \A m \in ToSet(pairs) : m.path \in ToSet(paths)
      /\ OneVolume(M \cup own \cup ToSet(pairs))
  BY <1>1, <1>3, <1>4, PairsOneVolume DEF Clear
<1> HIDE DEF pairs
<1>6. /\ IsPod(q) /\ Sound(q, own) /\ q.init = p.init
      /\ MountsOf(q) \subseteq M \cup ToSet(pairs) /\ Names(pairs) \subseteq Names(q.volumes)
  BY <1>5, ShareSound DEF WithMounts
<1>7. info \in PodVolume /\ info.name = PodInfo
  BY SidecarsLiterals, PodsLiterals DEF Volume, PodVolume
<1> HIDE DEF q, info, M
<1>8. IsPod(r) /\ Sound(r, own) /\ MountsOf(r) = MountsOf(q) /\ Names(r.volumes) = Names(q.volumes) \cup {PodInfo}
      /\ r.init = q.init
  <2>1. IsPod(r)
    BY <1>6, <1>7, AddStep DEF Step
  <2>2. r.init = q.init
    BY <1>6, PodIs DEF AddVolume, PodFields
  <2> QED BY <1>6, <1>7, <2>1, <2>2, SoundVolume
<1> HIDE DEF r
<1>9. /\ OneEach(c.mounts) /\ Names(c.mounts) \subseteq Names(pairs) \cup {PodInfo}
      /\ \A x \in ToSet(c.mounts) : \E y \in ToSet(pairs) \cup {PodInfoMount} : x.path = y.path /\ x.name = y.name
  <2>1. \A m \in ToSet(pairs) : m.path # PodInfoMount.path
    BY <1>3, <1>5 DEF Clear
  <2> QED BY <1>2, <1>5, <2>1, LogfwdMountsAre
<1>10. Acceptable(c, Names(r.volumes))
  <2>1. c.env \in Seq(Sourced)
    BY <1>1, LogfwdSourced
  <2> QED BY <1>6, <1>8, <1>9, <2>1, SourcedAre DEF Acceptable, OneEach
<1>11. OneVolume(MountsOf(r) \cup own \cup ToSet(c.mounts))
  <2>1. \A x \in MountsOf(r) \cup own \cup ToSet(c.mounts) :
          \E y \in M \cup own \cup ToSet(pairs) : x.path = y.path /\ x.name = y.name
    BY <1>6, <1>8, <1>9
  <2> QED BY <1>5, <2>1, OneVolumeAlike
<1>12. c.name \notin Names(r.init) /\ c.name \notin {DDInit, OTelInit}
  BY <1>1, <1>6, <1>8 DEF Sound, SidecarNames, LogfwdContainer, DDInit, OTelInit
<1>13. Sound(AddContainer(r, c), own)
  BY <1>8, <1>10, <1>11, <1>12, SoundContainer
<1> QED BY <1>2, <1>13

\* A container without mounts fits anywhere.
LEMMA BareContainer ==
  ASSUME NEW c, c.mounts = <<>>, c.env \in Seq(Sourced)
  PROVE  ToSet(c.mounts) = {} /\ \A V : Acceptable(c, V)
<1>1. \A i \in DOMAIN c.env : HasSource(c.env[i])
  BY SourcedAre
<1> QED BY <1>1 DEF Acceptable, Names, ToSet

\* The annotations and the other scalars do not matter.
LEMMA OtherFieldsSound ==
  ASSUME NEW p, IsPod(p), NEW own, Sound(p, own)
  PROVE  /\ Sound(ResetSpec(p), own) /\ ResetSpec(p).volumes = p.volumes
         /\ \A keys, v : Sound(Annotate(p, keys, v), own)
         /\ Sound(AddPrometheusAnnotations(p), own)
<1>1. ResetSpec(p).containers = p.containers /\ ResetSpec(p).init = p.init /\ ResetSpec(p).volumes = p.volumes
  BY PodIs DEF PodFields, ResetSpec
<1>2. \A keys, v : LET q == Annotate(p, keys, v)
                   IN  q.containers = p.containers /\ q.init = p.init /\ q.volumes = p.volumes
  BY PodIs DEF PodFields, Annotate
<1>3. \A keys, v : Sound(Annotate(p, keys, v), own)
  BY <1>2, SoundSame
<1> QED BY <1>1, <1>3, SoundSame DEF AddPrometheusAnnotations

\* What was known to be mounted somewhere.
LEMMA OwnMount ==
  ASSUME NEW p, NEW own, Sound(p, own), NEW m \in own
  PROVE  OneVolume(MountsOf(p) \cup own \cup {m})
<1>1. MountsOf(p) \cup own \cup {m} = MountsOf(p) \cup own
  OBVIOUS
<1> QED BY <1>1 DEF Sound

\* A place that is free can be taken.
LEMMA FreeMountSound ==
  ASSUME NEW p, IsPod(p), NEW own, Sound(p, own), NEW m \in VolumeMount, m.name \in Names(p.volumes),
         OneVolume(own \cup {m})
  PROVE  /\ IsPod(AddMountIfFree(p, m)) /\ Sound(AddMountIfFree(p, m), own)
         /\ AddMountIfFree(p, m).volumes = p.volumes
<1>1. CASE IsMountPath(p, m.path)
  BY <1>1 DEF AddMountIfFree
<1>2. CASE ~IsMountPath(p, m.path)
  <2> DEFINE M == MountsOf(p)
  <2>1. \A x \in M : x.path # m.path
    BY <1>2, MountPlaceIs
  <2>2. OneVolume(M \cup own)
    BY DEF Sound
  <2>3. AddMountIfFree(p, m) = AddVolumeMount(p, m)
    BY <1>2 DEF AddMountIfFree
  <2> HIDE DEF M
  <2>4. OneVolume(M \cup own \cup {m})
    BY <2>1, <2>2 DEF OneVolume
  <2>5. IsPod(AddVolumeMount(p, m))
    BY MountStep DEF Step
  <2> QED BY <2>3, <2>4, <2>5, SoundMount DEF M
<1> QED BY <1>1, <1>2

-----------------------------------------------------------------------------
(* Flameshot *)

\* The flame graphs keep a pod sound.
LEMMA FlameshotSound ==
  ASSUME NEW p, IsPod(p), NEW own, Sound(p, own), NEW rule \in FlameshotRules, NEW envs \in Seq(Sourced),
         EnvIndex(envs, ProfilingPath) # 0, Mount(FlameshotVolume, FlameshotPath(envs)) \in own
  PROVE  Sound(InjectFlameshot(p, rule, envs), own)
<1> DEFINE container == Container(FlameshotContainer, Image(rule.image, Blank), Blank, envs, <<>>)
           q == ResetSpec(p)
           r == AddContainer(q, container)
           v == EmptyDir(FlameshotVolume)
           s == AddVolume(r, v)
           m == Mount(FlameshotVolume, FlameshotPath(envs))
           t == AddVolumeMount(s, m)
           u == InjectFlameshot(p, rule, envs)
<1>1. u \in {t, AddPrometheusAnnotations(t)}
  BY DEF InjectFlameshot
<1>2. {FlameshotContainer, FlameshotVolume, Blank} \subseteq Text
  BY PodsLiterals, SidecarsLiterals
<1>3. envs \in Seq(EnvVar)
  BY SourcedAre
<1>4. container \in PodContainer
  <2> DEFINE image == Image(rule.image, Blank)
             mounts == <<>>
  <2>1. image \in [of: Text, version: Text]
    BY <1>2 DEF Image, FlameshotRules
  <2>2. mounts \in Seq(VolumeMount)
    OBVIOUS
  <2> HIDE DEF image, mounts
  <2> QED BY <1>2, <1>3, <2>1, <2>2, ContainerIs DEF image, mounts
<1>5. container.name = FlameshotContainer /\ container.mounts = <<>> /\ container.env = envs
  BY DEF Container
<1> HIDE DEF container, u
<1>6. IsPod(q) /\ Sound(q, own)
  BY ResetStep, OtherFieldsSound DEF Step
<1> HIDE DEF q
<1>7. ToSet(container.mounts) = {} /\ Acceptable(container, Names(q.volumes))
  BY <1>5, BareContainer
<1>8. IsPod(r) /\ Sound(r, own)
  <2>1. IsPod(r)
    BY <1>4, <1>6, AddStep DEF Step
  <2>2. container.name \notin Names(q.init) /\ container.name \notin {DDInit, OTelInit}
    BY <1>5, <1>6 DEF Sound, SidecarNames, FlameshotContainer, DDInit, OTelInit
  <2>3. OneVolume(MountsOf(q) \cup own \cup ToSet(container.mounts))
    BY <1>6, <1>7 DEF Sound
  <2> QED BY <1>4, <1>6, <1>7, <2>1, <2>2, <2>3, SoundContainer
<1> HIDE DEF r
<1>9. v \in PodVolume /\ v.name = FlameshotVolume
  BY <1>2, EmptyDirIs DEF EmptyDir, Volume
<1> HIDE DEF v
<1>10. IsPod(s) /\ Sound(s, own) /\ FlameshotVolume \in Names(s.volumes)
  <2>1. IsPod(s)
    BY <1>8, <1>9, AddStep DEF Step
  <2> QED BY <1>8, <1>9, <2>1, SoundVolume
<1> HIDE DEF s
<1>11. m \in VolumeMount /\ m.name = FlameshotVolume
  BY <1>2, <1>3, FlameshotPathIs DEF Mount, VolumeMount
<1> HIDE DEF m
<1>12. IsPod(t) /\ Sound(t, own)
  <2>1. IsPod(t)
    BY <1>10, <1>11, MountStep DEF Step
  <2>2. OneVolume(MountsOf(s) \cup own \cup {m})
    BY <1>10, OwnMount DEF m
  <2> QED BY <1>10, <1>11, <2>1, <2>2, SoundMount
<1> HIDE DEF t
<1>13. Sound(AddPrometheusAnnotations(t), own)
  BY <1>12, OtherFieldsSound
<1> QED BY <1>1, <1>12, <1>13 DEF u

-----------------------------------------------------------------------------
(* The profiler *)

\* A sound pod with the volumes passed, as they are added one by one.
SoundWith(ctx, k, q) ==
  /\ IsPod(q) /\ Sound(q, ctx.own)
  /\ \A j \in 1..k : ctx.volumes[j].name \in Names(q.volumes)
VolumeAdded(ctx, q, v) == AddVolume(q, v)
SoundThree == INSTANCE FoldTheory WITH Op <- VolumeAdded, Inv <- SoundWith

\* The volumes of the profiler keep a pod sound.
LEMMA VolumesSound ==
  ASSUME NEW p, IsPod(p), NEW own, Sound(p, own), NEW volumes \in Seq(PodVolume)
  PROVE  LET q == FoldLeft(AddVolume, p, volumes)
         IN  IsPod(q) /\ Sound(q, own) /\ Names(volumes) \subseteq Names(q.volumes)
<1> DEFINE n == Len(volumes)
           ctx == [own |-> own, volumes |-> volumes]
           q == SoundThree!Fold(ctx, p, volumes)
<1>1. n \in Nat /\ DOMAIN volumes = 1..n /\ \A k \in 1..n : volumes[k] \in PodVolume
  OBVIOUS
<1>2. ctx.own = own /\ ctx.volumes = volumes
  OBVIOUS
<1>3. FoldLeft(AddVolume, p, volumes) = q
  BY DEF FoldLeft, MapThenFoldSet, Max, SoundThree!Fold, SoundThree!Largest, VolumeAdded
<1> HIDE DEF n, ctx
<1>4. SoundWith(ctx, 0, p)
  BY <1>2 DEF SoundWith
<1>5. ASSUME NEW k \in 1..n, NEW a, SoundWith(ctx, k - 1, a)
      PROVE  SoundWith(ctx, k, VolumeAdded(ctx, a, volumes[k]))
  <2> DEFINE v == volumes[k]
             b == AddVolume(a, v)
  <2>1. /\ IsPod(a) /\ Sound(a, own) /\ v \in PodVolume
        /\ \A j \in 1..k - 1 : volumes[j].name \in Names(a.volumes)
    BY <1>1, <1>2, <1>5 DEF SoundWith
  <2>2. IsPod(b)
    BY <2>1, AddStep DEF Step
  <2>3. Sound(b, own) /\ Names(b.volumes) = Names(a.volumes) \cup {v.name}
    BY <2>1, SoundVolume
  <2> HIDE DEF b
  <2>4. \A j \in 1..k : j \in 1..k - 1 \/ j = k
    BY <1>1
  <2>5. \A j \in 1..k : volumes[j].name \in Names(b.volumes)
    BY <2>1, <2>3, <2>4
  <2>6. SoundWith(ctx, k, b)
    BY <1>2, <2>2, <2>3, <2>5 DEF SoundWith
  <2> QED BY <2>6 DEF VolumeAdded, b
<1>6. SoundWith(ctx, n, q)
  BY <1>1, <1>4, <1>5, SoundThree!FoldKeeps, Least DEF SoundThree!Ordered
<1> HIDE DEF q
<1>7. Names(volumes) \subseteq Names(q.volumes)
  BY <1>1, <1>2, <1>6 DEF SoundWith, Names
<1> QED BY <1>2, <1>3, <1>6, <1>7 DEF SoundWith

\* The profiler keeps a pod sound.
LEMMA ProfilerSound ==
  ASSUME NEW p, IsPod(p), NEW own, Sound(p, own), NEW rule \in ProfilerRules, RuleSourced(rule),
         NEW image \in [of: Text, version: Text],
         ProfilerMount \in own, OneVolume(own \cup {TmpMount, TimezoneMount})
  PROVE  Sound(InjectProfiler(p, rule, image), own)
<1> DEFINE q == ResetSpec(p)
           envs == SidecarEnvs(rule, q)
           container == Container(ProfilerContainer, image, Blank, envs, <<>>)
           r == AddContainer(q, container)
           volumes == <<EmptyDir(ProfilerMount.name), EmptyDir(TmpMount.name),
                        Volume(TimezoneMount.name, "hostPath")>>
           s == FoldLeft(AddVolume, r, volumes)
           t == AddVolumeMount(s, ProfilerMount)
           u == AddMountIfFree(t, TmpMount)
           w == AddMountIfFree(u, TimezoneMount)
<1>1. InjectProfiler(p, rule, image) = w
  BY DEF InjectProfiler
<1>2. /\ {ProfilerMount, TmpMount, TimezoneMount} \subseteq VolumeMount
      /\ ProfilerContainer \in Text /\ Blank \in Text
  BY PodsLiterals, SidecarsLiterals
<1>3. IsPod(q) /\ Sound(q, own)
  BY ResetStep, OtherFieldsSound DEF Step
<1>4. envs \in Seq(Sourced) /\ envs \in Seq(EnvVar)
  <2>1. rule.envs \in Seq(EnvVar)
    BY DEF ProfilerRules
  <2> HIDE DEF q
  <2> QED BY <2>1, SidecarSourced, SourcedAre
<1> HIDE DEF q, envs
<1>5. container \in PodContainer
  <2> DEFINE mounts == <<>>
  <2>1. mounts \in Seq(VolumeMount)
    OBVIOUS
  <2> HIDE DEF mounts
  <2> QED BY <1>2, <1>4, <2>1, ContainerIs DEF mounts
<1>6. container.name = ProfilerContainer /\ container.mounts = <<>> /\ container.env = envs
  BY DEF Container
<1> HIDE DEF container
<1>7. ToSet(container.mounts) = {} /\ Acceptable(container, Names(q.volumes))
  BY <1>4, <1>6, BareContainer
<1>8. IsPod(r) /\ Sound(r, own)
  <2>1. IsPod(r)
    BY <1>3, <1>5, AddStep DEF Step
  <2>2. container.name \notin Names(q.init) /\ container.name \notin {DDInit, OTelInit}
    BY <1>3, <1>6 DEF Sound, SidecarNames, ProfilerContainer, DDInit, OTelInit
  <2>3. OneVolume(MountsOf(q) \cup own \cup ToSet(container.mounts))
    BY <1>3, <1>7 DEF Sound
  <2> QED BY <1>3, <1>5, <1>7, <2>1, <2>2, <2>3, SoundContainer
<1> HIDE DEF r
<1>9. volumes \in Seq(PodVolume) /\ {ProfilerMount.name, TmpMount.name, TimezoneMount.name} \subseteq Names(volumes)
  <2>1. ProfilerMount.name \in Text /\ TmpMount.name \in Text /\ TimezoneMount.name \in Text
    BY <1>2 DEF VolumeMount
  <2>2. \A n \in Text : EmptyDir(n) \in PodVolume /\ EmptyDir(n).name = n
    BY EmptyDirIs DEF EmptyDir, Volume
  <2>3. Volume(TimezoneMount.name, "hostPath") \in PodVolume /\ Volume(TimezoneMount.name, "hostPath").name = TimezoneMount.name
    BY <2>1, PodsLiterals DEF Volume, PodVolume
  <2> DEFINE a == EmptyDir(ProfilerMount.name)
             b == EmptyDir(TmpMount.name)
             d == Volume(TimezoneMount.name, "hostPath")
  <2>4. /\ a \in PodVolume /\ a.name = ProfilerMount.name
        /\ b \in PodVolume /\ b.name = TmpMount.name
        /\ d \in PodVolume /\ d.name = TimezoneMount.name
    BY <2>1, <2>2, <2>3
  <2>5. volumes = <<a, b, d>>
    OBVIOUS
  <2> HIDE DEF a, b, d, volumes
  <2>6. volumes \in Seq(PodVolume)
    BY <2>4, <2>5
  <2>7. 1 \in DOMAIN volumes /\ 2 \in DOMAIN volumes /\ 3 \in DOMAIN volumes
        /\ volumes[1] = a /\ volumes[2] = b /\ volumes[3] = d
    BY <2>5
  <2> QED BY <2>4, <2>6, <2>7 DEF Names
<1> HIDE DEF volumes
<1>10. IsPod(s) /\ Sound(s, own) /\ {ProfilerMount.name, TmpMount.name, TimezoneMount.name} \subseteq Names(s.volumes)
  BY <1>8, <1>9, VolumesSound
<1> HIDE DEF s
<1>11. IsPod(t) /\ Sound(t, own) /\ t.volumes = s.volumes
  <2>1. IsPod(t)
    BY <1>2, <1>10, MountStep DEF Step
  <2>2. OneVolume(MountsOf(s) \cup own \cup {ProfilerMount})
    BY <1>10, OwnMount
  <2> QED BY <1>2, <1>10, <2>1, <2>2, SoundMount
<1> HIDE DEF t
<1>12. OneVolume(own \cup {TmpMount}) /\ OneVolume(own \cup {TimezoneMount})
  BY OneVolumeLess
<1>13. IsPod(u) /\ Sound(u, own) /\ u.volumes = t.volumes
  BY <1>2, <1>10, <1>11, <1>12, FreeMountSound
<1> HIDE DEF u
<1>14. Sound(w, own)
  BY <1>2, <1>10, <1>11, <1>12, <1>13, FreeMountSound
<1> QED BY <1>1, <1>14

-----------------------------------------------------------------------------
(* DataKit's own collection *)

\* The logging configurations keep a pod sound.
LEMMA LoggingSound ==
  ASSUME NEW p, IsPod(p), NEW own, Sound(p, own), NEW config \in DOMAIN PathsOf,
         \A l \in Lengths : l <= Len(LogsVolumes), Clear(own, ConfiguredPaths)
  PROVE  Sound(Annotate(ShareVolumes(p, GetVolumePairs(p, Unique(PathsOf[config]), LogsVolumes)), {Logs}, config), own)
<1> DEFINE all == PathsOf[config]
           paths == Unique(all)
           pairs == GetVolumePairs(p, paths, LogsVolumes)
           q == ShareVolumes(p, pairs)
<1>1. all \in Seq(Text) /\ LogsVolumes \in Seq(Text) /\ Len(all) <= Len(LogsVolumes)
  BY PathsAssumption DEF Lengths
<1>2. ToSet(all) \subseteq ConfiguredPaths
  BY DEF ConfiguredPaths
<1> HIDE DEF all
<1>3. paths \in Seq(Text) /\ Len(paths) <= Len(LogsVolumes) /\ ToSet(paths) \subseteq ConfiguredPaths /\ Distinct(paths)
  <2>1. paths \in Seq(Text) /\ Len(paths) <= Len(all) /\ Distinct(paths)
    BY <1>1, UniqueIs, UniqueDistinct
  <2>2. all \in Seq(ToSet(all))
    BY <1>1, SeqOfItself
  <2>3. ToSet(paths) \subseteq ToSet(all)
    BY <2>2, UniqueSubset
  <2> HIDE DEF paths
  <2>4. Len(paths) \in Nat /\ Len(all) \in Nat /\ Len(LogsVolumes) \in Nat
    BY <1>1, <2>1
  <2> QED BY <1>1, <1>2, <2>1, <2>3, <2>4
<1> HIDE DEF paths
<1>4. OneVolume(MountsOf(p) \cup own) /\ \A m \in own : m.path \notin ToSet(paths)
  BY <1>3 DEF Sound, Clear
<1>5. pairs \in Seq(VolumeMount) /\ OneVolume(MountsOf(p) \cup own \cup ToSet(pairs))
  BY <1>1, <1>3, <1>4, PairsOneVolume
<1> HIDE DEF pairs
<1>6. IsPod(q) /\ Sound(q, own)
  BY <1>5, ShareSound DEF WithMounts
<1> HIDE DEF q
<1>7. Sound(Annotate(q, {Logs}, config), own)
  BY <1>6, OtherFieldsSound
<1> QED BY <1>7 DEF q, pairs, paths, all

-----------------------------------------------------------------------------
(* The tracers, in a sound pod *)

\* The variables of a container that is accepted.
LEMMA EnvSourced ==
  ASSUME NEW c \in PodContainer, NEW V, Acceptable(c, V)
  PROVE  c.env \in Seq(Sourced)
<1> DEFINE envs == c.env
           n == Len(envs)
<1>1. envs \in Seq(EnvVar) /\ n \in Nat /\ DOMAIN envs = 1..n
  BY DEF PodContainer
<1>2. \A i \in 1..n : envs[i] \in Sourced
  BY <1>1 DEF Acceptable, Sourced
<1> HIDE DEF envs, n
<1>3. n \in Nat /\ envs \in [1..n -> Sourced]
  <2>1. envs = [i \in 1..n |-> envs[i]]
    BY <1>1
  <2> QED BY <1>1, <1>2, <2>1
<1>4. envs \in Seq(Sourced)
  BY <1>3, SeqDef
<1> QED BY <1>4 DEF envs

\* Tracing keeps the names of the containers and mounts libraries only.
LEMMA TracedNames ==
  ASSUME NEW c \in PodContainer, NEW envs \in Seq(EnvVar)
  PROVE  /\ \A lang \in DOMAIN LoaderKey : DDTraced(c, lang, envs).name = c.name
         /\ \A lang \in OTelLanguages : OTelTraced(c, lang, envs).name = c.name
<1>1. ASSUME NEW lang \in DOMAIN LoaderKey PROVE DDTraced(c, lang, envs).name = c.name
  <2> DEFINE keys == DDKeys(lang)
             a == FoldLeft(LoadDD, c, keys)
             b == AddMountTo(a, DDMount)
             new == FoldLeft(AddGlobalEnv, b.env, envs)
  <2>1. keys \in Seq(DOMAIN DDToken) /\ DDMount \in VolumeMount
    BY DDKeysAre, TracingLiterals
  <2>2. DDTraced(c, lang, envs) = [b EXCEPT !.env = new]
    BY DEF DDTraced
  <2> HIDE DEF keys
  <2>3. a \in PodContainer /\ a.name = c.name
    BY <2>1, LoadsAre, EditedKeepsName DEF LoadInv
  <2> HIDE DEF a
  <2>4. b \in PodContainer /\ b.name = a.name
    <3>1. b \in PodContainer
      BY <2>1, <2>3, MountEdited
    <3> QED BY <2>3, <3>1 DEF AddMountTo, PodContainer
  <2> HIDE DEF b, new
  <2>5. [b EXCEPT !.env = new].name = b.name
    BY <2>4 DEF PodContainer
  <2> QED BY <2>2, <2>3, <2>4, <2>5
<1>2. ASSUME NEW lang \in OTelLanguages PROVE OTelTraced(c, lang, envs).name = c.name
  <2> DEFINE b == AddMountTo(c, OTelMount(lang))
             new == AddOrUpdateEnvVars(OTelLoaded(b.env, lang), envs, KeepExistingEnvVar)
  <2>1. OTelTraced(c, lang, envs) = [b EXCEPT !.env = new]
    BY DEF OTelTraced
  <2>2. b \in PodContainer /\ b.name = c.name
    <3>1. b \in PodContainer
      BY TracingLiterals, MountEdited
    <3> QED BY <3>1 DEF AddMountTo, PodContainer
  <2> HIDE DEF b, new
  <2>3. [b EXCEPT !.env = new].name = b.name
    BY <2>2 DEF PodContainer
  <2> QED BY <2>1, <2>2, <2>3
<1> QED BY <1>1, <1>2

\* A library: its volume, its init container, and a mount and variables in each container.
LEMMA LibrarySound ==
  ASSUME NEW p, IsPod(p), NEW own, Sound(p, own), LateAreSound,
         NEW v \in PodVolume, NEW m \in VolumeMount, m \in own, m.name = v.name,
         NEW init \in PodContainer, init.name \in {DDInit, OTelInit}, init.mounts = <<m>>, init.env = <<>>,
         NEW list, list = [i \in DOMAIN p.containers |-> list[i]],
         \A i \in DOMAIN p.containers :
            /\ list[i].name = p.containers[i].name
            /\ list[i].mounts = AddMountTo(p.containers[i], m).mounts
            /\ list[i].env \in Seq(Sourced),
         NEW q, q.containers = list, q.init = AddNamed(p.init, init), q.volumes = AddNamed(p.volumes, v)
  PROVE  Sound(q, own)
<1> DEFINE r == AddVolume(p, v)
           s == AddInitContainer(r, init)
           t == [s EXCEPT !.containers = list]
           V == Names(s.volumes)
           M == {m}
<1>1. r.containers = p.containers /\ r.init = p.init /\ r.volumes = AddNamed(p.volumes, v)
  BY PodIs DEF PodFields, AddVolume
<1>2. IsPod(r) /\ Sound(r, own) /\ MountsOf(r) = MountsOf(p) /\ Names(r.volumes) = Names(p.volumes) \cup {v.name}
  BY AddStep, SoundVolume DEF Step
<1> HIDE DEF r
<1>3. Acceptable(init, Names(r.volumes))
  <2> DEFINE one == init.mounts
             none == init.env
  <2>1. Names(one) = {v.name} /\ \A i, j \in DOMAIN one : one[i].path = one[j].path => i = j
    BY DEF Names
  <2>2. \A i \in DOMAIN none : HasSource(none[i])
    OBVIOUS
  <2> QED BY <1>2, <2>1, <2>2 DEF Acceptable
<1>4. IsPod(s) /\ Sound(s, own)
  BY <1>2, <1>3, AddStep, SoundInit DEF Step
<1>5. s.containers = p.containers /\ s.init = AddNamed(p.init, init) /\ s.volumes = AddNamed(p.volumes, v)
  BY <1>1, <1>2, PodIs DEF PodFields, AddInitContainer
<1> HIDE DEF s
<1>6. V = Names(p.volumes) \cup {v.name}
  BY <1>1, <1>2, <1>5
<1>7. MountsOf(s) = MountsOf(p)
  BY <1>5 DEF MountsOf
<1>8. OneVolume(MountsOf(s) \cup own \cup M)
  BY <1>4, OwnMount
<1>9. ASSUME NEW i \in DOMAIN p.containers
      PROVE  /\ list[i].name = p.containers[i].name /\ Acceptable(list[i], V)
             /\ ToSet(list[i].mounts) \subseteq ToSet(p.containers[i].mounts) \cup M
  <2> DEFINE c == p.containers[i]
             d == list[i]
  <2>1. c \in PodContainer /\ Acceptable(c, Names(p.volumes))
    BY PodIs DEF Sound
  <2>2. d.name = c.name /\ d.mounts = AddMountTo(c, m).mounts /\ d.env \in Seq(Sourced)
    OBVIOUS
  <2>3. ToSet(c.mounts) \cup {m} \subseteq MountsOf(s) \cup own \cup M
    BY <1>7 DEF MountsOf
  <2> HIDE DEF c, d, M, V
  <2>4. Acceptable(c, V)
    BY <1>6, <2>1, AcceptableMore
  <2>5. d.mounts = AddNamed(c.mounts, m)
    BY <2>1, <2>2 DEF AddMountTo, PodContainer
  <2>6. \A j \in DOMAIN d.env : HasSource(d.env[j])
    BY <2>2, SourcedAre
  <2>7. OneVolume(ToSet(c.mounts) \cup {m})
    BY <1>8, <2>3, OneVolumeLess
  <2>8. m.name \in V
    BY <1>6
  <2>9. Acceptable(d, V) /\ ToSet(d.mounts) \subseteq ToSet(c.mounts) \cup {m}
    BY <2>1, <2>4, <2>5, <2>6, <2>7, <2>8, AcceptableMount
  <2> QED BY <2>2, <2>9 DEF c, d, M
<1> HIDE DEF M, V
<1>10. Sound(t, own)
  <2>1. list = [i \in DOMAIN s.containers |-> list[i]]
    BY <1>5
  <2>2. /\ \A i \in DOMAIN s.containers : list[i].name = s.containers[i].name
                                         /\ Acceptable(list[i], Names(s.volumes))
        /\ \A i \in DOMAIN s.containers : ToSet(list[i].mounts) \subseteq ToSet(s.containers[i].mounts) \cup M
    BY <1>5, <1>9 DEF V
  <2> HIDE DEF t
  <2>3. Sound([s EXCEPT !.containers = list], own)
    BY <1>4, <1>8, <2>1, <2>2, SoundEdits
  <2> QED BY <2>3 DEF t
<1>11. t.containers = list /\ t.init = s.init /\ t.volumes = s.volumes
  BY <1>4, PodIs DEF PodFields
<1> HIDE DEF t
<1> QED BY <1>5, <1>10, <1>11, SoundSame

\* A repair changes variables only.
LEMMA RepairSound ==
  ASSUME NEW p, IsPod(p), NEW own, Sound(p, own)
  PROVE  Sound(RepairJavaAgentEnv(p), own)
<1> DEFINE Repaired(c) == IF HasDDMount(c) /\ ~IsSourced(c, LoaderKey.java)
                          THEN LoadDD(c, LoaderKey.java) ELSE c
           list == [i \in DOMAIN p.containers |-> Repaired(p.containers[i])]
           q == [p EXCEPT !.containers = list]
           V == Names(p.volumes)
           M == {}
<1>1. RepairJavaAgentEnv(p) \in {p, q}
  BY DEF RepairJavaAgentEnv, EachContainer
<1>2. list = [i \in DOMAIN p.containers |-> list[i]]
  OBVIOUS
<1>3. ASSUME NEW i \in DOMAIN p.containers
      PROVE  /\ list[i].name = p.containers[i].name /\ Acceptable(list[i], V)
             /\ ToSet(list[i].mounts) \subseteq ToSet(p.containers[i].mounts) \cup M
  <2> DEFINE c == p.containers[i]
             d == LoadDD(c, LoaderKey.java)
  <2>1. c \in PodContainer /\ Acceptable(c, V)
    BY PodIs DEF Sound
  <2>2. LoaderKey.java \in DOMAIN DDToken
    BY DEF LoaderKey, DDToken
  <2>3. list[i] \in {c, d}
    OBVIOUS
  <2> HIDE DEF c
  <2>4. d.mounts = c.mounts /\ d.name = c.name
    BY <2>1, <2>2, LoadDDIs, EditedKeepsName
  <2>5. d.env \in Seq(Sourced)
    BY <2>1, <2>2, EnvSourced, LoadSourced
  <2> HIDE DEF d, V
  <2>6. Acceptable(d, V)
    BY <2>1, <2>4, <2>5, SourcedAre DEF Acceptable
  <2> HIDE DEF list
  <2> QED BY <2>1, <2>3, <2>4, <2>6 DEF c
<1> HIDE DEF list
<1>4. OneVolume(MountsOf(p) \cup own \cup M)
  <2>1. MountsOf(p) \cup own \cup M = MountsOf(p) \cup own
    OBVIOUS
  <2> HIDE DEF M
  <2> QED BY <2>1 DEF Sound
<1> HIDE DEF M
<1>5. Sound(q, own)
  BY <1>2, <1>3, <1>4, SoundEdits
<1> QED BY <1>1, <1>5

\* The places of the libraries.
TracerMounts == {DDMount} \cup {OTelMount(lang) : lang \in OTelLanguages}

\* Tracing keeps a pod sound.
LEMMA TracingSound ==
  ASSUME NEW p, IsPod(p), NEW own, Sound(p, own), LateAreSound, TracerMounts \subseteq own, NEW ns,
         NEW ddtraces \in Seq(TracingRule), NEW otels \in Seq(TracingRule),
         \A rule \in ToSet(ddtraces) \cup ToSet(otels) : RuleSourced(rule)
  PROVE  Sound(InjectTracingToPod(p, ns, ddtraces, otels), own)
<1> DEFINE q == InjectTracingToPod(p, ns, ddtraces, otels)
<1>1. \/ q = p
      \/ DDInit \in Names(p.init) /\ q = RepairJavaAgentEnv(p)
      \/ DDAdded(p, q, ns, ddtraces)
      \/ OTelAdded(p, q, ns, otels)
  BY TracingForms
<1> SUFFICES Sound(q, own)
  OBVIOUS
<1> HIDE DEF q
<1>2. ASSUME NEW c \in PodContainer, NEW V, Acceptable(c, V), NEW rule \in TracingRule, RuleSourced(rule)
      PROVE  /\ BuildEnvs(rule.envs, p) \in Seq(EnvVar)
             /\ \A lang \in DOMAIN LoaderKey : DDTraced(c, lang, BuildEnvs(rule.envs, p)).env \in Seq(Sourced)
             /\ \A lang \in OTelLanguages : OTelTraced(c, lang, BuildEnvs(rule.envs, p)).env \in Seq(Sourced)
  <2> DEFINE envs == BuildEnvs(rule.envs, p)
  <2>1. c.env \in Seq(Sourced)
    BY <1>2, EnvSourced
  <2>2. envs \in Seq(Sourced)
    BY <1>2, SidecarSourced DEF TracingRule
  <2> HIDE DEF envs
  <2>3. envs \in Seq(EnvVar)
    BY <2>2, SourcedAre
  <2> QED BY <2>1, <2>2, <2>3, TracedSourced DEF envs
<1>3. \A i \in DOMAIN p.containers : p.containers[i] \in PodContainer /\ Acceptable(p.containers[i], Names(p.volumes))
  BY PodIs DEF Sound
<1>4. CASE DDAdded(p, q, ns, ddtraces)
  <2> DEFINE rule == SelectRule(p, MatchesAll(ddtraces, NamespaceOf(p, ns)), "ddtrace").rule
             lang == rule.language
             envs == BuildEnvs(rule.envs, p)
             list == [i \in DOMAIN p.containers |-> DDTraced(p.containers[i], lang, envs)]
             v == EmptyDir(DDVolume)
  <2>1. PICK init \in PodContainer :
          /\ init.name = DDInit /\ init.mounts = <<DDMount>> /\ init.env = <<>>
          /\ q = AddVolume(AddInitContainer([p EXCEPT !.containers = list], init), v)
    BY <1>4 DEF DDAdded
  <2>2. rule \in TracingRule /\ rule \in ToSet(ddtraces) /\ lang \in DOMAIN LoaderKey /\ ~Blocked(p, DDKeys(lang))
    BY <1>4 DEF DDAdded
  <2>3. RuleSourced(rule)
    BY <2>2
  <2>4. DDMount \in VolumeMount /\ DDMount.name = DDVolume /\ DDMount \in own /\ v \in PodVolume /\ v.name = DDVolume
    BY TracingLiterals, EmptyDirIs DEF DDMount, Mount, TracerMounts, EmptyDir, Volume
  <2>5. ASSUME NEW i \in DOMAIN p.containers
        PROVE  LET d == DDTraced(p.containers[i], lang, envs)
               IN  /\ d.name = p.containers[i].name
                   /\ d.mounts = AddMountTo(p.containers[i], DDMount).mounts
                   /\ d.env \in Seq(Sourced)
    <3> HIDE DEF rule
    <3>1. envs \in Seq(EnvVar) /\ DDTraced(p.containers[i], lang, envs).env \in Seq(Sourced)
      <4> DEFINE c == p.containers[i]
                 V == Names(p.volumes)
      <4>1. c \in PodContainer /\ Acceptable(c, V)
        BY <1>3
      <4> HIDE DEF c, V
      <4>2. /\ BuildEnvs(rule.envs, p) \in Seq(EnvVar)
            /\ \A l \in DOMAIN LoaderKey : DDTraced(c, l, BuildEnvs(rule.envs, p)).env \in Seq(Sourced)
        BY <1>2, <2>2, <2>3, <4>1
      <4> QED BY <2>2, <4>2 DEF c, envs
    <3>2. \A k \in ToSet(DDKeys(lang)) : ~IsSourced(p.containers[i], k)
      BY <2>2 DEF Blocked
    <3> HIDE DEF envs
    <3>3. DDTraced(p.containers[i], lang, envs).mounts = AddMountTo(p.containers[i], DDMount).mounts
      BY <1>3, <2>2, <3>1, <3>2, DDTracedLoads
    <3> QED BY <1>3, <2>2, <3>1, <3>3, TracedNames
  <2> HIDE DEF rule, lang, envs, v
  <2>6. list = [i \in DOMAIN p.containers |-> list[i]]
    OBVIOUS
  <2>7. \A i \in DOMAIN p.containers :
          /\ list[i].name = p.containers[i].name
          /\ list[i].mounts = AddMountTo(p.containers[i], DDMount).mounts
          /\ list[i].env \in Seq(Sourced)
    BY <2>5
  <2> HIDE DEF list
  <2>8. q.containers = list /\ q.init = AddNamed(p.init, init) /\ q.volumes = AddNamed(p.volumes, v)
    BY <2>1, PodIs DEF PodFields, AddVolume, AddInitContainer
  <2>9. init \in PodContainer /\ init.name \in {DDInit, OTelInit} /\ init.env = <<>>
    BY <2>1
  <2> QED BY <2>1, <2>4, <2>6, <2>7, <2>8, <2>9, LibrarySound
<1>5. CASE OTelAdded(p, q, ns, otels)
  <2> DEFINE rule == SelectRule(p, MatchesAll(otels, NamespaceOf(p, ns)), "otel").rule
             lang == rule.language
             envs == BuildEnvs(rule.envs, p)
             list == [i \in DOMAIN p.containers |-> OTelTraced(p.containers[i], lang, envs)]
             v == EmptyDir(OTelVolume)
             m == OTelMount(lang)
  <2>1. PICK init \in PodContainer :
          /\ init.name = OTelInit /\ init.mounts = <<m>> /\ init.env = <<>>
          /\ q = AddVolume(AddInitContainer([p EXCEPT !.containers = list], init), v)
    BY <1>5 DEF OTelAdded
  <2>2. rule \in TracingRule /\ rule \in ToSet(otels) /\ lang \in OTelLanguages
    BY <1>5 DEF OTelAdded
  <2>3. RuleSourced(rule)
    BY <2>2
  <2>4. m \in VolumeMount /\ m.name = OTelVolume /\ m \in own /\ v \in PodVolume /\ v.name = OTelVolume
    <3> HIDE DEF rule, lang
    <3> QED BY <2>2, TracingLiterals, EmptyDirIs DEF OTelMount, Mount, TracerMounts, EmptyDir, Volume
  <2>5. ASSUME NEW i \in DOMAIN p.containers
        PROVE  LET d == OTelTraced(p.containers[i], lang, envs)
               IN  /\ d.name = p.containers[i].name
                   /\ d.mounts = AddMountTo(p.containers[i], m).mounts
                   /\ d.env \in Seq(Sourced)
    <3> HIDE DEF rule
    <3>1. envs \in Seq(EnvVar) /\ OTelTraced(p.containers[i], lang, envs).env \in Seq(Sourced)
      <4> DEFINE c == p.containers[i]
                 V == Names(p.volumes)
      <4>1. c \in PodContainer /\ Acceptable(c, V)
        BY <1>3
      <4> HIDE DEF c, V
      <4>2. /\ BuildEnvs(rule.envs, p) \in Seq(EnvVar)
            /\ \A l \in OTelLanguages : OTelTraced(c, l, BuildEnvs(rule.envs, p)).env \in Seq(Sourced)
        BY <1>2, <2>2, <2>3, <4>1
      <4> QED BY <2>2, <4>2 DEF c, envs
    <3> HIDE DEF envs, lang
    <3>3. OTelTraced(p.containers[i], lang, envs).mounts = AddMountTo(p.containers[i], m).mounts
      BY <1>3, <2>2, <3>1, OTelTracedLoads
    <3> QED BY <1>3, <2>2, <3>1, <3>3, TracedNames
  <2> HIDE DEF rule, lang, envs, v, m
  <2>6. list = [i \in DOMAIN p.containers |-> list[i]]
    OBVIOUS
  <2>7. \A i \in DOMAIN p.containers :
          /\ list[i].name = p.containers[i].name
          /\ list[i].mounts = AddMountTo(p.containers[i], m).mounts
          /\ list[i].env \in Seq(Sourced)
    BY <2>5
  <2> HIDE DEF list
  <2>8. q.containers = list /\ q.init = AddNamed(p.init, init) /\ q.volumes = AddNamed(p.volumes, v)
    BY <2>1, PodIs DEF PodFields, AddVolume, AddInitContainer
  <2>9. init \in PodContainer /\ init.name \in {DDInit, OTelInit} /\ init.env = <<>>
    BY <2>1
  <2> QED BY <2>1, <2>4, <2>6, <2>7, <2>8, <2>9, LibrarySound
<1> QED BY <1>1, <1>4, <1>5, RepairSound

-----------------------------------------------------------------------------
(* Every stage keeps a pod sound *)

\* What the hypotheses on the rules of a case are needed for.
LEMMA RulesAre ==
  ASSUME given \in Cases, RulesSound(given)
  PROVE  LET own == OwnMounts(given)
         IN  /\ \A rules \in {given.ddtraces, given.otels, given.logfwds, given.flameshots, given.profilers} :
                  \A rule \in ToSet(rules) : RuleSourced(rule)
             /\ PodInfoMount \in own /\ ProfilerMount \in own /\ TracerMounts \subseteq own
             /\ \A path \in FlameshotPaths(given) : Mount(FlameshotVolume, path) \in own
             /\ OneVolume(own \cup {TmpMount, TimezoneMount}) /\ Clear(own, ConfiguredPaths)
             /\ \A rule \in ToSet(given.logfwds) : Clear(own, ToSet(rule.paths) \cup ConfiguredPaths)
<1> DEFINE own == OwnMounts(given)
           all == {given.ddtraces, given.otels, given.logfwds, given.flameshots, given.profilers}
<1>1. \A rules \in all : \A rule \in ToSet(rules) : rule.envs \in Seq(EnvVar)
  <2>1. /\ \A rule \in ToSet(given.ddtraces) : rule \in TracingRule
        /\ \A rule \in ToSet(given.otels) : rule \in TracingRule
        /\ \A rule \in ToSet(given.logfwds) : rule \in LogfwdRules
        /\ \A rule \in ToSet(given.flameshots) : rule \in FlameshotRules
        /\ \A rule \in ToSet(given.profilers) : rule \in ProfilerRules
    BY CaseIs DEF ToSet
  <2> QED BY <2>1 DEF TracingRule, LogfwdRules, FlameshotRules, ProfilerRules
<1>2. \A rules \in all : \A i \in DOMAIN rules : \A j \in DOMAIN rules[i].envs : HasSource(BuildEnv(rules[i].envs[j]))
  BY DEF RulesSound
<1>3. ASSUME NEW rules \in all, NEW rule \in ToSet(rules) PROVE RuleSourced(rule)
  <2>1. PICK i \in DOMAIN rules : rule = rules[i]
    BY DEF ToSet
  <2>2. \A j \in DOMAIN rule.envs : HasSource(BuildEnv(rule.envs[j]))
    BY <1>2, <2>1
  <2>3. rule.envs \in Seq(EnvVar)
    BY <1>1
  <2>4. \A j \in DOMAIN rule.envs : BuildEnv(rule.envs[j]) \in EnvVar
    BY <2>3, BuildEnvIs
  <2> QED BY <2>2, <2>4 DEF RuleSourced, Brought, Sourced
<1>4. /\ PodInfoMount \in own /\ ProfilerMount \in own /\ TracerMounts \subseteq own
      /\ \A path \in FlameshotPaths(given) : Mount(FlameshotVolume, path) \in own
  BY DEF OwnMounts, TracerMounts
<1>5. /\ OneVolume(own \cup {TmpMount, TimezoneMount})
      /\ \A m \in own : /\ \A a \in DOMAIN PathsOf : m.path \notin ToSet(PathsOf[a])
                        /\ \A rule \in ToSet(given.logfwds) : m.path \notin ToSet(rule.paths)
  BY DEF RulesSound
<1> HIDE DEF own, all
<1>6. Clear(own, ConfiguredPaths) /\ \A rule \in ToSet(given.logfwds) : Clear(own, ToSet(rule.paths) \cup ConfiguredPaths)
  BY <1>5 DEF Clear, ConfiguredPaths
<1> QED BY <1>3, <1>4, <1>5, <1>6 DEF own, all

\* The directory of Flameshot is one that the rule names, or the working directory.
LEMMA FlameshotPlace ==
  ASSUME given \in Cases, NEW rule \in ToSet(given.flameshots), rule \in FlameshotRules, NEW p,
         NEW e \in EnvVar, e.name # ProfilingPath,
         NEW envs, envs = AddOrUpdateEnvVar(SidecarEnvs(rule, p), e, ReplaceExistingEnvVar),
         EnvIndex(envs, ProfilingPath) # 0
  PROVE  FlameshotPath(envs) \in FlameshotPaths(given)
<1> DEFINE first == SidecarEnvs(rule, p)
           S == Brought(rule.envs) \cup {e}
           i == EnvIndex(envs, ProfilingPath)
<1>1. rule.envs \in Seq(EnvVar)
  BY DEF FlameshotRules
<1>2. first \in Seq(Brought(rule.envs)) /\ Brought(rule.envs) \subseteq EnvVar
  BY <1>1, SidecarWithin, BuildWithin
<1> HIDE DEF first
<1>3. first \in Seq(S) /\ S \subseteq EnvVar /\ e \in S /\ first \in Seq(EnvVar)
  BY <1>2, SeqMonotonic
<1>4. envs = Placed(first, e, e)
  BY <1>3, AddOrUpdateIs DEF first
<1> HIDE DEF S
<1>5. envs \in Seq(S) /\ envs \in Seq(EnvVar)
  BY <1>3, <1>4, PlacedWithin, SeqMonotonic
<1>6. i \in 1..Len(envs) /\ envs[i].name = ProfilingPath
  BY <1>5, EnvIndexIs
<1>7. envs[i] \in S
  BY <1>5, <1>6
<1>8. PICK j \in DOMAIN rule.envs : envs[i] = BuildEnv(rule.envs[j])
  BY <1>6, <1>7 DEF S, Brought
<1> DEFINE x == rule.envs[j]
<1>9. x \in ToSet(rule.envs)
  BY DEF ToSet
<1> HIDE DEF i
<1>10. CASE envs[i].kind = "plain" /\ envs[i].value # <<>>
  <2>1. envs[i] = x
    BY <1>8, <1>10 DEF BuildEnv, Env
  <2>2. FlameshotPath(envs) = x.value[1]
    BY <1>10, <2>1 DEF FlameshotPath, i
  <2>3. x.name = ProfilingPath /\ x.value # <<>>
    BY <1>6, <1>10, <2>1
  <2>4. x \in UNION {ToSet(r.envs) : r \in ToSet(given.flameshots)}
    BY <1>9
  <2> HIDE DEF x
  <2> QED BY <2>2, <2>3, <2>4 DEF FlameshotPaths
<1>11. CASE ~(envs[i].kind = "plain" /\ envs[i].value # <<>>)
  BY <1>11 DEF FlameshotPath, FlameshotPaths, i
<1> QED BY <1>10, <1>11

\* The stage of the flame graphs keeps a pod sound, whatever the rules.
LEMMA FlameshotStage ==
  ASSUME given \in Cases, RulesSound(given), NEW p, IsPod(p), Sound(p, OwnMounts(given))
  PROVE  Sound(Flameshot(p), OwnMounts(given))
<1> DEFINE own == OwnMounts(given)
           rules == given.flameshots
           match == Matches(rules, NamespaceOf(p, given.namespace))
           rule == match.rule
           e == Plain("FLAMESHOT_PROCESSES", <<rule.processes>>)
           envs == AddOrUpdateEnvVar(SidecarEnvs(rule, p), e, ReplaceExistingEnvVar)
<1>1. \/ Flameshot(p) = p
      \/ /\ match.found /\ EnvIndex(envs, ProfilingPath) # 0
         /\ Flameshot(p) = InjectFlameshot(p, rule, envs)
  BY DEF Flameshot, InjectFlameshotToPod
<1>2. ASSUME match.found, EnvIndex(envs, ProfilingPath) # 0 PROVE Sound(InjectFlameshot(p, rule, envs), own)
  <2>1. rule \in FlameshotRules /\ rule \in ToSet(rules)
    <3>1. rules \in Seq(FlameshotRules)
      BY CaseIs
    <3> HIDE DEF rules
    <3> QED BY <1>2, <3>1, MatchesIs
  <2> HIDE DEF match, rule
  <2>2. RuleSourced(rule) /\ \A path \in FlameshotPaths(given) : Mount(FlameshotVolume, path) \in own
    BY <2>1, RulesAre
  <2>3. e \in Sourced /\ e \in EnvVar /\ e.name # ProfilingPath
    <3>1. <<rule.processes>> \in Seq(Text)
      BY <2>1 DEF FlameshotRules
    <3>2. "FLAMESHOT_PROCESSES" \in Text
      BY SidecarsLiterals
    <3>3. e \in Sourced
      BY <3>1, <3>2, SourcedIs
    <3>4. e.name # ProfilingPath
      BY DEF Plain, Env, ProfilingPath
    <3> HIDE DEF e
    <3> QED BY <3>3, <3>4 DEF Sourced
  <2> HIDE DEF e
  <2> DEFINE first == SidecarEnvs(rule, p)
  <2>4. first \in Seq(Sourced)
    <3>1. rule.envs \in Seq(EnvVar)
      BY <2>1 DEF FlameshotRules
    <3> QED BY <2>2, <3>1, SidecarSourced
  <2>5. envs = Placed(first, e, e)
    BY <2>3, <2>4, SourcedAre, AddOrUpdateIs
  <2>6. envs \in Seq(Sourced)
    <3> HIDE DEF first, envs
    <3>1. Sourced \subseteq EnvVar
      BY DEF Sourced
    <3> QED BY <2>3, <2>4, <2>5, <3>1, PlacedWithin
  <2>7. envs = AddOrUpdateEnvVar(SidecarEnvs(rule, p), e, ReplaceExistingEnvVar)
    OBVIOUS
  <2> HIDE DEF envs, first
  <2>8. FlameshotPath(envs) \in FlameshotPaths(given)
    BY <1>2, <2>1, <2>3, <2>7, FlameshotPlace
  <2>9. Mount(FlameshotVolume, FlameshotPath(envs)) \in own
    BY <2>2, <2>8
  <2> QED BY <1>2, <2>1, <2>6, <2>9, FlameshotSound
<1> HIDE DEF match, rule, envs
<1> QED BY <1>1, <1>2 DEF own

\* The stage of logfwd keeps a pod sound, whatever the rules.
LEMMA LogfwdStage ==
  ASSUME given \in Cases, RulesSound(given), NEW p, IsPod(p), Sound(p, OwnMounts(given))
  PROVE  Sound(Logfwd(p), OwnMounts(given))
<1> DEFINE own == OwnMounts(given)
           rules == given.logfwds
           match == Matches(rules, p.namespace)
           rule == match.rule
<1>1. Logfwd(p) = p \/ (match.found /\ Logfwd(p) = InjectLogfwd(p, rule))
  BY DEF Logfwd, InjectLogfwdToPod
<1>2. ASSUME match.found PROVE Sound(InjectLogfwd(p, rule), own)
  <2>1. rule \in LogfwdRules /\ rule \in ToSet(rules)
    <3>1. rules \in Seq(LogfwdRules)
      BY CaseIs
    <3> HIDE DEF rules
    <3> QED BY <1>2, <3>1, MatchesIs
  <2> HIDE DEF match, rule
  <2>2. RuleSourced(rule) /\ PodInfoMount \in own /\ Clear(own, ToSet(rule.paths) \cup ConfiguredPaths)
    BY <2>1, RulesAre
  <2>3. LogfwdNamesSuffice(rule)
    BY <2>1, CaseIs
  <2> QED BY <2>1, <2>2, <2>3, LogfwdSound
<1> HIDE DEF match, rule
<1> QED BY <1>1, <1>2 DEF own

\* The stage of the profiler keeps a pod sound, whatever the rules.
LEMMA ProfilerStage ==
  ASSUME given \in Cases, RulesSound(given), NEW p, IsPod(p), Sound(p, OwnMounts(given))
  PROVE  Sound(Profiler(p), OwnMounts(given))
<1> DEFINE own == OwnMounts(given)
           rules == given.profilers
           match == Matches(rules, NamespaceOf(p, given.namespace))
           rule == match.rule
           choice == ProfilerChoice(p, rule)
           name == ProfilerImage(rule, choice.language)
           image == Image(name, choice.version)
<1>1. \/ Profiler(p) = p
      \/ match.found /\ choice.found /\ Profiler(p) = InjectProfiler(p, rule, image)
  BY DEF Profiler, InjectProfilerToPod
<1>2. ASSUME match.found, choice.found PROVE Sound(InjectProfiler(p, rule, image), own)
  <2>1. rule \in ProfilerRules /\ rule \in ToSet(rules)
    <3>1. rules \in Seq(ProfilerRules)
      BY CaseIs
    <3> HIDE DEF rules
    <3> QED BY <1>2, <3>1, MatchesIs
  <2> HIDE DEF match, rule
  <2>2. image \in [of: Text, version: Text]
    <3>1. choice.version \in Text /\ name \in Text
      BY <1>2, <2>1, ProfilerChoiceIs
    <3> HIDE DEF choice, name
    <3> QED BY <3>1 DEF Image
  <2> HIDE DEF image
  <2>3. RuleSourced(rule) /\ ProfilerMount \in own /\ OneVolume(own \cup {TmpMount, TimezoneMount})
    BY <2>1, RulesAre
  <2> QED BY <2>1, <2>2, <2>3, ProfilerSound
<1> HIDE DEF match, rule, choice, image
<1> QED BY <1>1, <1>2 DEF own

\* The stage of the logging configurations keeps a pod sound.
LEMMA LoggingStage ==
  ASSUME given \in Cases, RulesSound(given), NEW p, IsPod(p), Sound(p, OwnMounts(given))
  PROVE  Sound(Logging(p), OwnMounts(given))
<1> DEFINE own == OwnMounts(given)
           config == Matches(given.loggings, NamespaceOf(p, given.namespace)).rule.config
           q == Annotate(ShareVolumes(p, GetVolumePairs(p, Unique(PathsOf[config]), LogsVolumes)), {Logs}, config)
<1>1. Logging(p) = p \/ (config \in DOMAIN PathsOf /\ Logging(p) = q)
  BY DEF Logging, MutateLoggingToPod
<1>2. Clear(own, ConfiguredPaths) /\ \A l \in Lengths : l <= Len(LogsVolumes)
  BY RulesAre, CaseIs
<1> HIDE DEF config
<1>3. config \in DOMAIN PathsOf => Sound(q, own)
  BY <1>2, LoggingSound
<1> HIDE DEF q
<1> QED BY <1>1, <1>3 DEF own

\* The stages of the tracers keep a pod sound, whatever the rules.
LEMMA TracingStage ==
  ASSUME given \in Cases, RulesSound(given), LateAreSound, NEW p, IsPod(p), Sound(p, OwnMounts(given))
  PROVE  Sound(Traced(p), OwnMounts(given))
<1>1. given.ddtraces \in Seq(TracingRule) /\ given.otels \in Seq(TracingRule)
  BY CaseIs
<1>2. /\ TracerMounts \subseteq OwnMounts(given)
      /\ \A rule \in ToSet(given.ddtraces) \cup ToSet(given.otels) : RuleSourced(rule)
  BY RulesAre
<1> QED BY <1>1, <1>2, TracingSound DEF Traced

\* The changes of other webhooks keep a pod sound.
LEMMA OtherKeepsSound ==
  ASSUME LateAreSound, NEW p, IsPod(p), NEW own, Sound(p, own)
  PROVE  /\ \A c \in LateSidecars : Sound(AddContainer(p, c), own)
         /\ \A i \in DOMAIN p.containers : Sound([p EXCEPT !.containers[i].env = <<>>], own)
<1>1. ASSUME NEW c \in LateSidecars PROVE Sound(AddContainer(p, c), own)
  <2>1. c \in PodContainer /\ c.name \in LateNames
    BY InjectionAssumption DEF LateNames
  <2>2. c.mounts = <<>> /\ Acceptable(c, {}) /\ c.name \notin {DDInit, OTelInit}
    BY <2>1 DEF LateAreSound
  <2>3. c.name \notin Names(p.init)
    BY <2>1 DEF Sound
  <2>4. Acceptable(c, Names(p.volumes))
    BY <2>2, AcceptableMore
  <2>5. ToSet(c.mounts) = {}
    BY <2>2 DEF ToSet
  <2>6. OneVolume(MountsOf(p) \cup own \cup ToSet(c.mounts))
    BY <2>5 DEF Sound
  <2> QED BY <2>1, <2>2, <2>3, <2>4, <2>6, SoundContainer
<1>2. ASSUME NEW i \in DOMAIN p.containers PROVE Sound([p EXCEPT !.containers[i].env = <<>>], own)
  <2> DEFINE old == p.containers
             d == [old[i] EXCEPT !.env = <<>>]
             list == [old EXCEPT ![i] = d]
             V == Names(p.volumes)
             M == {}
  <2>1. old \in Seq(PodContainer) /\ DOMAIN p = PodFields
    BY PodIs
  <2>2. \A j \in DOMAIN old : old[j] \in PodContainer /\ Acceptable(old[j], V)
    BY <2>1 DEF Sound
  <2>3. [p EXCEPT !.containers[i].env = <<>>] = [p EXCEPT !.containers = list]
    OBVIOUS
  <2> HIDE DEF old
  <2>4. d.name = old[i].name /\ d.mounts = old[i].mounts /\ d.env = <<>>
    BY <2>2 DEF PodContainer, old
  <2> HIDE DEF d, V
  <2>5. Acceptable(d, V)
    BY <2>2, <2>4 DEF Acceptable, old
  <2>6. DOMAIN list = DOMAIN old /\ \A j \in DOMAIN old : list[j] = IF j = i THEN d ELSE old[j]
    BY <2>1
  <2>7. list = [j \in DOMAIN p.containers |-> list[j]]
    BY <2>6 DEF old
  <2> HIDE DEF list
  <2>8. \A j \in DOMAIN p.containers : list[j].name = p.containers[j].name /\ Acceptable(list[j], Names(p.volumes))
    BY <2>2, <2>4, <2>5, <2>6 DEF old, V
  <2>9. \A j \in DOMAIN p.containers : ToSet(list[j].mounts) \subseteq ToSet(p.containers[j].mounts) \cup M
    BY <2>4, <2>6 DEF old
  <2>10. OneVolume(MountsOf(p) \cup own \cup M)
    BY DEF Sound
  <2> HIDE DEF M
  <2>11. Sound([p EXCEPT !.containers = list], own)
    BY <2>7, <2>8, <2>9, <2>10, SoundEdits
  <2> QED BY <2>3, <2>11
<1> QED BY <1>1, <1>2

\* The inductive invariant: the pod of the cluster and the one under review are sound.
AllSound == Sound(pod, OwnMounts(given)) /\ Sound(work, OwnMounts(given))

\* What is assumed of the cases: what is submitted is accepted, and so is what rules and
\* other webhooks bring; no place of an injection is used for something else.
CasesSound == LateAreSound /\ \A c \in Cases : Sound(c.pod, OwnMounts(c)) /\ RulesSound(c)

\* Every step keeps both pods sound.
LEMMA SoundNext ==
  ASSUME CasesSound, IInv, AllSound, [Next]_vars
  PROVE  AllSound'
<1> DEFINE own == OwnMounts(given)
<1>1. /\ IsPod(pod) /\ UniqueNames(pod.containers) /\ IsPod(work) /\ Extends(pod, work)
      /\ given \in Cases /\ RulesSound(given) /\ LateAreSound /\ Sound(pod, own) /\ Sound(work, own)
  BY DEF IInv, Inv, TypeOK, AllSound, CasesSound
<1>2. ASSUME given' = given, Sound(pod', own), Sound(work', own) PROVE AllSound'
  <2>1. OwnMounts(given)' = own
    BY <1>2
  <2> QED BY <1>2, <2>1 DEF AllSound
<1>3. /\ Sound(Traced(work), own) /\ Sound(Logfwd(work), own) /\ Sound(Flameshot(work), own)
      /\ Sound(Profiler(work), own) /\ Sound(Logging(work), own)
  BY <1>1, TracingStage, LogfwdStage, FlameshotStage, ProfilerStage, LoggingStage
<1> HIDE DEF own
<1>4. ASSUME NEW i \in 1..5, NEW q, Sound(q, own), Inject(i, q) PROVE AllSound'
  BY <1>1, <1>2, <1>4 DEF Inject
<1>5. 1 \in 1..5 /\ 2 \in 1..5 /\ 3 \in 1..5 /\ 4 \in 1..5 /\ 5 \in 1..5
  OBVIOUS
<1>6. CASE Receive
  BY <1>1, <1>2, <1>6 DEF Receive
<1>7. CASE InjectTracing
  BY <1>3, <1>4, <1>5, <1>7 DEF InjectTracing, Traced
<1>8. CASE InjectLogfwdSidecar
  BY <1>3, <1>4, <1>5, <1>8 DEF InjectLogfwdSidecar, Logfwd
<1>9. CASE InjectFlameshotSidecar
  BY <1>3, <1>4, <1>5, <1>9 DEF InjectFlameshotSidecar, Flameshot
<1>10. CASE InjectProfilerSidecar
  BY <1>3, <1>4, <1>5, <1>10 DEF InjectProfilerSidecar, Profiler
<1>11. CASE MutateLogging
  BY <1>3, <1>4, <1>5, <1>11 DEF MutateLogging, Logging
<1>12. CASE Respond
  <2>1. pod' = work
    BY <1>1, <1>12, PatchLeads DEF Respond
  <2> QED BY <1>1, <1>2, <1>12, <2>1 DEF Respond
<1>13. CASE Lose
  BY <1>1, <1>2, <1>13 DEF Lose
<1>14. CASE OtherAdds
  <2>1. \A c \in LateSidecars : Sound(AddContainer(pod, c), own)
    BY <1>1, OtherKeepsSound
  <2> QED BY <1>2, <1>14, <2>1 DEF OtherAdds, Other
<1>15. CASE OtherResetsEnv
  <2>1. \A i \in DOMAIN pod.containers : Sound([pod EXCEPT !.containers[i].env = <<>>], own)
    BY <1>1, OtherKeepsSound
  <2>2. PICK i \in DOMAIN pod.containers : Other([pod EXCEPT !.containers[i].env = <<>>])
    BY <1>15 DEF OtherResetsEnv
  <2> DEFINE q == [pod EXCEPT !.containers[i].env = <<>>]
  <2>3. Sound(q, own) /\ Other(q)
    BY <2>1, <2>2
  <2> HIDE DEF q
  <2> QED BY <1>2, <2>3 DEF Other
<1>16. CASE UNCHANGED vars
  BY <1>1, <1>2, <1>16 DEF vars
<1> QED BY <1>6, <1>7, <1>8, <1>9, <1>10, <1>11, <1>12, <1>13, <1>14, <1>15, <1>16 DEF Next

\* The pods stay sound in every behaviour.
LEMMA AlwaysSound ==
  ASSUME CasesSound
  PROVE  Spec => []AllSound
<1>1. Init => AllSound
  <2> SUFFICES ASSUME Init PROVE AllSound
    OBVIOUS
  <2> QED BY DEF Init, AllSound, CasesSound
<1>2. IInv /\ AllSound /\ [Next]_vars => AllSound'
  BY SoundNext
<1> QED BY <1>1, <1>2, Invariant, PTL DEF Spec

\* As many names as items, where names are unique.
LEMMA UniqueCount ==
  ASSUME NEW S, NEW s \in Seq(S), UniqueNames(s)
  PROVE  Cardinality(Names(s)) = Len(s)
<1> DEFINE n == Len(s)
           f == [i \in 1..n |-> s[i].name]
<1>1. n \in Nat /\ DOMAIN s = 1..n
  OBVIOUS
<1>2. Names(s) = {s[i].name : i \in 1..n}
  BY <1>1 DEF Names
<1>3. \A i, j \in 1..n : s[i].name = s[j].name => i = j
  BY <1>1 DEF UniqueNames
<1> HIDE DEF n
<1>4. f \in [1..n -> Names(s)] /\ (\A i, j \in 1..n : f[i] = f[j] => i = j) /\ \A x \in Names(s) : \E i \in 1..n : f[i] = x
  BY <1>2, <1>3
<1> HIDE DEF f
<1>5. ExistsBijection(1..n, Names(s))
  <2>1. IsInjective(f)
    BY <1>4 DEF IsInjective
  <2>2. f \in Injection(1..n, Names(s)) /\ f \in Surjection(1..n, Names(s))
    BY <1>4, <2>1 DEF Injection, Surjection
  <2> QED BY <2>2 DEF ExistsBijection, Bijection
<1> QED BY <1>1, <1>5, FS_CountingElements DEF n

\* The names of two lists that have none in common.
LEMMA UniqueJoined ==
  ASSUME NEW S, NEW s \in Seq(S), NEW t \in Seq(S), UniqueNames(s), UniqueNames(t), Names(s) \cap Names(t) = {}
  PROVE  s \o t \in Seq(S) /\ UniqueNames(s \o t) /\ \A c \in ToSet(s \o t) : c \in ToSet(s) \/ c \in ToSet(t)
<1> DEFINE all == s \o t
           m == Len(s)
           n == Len(t)
<1>1. /\ all \in Seq(S) /\ Len(all) = m + n /\ m \in Nat /\ n \in Nat
      /\ \A i \in 1..(m + n) : all[i] = IF i <= m THEN s[i] ELSE t[i - m]
  BY ConcatProperties
<1>2. DOMAIN s = 1..m /\ DOMAIN t = 1..n /\ DOMAIN all = 1..(m + n)
  BY <1>1
<1> HIDE DEF all, m, n
<1>3. ASSUME NEW i \in 1..(m + n)
      PROVE  \/ i \in DOMAIN s /\ all[i] = s[i]
             \/ i - m \in DOMAIN t /\ all[i] = t[i - m] /\ i > m
  BY <1>1, <1>2
<1>4. \A i \in DOMAIN s : \A j \in DOMAIN t : s[i].name # t[j].name
  BY DEF Names
<1>5. UniqueNames(all)
  <2> SUFFICES ASSUME NEW i \in 1..(m + n), NEW j \in 1..(m + n), all[i].name = all[j].name
               PROVE  i = j
    BY <1>2 DEF UniqueNames
  <2>1. CASE i \in DOMAIN s /\ all[i] = s[i]
    BY <1>3, <1>4, <2>1 DEF UniqueNames
  <2>2. CASE i - m \in DOMAIN t /\ all[i] = t[i - m]
    <3>1. j - m \in DOMAIN t /\ all[j] = t[j - m]
      BY <1>3, <1>4, <2>2
    <3>2. i - m = j - m
      BY <2>2, <3>1 DEF UniqueNames
    <3> QED BY <1>1, <3>2
  <2> QED BY <1>3, <2>1, <2>2
<1>6. \A c \in ToSet(all) : c \in ToSet(s) \/ c \in ToSet(t)
  BY <1>2, <1>3 DEF ToSet
<1> QED BY <1>1, <1>5, <1>6 DEF all

\* The pod is one that the API server accepts, over any number of reviews and changes by
\* other webhooks: different names, mounts of volumes that are there and one per
\* directory, and no variable without a source.
THEOREM PodStaysValidHolds ==
  ASSUME CasesSound
  PROVE  Spec => []PodStaysValid
<1>1. ASSUME IInv, AllSound PROVE PodStaysValid
  <2> DEFINE own == OwnMounts(given)
             init == pod.init
             list == pod.containers
             all == init \o list
             V == Names(pod.volumes)
  <2>1. IsPod(pod) /\ UniqueNames(list) /\ Sound(pod, own)
    BY <1>1 DEF IInv, Inv, TypeOK, AllSound
  <2>2. init \in Seq(PodContainer) /\ list \in Seq(PodContainer) /\ pod.volumes \in Seq(PodVolume)
    BY <2>1, PodIs
  <2>3. /\ UniqueNames(init) /\ UniqueNames(pod.volumes) /\ Names(init) \cap Names(list) = {}
        /\ \A c \in ToSet(init) \cup ToSet(list) : Acceptable(c, V)
    BY <2>1 DEF Sound, ToSet
  <2> HIDE DEF init, list
  <2>4. all \in Seq(PodContainer) /\ UniqueNames(all) /\ \A c \in ToSet(all) : Acceptable(c, V)
    BY <2>1, <2>2, <2>3, UniqueJoined
  <2> HIDE DEF all, V
  <2>5. Cardinality(Names(all)) = Len(all) /\ Cardinality(Names(pod.volumes)) = Len(pod.volumes)
    BY <2>2, <2>3, <2>4, UniqueCount
  <2>6. ASSUME NEW c \in ToSet(all)
        PROVE  /\ Names(c.mounts) \subseteq V
               /\ \A i, j \in DOMAIN c.mounts : c.mounts[i].path = c.mounts[j].path => i = j
               /\ \A e \in ToSet(c.env) : ~(e.kind = "field" /\ e.value = NamelessLabel)
    BY <2>4 DEF Acceptable, HasSource, ToSet
  <2> QED BY <2>5, <2>6 DEF PodStaysValid, all, init, list, V
<1>2. Spec => []AllSound
  BY AlwaysSound
<1> QED BY <1>1, <1>2, Invariant, PTL
=============================================================================
