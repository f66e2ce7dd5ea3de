---------------------------- MODULE PatchProofs -----------------------------
(***************************************************************************)
(* The patch that the webhook answers with leads the pod to the copy that  *)
(* the injections changed, for any two pods of which the second extends    *)
(* the first.  ApplyPatch is a run through the operations; each part of    *)
(* BuildPodInjectionPatch is shown to change its own field and no other,   *)
(* and a run through two parts is one through the first and then the       *)
(* second.                                                                 *)
(***************************************************************************)
EXTENDS PodPatch, SequenceTheorems, FiniteSetTheorems, WellFoundedInduction, TLAPS

\* A set of numbers that is not empty has a least one: what the facts about folds rest on.
LEMMA Least == \A S \in SUBSET Nat : S # {} => \E x \in S : \A y \in S : x <= y
<1> SUFFICES ASSUME NEW S \in SUBSET Nat, S # {} PROVE \E x \in S : \A y \in S : x <= y
  OBVIOUS
<1>1. PICK x \in S : \A y \in S : ~(<<y, x>> \in OpToRel(<, Nat))
  BY NatLessThanWellFounded, WFMin
<1>2. ASSUME NEW y \in S PROVE x <= y
  <2>1. ~(y < x)
    BY <1>1 DEF OpToRel
  <2> QED BY <2>1
<1> QED BY <1>2

-----------------------------------------------------------------------------

PatchOp(ctx, result, op) == ApplyOp(result, op)
NoInv(ctx, k, result) == TRUE

Patching == INSTANCE FoldTheory WITH Op <- PatchOp, Inv <- NoInv

Ok(p) == [ok |-> TRUE, pod |-> p]
Run(r, patch) == Patching!Fold(0, r, patch)

\* ApplyPatch is a run.
LEMMA ApplyIsRun ==
  ASSUME NEW p, NEW patch, NEW q, Run(Ok(p), patch) = Ok(q)
  PROVE  ApplyPatch(p, patch) = q
<1>1. FoldLeft(ApplyOp, [ok |-> TRUE, pod |-> p], patch) = Run(Ok(p), patch)
  BY DEF Run, Ok, Patching!Fold, FoldLeft, MapThenFoldSet, Max, Patching!Largest, PatchOp
<1>2. Ok(q).ok /\ Ok(q).pod = q
  BY DEF Ok
<1> QED BY <1>1, <1>2 DEF ApplyPatch

-----------------------------------------------------------------------------
(* Sequences of anything *)

IsSeq(s) == \E n \in Nat : s = [i \in 1..n |-> s[i]]

\* A function on the first numbers is a sequence of its values.
LEMMA IsSeqIs ==
  ASSUME NEW s, IsSeq(s)
  PROVE  /\ s \in Seq({s[i] : i \in DOMAIN s})
         /\ Len(s) \in Nat /\ DOMAIN s = 1..Len(s)
<1>1. PICK n \in Nat : s = [i \in 1..n |-> s[i]]
  BY DEF IsSeq
<1>2. DOMAIN s = 1..n
  BY <1>1
<1>3. s \in [1..n -> {s[i] : i \in DOMAIN s}]
  BY <1>1, <1>2
<1>4. s \in Seq({s[i] : i \in DOMAIN s})
  BY <1>3, SeqDef
<1> QED BY <1>4, LenProperties

\* A sequence of any set is one.
LEMMA SeqIsSeq ==
  ASSUME NEW S, NEW s \in Seq(S)
  PROVE  IsSeq(s) /\ Len(s) \in Nat /\ DOMAIN s = 1..Len(s)
<1>1. Len(s) \in Nat /\ DOMAIN s = 1..Len(s) /\ s = [i \in 1..Len(s) |-> s[i]]
  BY LenProperties
<1> QED BY <1>1 DEF IsSeq

\* So are two of them in a row.
LEMMA ConcatIsSeq ==
  ASSUME NEW s, NEW t, IsSeq(s), IsSeq(t)
  PROVE  /\ IsSeq(s \o t)
         /\ Len(s) \in Nat /\ Len(t) \in Nat
         /\ DOMAIN s = 1..Len(s) /\ DOMAIN t = 1..Len(t) /\ DOMAIN (s \o t) = 1..Len(s) + Len(t)
         /\ \A i \in 1..Len(s) : (s \o t)[i] = s[i]
         /\ \A i \in 1..Len(t) : (s \o t)[Len(s) + i] = t[i]
<1> DEFINE S == {s[i] : i \in DOMAIN s} \cup {t[i] : i \in DOMAIN t}
<1>1. s \in Seq(S) /\ t \in Seq(S)
  <2>1. s \in Seq({s[i] : i \in DOMAIN s}) /\ t \in Seq({t[i] : i \in DOMAIN t})
    BY IsSeqIs
  <2> QED BY <2>1, SeqMonotonic
<1> HIDE DEF S
<1>2. s \o t \in Seq(S) /\ Len(s \o t) = Len(s) + Len(t)
  BY <1>1
<1>3. IsSeq(s \o t) /\ DOMAIN (s \o t) = 1..Len(s) + Len(t)
  BY <1>2, SeqIsSeq
<1>4. Len(s) \in Nat /\ Len(t) \in Nat
  BY <1>1
<1>5. \A i \in 1..Len(s) + Len(t) : (s \o t)[i] = IF i <= Len(s) THEN s[i] ELSE t[i - Len(s)]
  BY <1>1
<1>6. \A i \in 1..Len(t) : Len(s) + i \in 1..Len(s) + Len(t) /\ ~(Len(s) + i <= Len(s)) /\ (Len(s) + i) - Len(s) = i
  BY <1>4
<1>7. \A i \in 1..Len(s) : i \in 1..Len(s) + Len(t) /\ i <= Len(s)
  BY <1>4
<1> QED BY <1>1, <1>3, <1>4, <1>5, <1>6, <1>7, SeqIsSeq

\* One patch after another.
LEMMA RunConcat ==
  ASSUME NEW r, NEW s, NEW t, IsSeq(s), IsSeq(t)
  PROVE  IsSeq(s \o t) /\ Run(r, s \o t) = Run(Run(r, s), t)
<1>1. /\ IsSeq(s \o t) /\ Len(s) \in Nat /\ Len(t) \in Nat
      /\ DOMAIN s = 1..Len(s) /\ DOMAIN t = 1..Len(t) /\ DOMAIN (s \o t) = 1..Len(s) + Len(t)
      /\ \A i \in 1..Len(s) : (s \o t)[i] = s[i]
      /\ \A i \in 1..Len(t) : (s \o t)[Len(s) + i] = t[i]
  BY ConcatIsSeq
<1> DEFINE both == s \o t
           m == Len(s)
           n == Len(t)
<1> HIDE DEF both, m, n
<1>2. /\ m \in Nat /\ n \in Nat
      /\ DOMAIN s = 1..m /\ DOMAIN t = 1..n /\ DOMAIN both = 1..m + n
      /\ \A i \in 1..m : both[i] = s[i]
      /\ \A i \in 1..n : both[m + i] = t[i]
  BY <1>1 DEF both, m, n
<1>3. Patching!Fold(0, r, both) = Patching!Fold(0, Patching!Fold(0, r, s), t)
  BY <1>2, Patching!FoldConcat, Least DEF Patching!Ordered
<1> QED BY <1>1, <1>3 DEF Run, both

\* No operation, and one.
LEMMA RunFew ==
  ASSUME NEW r
  PROVE  /\ IsSeq(<<>>) /\ Run(r, <<>>) = r
         /\ \A op : IsSeq(<<op>>) /\ Run(r, <<op>>) = ApplyOp(r, op)
<1>1. DOMAIN <<>> = {} /\ <<>> = [i \in 1..0 |-> <<>>[i]]
  OBVIOUS
<1>2. ASSUME NEW op PROVE IsSeq(<<op>>) /\ DOMAIN <<op>> = {1} /\ <<op>>[1] = op
  <2>1. <<op>> \in Seq({op})
    OBVIOUS
  <2>2. Len(<<op>>) = 1 /\ DOMAIN <<op>> = 1..1
    OBVIOUS
  <2>3. 1..1 = {1} /\ <<op>>[1] = op
    OBVIOUS
  <2> QED BY <2>1, <2>2, <2>3, SeqIsSeq
<1>3. IsSeq(<<>>)
  BY <1>1 DEF IsSeq
<1> QED BY <1>1, <1>2, <1>3, Patching!FoldFew, Least DEF Patching!Ordered, Run, PatchOp

-----------------------------------------------------------------------------
(* Changes of one field *)

\* The lists of a pod, and those of a container, with what they hold.
ListOf(f) == IF f = "volumes" THEN PodVolume ELSE PodContainer
PartOf(f) == IF f = "env" THEN EnvVar ELSE VolumeMount
Lists == {"volumes", "init", "containers"}
Parts == {"env", "mounts"}

\* The fields of a pod, and a pod with another value in one of them.
PodFields == {"namespace", "annotations", "security", "shareProcessNamespace", "restartPolicy",
              "volumes", "init", "containers"}

\* The fields of a pod, and its lists.
LEMMA PodIs ==
  ASSUME NEW p, IsPod(p)
  PROVE  /\ DOMAIN p = PodFields
         /\ p = [f \in PodFields |-> p[f]]
         /\ p.volumes \in Seq(PodVolume) /\ p.init \in Seq(PodContainer) /\ p.containers \in Seq(PodContainer)
<1>1. p.volumes \in Seq(PodVolume) /\ p.init \in Seq(PodContainer) /\ p.containers \in Seq(PodContainer)
  BY DEF IsPod
<1>2. DOMAIN p = PodFields
  BY DEF IsPod, PodFields
<1>3. p = [f \in DOMAIN p |-> p[f]]
  BY DEF IsPod
<1> QED BY <1>1, <1>2, <1>3

\* A pod with another list in one of its fields is a pod.
LEMMA PodWith ==
  ASSUME NEW p, IsPod(p)
  PROVE  /\ \A v \in Seq(PodVolume) : IsPod([p EXCEPT !.volumes = v])
         /\ \A v \in Seq(PodContainer) : IsPod([p EXCEPT !.init = v])
         /\ \A v \in Seq(PodContainer) : IsPod([p EXCEPT !.containers = v])
         /\ \A v \in {"unset", "true", "false"} : IsPod([p EXCEPT !.shareProcessNamespace = v])
         /\ \A v \in {"unset", "Always", "OnFailure", "Never"} : IsPod([p EXCEPT !.restartPolicy = v])
<1>1. ASSUME NEW v \in Seq(PodVolume) PROVE IsPod([p EXCEPT !.volumes = v])
  BY DEF IsPod
<1>2. ASSUME NEW v \in Seq(PodContainer) PROVE IsPod([p EXCEPT !.init = v])
  BY DEF IsPod
<1>3. ASSUME NEW v \in Seq(PodContainer) PROVE IsPod([p EXCEPT !.containers = v])
  BY DEF IsPod
<1>4. ASSUME NEW v \in {"unset", "true", "false"} PROVE IsPod([p EXCEPT !.shareProcessNamespace = v])
  BY DEF IsPod
<1>5. ASSUME NEW v \in {"unset", "Always", "OnFailure", "Never"} PROVE IsPod([p EXCEPT !.restartPolicy = v])
  BY DEF IsPod
<1> QED BY <1>1, <1>2, <1>3, <1>4, <1>5

With(p, f, v) == [p EXCEPT ![f] = v]

\* With replaces one field and leaves the others.
LEMMA WithIs ==
  ASSUME NEW p, IsPod(p), NEW f \in Lists, NEW v \in Seq(ListOf(f))
  PROVE  /\ p[f] \in Seq(ListOf(f))
         /\ IsPod(With(p, f, v))
         /\ With(p, f, v)[f] = v
         /\ With(p, f, p[f]) = p
         /\ \A w \in Seq(ListOf(f)) : With(With(p, f, v), f, w) = With(p, f, w)
<1>1. f = "volumes" \/ f = "init" \/ f = "containers"
  BY DEF Lists
<1>2. p[f] \in Seq(ListOf(f))
  BY <1>1 DEF IsPod, ListOf
<1>3. /\ With(p, f, v)[f] = v /\ With(p, f, p[f]) = p
      /\ \A w : With(With(p, f, v), f, w) = With(p, f, w)
  BY <1>1 DEF IsPod, With
<1>4. IsPod(With(p, f, v))
  BY <1>1, PodWith DEF With, ListOf
<1> QED BY <1>2, <1>3, <1>4

Put(p, c, f, v) == [p EXCEPT !.containers[c][f] = v]

\* Put replaces one field of one container, and the names of containers stay.
LEMMA PutIs ==
  ASSUME NEW p, IsPod(p), NEW c \in 1..Len(p.containers), NEW f \in Parts, NEW v \in Seq(PartOf(f))
  PROVE  /\ p.containers[c][f] \in Seq(PartOf(f))
         /\ IsPod(Put(p, c, f, v))
         /\ Put(p, c, f, v) =
              [p EXCEPT !.containers = [p.containers EXCEPT ![c] = [p.containers[c] EXCEPT ![f] = v]]]
         /\ Put(p, c, f, v).containers[c][f] = v
         /\ Len(Put(p, c, f, v).containers) = Len(p.containers)
         /\ Put(p, c, f, p.containers[c][f]) = p
         /\ \A w \in Seq(PartOf(f)) : Put(Put(p, c, f, v), c, f, w) = Put(p, c, f, w)
<1>1. f = "env" \/ f = "mounts"
  BY DEF Parts
<1>2. /\ p.containers \in Seq(PodContainer) /\ p.containers[c] \in PodContainer
      /\ Len(p.containers) \in Nat /\ DOMAIN p.containers = 1..Len(p.containers)
  BY DEF IsPod
<1>3. p.containers[c][f] \in Seq(PartOf(f))
  BY <1>1, <1>2 DEF PodContainer, PartOf
<1> DEFINE d == [p.containers[c] EXCEPT ![f] = v]
           list == [p.containers EXCEPT ![c] = d]
<1>4. d \in PodContainer /\ d[f] = v /\ \A w : [d EXCEPT ![f] = w] = [p.containers[c] EXCEPT ![f] = w]
  BY <1>1, <1>2 DEF PodContainer, PartOf
<1>5. Put(p, c, f, v) = [p EXCEPT !.containers = list]
  BY DEF Put
<1> HIDE DEF d
<1>6. list \in Seq(PodContainer) /\ list[c] = d /\ Len(list) = Len(p.containers)
  BY <1>2, <1>4, ExceptSeq
<1>7. \A w : [list EXCEPT ![c] = [d EXCEPT ![f] = w]] = [p.containers EXCEPT ![c] = [p.containers[c] EXCEPT ![f] = w]]
  BY <1>2, <1>4
<1> HIDE DEF list
<1>8. IsPod([p EXCEPT !.containers = list]) /\ [p EXCEPT !.containers = list].containers = list
  <2>1. IsPod([p EXCEPT !.containers = list])
    BY <1>6, PodWith
  <2>2. DOMAIN p = PodFields /\ "containers" \in PodFields
    BY PodIs DEF PodFields
  <2> QED BY <2>1, <2>2
<1>9. \A w : Put(Put(p, c, f, v), c, f, w) = Put(p, c, f, w)
  <2> SUFFICES ASSUME NEW w PROVE Put(Put(p, c, f, v), c, f, w) = Put(p, c, f, w)
    OBVIOUS
  <2> DEFINE q == [p EXCEPT !.containers = list]
  <2>1. q.containers = list /\ \A x : [q EXCEPT !.containers = x] = [p EXCEPT !.containers = x]
    BY DEF IsPod
  <2> HIDE DEF q
  <2>2. [q EXCEPT !.containers[c][f] = w] = [q EXCEPT !.containers = [list EXCEPT ![c] = [d EXCEPT ![f] = w]]]
    BY <1>6, <2>1
  <2> QED BY <1>5, <1>7, <2>1, <2>2 DEF Put, q
<1>10. Put(p, c, f, p.containers[c][f]) = p
  <2>1. [p.containers[c] EXCEPT ![f] = p.containers[c][f]] = p.containers[c]
    BY <1>1, <1>2 DEF PodContainer
  <2>2. [p.containers EXCEPT ![c] = p.containers[c]] = p.containers
    BY <1>2
  <2>3. [p EXCEPT !.containers = p.containers] = p
    BY DEF IsPod
  <2> QED BY <2>1, <2>2, <2>3 DEF Put
<1>11. Put(p, c, f, v) =
         [p EXCEPT !.containers = [p.containers EXCEPT ![c] = [p.containers[c] EXCEPT ![f] = v]]]
  BY DEF Put
<1> QED BY <1>3, <1>4, <1>5, <1>6, <1>8, <1>9, <1>10, <1>11

-----------------------------------------------------------------------------
(* The lists that operations change *)

\* A list of the pod (c = 0), or of its container c.
IsPlace(p, c, f) == IF c = 0 THEN f \in Lists ELSE c \in 1..Len(p.containers) /\ f \in Parts
ItemOf(f) == IF f \in Lists THEN ListOf(f) ELSE PartOf(f)
Current(p, c, f) == IF c = 0 THEN p[f] ELSE p.containers[c][f]
Change(p, c, f, v) == IF c = 0 THEN With(p, f, v) ELSE Put(p, c, f, v)

\* Change puts a list in its place, and every other place keeps its list.
LEMMA ChangeIs ==
  ASSUME NEW p, IsPod(p), NEW c \in Nat, NEW f, IsPlace(p, c, f), NEW v \in Seq(ItemOf(f))
  PROVE  /\ Current(p, c, f) \in Seq(ItemOf(f))
         /\ IsPod(Change(p, c, f, v)) /\ IsPlace(Change(p, c, f, v), c, f)
         /\ Current(Change(p, c, f, v), c, f) = v
         /\ Change(p, c, f, Current(p, c, f)) = p
         /\ \A w \in Seq(ItemOf(f)) : Change(Change(p, c, f, v), c, f, w) = Change(p, c, f, w)
<1>1. CASE c = 0
  <2>1. f \in Lists /\ ItemOf(f) = ListOf(f)
    BY <1>1 DEF IsPlace, ItemOf
  <2> QED BY <1>1, <2>1, WithIs DEF Change, Current, IsPlace
<1>2. CASE c # 0
  <2>1. c \in 1..Len(p.containers) /\ f \in Parts /\ ItemOf(f) = PartOf(f)
    BY <1>2 DEF IsPlace, ItemOf, Lists, Parts
  <2>2. /\ Current(p, c, f) \in Seq(ItemOf(f))
        /\ IsPod(Change(p, c, f, v))
        /\ Len(Change(p, c, f, v).containers) = Len(p.containers)
        /\ Current(Change(p, c, f, v), c, f) = v
        /\ Change(p, c, f, Current(p, c, f)) = p
        /\ \A w \in Seq(ItemOf(f)) : Change(Change(p, c, f, v), c, f, w) = Change(p, c, f, w)
    BY <1>2, <2>1, PutIs DEF Change, Current
  <2> QED BY <1>2, <2>1, <2>2 DEF IsPlace
<1> QED BY <1>1, <1>2

\* What one operation makes of its list.
LEMMA OpIs ==
  ASSUME NEW p, IsPod(p), NEW c \in Nat, NEW f, IsPlace(p, c, f),
         NEW op, op.field = f, op.c = c, Applicable(op, Current(p, c, f))
  PROVE  ApplyOp(Ok(p), op) = Ok(Change(p, c, f, ListAfter(op, Current(p, c, f))))
<1>1. f # "annotation" /\ f \notin {"shareProcessNamespace", "restartPolicy", "annotations"}
  BY DEF IsPlace, Lists, Parts
<1>2. Ok(p).ok = TRUE /\ Ok(p).pod = p
  BY DEF Ok
<1> DEFINE after == ListAfter(op, Current(p, c, f))
           result == Ok(p)
<1> HIDE DEF after, result
<1>3. CASE c = 0
  <2>1. Current(p, c, f) = p[f] /\ Change(p, c, f, after) = [p EXCEPT ![f] = after]
    BY <1>3 DEF Current, Change, With
  <2>2. ApplyOp(result, op) = [ok |-> TRUE, pod |-> [p EXCEPT ![f] = after]]
    <3>1. result.ok /\ result.pod = p /\ op.field = f /\ op.c = 0 /\ op.field # "annotation"
          /\ op.field \notin {"shareProcessNamespace", "restartPolicy", "annotations"}
      BY <1>1, <1>2, <1>3 DEF result
    <3>2. Applicable(op, p[f]) /\ after = ListAfter(op, p[f])
      BY <2>1 DEF after
    <3> HIDE DEF result, after
    <3>3. [result.pod EXCEPT ![op.field] = after] = [p EXCEPT ![f] = after]
      BY <3>1
    <3> QED BY <3>1, <3>2, <3>3 DEF ApplyOp
  <2> QED BY <2>1, <2>2 DEF Ok, result, after
<1>4. CASE c # 0
  <2>1. Current(p, c, f) = p.containers[c][f] /\ Change(p, c, f, after) = [p EXCEPT !.containers[c][f] = after]
    BY <1>4 DEF Current, Change, Put
  <2>2. ApplyOp(result, op) = [ok |-> TRUE, pod |-> [p EXCEPT !.containers[c][f] = after]]
    BY <1>1, <1>2, <1>4, <2>1 DEF ApplyOp, result, after
  <2> QED BY <2>1, <2>2 DEF Ok, result, after
<1> QED BY <1>3, <1>4

\* The lists that a patch of such operations leads through, one operation each.
Through(lists, n, p, c, f, patch) ==
  /\ DOMAIN patch = 1..n
  /\ \A k \in 0..n : lists[k] \in Seq(ItemOf(f))
  /\ lists[0] = Current(p, c, f)
  /\ \A k \in 1..n : /\ patch[k].field = f /\ patch[k].c = c
                     /\ Applicable(patch[k], lists[k - 1])
                     /\ lists[k] = ListAfter(patch[k], lists[k - 1])

\* Such a patch changes the field to the last of them, and nothing else.
LEMMA ListRun ==
  ASSUME NEW p, IsPod(p), NEW c \in Nat, NEW f, IsPlace(p, c, f),
         NEW patch, NEW n \in Nat, NEW lists, Through(lists, n, p, c, f, patch)
  PROVE  Run(Ok(p), patch) = Ok(Change(p, c, f, lists[n]))
<1> USE DEF Through
<1> DEFINE acc == [k \in 0..n |-> Ok(Change(p, c, f, lists[k]))]
<1>1. acc[0] = Ok(p)
  <2>1. Change(p, c, f, lists[0]) = p
    BY ChangeIs
  <2> QED BY <2>1
<1>2. ASSUME NEW k \in 1..n PROVE acc[k] = PatchOp(0, acc[k - 1], patch[k])
  <2> DEFINE before == lists[k - 1]
             q == Change(p, c, f, before)
  <2>1. k \in 0..n /\ k - 1 \in 0..n
    OBVIOUS
  <2>2. acc[k] = Ok(Change(p, c, f, lists[k])) /\ acc[k - 1] = Ok(q)
    BY <2>1
  <2> HIDE DEF acc
  <2>3. before \in Seq(ItemOf(f)) /\ lists[k] \in Seq(ItemOf(f))
    BY <2>1
  <2> HIDE DEF q
  <2>4. IsPod(q) /\ IsPlace(q, c, f) /\ Current(q, c, f) = before
    BY <2>3, ChangeIs DEF q
  <2>5. Change(q, c, f, lists[k]) = Change(p, c, f, lists[k])
    BY <2>3, ChangeIs DEF q
  <2>6. ApplyOp(Ok(q), patch[k]) = Ok(Change(q, c, f, lists[k]))
    BY <2>4, OpIs
  <2> QED BY <2>2, <2>5, <2>6 DEF PatchOp
<1>3. Patching!Runs(acc, 0, Ok(p), patch, n)
  <2> HIDE DEF acc
  <2> QED BY <1>1, <1>2 DEF Patching!Runs
<1>4. Run(Ok(p), patch) = acc[n]
  <2> HIDE DEF acc
  <2> QED BY <1>3, Patching!FoldIs, Least DEF Patching!Ordered, Run
<1> QED BY <1>4

-----------------------------------------------------------------------------
(* New items at the end of a list *)

\* Of a list that goes on: its new items, and the list with them.
Tail1(old, new) == [j \in 1..Len(new) - Len(old) |-> new[Len(old) + j]]
Continued(old, new) == [i \in 1..Len(new) |-> IF i <= Len(old) THEN old[i] ELSE new[i]]
GoesOn(old, new) ==
  /\ Len(old) <= Len(new)
  /\ \A i \in 1..Len(old) : new[i].name \in Names(old)
  /\ \A i \in Len(old) + 1..Len(new) : new[i].name \notin Names(old)

FreshOp(names, kept, x) == IF x.name \notin names THEN Append(kept, x) ELSE kept
Fresh == INSTANCE FoldTheory WITH Op <- FreshOp, Inv <- NoInv

\* What Filter keeps of the new list are the items whose names the old one has not.
LEMMA FreshIs ==
  ASSUME NEW S, NEW old \in Seq(S), NEW new \in Seq(S), GoesOn(old, new)
  PROVE  Fresh!Fold(Names(old), <<>>, new) = Tail1(old, new)
<1> DEFINE names == Names(old)
<1>2. Len(old) \in Nat /\ Len(new) \in Nat /\ DOMAIN new = 1..Len(new) /\ Len(old) <= Len(new)
  BY DEF GoesOn
<1>3. Fresh!PassesOver(names, new, Len(old), Len(new))
  BY DEF GoesOn, Fresh!PassesOver, FreshOp
<1>4. Fresh!Fold(names, <<>>, new) = [j \in 1..Len(new) - Len(old) |-> new[Len(old) + j]]
  <2> HIDE DEF names
  <2> QED BY <1>2, <1>3, Fresh!FoldTail, Least DEF Fresh!Ordered
<1> QED BY <1>4 DEF Tail1

\* Grows says the same as that the new list is the old one and its fresh items.
LEMMA ContinuedIs ==
  ASSUME NEW S, NEW old \in Seq(S), NEW new \in Seq(S), Len(old) <= Len(new)
  PROVE  /\ Continued(old, new) \in Seq(S) /\ Len(Continued(old, new)) = Len(new)
         /\ \A i \in 1..Len(new) : Continued(old, new)[i] = IF i <= Len(old) THEN old[i] ELSE new[i]
         /\ old = <<>> => Continued(old, new) = new
<1> DEFINE m == Len(old)
           n == Len(new)
           both == Continued(old, new)
<1>1. m \in Nat /\ n \in Nat /\ m <= n
  OBVIOUS
<1>2. both = [i \in 1..n |-> IF i <= m THEN old[i] ELSE new[i]]
  BY DEF Continued
<1>3. \A i \in 1..n : (IF i <= m THEN old[i] ELSE new[i]) \in S
  <2>1. \A i \in 1..n : i <= m => i \in 1..m
    BY <1>1
  <2>2. (\A i \in 1..m : old[i] \in S) /\ (\A i \in 1..n : new[i] \in S)
    OBVIOUS
  <2> HIDE DEF m, n
  <2> QED BY <2>1, <2>2
<1> HIDE DEF m, n, both
<1>4. both \in [1..n -> S]
  BY <1>2, <1>3
<1>5. both \in Seq(S)
  BY <1>1, <1>4, SeqDef
<1>6. Len(both) = n
  BY <1>1, <1>2, <1>5, LenProperties
<1>7. ASSUME old = <<>> PROVE both = new
  <2>1. m = 0 /\ new = [i \in 1..n |-> new[i]]
    BY <1>7, LenProperties DEF m, n
  <2>2. \A i \in 1..n : ~(i <= 0)
    OBVIOUS
  <2> QED BY <1>2, <2>1, <2>2
<1> QED BY <1>2, <1>5, <1>6, <1>7 DEF m, n, both

\* Operations that append the rest of a list one by one.
AppendsOf(f, c, old, all) == [j \in 1..Len(all) - Len(old) |-> AppendTo(f, c, all[Len(old) + j])]

\* A list that is not empty, and an operation for each item to append.
LEMMA AppendsRun ==
  ASSUME NEW p, IsPod(p), NEW c \in Nat, NEW f, IsPlace(p, c, f),
         NEW old, old = Current(p, c, f), old # <<>>,
         NEW all \in Seq(ItemOf(f)), Len(old) <= Len(all), \A i \in 1..Len(old) : all[i] = old[i]
  PROVE  /\ IsSeq(AppendsOf(f, c, old, all))
         /\ Run(Ok(p), AppendsOf(f, c, old, all)) = Ok(Change(p, c, f, all))
<1> DEFINE S == ItemOf(f)
           patch == AppendsOf(f, c, old, all)
           m == Len(old)
           n == Len(all)
           k0 == n - m
<1>1. /\ old \in Seq(S) /\ m \in Nat /\ n \in Nat /\ m <= n
      /\ m > 0 /\ k0 \in Nat /\ n = m + k0
  <2>1. old \in Seq(S)
    BY ChangeIs
  <2>2. m \in Nat /\ n \in Nat /\ m # 0 /\ m <= n
    BY <2>1
  <2> QED BY <2>1, <2>2
<1>2. all \in Seq(S) /\ Len(all) = n /\ \A i \in 1..m : all[i] = old[i]
  OBVIOUS
<1>3. patch = [j \in 1..k0 |-> AppendTo(f, c, all[m + j])]
  BY DEF AppendsOf
<1> HIDE DEF patch
<1> DEFINE lists == [k \in 0..k0 |-> [i \in 1..m + k |-> all[i]]]
<1> HIDE DEF m, n, k0, S
<1>4. \A k \in 0..k0 : lists[k] = [i \in 1..m + k |-> all[i]] /\ lists[k] \in Seq(S) /\ Len(lists[k]) = m + k
  <2> SUFFICES ASSUME NEW k \in 0..k0
               PROVE  lists[k] = [i \in 1..m + k |-> all[i]] /\ lists[k] \in Seq(S) /\ Len(lists[k]) = m + k
    OBVIOUS
  <2>1. lists[k] = [i \in 1..m + k |-> all[i]]
    OBVIOUS
  <2> HIDE DEF lists
  <2>2. \A i \in 1..m + k : i \in 1..n
    BY <1>1
  <2>3. lists[k] \in [1..m + k -> S] /\ m + k \in Nat
    <3>1. \A i \in 1..n : all[i] \in S
      BY <1>1, <1>2
    <3> QED BY <1>1, <2>1, <2>2, <3>1
  <2>4. lists[k] \in Seq(S)
    BY <2>3, SeqDef
  <2> QED BY <2>1, <2>3, <2>4, LenProperties
<1> HIDE DEF lists
<1>5. lists[0] = old
  <2>1. old = [i \in 1..m |-> old[i]] /\ m + 0 = m /\ 0 \in 0..k0
    BY <1>1, LenProperties DEF m
  <2>2. \A i \in 1..m : all[i] = old[i]
    BY <1>1, <1>2
  <2> QED BY <1>4, <2>1, <2>2
<1>6. lists[k0] = all
  <2>1. all = [i \in 1..n |-> all[i]] /\ k0 \in 0..k0
    BY <1>2, <1>1, LenProperties
  <2> QED BY <1>1, <1>4, <2>1
<1>7. ASSUME NEW k \in 1..k0
      PROVE  /\ patch[k].field = f /\ patch[k].c = c
             /\ Applicable(patch[k], lists[k - 1])
             /\ lists[k] = ListAfter(patch[k], lists[k - 1])
  <2> DEFINE op == patch[k]
             before == lists[k - 1]
  <2>1. op = AppendTo(f, c, all[m + k])
    BY <1>3
  <2> HIDE DEF op
  <2>2. op.op = "append" /\ op.field = f /\ op.c = c /\ op.value = all[m + k]
    BY <2>1 DEF AppendTo, Op
  <2>3. k - 1 \in 0..k0 /\ m + (k - 1) = (m + k) - 1 /\ k \in 0..k0 /\ m + k \in 1..n
        /\ (m + k) - 1 > 0
    BY <1>1
  <2>4. before \in Seq(S) /\ Len(before) = (m + k) - 1 /\ before = [i \in 1..(m + k) - 1 |-> all[i]]
    BY <1>4, <2>3
  <2> HIDE DEF before
  <2>5. before # <<>> /\ all[m + k] \in S
    BY <1>2, <2>3, <2>4
  <2>6. lists[k] = Append(before, all[m + k])
    <3> DEFINE l == (m + k) - 1
    <3>1. l \in Nat /\ m + k = l + 1
      BY <1>1
    <3> HIDE DEF l
    <3>2. lists[k] = [i \in 1..l + 1 |-> all[i]] /\ before = [i \in 1..l |-> all[i]] /\ Len(before) = l
      BY <1>4, <2>3, <2>4, <3>1 DEF l
    <3> DEFINE e == all[l + 1]
               b == Append(before, e)
    <3>3. /\ b \in Seq(S) /\ Len(b) = l + 1
          /\ \A i \in 1..l : b[i] = before[i]
          /\ b[l + 1] = e
      <4>1. e \in S
        BY <2>5, <3>1
      <4> HIDE DEF e
      <4>2. /\ Append(before, e) \in Seq(S) /\ Len(Append(before, e)) = Len(before) + 1
            /\ \A i \in 1..Len(before) : Append(before, e)[i] = before[i]
            /\ Append(before, e)[Len(before) + 1] = e
        <5>1. before \in Seq(S)
          BY <2>4
        <5> QED BY <4>1, <5>1, AppendProperties
      <4> QED BY <3>2, <4>2
    <3> HIDE DEF b
    <3>4. \A i \in 1..l + 1 : i = l + 1 \/ i \in 1..l
      BY <3>1
    <3>5. \A i \in 1..l + 1 : b[i] = all[i]
      BY <3>2, <3>3, <3>4
    <3>6. b = [i \in 1..l + 1 |-> b[i]]
      BY <3>3, LenProperties
    <3>7. b = lists[k]
      BY <3>2, <3>5, <3>6
    <3> QED BY <3>1, <3>7 DEF b
  <2>7. Applicable(op, before) /\ ListAfter(op, before) = Append(before, all[m + k])
    BY <2>2, <2>5 DEF Applicable, ListAfter
  <2> QED BY <2>2, <2>5, <2>6, <2>7 DEF op, before
<1>8. Run(Ok(p), patch) = Ok(Change(p, c, f, lists[k0]))
  <2>1. DOMAIN patch = 1..k0
    BY <1>3
  <2>2. \A k \in 0..k0 : lists[k] \in Seq(ItemOf(f))
    BY <1>4 DEF S
  <2>3. lists[0] = Current(p, c, f)
    BY <1>5
  <2>4. Through(lists, k0, p, c, f, patch)
    BY <1>7, <2>1, <2>2, <2>3 DEF Through
  <2> QED BY <1>1, <2>4, ListRun
<1>9. IsSeq(patch)
  <2>1. patch = [j \in 1..k0 |-> patch[j]]
    BY <1>3
  <2> QED BY <1>1, <2>1 DEF IsSeq
<1> QED BY <1>6, <1>8, <1>9 DEF patch

\* NamedAppendPatch leads from a list to the one that it grew to.
LEMMA NamedAppendRun ==
  ASSUME NEW p, IsPod(p), NEW c \in Nat, NEW f, IsPlace(p, c, f),
         NEW old, old = Current(p, c, f), NEW new \in Seq(ItemOf(f)), GoesOn(old, new)
  PROVE  /\ IsSeq(NamedAppendPatch(f, c, old, new))
         /\ Run(Ok(p), NamedAppendPatch(f, c, old, new)) = Ok(Change(p, c, f, Continued(old, new)))
<1> DEFINE S == ItemOf(f)
           patch == NamedAppendPatch(f, c, old, new)
           fresh == Filter(new, LAMBDA x : x.name \notin Names(old))
           all == Continued(old, new)
           m == Len(old)
           n == Len(new)
<1>1. old \in Seq(S) /\ new \in Seq(S) /\ m \in Nat /\ n \in Nat /\ m <= n
  BY ChangeIs DEF GoesOn
<1>2. fresh = Tail1(old, new)
  <2>1. fresh = Fresh!Fold(Names(old), <<>>, new)
    BY DEF Filter, FoldLeft, MapThenFoldSet, Max, Fresh!Fold, Fresh!Largest, FreshOp
  <2> HIDE DEF fresh, S
  <2> QED BY <1>1, <2>1, FreshIs
<1>3. patch = CASE new = <<>> -> <<>>
                [] new # <<>> /\ old = <<>> -> <<Op("add", f, c, 0, new)>>
                [] OTHER -> [j \in DOMAIN fresh |-> AppendTo(f, c, fresh[j])]
  BY DEF NamedAppendPatch
<1>4. /\ all \in Seq(S) /\ Len(all) = n
      /\ \A i \in 1..n : all[i] = IF i <= m THEN old[i] ELSE new[i]
      /\ old = <<>> => all = new
  BY <1>1, ContinuedIs
<1> HIDE DEF patch, all, fresh
<1>5. CASE new = <<>>
  <2>1. n = 0 /\ m = 0 /\ old = <<>>
    BY <1>1, <1>5
  <2>2. Change(p, c, f, all) = p
    <3>1. all = old
      BY <1>4, <1>5, <2>1
    <3> QED BY <1>1, <3>1, ChangeIs
  <2>3. patch = <<>>
    BY <1>3, <1>5
  <2> QED BY <2>2, <2>3, RunFew DEF patch, all
<1>6. CASE new # <<>> /\ old = <<>>
  <2> DEFINE op == Op("add", f, c, 0, new)
  <2>1. patch = <<op>>
    BY <1>3, <1>6
  <2>2. op.op = "add" /\ op.field = f /\ op.c = c /\ op.i = 0 /\ op.value = new
    BY DEF Op
  <2> HIDE DEF op
  <2>3. Applicable(op, Current(p, c, f)) /\ ListAfter(op, Current(p, c, f)) = new
    BY <2>2 DEF Applicable, ListAfter
  <2>4. ApplyOp(Ok(p), op) = Ok(Change(p, c, f, new))
    BY <2>2, <2>3, OpIs
  <2> QED BY <1>4, <1>6, <2>1, <2>4, RunFew DEF patch, all
<1>7. CASE new # <<>> /\ old # <<>>
  <2>1. patch = AppendsOf(f, c, old, all)
    <3>1. fresh = [j \in 1..n - m |-> new[m + j]]
      BY <1>2 DEF Tail1
    <3>2. \A j \in 1..n - m : m + j \in 1..n /\ ~(m + j <= m)
      BY <1>1
    <3>3. \A j \in 1..n - m : new[m + j] = all[m + j]
      BY <1>4, <3>2
    <3>4. patch = [j \in 1..n - m |-> AppendTo(f, c, new[m + j])]
      BY <1>3, <1>7, <3>1
    <3> QED BY <1>4, <3>3, <3>4 DEF AppendsOf
  <2>2. \A i \in 1..m : all[i] = old[i]
    BY <1>1, <1>4
  <2> QED BY <1>1, <1>4, <1>7, <2>1, <2>2, AppendsRun DEF patch, all
<1> QED BY <1>5, <1>6, <1>7 DEF patch, all

-----------------------------------------------------------------------------
(* The variables of a container *)

ChangedOp(lists, kept, i) == IF lists[1][i] # lists[2][i] THEN Append(kept, i) ELSE kept
ChangedOnes == INSTANCE FoldTheory WITH Op <- ChangedOp, Inv <- NoInv

Places(s) == [i \in DOMAIN s |-> i]

\* The places where two lists differ, in some order.
LEMMA ChangedIs ==
  ASSUME NEW old, NEW new, NEW m \in Nat, DOMAIN old = 1..m, NEW changed,
         changed = ChangedOnes!Fold(<<old, new>>, <<>>, Places(old))
  PROVE  /\ changed \in Seq(1..m)
         /\ \A i \in 1..m : old[i] # new[i] => \E j \in DOMAIN changed : changed[j] = i
<1> DEFINE places == [i \in DOMAIN old |-> i]
           lists == <<old, new>>
           T == {i \in 1..m : old[i] # new[i]}
           S == {places[k] : k \in 1..m} \cap T
<1>1. changed = ChangedOnes!Fold(lists, <<>>, places)
  BY DEF Places
<1>2. DOMAIN places = 1..m /\ \A k \in 1..m : places[k] = k
  OBVIOUS
<1>3. lists[1] = old /\ lists[2] = new
  OBVIOUS
<1> HIDE DEF lists, places
<1>4. ChangedOnes!Filters(lists, places, m, T)
  BY <1>2, <1>3 DEF ChangedOnes!Filters, ChangedOp
<1> HIDE DEF T
<1>5. ChangedOnes!Filtered(changed, places, m, T)
  BY <1>1, <1>2, <1>4, ChangedOnes!FoldFilters, Least DEF ChangedOnes!Ordered
<1>6. changed \in Seq(S) /\ \A k \in 1..m : places[k] \in T => \E j \in DOMAIN changed : changed[j] = places[k]
  BY <1>5 DEF ChangedOnes!Filtered
<1>7. S \subseteq T /\ S \subseteq 1..m
  BY <1>2
<1> HIDE DEF S
<1>8. changed \in Seq(1..m)
  BY <1>6, <1>7, SeqMonotonic
<1>9. \A i \in T : \E j \in DOMAIN changed : changed[j] = i
  BY <1>2, <1>6 DEF T
<1> QED BY <1>8, <1>9 DEF T

\* Operations that replace the variables that changed.
ReplacesOf(c, changed, new) ==
  [j \in DOMAIN changed |-> Op("replace", "env", c, changed[j], new[changed[j]])]

\* A replacement for each item that changed leads to the new list.
LEMMA ReplacesRun ==
  ASSUME NEW p, IsPod(p), NEW c \in Nat, IsPlace(p, c, "env"),
         NEW old, old = Current(p, c, "env"), NEW new \in Seq(EnvVar), Len(old) <= Len(new),
         NEW changed \in Seq(1..Len(old)),
         \A i \in 1..Len(old) : old[i] # new[i] => \E j \in DOMAIN changed : changed[j] = i
  PROVE  /\ IsSeq(ReplacesOf(c, changed, new))
         /\ Run(Ok(p), ReplacesOf(c, changed, new)) =
              Ok(Change(p, c, "env", [i \in 1..Len(old) |-> new[i]]))
<1> DEFINE patch == ReplacesOf(c, changed, new)
           m == Len(old)
           n == Len(changed)
           Done(k, i) == \E j \in 1..k : changed[j] = i
           lists == [k \in 0..n |-> [i \in 1..m |-> IF Done(k, i) THEN new[i] ELSE old[i]]]
<1>1. ItemOf("env") = EnvVar
  BY DEF ItemOf, Lists, PartOf
<1>2. old \in Seq(EnvVar) /\ m \in Nat /\ n \in Nat /\ DOMAIN changed = 1..n
      /\ \A j \in 1..n : changed[j] \in 1..m
  BY <1>1, ChangeIs
<1>3. DOMAIN patch = 1..n
      /\ \A j \in 1..n : patch[j] = Op("replace", "env", c, changed[j], new[changed[j]])
  BY <1>2 DEF ReplacesOf
<1>4. \A i \in 1..m : new[i] \in EnvVar /\ old[i] \in EnvVar
  <2>1. \A i \in 1..m : i \in 1..Len(new)
    BY <1>2
  <2> QED BY <1>2, <2>1
<1> HIDE DEF patch, n, m, Done
<1>5. \A k \in 0..n : /\ lists[k] \in Seq(EnvVar) /\ Len(lists[k]) = m
                      /\ lists[k] = [i \in 1..m |-> IF Done(k, i) THEN new[i] ELSE old[i]]
  <2> SUFFICES ASSUME NEW k \in 0..n
               PROVE  /\ lists[k] \in Seq(EnvVar) /\ Len(lists[k]) = m
                      /\ lists[k] = [i \in 1..m |-> IF Done(k, i) THEN new[i] ELSE old[i]]
    OBVIOUS
  <2>1. lists[k] = [i \in 1..m |-> IF Done(k, i) THEN new[i] ELSE old[i]]
    OBVIOUS
  <2> HIDE DEF lists
  <2>2. lists[k] \in [1..m -> EnvVar]
    BY <1>4, <2>1
  <2>3. lists[k] \in Seq(EnvVar)
    BY <1>2, <2>2, SeqDef
  <2> QED BY <1>2, <2>1, <2>2, <2>3, LenProperties
<1> HIDE DEF lists
<1>6. lists[0] = Current(p, c, "env")
  <2>1. old = [i \in 1..m |-> old[i]]
    BY <1>2, LenProperties DEF m
  <2>2. \A i : ~Done(0, i)
    BY DEF Done
  <2>3. 0 \in 0..n
    BY <1>2
  <2> QED BY <1>5, <2>1, <2>2, <2>3
<1>7. ASSUME NEW k \in 1..n
      PROVE  /\ patch[k].field = "env" /\ patch[k].c = c
             /\ Applicable(patch[k], lists[k - 1])
             /\ lists[k] = ListAfter(patch[k], lists[k - 1])
  <2> DEFINE op == patch[k]
             x == changed[k]
             before == lists[k - 1]
  <2>1. x \in 1..m /\ x # 0 /\ x <= m
    BY <1>2
  <2>2. op = Op("replace", "env", c, x, new[x])
    BY <1>3
  <2> HIDE DEF op, x
  <2>3. op.op = "replace" /\ op.field = "env" /\ op.c = c /\ op.i = x /\ op.value = new[x]
    BY <2>2 DEF Op
  <2>4. k - 1 \in 0..n /\ k \in 0..n
    BY <1>2
  <2>5. /\ before \in Seq(EnvVar) /\ Len(before) = m
        /\ before = [i \in 1..m |-> IF Done(k - 1, i) THEN new[i] ELSE old[i]]
    BY <1>5, <2>4
  <2> HIDE DEF before
  <2>6. Applicable(op, before) /\ ListAfter(op, before) = [before EXCEPT ![x] = new[x]]
    BY <2>1, <2>3, <2>5 DEF Applicable, ListAfter
  <2>7. \A i : Done(k, i) <=> Done(k - 1, i) \/ i = x
    <3>1. \A j : j \in 1..k <=> j \in 1..k - 1 \/ j = k
      BY <1>2
    <3> QED BY <3>1 DEF Done, x
  <2>8. [before EXCEPT ![x] = new[x]] = lists[k]
    <3>1. lists[k] = [i \in 1..m |-> IF Done(k, i) THEN new[i] ELSE old[i]]
      BY <1>5, <2>4
    <3>2. [before EXCEPT ![x] = new[x]] = [i \in 1..m |-> IF i = x THEN new[i] ELSE before[i]]
      BY <2>1, <2>5
    <3>3. \A i \in 1..m : (IF i = x THEN new[i] ELSE before[i]) = IF Done(k, i) THEN new[i] ELSE old[i]
      BY <2>5, <2>7
    <3> QED BY <3>1, <3>2, <3>3
  <2> QED BY <2>3, <2>6, <2>8 DEF op, before
<1>8. Run(Ok(p), patch) = Ok(Change(p, c, "env", lists[n]))
  <2>1. \A k \in 0..n : lists[k] \in Seq(ItemOf("env"))
    BY <1>1, <1>5
  <2>2. DOMAIN patch = 1..n /\ n \in Nat
    BY <1>2, <1>3
  <2>3. \A k \in 1..n : /\ patch[k].field = "env" /\ patch[k].c = c
                        /\ Applicable(patch[k], lists[k - 1])
                        /\ lists[k] = ListAfter(patch[k], lists[k - 1])
    BY <1>7
  <2>4. Through(lists, n, p, c, "env", patch)
    BY <1>6, <2>1, <2>2, <2>3 DEF Through
  <2> QED BY <2>2, <2>4, ListRun
<1>9. lists[n] = [i \in 1..m |-> new[i]]
  <2>1. n \in 0..n
    BY <1>2
  <2>2. \A i \in 1..m : ~Done(n, i) => old[i] = new[i]
    BY <1>2 DEF Done, m
  <2> QED BY <1>5, <2>1, <2>2
<1>10. IsSeq(patch)
  <2>1. patch = [j \in 1..n |-> patch[j]]
    BY <1>2 DEF patch, ReplacesOf
  <2> QED BY <1>2, <2>1 DEF IsSeq
<1> QED BY <1>8, <1>9, <1>10 DEF patch, m

\* EnvPatch leads from the variables of a container to the new ones.
LEMMA EnvRun ==
  ASSUME NEW p, IsPod(p), NEW c \in Nat, IsPlace(p, c, "env"),
         NEW old, old = Current(p, c, "env"), NEW new \in Seq(EnvVar), new = <<>> => old = <<>>
  PROVE  /\ IsSeq(EnvPatch(c, old, new))
         /\ Run(Ok(p), EnvPatch(c, old, new)) = Ok(Change(p, c, "env", new))
<1> DEFINE patch == EnvPatch(c, old, new)
           moved == \/ Len(new) < Len(old)
                    \/ \E i \in DOMAIN old : old[i].name # new[i].name
           changed == Filter([i \in DOMAIN old |-> i], LAMBDA i : old[i] # new[i])
           replaces == ReplacesOf(c, changed, new)
           appends == [j \in 1..(Len(new) - Len(old)) |-> AppendTo("env", c, new[Len(old) + j])]
<1>1. ItemOf("env") = EnvVar
  BY DEF ItemOf, Lists, PartOf
<1>2. old \in Seq(EnvVar) /\ Len(old) \in Nat /\ Len(new) \in Nat /\ DOMAIN old = 1..Len(old)
  BY <1>1, ChangeIs
<1>3. patch = CASE new = <<>> -> <<>>
                [] new # <<>> /\ old = <<>> -> <<Op("add", "env", c, 0, new)>>
                [] new # <<>> /\ old # <<>> /\ moved -> <<Op("replace", "env", c, 0, new)>>
                [] OTHER -> replaces \o appends
  BY DEF EnvPatch, ReplacesOf
<1>4. /\ changed \in Seq(1..Len(old))
      /\ \A i \in 1..Len(old) : old[i] # new[i] => \E j \in DOMAIN changed : changed[j] = i
  <2>1. changed = ChangedOnes!Fold(<<old, new>>, <<>>, Places(old))
    BY DEF Places, Filter, FoldLeft, MapThenFoldSet, Max, ChangedOnes!Fold, ChangedOnes!Largest, ChangedOp
  <2> HIDE DEF changed
  <2> QED BY <1>2, <2>1, ChangedIs
<1> HIDE DEF patch, changed, moved
<1>5. CASE new = <<>>
  <2>1. Change(p, c, "env", new) = p
    BY <1>1, <1>2, <1>5, ChangeIs
  <2>2. patch = <<>>
    BY <1>3, <1>5
  <2> QED BY <2>1, <2>2, RunFew DEF patch
<1>6. CASE new # <<>> /\ (old = <<>> \/ moved)
  <2> DEFINE op == Op(IF old = <<>> THEN "add" ELSE "replace", "env", c, 0, new)
  <2>1. patch = <<op>>
    BY <1>3, <1>6
  <2>2. op.op = (IF old = <<>> THEN "add" ELSE "replace") /\ op.field = "env" /\ op.c = c /\ op.i = 0 /\ op.value = new
    BY DEF Op
  <2> HIDE DEF op
  <2>3. Applicable(op, old) /\ ListAfter(op, old) = new
    BY <2>2 DEF Applicable, ListAfter
  <2>4. ApplyOp(Ok(p), op) = Ok(Change(p, c, "env", new))
    BY <2>2, <2>3, OpIs
  <2> QED BY <2>1, <2>4, RunFew DEF patch
<1>7. CASE new # <<>> /\ old # <<>> /\ ~moved
  <2> DEFINE mid == [i \in 1..Len(old) |-> new[i]]
             q == Change(p, c, "env", mid)
  <2>1. Len(old) <= Len(new)
    BY <1>2, <1>7 DEF moved
  <2>2. patch = replaces \o appends
    BY <1>3, <1>7
  <2>3. IsSeq(replaces) /\ Run(Ok(p), replaces) = Ok(q)
    BY <1>4, <2>1, ReplacesRun
  <2>4. mid \in Seq(EnvVar) /\ Len(mid) = Len(old) /\ mid # <<>>
    <3>1. \A i \in 1..Len(old) : i \in 1..Len(new)
      BY <1>2, <2>1
    <3>2. mid \in [1..Len(old) -> EnvVar]
      BY <3>1
    <3>3. mid \in Seq(EnvVar)
      BY <1>2, <3>2, SeqDef
    <3>4. Len(mid) = Len(old)
      BY <1>2, <3>2, <3>3, LenProperties
    <3>5. Len(old) # 0
      BY <1>2, <1>7
    <3> QED BY <3>3, <3>4, <3>5
  <2>5. \A i \in 1..Len(old) : mid[i] = new[i]
    OBVIOUS
  <2> HIDE DEF mid, q
  <2>6. /\ IsPod(q) /\ IsPlace(q, c, "env") /\ Current(q, c, "env") = mid
        /\ Change(q, c, "env", new) = Change(p, c, "env", new)
    BY <1>1, <2>4, ChangeIs DEF q
  <2>7. appends = AppendsOf("env", c, mid, new)
    BY <2>4 DEF AppendsOf
  <2> HIDE DEF replaces, appends
  <2>8. IsSeq(appends) /\ Run(Ok(q), appends) = Ok(Change(q, c, "env", new))
    BY <1>1, <2>1, <2>4, <2>5, <2>6, <2>7, AppendsRun
  <2>9. IsSeq(replaces \o appends) /\ Run(Ok(p), replaces \o appends) = Run(Run(Ok(p), replaces), appends)
    BY <2>3, <2>8, RunConcat
  <2> QED BY <2>2, <2>3, <2>6, <2>8, <2>9 DEF patch
<1> QED BY <1>5, <1>6, <1>7 DEF patch

-----------------------------------------------------------------------------
(* One sequence from many *)

JoinOp(ctx, all, s) == all \o s

\* Of the patch for the first k containers: it makes them what they are to be.
Upto(p, new, k) ==
  [p EXCEPT !.containers = [i \in 1..Len(p.containers) |-> IF i <= k THEN new[i] ELSE p.containers[i]]]
JoinInv(ctx, k, all) ==
  IsSeq(all) /\ Run(Ok(ctx.pod), all) = Ok(Upto(ctx.pod, ctx.new, k))

Joining == INSTANCE FoldTheory WITH Op <- JoinOp, Inv <- JoinInv

\* Nothing joins to nothing.
LEMMA EmptyJoins ==
  ASSUME NEW s, IsSeq(s)
  PROVE  <<>> \o s = s
<1>1. s \in Seq({s[i] : i \in DOMAIN s})
  BY IsSeqIs
<1> QED BY <1>1

FlattenFor(f, seqs) ==
  f = [i \in 1..Len(seqs) |-> IF i = 1 THEN seqs[i] ELSE f[i - 1] \o seqs[i]]

\* FlattenSeq of the community modules is a fold.
LEMMA FlattenIs ==
  ASSUME NEW ctx, NEW seqs, IsSeq(seqs), \A i \in DOMAIN seqs : IsSeq(seqs[i])
  PROVE  FlattenSeq(seqs) = Joining!Fold(ctx, <<>>, seqs)
<1> DEFINE n == Len(seqs)
           all == Joining!Fold(ctx, <<>>, seqs)
           flatten == CHOOSE f : FlattenFor(f, seqs)
<1>1. n \in Nat /\ DOMAIN seqs = 1..n
  BY IsSeqIs
<1>2. FlattenSeq(seqs) = IF n = 0 THEN seqs ELSE flatten[n]
  BY DEF FlattenSeq, FlattenFor
<1> HIDE DEF n, all
<1>3. PICK acc : Joining!Runs(acc, ctx, <<>>, seqs, n) /\ all = acc[n]
  BY <1>1, Joining!FoldRuns, Least DEF Joining!Ordered, all
<1>4. acc[0] = <<>> /\ \A k \in 1..n : acc[k] = acc[k - 1] \o seqs[k]
  BY <1>3 DEF Joining!Runs, JoinOp
<1>5. CASE n = 0
  <2>1. DOMAIN seqs = {} /\ seqs = <<>>
    BY <1>1, <1>5
  <2> QED BY <1>2, <1>3, <1>4, <1>5, <2>1 DEF all
<1>6. CASE n # 0
  <2> DEFINE f == [i \in 1..n |-> acc[i]]
  <2>1. FlattenFor(f, seqs)
    <3>1. ASSUME NEW i \in 1..n PROVE f[i] = IF i = 1 THEN seqs[i] ELSE f[i - 1] \o seqs[i]
      <4>1. CASE i = 1
        <5>1. 1 \in 1..n /\ 1 - 1 = 0
          BY <4>1
        <5>2. acc[1] = <<>> \o seqs[1] /\ IsSeq(seqs[1])
          BY <1>1, <1>4, <5>1
        <5> QED BY <4>1, <5>2, EmptyJoins
      <4>2. CASE i # 1
        <5>1. i - 1 \in 1..n
          BY <1>1, <4>2
        <5> QED BY <1>4, <4>2, <5>1
      <4> QED BY <4>1, <4>2
    <3>2. f = [i \in 1..n |-> f[i]]
      OBVIOUS
    <3> HIDE DEF f
    <3> QED BY <3>1, <3>2 DEF FlattenFor, n
  <2>2. FlattenFor(flatten, seqs)
    <3> HIDE DEF f
    <3> QED BY <2>1
  <2> HIDE DEF flatten, f
  <2>3. /\ flatten[1] = seqs[1]
        /\ \A k \in 1..n : k # 1 => flatten[k] = flatten[k - 1] \o seqs[k]
    <3>1. 1 \in 1..n
      BY <1>1, <1>6
    <3> QED BY <2>2, <3>1 DEF FlattenFor, n
  <2> DEFINE other == [k \in 0..n |-> IF k = 0 THEN <<>> ELSE flatten[k]]
  <2>4. other[0] = <<>> /\ \A k \in 1..n : other[k] = flatten[k]
    BY <1>1
  <2>5. ASSUME NEW k \in 1..n PROVE other[k] = other[k - 1] \o seqs[k]
    <3>1. CASE k = 1
      <4>1. other[1] = seqs[1] /\ IsSeq(seqs[1]) /\ other[1 - 1] = <<>>
        BY <1>1, <2>3, <2>4, <3>1
      <4> QED BY <3>1, <4>1, EmptyJoins
    <3>2. CASE k # 1
      <4>1. k - 1 \in 1..n
        BY <1>1, <3>2
      <4> HIDE DEF other
      <4> QED BY <2>3, <2>4, <3>2, <4>1
    <3> QED BY <3>1, <3>2
  <2> HIDE DEF other
  <2>6. Joining!Runs(other, ctx, <<>>, seqs, n)
    BY <2>4, <2>5 DEF Joining!Runs, JoinOp
  <2>7. all = other[n]
    BY <1>1, <2>6, Joining!FoldIs, Least DEF Joining!Ordered, all
  <2>8. n \in 1..n
    BY <1>1, <1>6
  <2> QED BY <1>2, <1>6, <2>4, <2>7, <2>8 DEF all
<1> QED BY <1>5, <1>6

-----------------------------------------------------------------------------
(* The containers that the pod had *)

FieldsOf(old, new, i) ==
  EnvPatch(i, old[i].env, new[i].env)
  \o NamedAppendPatch("mounts", i, old[i].mounts, new[i].mounts)

WithContainer(p, i, c) == [p EXCEPT !.containers = [p.containers EXCEPT ![i] = c]]

\* The patch for one container.
LEMMA FieldsRun ==
  ASSUME NEW q, IsPod(q), NEW i \in 1..Len(q.containers), NEW old, NEW new,
         old[i] = q.containers[i], new[i] \in PodContainer, Edited(old[i], new[i])
  PROVE  /\ IsSeq(FieldsOf(old, new, i))
         /\ Run(Ok(q), FieldsOf(old, new, i)) = Ok(WithContainer(q, i, new[i]))
<1> DEFINE c == old[i]
           d == new[i]
           r == Change(q, i, "env", d.env)
           s == EnvPatch(i, c.env, d.env)
           t == NamedAppendPatch("mounts", i, c.mounts, d.mounts)
<1>1. /\ q.containers \in Seq(PodContainer) /\ Len(q.containers) \in Nat /\ i \in Nat /\ i # 0
      /\ DOMAIN q.containers = 1..Len(q.containers) /\ c \in PodContainer /\ d \in PodContainer
  BY PodIs
<1>2. /\ IsPlace(q, i, "env") /\ IsPlace(q, i, "mounts")
      /\ ItemOf("env") = EnvVar /\ ItemOf("mounts") = VolumeMount
  BY <1>1 DEF IsPlace, Parts, ItemOf, Lists, PartOf
<1>3. /\ d.env \in Seq(EnvVar) /\ d.mounts \in Seq(VolumeMount)
      /\ c.env \in Seq(EnvVar) /\ c.mounts \in Seq(VolumeMount)
  BY <1>1 DEF PodContainer
<1>4. Current(q, i, "env") = c.env /\ (d.env = <<>> => c.env = <<>>)
  BY <1>1 DEF Current, Edited
<1>5. IsSeq(s) /\ Run(Ok(q), s) = Ok(r)
  BY <1>1, <1>2, <1>3, <1>4, EnvRun
<1> DEFINE one == [c EXCEPT !.env = d.env]
           list == [q.containers EXCEPT ![i] = one]
<1>6. one \in PodContainer /\ one.mounts = c.mounts
  BY <1>1, <1>3 DEF PodContainer
<1> HIDE DEF s, t, one, c, d
<1>7. r = [q EXCEPT !.containers = list]
  <2>1. r = [q EXCEPT !.containers = [q.containers EXCEPT ![i] = [c EXCEPT !["env"] = d.env]]]
    <3>1. "env" \in Parts /\ d.env \in Seq(PartOf("env"))
      BY <1>3 DEF Parts, PartOf
    <3>2. Put(q, i, "env", d.env) = [q EXCEPT !.containers = [q.containers EXCEPT ![i] = [q.containers[i] EXCEPT !["env"] = d.env]]]
      <4> DEFINE f == "env"
      <4>1. f \in Parts /\ d.env \in Seq(PartOf(f))
        BY <3>1
      <4> HIDE DEF f
      <4>2. Put(q, i, f, d.env) = [q EXCEPT !.containers = [q.containers EXCEPT ![i] = [q.containers[i] EXCEPT ![f] = d.env]]]
        BY DEF Put
      <4> QED BY <4>2 DEF f
    <3> QED BY <1>1, <3>2 DEF Change, c
  <2> QED BY <2>1 DEF one
<1> HIDE DEF r
<1>8. list \in Seq(PodContainer) /\ list[i] = one /\ Len(list) = Len(q.containers)
  BY <1>1, <1>6, ExceptSeq
<1> HIDE DEF list
<1>9. IsPod(r) /\ r.containers = list
  <2>1. DOMAIN q = PodFields /\ "containers" \in PodFields
    BY PodIs DEF PodFields
  <2> QED BY <1>7, <1>8, <2>1, PodWith
<1>10. IsPlace(r, i, "mounts") /\ Current(r, i, "mounts") = c.mounts
  BY <1>1, <1>6, <1>8, <1>9 DEF IsPlace, Parts, Current
<1>11. Grows(c.mounts, d.mounts) /\ d = [c EXCEPT !.env = d.env, !.mounts = d.mounts]
  BY DEF Edited, c, d
<1>12. GoesOn(c.mounts, d.mounts)
  BY <1>3, <1>11 DEF GoesOn, Grows, Names
<1>13. Continued(c.mounts, d.mounts) = d.mounts
  <2>1. \A k \in 1..Len(d.mounts) : k <= Len(c.mounts) => k \in 1..Len(c.mounts)
    BY <1>3
  <2>2. d.mounts = [k \in 1..Len(d.mounts) |-> d.mounts[k]]
    BY <1>3, LenProperties
  <2> QED BY <1>11, <2>1, <2>2 DEF Continued, Grows
<1>14. IsSeq(t) /\ Run(Ok(r), t) = Ok(Change(r, i, "mounts", d.mounts))
  BY <1>1, <1>2, <1>3, <1>9, <1>10, <1>12, <1>13, NamedAppendRun DEF t
<1>15. Change(r, i, "mounts", d.mounts) = [q EXCEPT !.containers = [q.containers EXCEPT ![i] = d]]
  <2>1. Change(r, i, "mounts", d.mounts) =
          [r EXCEPT !.containers = [list EXCEPT ![i] = [one EXCEPT !["mounts"] = d.mounts]]]
    <3>1. "mounts" \in Parts /\ d.mounts \in Seq(PartOf("mounts")) /\ i \in 1..Len(r.containers)
      BY <1>1, <1>3, <1>8, <1>9 DEF Parts, PartOf
    <3>2. Put(r, i, "mounts", d.mounts) =
            [r EXCEPT !.containers = [r.containers EXCEPT ![i] = [r.containers[i] EXCEPT !["mounts"] = d.mounts]]]
      <4> DEFINE f == "mounts"
      <4>1. f \in Parts /\ d.mounts \in Seq(PartOf(f))
        BY <3>1
      <4> HIDE DEF f
      <4>2. Put(r, i, f, d.mounts) = [r EXCEPT !.containers = [r.containers EXCEPT ![i] = [r.containers[i] EXCEPT ![f] = d.mounts]]]
        BY DEF Put
      <4> QED BY <4>2 DEF f
    <3> QED BY <1>1, <1>8, <1>9, <3>2 DEF Change
  <2>2. [one EXCEPT !["mounts"] = d.mounts] = d
    BY <1>1, <1>11 DEF one, PodContainer, c, d
  <2>3. [list EXCEPT ![i] = d] = [q.containers EXCEPT ![i] = d]
    BY <1>1 DEF list
  <2>4. \A x : [[q EXCEPT !.containers = list] EXCEPT !.containers = x] = [q EXCEPT !.containers = x]
    <3>1. DOMAIN q = PodFields
      BY PodIs
    <3> QED BY <3>1
  <2> QED BY <1>7, <2>1, <2>2, <2>3, <2>4
<1>16. IsSeq(s \o t) /\ Run(Ok(q), s \o t) = Run(Run(Ok(q), s), t)
  BY <1>5, <1>14, RunConcat
<1> QED BY <1>5, <1>14, <1>15, <1>16 DEF FieldsOf, WithContainer, s, t, c, d

\* The patches for all the containers that there were.
LEMMA ContainerFieldsRun ==
  ASSUME NEW p, IsPod(p), NEW old \in Seq(PodContainer), NEW new \in Seq(PodContainer),
         UniqueNames(old), GoesOn(old, new), p.containers = Continued(old, new),
         \A i \in 1..Len(old) : Edited(old[i], new[i])
  PROVE  /\ IsSeq(ContainerFieldPatch(old, new))
         /\ Run(Ok(p), ContainerFieldPatch(old, new)) = Ok([p EXCEPT !.containers = new])
<1> DEFINE m == Len(old)
           n == Len(new)
           seqs == [i \in DOMAIN old |-> FieldsOf(old, new, i)]
           ctx == [pod |-> p, new |-> new]
<1>1. m \in Nat /\ n \in Nat /\ m <= n /\ DOMAIN old = 1..m /\ DOMAIN new = 1..n
  BY DEF GoesOn
<1>2. /\ p.containers \in Seq(PodContainer) /\ Len(p.containers) = n
      /\ \A i \in 1..n : p.containers[i] = IF i <= m THEN old[i] ELSE new[i]
  BY <1>1, ContinuedIs
<1>3. ContainerFieldPatch(old, new) = FlattenSeq(seqs)
  <2> DEFINE At(i) == SelectLastInSeq(new, LAMBDA c : c.name = old[i].name)
  <2>1. ASSUME NEW i \in 1..m PROVE At(i) = i
    <3> DEFINE I == {j \in 1..Len(new) : new[j].name = old[i].name}
    <3>1. i \in 1..n /\ new[i].name = old[i].name
      <4>1. new[i].name = old[i].name
        <5>1. old[i] \in PodContainer
          BY <1>1
        <5> QED BY <5>1 DEF Edited, PodContainer
      <4> QED BY <1>1, <4>1
    <3>2. ASSUME NEW j \in 1..n, new[j].name = old[i].name PROVE j = i
      <4>1. CASE j <= m
        <5>1. j \in 1..m /\ old[j] \in PodContainer
          BY <1>1, <4>1
        <5>2. new[j].name = old[j].name
          BY <5>1 DEF Edited, PodContainer
        <5> QED BY <1>1, <3>2, <5>1, <5>2 DEF UniqueNames
      <4>2. CASE ~(j <= m)
        <5>1. j \in m + 1..n
          BY <1>1, <4>2
        <5>2. new[j].name \notin Names(old)
          BY <5>1 DEF GoesOn
        <5> QED BY <1>1, <3>2, <5>2 DEF Names
      <4> QED BY <4>1, <4>2
    <3>3. I = {i}
      BY <3>1, <3>2
    <3>4. At(i) = IF I # {} THEN Max(I) ELSE 0
      BY DEF SelectLastInSeq
    <3> HIDE DEF I
    <3>5. Max({i}) = i
      BY DEF Max
    <3> QED BY <3>3, <3>4, <3>5
  <2>2. ContainerFieldPatch(old, new) =
          FlattenSeq([i \in DOMAIN old |->
            IF At(i) = 0 THEN <<>>
            ELSE EnvPatch(i, old[i].env, new[At(i)].env)
                 \o NamedAppendPatch("mounts", i, old[i].mounts, new[At(i)].mounts)])
    BY DEF ContainerFieldPatch
  <2> HIDE DEF At
  <2>3. [i \in DOMAIN old |->
            IF At(i) = 0 THEN <<>>
            ELSE EnvPatch(i, old[i].env, new[At(i)].env)
                 \o NamedAppendPatch("mounts", i, old[i].mounts, new[At(i)].mounts)] = seqs
    BY <1>1, <2>1 DEF FieldsOf
  <2> QED BY <2>2, <2>3
<1> HIDE DEF m, n
<1>4. ctx.pod = p /\ ctx.new = new
  OBVIOUS
<1>5. DOMAIN seqs = 1..m /\ \A i \in 1..m : seqs[i] = FieldsOf(old, new, i)
  BY <1>1
<1> HIDE DEF ctx, seqs
<1>6. ASSUME NEW k \in 0..m
      PROVE  /\ IsPod(Upto(p, new, k)) /\ Len(Upto(p, new, k).containers) = n
             /\ Upto(p, new, k).containers = [i \in 1..n |-> IF i <= k THEN new[i] ELSE p.containers[i]]
  <2> DEFINE list == [i \in 1..n |-> IF i <= k THEN new[i] ELSE p.containers[i]]
  <2>1. Upto(p, new, k) = [p EXCEPT !.containers = list]
    BY <1>2 DEF Upto
  <2>2. \A i \in 1..n : new[i] \in PodContainer /\ p.containers[i] \in PodContainer
    BY <1>1, <1>2
  <2>3. list \in [1..n -> PodContainer]
    BY <2>2
  <2>4. list \in Seq(PodContainer)
    BY <1>1, <2>3, SeqDef
  <2>5. Len(list) = n
    BY <1>1, <2>3, <2>4, LenProperties
  <2> HIDE DEF list
  <2>6. IsPod([p EXCEPT !.containers = list])
    BY <2>4, PodWith
  <2>7. DOMAIN p = PodFields /\ "containers" \in PodFields
    BY PodIs DEF PodFields
  <2> QED BY <2>1, <2>5, <2>6, <2>7 DEF list
<1>7. ASSUME NEW i \in 1..m
      PROVE  /\ IsSeq(seqs[i])
             /\ Run(Ok(Upto(p, new, i - 1)), seqs[i]) = Ok(Upto(p, new, i))
  <2> DEFINE q == Upto(p, new, i - 1)
  <2>1. i - 1 \in 0..m /\ i \in 0..m /\ i \in 1..n /\ ~(i <= i - 1) /\ i <= m
    BY <1>1
  <2>2. /\ IsPod(q) /\ Len(q.containers) = n
        /\ q.containers = [j \in 1..n |-> IF j <= i - 1 THEN new[j] ELSE p.containers[j]]
    BY <1>6, <2>1
  <2>3. Upto(p, new, i).containers = [j \in 1..n |-> IF j <= i THEN new[j] ELSE p.containers[j]]
    BY <1>6, <2>1
  <2> HIDE DEF q
  <2>4. old[i] = q.containers[i] /\ new[i] \in PodContainer /\ i \in 1..Len(q.containers)
    BY <1>1, <1>2, <2>1, <2>2
  <2>5. /\ IsSeq(FieldsOf(old, new, i))
        /\ Run(Ok(q), FieldsOf(old, new, i)) = Ok(WithContainer(q, i, new[i]))
    <3>1. Edited(old[i], new[i])
      BY DEF m
    <3>2. IsPod(q)
      BY <2>2
    <3> QED BY <2>4, <3>1, <3>2, FieldsRun
  <2>6. [q.containers EXCEPT ![i] = new[i]] = [j \in 1..n |-> IF j <= i THEN new[j] ELSE p.containers[j]]
    <3>1. \A j \in 1..n : j <= i <=> j <= i - 1 \/ j = i
      BY <2>1
    <3> QED BY <2>1, <2>2, <3>1
  <2>7. \A x : [q EXCEPT !.containers = x] = [p EXCEPT !.containers = x]
    <3>1. DOMAIN p = PodFields
      BY PodIs
    <3> QED BY <3>1 DEF q, Upto
  <2> QED BY <1>2, <1>5, <2>5, <2>6, <2>7 DEF q, Upto, WithContainer
<1>8. Upto(p, new, 0) = p /\ Upto(p, new, m) = [p EXCEPT !.containers = new]
  <2>1. \A i \in 1..n : ~(i <= 0)
    BY <1>1
  <2>2. [i \in 1..n |-> IF i <= 0 THEN new[i] ELSE p.containers[i]] = p.containers
    BY <1>2, <2>1, LenProperties
  <2>3. [i \in 1..n |-> IF i <= m THEN new[i] ELSE p.containers[i]] = new
    <3>1. new = [i \in 1..n |-> new[i]]
      BY LenProperties DEF n
    <3>2. \A i \in 1..n : ~(i <= m) => p.containers[i] = new[i]
      BY <1>2
    <3> QED BY <3>1, <3>2
  <2>4. [p EXCEPT !.containers = p.containers] = p
    <3>1. p = [f \in PodFields |-> p[f]]
      BY PodIs
    <3> QED BY <3>1
  <2> QED BY <1>2, <2>2, <2>3, <2>4 DEF Upto
<1>9. JoinInv(ctx, 0, <<>>)
  BY <1>4, <1>8, RunFew DEF JoinInv
<1>10. ASSUME NEW k \in 1..m, NEW a, JoinInv(ctx, k - 1, a)
       PROVE  JoinInv(ctx, k, JoinOp(ctx, a, seqs[k]))
  <2>1. IsSeq(a) /\ Run(Ok(p), a) = Ok(Upto(p, new, k - 1))
    BY <1>4, <1>10 DEF JoinInv
  <2>2. IsSeq(seqs[k]) /\ Run(Ok(Upto(p, new, k - 1)), seqs[k]) = Ok(Upto(p, new, k))
    BY <1>7
  <2>3. IsSeq(a \o seqs[k]) /\ Run(Ok(p), a \o seqs[k]) = Run(Run(Ok(p), a), seqs[k])
    BY <2>1, <2>2, RunConcat
  <2> QED BY <1>4, <2>1, <2>2, <2>3 DEF JoinInv, JoinOp
<1>11. JoinInv(ctx, m, Joining!Fold(ctx, <<>>, seqs))
  BY <1>1, <1>5, <1>9, <1>10, Joining!FoldKeeps, Least DEF Joining!Ordered
<1>12. FlattenSeq(seqs) = Joining!Fold(ctx, <<>>, seqs)
  <2>1. IsSeq(seqs)
    <3>1. seqs = [i \in 1..m |-> seqs[i]]
      BY <1>1 DEF seqs
    <3> QED BY <1>1, <3>1 DEF IsSeq
  <2> QED BY <1>5, <1>7, <2>1, FlattenIs
<1> QED BY <1>3, <1>4, <1>8, <1>11, <1>12 DEF JoinInv

-----------------------------------------------------------------------------
(* Annotations and scalars *)

\* A set of n elements, listed.
LEMMA SetListed ==
  ASSUME NEW S, IsFiniteSet(S)
  PROVE  /\ IsSeq(SetToSeq(S)) /\ SetToSeq(S) \in Seq(S)
         /\ \A x \in S : \E j \in DOMAIN SetToSeq(S) : SetToSeq(S)[j] = x
<1> DEFINE n == Cardinality(S)
           s == SetToSeq(S)
<1>1. n \in Nat /\ ExistsBijection(1..n, S)
  BY FS_CardinalityType
<1>2. PICK b : b \in Bijection(1..n, S)
  BY <1>1 DEF ExistsBijection
<1>3. b \in [1..n -> S] /\ IsInjective(b)
  BY <1>2 DEF Bijection, Injection, IsInjective
<1>4. s \in [1..n -> S] /\ IsInjective(s)
  <2>1. s = CHOOSE f \in [1..n -> S] : IsInjective(f)
    BY DEF SetToSeq
  <2> QED BY <1>3, <2>1
<1> HIDE DEF n, s
<1>5. s \in Seq(S)
  BY <1>1, <1>4, SeqDef
<1>6. s \in Injection(1..n, S)
  BY <1>4 DEF Injection, IsInjective
<1>7. s \in Surjection(1..n, S)
  <2>1. IsFiniteSet(1..n) /\ Cardinality(1..n) = n
    BY <1>1, FS_Interval
  <2> QED BY <1>6, <2>1, FS_Injection DEF n
<1>8. \A x \in S : \E j \in DOMAIN s : s[j] = x
  BY <1>7 DEF Surjection
<1>9. IsSeq(s)
  BY <1>5, SeqIsSeq
<1> QED BY <1>5, <1>8, <1>9 DEF s

\* An operation on one annotation, and on a field that is no list.
Scalars == {"shareProcessNamespace", "restartPolicy"}

\* The operation on one annotation.
LEMMA AnnotationOpIs ==
  ASSUME NEW p, NEW k, NEW v, NEW op, op.field = "annotation", op.value = [key |-> k, value |-> v],
         op.op = "replace" => k \in DOMAIN p.annotations
  PROVE  ApplyOp(Ok(p), op) = Ok(Annotate(p, {k}, v))
<1> DEFINE r == Ok(p)
<1>1. r.ok /\ r.pod = p
  BY DEF Ok
<1> HIDE DEF r
<1>2. op.value.key = k /\ op.value.value = v
  OBVIOUS
<1>3. ApplyOp(r, op) = [ok |-> op.op = "replace" => k \in DOMAIN p.annotations, pod |-> Annotate(p, {k}, v)]
  BY <1>1, <1>2 DEF ApplyOp
<1>4. (op.op = "replace" => k \in DOMAIN p.annotations) = TRUE
  OBVIOUS
<1> QED BY <1>3, <1>4 DEF Ok, r

\* The operation on a field that is no list.
LEMMA ScalarOpIs ==
  ASSUME NEW p, NEW f \in Scalars \cup {"annotations"}, NEW op, op.field = f, op.c = 0,
         op.op = "replace" => p[f] # "unset"
  PROVE  ApplyOp(Ok(p), op) = Ok(With(p, f, op.value))
<1> DEFINE r == Ok(p)
<1>1. r.ok /\ r.pod = p
  BY DEF Ok
<1> HIDE DEF r
<1>2. f \in {"shareProcessNamespace", "restartPolicy", "annotations"} /\ f # "annotation"
  BY DEF Scalars
<1>3. ApplyOp(r, op) = [ok |-> op.op = "replace" => p[f] # "unset", pod |-> [p EXCEPT ![f] = op.value]]
  BY <1>1, <1>2 DEF ApplyOp
<1>4. (op.op = "replace" => p[f] # "unset") = TRUE
  OBVIOUS
<1> QED BY <1>3, <1>4 DEF Ok, With, r

\* A field that is no list is set if it changed.
LEMMA ScalarRun ==
  ASSUME NEW p, IsPod(p), NEW f \in Scalars, NEW v, v = p[f] \/ v # "unset"
  PROVE  /\ IsSeq(ScalarPatch(f, p[f], v))
         /\ Run(Ok(p), ScalarPatch(f, p[f], v)) = Ok(With(p, f, v))
<1>1. CASE v = p[f]
  <2>1. ScalarPatch(f, p[f], v) = <<>>
    BY <1>1 DEF ScalarPatch
  <2>2. With(p, f, v) = p
    <3>1. p = [g \in PodFields |-> p[g]]
      BY PodIs
    <3> QED BY <1>1, <3>1 DEF With
  <2> QED BY <2>1, <2>2, RunFew
<1>2. CASE v # p[f]
  <2> DEFINE op == Op(IF p[f] = "unset" THEN "add" ELSE "replace", f, 0, 0, v)
  <2>1. ScalarPatch(f, p[f], v) = <<op>>
    BY <1>2 DEF ScalarPatch
  <2>2. op.field = f /\ op.c = 0 /\ op.value = v /\ (op.op = "replace" => p[f] # "unset")
    BY DEF Op
  <2> HIDE DEF op
  <2>3. ApplyOp(Ok(p), op) = Ok(With(p, f, v))
    BY <2>2, ScalarOpIs
  <2> QED BY <2>1, <2>3, RunFew
<1> QED BY <1>1, <1>2

\* AnnotationPatch leads from the annotations to the new ones, in any order of the keys.
LEMMA AnnotationRun ==
  ASSUME NEW p, IsPod(p), NEW new, new = [k \in DOMAIN new |-> new[k]], IsFiniteSet(DOMAIN new),
         DOMAIN p.annotations \subseteq DOMAIN new
  PROVE  /\ IsSeq(AnnotationPatch(p.annotations, new))
         /\ Run(Ok(p), AnnotationPatch(p.annotations, new)) = Ok(With(p, "annotations", new))
<1> DEFINE old == p.annotations
           changed == {k \in DOMAIN new : k \in DOMAIN old => old[k] # new[k]}
           keys == SetToSeq(changed)
           n == Len(keys)
           OpOf(k) == Op(IF k \in DOMAIN old THEN "replace" ELSE "add", "annotation", 0, 0,
                         [key |-> k, value |-> new[k]])
           patch == AnnotationPatch(old, new)
<1>1. /\ DOMAIN p = PodFields /\ "annotations" \in PodFields /\ p = [f \in PodFields |-> p[f]]
      /\ old = [k \in DOMAIN old |-> old[k]]
  <2>1. old \in [DOMAIN old -> Text]
    BY DEF IsPod
  <2> QED BY <2>1, PodIs DEF PodFields
<1>2. patch = CASE DOMAIN new = {} -> <<>>
                [] DOMAIN new # {} /\ DOMAIN old = {} -> <<Op("add", "annotations", 0, 0, new)>>
                [] OTHER -> [j \in DOMAIN keys |-> OpOf(keys[j])]
  BY DEF AnnotationPatch
<1>3. IsFiniteSet(changed)
  <2>1. changed \in SUBSET (DOMAIN new)
    OBVIOUS
  <2> QED BY <2>1, FS_Subset
<1>4. keys \in Seq(changed) /\ \A k \in changed : \E j \in DOMAIN keys : keys[j] = k
  <2> HIDE DEF changed
  <2> QED BY <1>3, SetListed
<1> HIDE DEF patch
<1>5. CASE DOMAIN new = {}
  <2>1. patch = <<>>
    BY <1>2, <1>5
  <2>2. old = new
    BY <1>1, <1>5
  <2>3. With(p, "annotations", new) = p
    BY <1>1, <2>2 DEF With
  <2> QED BY <2>1, <2>3, RunFew DEF patch
<1>6. CASE DOMAIN new # {} /\ DOMAIN old = {}
  <2> DEFINE op == Op("add", "annotations", 0, 0, new)
  <2>1. patch = <<op>>
    BY <1>2, <1>6
  <2>2. op.field = "annotations" /\ op.c = 0 /\ op.value = new /\ op.op = "add"
    BY DEF Op
  <2> HIDE DEF op
  <2>3. ApplyOp(Ok(p), op) = Ok(With(p, "annotations", new))
    BY <2>2, ScalarOpIs
  <2> QED BY <2>1, <2>3, RunFew DEF patch
<1>7. CASE DOMAIN new # {} /\ DOMAIN old # {}
  <2> HIDE DEF old, changed, keys, OpOf
  <2>1. n \in Nat /\ DOMAIN keys = 1..n /\ \A j \in 1..n : keys[j] \in changed
    BY <1>4
  <2>2. patch = [j \in 1..n |-> OpOf(keys[j])]
    BY <1>2, <1>7, <2>1
  <2> HIDE DEF n
  <2> DEFINE Set(j) == {keys[l] : l \in 1..j}
             A(j) == [k \in DOMAIN old \cup Set(j) |-> IF k \in Set(j) THEN new[k] ELSE old[k]]
             acc == [j \in 0..n |-> Ok(With(p, "annotations", A(j)))]
  <2>3. acc[0] = Ok(p)
    <3>1. Set(0) = {}
      OBVIOUS
    <3>2. A(0) = old
      BY <1>1, <3>1
    <3>3. With(p, "annotations", old) = p
      BY <1>1 DEF With, old
    <3>4. 0 \in 0..n
      BY <2>1
    <3> HIDE DEF A
    <3> QED BY <3>2, <3>3, <3>4
  <2>4. ASSUME NEW j \in 1..n PROVE acc[j] = PatchOp(0, acc[j - 1], patch[j])
    <3> DEFINE k == keys[j]
               q == With(p, "annotations", A(j - 1))
               op == patch[j]
    <3>1. j \in 0..n /\ j - 1 \in 0..n
      BY <2>1
    <3>2. acc[j] = Ok(With(p, "annotations", A(j))) /\ acc[j - 1] = Ok(q)
      BY <3>1
    <3> HIDE DEF acc
    <3>3. q.annotations = A(j - 1) /\ \A x : With(q, "annotations", x) = With(p, "annotations", x)
      BY <1>1 DEF With
    <3>4. DOMAIN A(j - 1) = DOMAIN old \cup Set(j - 1)
      OBVIOUS
    <3>5. \A x : x \in Set(j) <=> x \in Set(j - 1) \/ x = k
      <4>1. \A l : l \in 1..j <=> l \in 1..j - 1 \/ l = j
        BY <2>1
      <4> QED BY <4>1
    <3>6. A(j) = [x \in DOMAIN A(j - 1) \cup {k} |-> IF x \in {k} THEN new[k] ELSE A(j - 1)[x]]
      <4> DEFINE B == A(j - 1)
      <4>1. DOMAIN old \cup Set(j) = DOMAIN B \cup {k}
        BY <3>4, <3>5
      <4>2. ASSUME NEW x \in DOMAIN old \cup Set(j)
            PROVE  (IF x \in Set(j) THEN new[x] ELSE old[x]) = IF x \in {k} THEN new[k] ELSE B[x]
        <5>1. CASE x = k
          <6>1. x \in Set(j)
            BY <3>5, <5>1
          <6> QED BY <5>1, <6>1
        <5>2. CASE x # k
          <6>1. x \in DOMAIN old \cup Set(j - 1) /\ (x \in Set(j) <=> x \in Set(j - 1))
            BY <3>5, <5>2
          <6>2. B[x] = IF x \in Set(j - 1) THEN new[x] ELSE old[x]
            BY <6>1
          <6> HIDE DEF B, Set
          <6> QED BY <5>2, <6>1, <6>2
        <5> QED BY <5>1, <5>2
      <4>3. A(j) = [x \in DOMAIN old \cup Set(j) |-> IF x \in Set(j) THEN new[x] ELSE old[x]]
        OBVIOUS
      <4> HIDE DEF B, A, Set
      <4>4. A(j) = [x \in DOMAIN B \cup {k} |-> IF x \in {k} THEN new[k] ELSE B[x]]
        BY <4>1, <4>2, <4>3
      <4> QED BY <4>4 DEF B
    <3> HIDE DEF A, Set
    <3>7. Annotate(q, {k}, new[k]) = With(p, "annotations", A(j))
      <4>1. Annotate(q, {k}, new[k]) =
              With(q, "annotations", [x \in DOMAIN A(j - 1) \cup {k} |-> IF x \in {k} THEN new[k] ELSE A(j - 1)[x]])
        BY <3>3 DEF Annotate, With
      <4> QED BY <3>3, <3>6, <4>1
    <3>8. op = OpOf(k)
      BY <2>2
    <3> HIDE DEF k, q, op
    <3>9. /\ op.field = "annotation" /\ op.value = [key |-> k, value |-> new[k]]
          /\ op.op = "replace" => k \in DOMAIN q.annotations
      BY <3>3, <3>4, <3>8 DEF OpOf, Op
    <3>10. ApplyOp(Ok(q), op) = Ok(Annotate(q, {k}, new[k]))
      BY <3>9, AnnotationOpIs
    <3> QED BY <3>2, <3>7, <3>10 DEF PatchOp, k, q, op
  <2>5. Patching!Runs(acc, 0, Ok(p), patch, n)
    <3> HIDE DEF acc
    <3> QED BY <2>3, <2>4 DEF Patching!Runs
  <2>6. Run(Ok(p), patch) = acc[n]
    <3>1. DOMAIN patch = 1..n
      BY <2>2
    <3> HIDE DEF acc
    <3> QED BY <2>1, <2>5, <3>1, Patching!FoldIs, Least DEF Patching!Ordered, Run
  <2>7. A(n) = new
    <3>1. Set(n) = changed
      BY <1>4, <2>1
    <3>2. DOMAIN old \cup changed = DOMAIN new
      BY DEF changed, old
    <3>3. \A k \in DOMAIN new : k \notin changed => old[k] = new[k]
      BY DEF changed
    <3> QED BY <3>1, <3>2, <3>3
  <2>8. acc[n] = Ok(With(p, "annotations", new))
    <3>1. n \in 0..n
      BY <2>1
    <3> HIDE DEF A
    <3> QED BY <2>7, <3>1
  <2>9. IsSeq(patch)
    <3>1. patch = [j \in 1..n |-> patch[j]]
      BY <2>2
    <3> QED BY <2>1, <3>1 DEF IsSeq
  <2> QED BY <2>6, <2>8, <2>9 DEF patch, old
<1> QED BY <1>5, <1>6, <1>7 DEF patch, old

\* A pod with the annotations of another is a pod.
LEMMA PodWithAnnotations ==
  ASSUME NEW p, IsPod(p), NEW w, IsPod(w)
  PROVE  IsPod(With(p, "annotations", w.annotations))
<1> DEFINE q == [p EXCEPT !.annotations = w.annotations]
<1>1. /\ w.annotations \in [DOMAIN w.annotations -> Text] /\ IsFiniteSet(DOMAIN w.annotations)
      /\ DOMAIN w.annotations \subseteq Text \X Text
  BY DEF IsPod
<1>2. q.annotations = w.annotations
  BY DEF IsPod
<1>3. q \in [namespace: Text, annotations: {w.annotations},
             security: [nonRoot: Text, user: Text],
             shareProcessNamespace: {"unset", "true", "false"},
             restartPolicy: {"unset", "Always", "OnFailure", "Never"},
             volumes: Seq(PodVolume), init: Seq(PodContainer), containers: Seq(PodContainer)]
  BY DEF IsPod
<1> HIDE DEF q
<1>4. IsPod(q)
  BY <1>1, <1>2, <1>3 DEF IsPod
<1> QED BY <1>4 DEF q, With

\* A pod with another value of one field.
LEMMA WithFields ==
  ASSUME NEW p, DOMAIN p = PodFields, NEW f \in PodFields, NEW v
  PROVE  /\ DOMAIN With(p, f, v) = PodFields
         /\ With(p, f, v)[f] = v
         /\ \A g \in PodFields : g # f => With(p, f, v)[g] = p[g]
  BY DEF With

\* The segments of the patch.
LEMMA ListSegment ==
  ASSUME NEW p, IsPod(p), NEW f \in Lists, NEW new \in Seq(ListOf(f)), GoesOn(p[f], new)
  PROVE  /\ IsSeq(NamedAppendPatch(f, 0, p[f], new))
         /\ Run(Ok(p), NamedAppendPatch(f, 0, p[f], new)) = Ok(With(p, f, Continued(p[f], new)))
         /\ IsPod(With(p, f, Continued(p[f], new)))
<1>1. IsPlace(p, 0, f) /\ ItemOf(f) = ListOf(f) /\ 0 \in Nat
  BY DEF IsPlace, ItemOf
<1>2. Current(p, 0, f) = p[f] /\ \A v : Change(p, 0, f, v) = With(p, f, v)
  BY DEF Current, Change
<1>3. p[f] \in Seq(ListOf(f))
  BY <1>1, <1>2, ChangeIs
<1>4. Continued(p[f], new) \in Seq(ListOf(f))
  BY <1>3, ContinuedIs DEF GoesOn
<1>5. IsPod(With(p, f, Continued(p[f], new)))
  BY <1>4, WithIs
<1> QED BY <1>1, <1>2, <1>5, NamedAppendRun

\* A list that grew has the old one and a new part.
LEMMA GrowsOn ==
  ASSUME NEW S, NEW old \in Seq(S), NEW new \in Seq(S), Grows(old, new)
  PROVE  GoesOn(old, new) /\ Continued(old, new) = new
<1>1. GoesOn(old, new)
  BY DEF GoesOn, Grows, Names
<1>2. \A k \in 1..Len(new) : k <= Len(old) => k \in 1..Len(old)
  OBVIOUS
<1>3. new = [k \in 1..Len(new) |-> new[k]]
  BY LenProperties
<1>4. Continued(old, new) = new
  BY <1>2, <1>3 DEF Continued, Grows
<1> QED BY <1>1, <1>4

\* The patch to a pod that extends another one leads from that one to it.
THEOREM PatchLeads ==
  ASSUME NEW old, IsPod(old), UniqueNames(old.containers), NEW new, IsPod(new), Extends(old, new)
  PROVE  ApplyPatch(old, BuildPodInjectionPatch(old, new)) = new
<1> DEFINE a == AnnotationPatch(old.annotations, new.annotations)
           s1 == ScalarPatch("shareProcessNamespace", old.shareProcessNamespace, new.shareProcessNamespace)
           s2 == ScalarPatch("restartPolicy", old.restartPolicy, new.restartPolicy)
           l1 == NamedAppendPatch("volumes", 0, old.volumes, new.volumes)
           l2 == NamedAppendPatch("init", 0, old.init, new.init)
           l3 == NamedAppendPatch("containers", 0, old.containers, new.containers)
           e == ContainerFieldPatch(old.containers, new.containers)
           p1 == With(old, "annotations", new.annotations)
           p2 == With(p1, "shareProcessNamespace", new.shareProcessNamespace)
           p3 == With(p2, "restartPolicy", new.restartPolicy)
           p4 == With(p3, "volumes", new.volumes)
           p5 == With(p4, "init", new.init)
           p6 == With(p5, "containers", Continued(old.containers, new.containers))
           p7 == With(p6, "containers", new.containers)
<1>1. /\ DOMAIN old = PodFields /\ DOMAIN new = PodFields /\ new = [f \in PodFields |-> new[f]]
      /\ old.volumes \in Seq(PodVolume) /\ old.init \in Seq(PodContainer) /\ old.containers \in Seq(PodContainer)
      /\ new.volumes \in Seq(PodVolume) /\ new.init \in Seq(PodContainer) /\ new.containers \in Seq(PodContainer)
  BY PodIs
<1>2. /\ new.shareProcessNamespace = old.shareProcessNamespace \/ new.shareProcessNamespace # "unset"
      /\ new.restartPolicy = old.restartPolicy \/ new.restartPolicy # "unset"
      /\ new.shareProcessNamespace \in {"unset", "true", "false"}
      /\ new.restartPolicy \in {"unset", "Always", "OnFailure", "Never"}
      /\ Scalars \subseteq PodFields /\ Lists \subseteq PodFields /\ "annotations" \in PodFields
  <2>1. new.shareProcessNamespace \in {"unset", "true", "false"} /\ new.restartPolicy \in {"unset", "Always", "OnFailure", "Never"}
    BY DEF IsPod
  <2> QED BY <2>1 DEF Extends, Scalars, Lists, PodFields
<1> HIDE DEF a, s1, s2, l1, l2, l3, e, p1, p2, p3, p4, p5, p6, p7
\* the pods on the way
<1>3. DOMAIN p1 = PodFields /\ \A g \in PodFields : p1[g] = IF g = "annotations" THEN new[g] ELSE old[g]
  BY <1>1, <1>2, WithFields DEF p1
<1>4. DOMAIN p2 = PodFields
      /\ \A g \in PodFields : p2[g] = IF g = "shareProcessNamespace" THEN new[g] ELSE p1[g]
  BY <1>2, <1>3, WithFields DEF p2, Scalars
<1>5. DOMAIN p3 = PodFields /\ \A g \in PodFields : p3[g] = IF g = "restartPolicy" THEN new[g] ELSE p2[g]
  BY <1>2, <1>4, WithFields DEF p3, Scalars
<1>6. DOMAIN p4 = PodFields /\ \A g \in PodFields : p4[g] = IF g = "volumes" THEN new[g] ELSE p3[g]
  BY <1>2, <1>5, WithFields DEF p4, Lists
<1>7. DOMAIN p5 = PodFields /\ \A g \in PodFields : p5[g] = IF g = "init" THEN new[g] ELSE p4[g]
  BY <1>2, <1>6, WithFields DEF p5, Lists
<1>8. /\ DOMAIN p6 = PodFields /\ p6.containers = Continued(old.containers, new.containers)
      /\ \A g \in PodFields : g # "containers" => p6[g] = p5[g]
  BY <1>2, <1>7, WithFields DEF p6, Lists
<1>9. DOMAIN p7 = PodFields /\ \A g \in PodFields : p7[g] = IF g = "containers" THEN new[g] ELSE p6[g]
  BY <1>2, <1>8, WithFields DEF p7, Lists
<1>10. /\ p1.shareProcessNamespace = old.shareProcessNamespace /\ p2.restartPolicy = old.restartPolicy
       /\ p3.volumes = old.volumes /\ p4.init = old.init /\ p5.containers = old.containers
  BY <1>3, <1>4, <1>5, <1>6, <1>7 DEF PodFields
<1>11. p7 = new
  <2>1. \A g \in PodFields : p7[g] = new[g]
    <3>1. new.namespace = old.namespace /\ new.security = old.security
      BY DEF Extends
    <3> QED BY <1>3, <1>4, <1>5, <1>6, <1>7, <1>8, <1>9, <3>1 DEF PodFields
  <2>2. p7 = [g \in DOMAIN p7 |-> p7[g]]
    BY <1>1, <1>8 DEF p7, With, p6
  <2> QED BY <1>1, <1>9, <2>1, <2>2
\* the steps between them
<1>12. IsSeq(a) /\ Run(Ok(old), a) = Ok(p1) /\ IsPod(p1)
  <2>1. /\ new.annotations = [k \in DOMAIN new.annotations |-> new.annotations[k]]
        /\ IsFiniteSet(DOMAIN new.annotations)
    <3>1. new.annotations \in [DOMAIN new.annotations -> Text] /\ IsFiniteSet(DOMAIN new.annotations)
      BY DEF IsPod
    <3> QED BY <3>1
  <2>2. DOMAIN old.annotations \subseteq DOMAIN new.annotations
    BY DEF Extends
  <2> QED BY <2>1, <2>2, AnnotationRun, PodWithAnnotations DEF a, p1
<1>13. IsSeq(s1) /\ Run(Ok(p1), s1) = Ok(p2) /\ IsPod(p2)
  <2>1. IsPod(p2)
    BY <1>2, <1>12, PodWith DEF p2, With
  <2> QED BY <1>2, <1>10, <1>12, <2>1, ScalarRun DEF s1, p2, Scalars
<1>14. IsSeq(s2) /\ Run(Ok(p2), s2) = Ok(p3) /\ IsPod(p3)
  <2>1. IsPod(p3)
    BY <1>2, <1>13, PodWith DEF p3, With
  <2> QED BY <1>2, <1>10, <1>13, <2>1, ScalarRun DEF s2, p3, Scalars
<1>15. /\ GoesOn(old.volumes, new.volumes) /\ Continued(old.volumes, new.volumes) = new.volumes
       /\ GoesOn(old.init, new.init) /\ Continued(old.init, new.init) = new.init
  BY <1>1, GrowsOn DEF Extends
<1>16. GoesOn(old.containers, new.containers)
  <2>1. ASSUME NEW i \in 1..Len(old.containers) PROVE new.containers[i].name \in Names(old.containers)
    <3>1. old.containers[i] \in PodContainer /\ i \in DOMAIN old.containers
      BY <1>1
    <3>2. new.containers[i].name = old.containers[i].name
      BY <3>1 DEF Extends, Edited, PodContainer
    <3> QED BY <3>1, <3>2 DEF Names
  <2> QED BY <2>1 DEF Extends, GoesOn
<1>17. IsSeq(l1) /\ Run(Ok(p3), l1) = Ok(p4) /\ IsPod(p4)
  BY <1>1, <1>10, <1>14, <1>15, ListSegment DEF l1, p4, Lists, ListOf
<1>18. IsSeq(l2) /\ Run(Ok(p4), l2) = Ok(p5) /\ IsPod(p5)
  BY <1>1, <1>10, <1>15, <1>17, ListSegment DEF l2, p5, Lists, ListOf
<1>19. IsSeq(l3) /\ Run(Ok(p5), l3) = Ok(p6) /\ IsPod(p6)
  BY <1>1, <1>10, <1>16, <1>18, ListSegment DEF l3, p6, Lists, ListOf
<1>20. IsSeq(e) /\ Run(Ok(p6), e) = Ok(p7)
  <2>1. \A i \in 1..Len(old.containers) : Edited(old.containers[i], new.containers[i])
    BY DEF Extends
  <2>2. IsSeq(e) /\ Run(Ok(p6), e) = Ok([p6 EXCEPT !.containers = new.containers])
    BY <1>1, <1>8, <1>16, <1>19, <2>1, ContainerFieldsRun DEF e
  <2> QED BY <2>2 DEF p7, With
\* one after another
<1> DEFINE patch == a \o s1 \o s2 \o l1 \o l2 \o l3 \o e
<1>21. Run(Ok(old), patch) = Ok(p7)
  <2>1. IsSeq(a \o s1) /\ Run(Ok(old), a \o s1) = Ok(p2)
    BY <1>12, <1>13, RunConcat
  <2>2. IsSeq(a \o s1 \o s2) /\ Run(Ok(old), a \o s1 \o s2) = Ok(p3)
    BY <1>14, <2>1, RunConcat
  <2>3. IsSeq(a \o s1 \o s2 \o l1) /\ Run(Ok(old), a \o s1 \o s2 \o l1) = Ok(p4)
    BY <1>17, <2>2, RunConcat
  <2>4. IsSeq(a \o s1 \o s2 \o l1 \o l2) /\ Run(Ok(old), a \o s1 \o s2 \o l1 \o l2) = Ok(p5)
    BY <1>18, <2>3, RunConcat
  <2>5. IsSeq(a \o s1 \o s2 \o l1 \o l2 \o l3) /\ Run(Ok(old), a \o s1 \o s2 \o l1 \o l2 \o l3) = Ok(p6)
    BY <1>19, <2>4, RunConcat
  <2> QED BY <1>20, <2>5, RunConcat
<1>22. BuildPodInjectionPatch(old, new) = patch
  BY DEF BuildPodInjectionPatch, a, s1, s2, l1, l2, l3, e
<1> QED BY <1>11, <1>21, <1>22, ApplyIsRun
=============================================================================
