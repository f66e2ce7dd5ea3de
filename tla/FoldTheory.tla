----------------------------- MODULE FoldTheory -----------------------------
(***************************************************************************)
(* What a fold over a sequence comes to, step by step.  The webhook builds *)
(* containers, volumes and patches with FoldLeft; to reason about one of   *)
(* these folds, this module is instantiated with its operator, and with    *)
(* the invariant that is to hold along it.  Both take the context in which *)
(* the operator is used as their first argument.                           *)
(***************************************************************************)
EXTENDS Integers, Sequences, TLAPS

CONSTANTS Op(_, _, _), \* context, result so far, element
          Inv(_, _, _) \* context, number of elements folded, result so far

Largest(S) == CHOOSE x \in S : \A y \in S : x >= y

\* FoldLeft of the community modules, written out.
Fold(ctx, base, seq) ==
  LET iter[s \in SUBSET (DOMAIN seq)] ==
        IF s = {} THEN base ELSE LET x == Largest(s) IN Op(ctx, iter[s \ {x}], seq[x])
  IN  iter[DOMAIN seq]

-----------------------------------------------------------------------------

\* A set of numbers that is not empty has a least one.  It stands as a hypothesis:
\* the modules that instantiate this one prove it once.
Ordered == \A S \in SUBSET Nat : S # {} => \E x \in S : \A y \in S : x <= y

\* The largest number up to k is k.
THEOREM LargestIs ==
  /\ \A k \in Nat : k > 0 => Largest(1..k) = k
  /\ \A n \in Nat : \A s \in SUBSET (1..n + 1) : n + 1 \in s => Largest(s) = n + 1
<1>1. \A n \in Nat : \A s \in SUBSET (1..n + 1) : n + 1 \in s => Largest(s) = n + 1
  <2> SUFFICES ASSUME NEW n \in Nat, NEW s \in SUBSET (1..n + 1), n + 1 \in s
               PROVE  Largest(s) = n + 1
    OBVIOUS
  <2>1. \A y \in s : n + 1 >= y
    OBVIOUS
  <2>2. Largest(s) \in s /\ Largest(s) >= n + 1
    BY <2>1 DEF Largest
  <2>3. Largest(s) \in 1..n + 1
    BY <2>2
  <2> QED BY <2>2, <2>3
<1>2. \A k \in Nat : k > 0 => Largest(1..k) = k
  <2> SUFFICES ASSUME NEW k \in Nat, k > 0 PROVE Largest(1..k) = k
    OBVIOUS
  <2>1. k - 1 \in Nat /\ (k - 1) + 1 = k
    OBVIOUS
  <2>2. 1..k \in SUBSET (1..(k - 1) + 1) /\ (k - 1) + 1 \in 1..k
    BY <2>1
  <2> QED BY <1>1, <2>1, <2>2
<1> QED BY <1>1, <1>2

\* The function that Fold recurses with, for sequences of n elements.
Iterates(f, ctx, base, seq, n) ==
  f = [s \in SUBSET (1..n) |->
         IF s = {} THEN base ELSE Op(ctx, f[s \ {Largest(s)}], seq[Largest(s)])]

\* It exists: what it is for n + 1 elements follows from what it is for n.
THEOREM IterateExists == Ordered => \A ctx, base, seq : \A n \in Nat : \E f : Iterates(f, ctx, base, seq, n)
<1> SUFFICES ASSUME Ordered, NEW ctx, NEW base, NEW seq
             PROVE  \A n \in Nat : \E f : Iterates(f, ctx, base, seq, n)
  OBVIOUS
<1> DEFINE Bad == {n \in Nat : ~\E f : Iterates(f, ctx, base, seq, n)}
<1>1. SUFFICES ASSUME Bad # {} PROVE FALSE
  OBVIOUS
<1>2. PICK m \in Bad : \A y \in Bad : m <= y
  BY <1>1 DEF Ordered
<1>3. m # 0
  <2>1. Iterates([s \in SUBSET (1..0) |-> base], ctx, base, seq, 0)
    <3>1. \A s \in SUBSET (1..0) : s = {}
      OBVIOUS
    <3> QED BY <3>1 DEF Iterates
  <2> QED BY <1>2, <2>1
<1>4. PICK n \in Nat : m = n + 1 /\ n \notin Bad
  <2>1. m - 1 \in Nat /\ m = (m - 1) + 1 /\ ~(m <= m - 1)
    BY <1>2, <1>3
  <2> QED BY <1>2, <2>1
<1>5. PICK f : Iterates(f, ctx, base, seq, n)
  BY <1>4
<1> DEFINE g == [s \in SUBSET (1..n + 1) |->
                   IF n + 1 \in s THEN Op(ctx, f[s \ {n + 1}], seq[n + 1]) ELSE f[s]]
<1>6. ASSUME NEW s \in SUBSET (1..n + 1)
      PROVE  g[s] = IF s = {} THEN base ELSE Op(ctx, g[s \ {Largest(s)}], seq[Largest(s)])
  <2>1. CASE n + 1 \in s
    <3>1. Largest(s) = n + 1
      BY <2>1, LargestIs
    <3>2. s \ {n + 1} \in SUBSET (1..n + 1) /\ n + 1 \notin s \ {n + 1} /\ s # {}
      BY <2>1
    <3> QED BY <2>1, <3>1, <3>2
  <2>2. CASE n + 1 \notin s
    <3>1. s \in SUBSET (1..n)
      BY <2>2
    <3>2. g[s] = IF s = {} THEN base ELSE Op(ctx, f[s \ {Largest(s)}], seq[Largest(s)])
      BY <1>5, <2>2, <3>1 DEF Iterates
    <3>3. s \ {Largest(s)} \in SUBSET (1..n + 1) /\ n + 1 \notin s \ {Largest(s)}
      BY <2>2
    <3>4. g[s \ {Largest(s)}] = f[s \ {Largest(s)}]
      BY <3>3
    <3> QED BY <3>2, <3>4
  <2> QED BY <2>1, <2>2
<1>7. Iterates(g, ctx, base, seq, n + 1)
  BY <1>6 DEF Iterates
<1> QED BY <1>2, <1>4, <1>7

\* The results along a fold.
Runs(acc, ctx, base, seq, n) ==
  /\ acc[0] = base
  /\ \A k \in 1..n : acc[k] = Op(ctx, acc[k - 1], seq[k])

\* A fold is the last of its results, one for each element.
THEOREM FoldRuns ==
  Ordered =>
  \A ctx, base, seq : \A n \in Nat :
    DOMAIN seq = 1..n => \E acc : Runs(acc, ctx, base, seq, n) /\ Fold(ctx, base, seq) = acc[n]
<1> SUFFICES ASSUME Ordered, NEW ctx, NEW base, NEW seq, NEW n \in Nat, DOMAIN seq = 1..n
             PROVE  \E acc : Runs(acc, ctx, base, seq, n) /\ Fold(ctx, base, seq) = acc[n]
  OBVIOUS
<1> DEFINE f == CHOOSE f : Iterates(f, ctx, base, seq, n)
           acc == [k \in 0..n |-> f[1..k]]
<1>1. Iterates(f, ctx, base, seq, n)
  BY IterateExists
<1>2. Fold(ctx, base, seq) = f[1..n]
  BY DEF Fold, Iterates
<1> HIDE DEF f
<1>3. acc[0] = base
  <2>1. 1..0 = {} /\ 0 \in 0..n
    OBVIOUS
  <2>2. f[{}] = base
    BY <1>1 DEF Iterates
  <2> QED BY <2>1, <2>2
<1>4. ASSUME NEW k \in 1..n PROVE acc[k] = Op(ctx, acc[k - 1], seq[k])
  <2>1. 1..k \in SUBSET (1..n) /\ 1..k # {} /\ k \in 0..n /\ k - 1 \in 0..n
    <3>1. \A j \in 1..k : j \in 1..n
      OBVIOUS
    <3>2. k \in 1..k /\ k \in 0..n /\ k - 1 \in 0..n
      OBVIOUS
    <3> QED BY <3>1, <3>2
  <2>2. Largest(1..k) = k /\ 1..k \ {k} = 1..k - 1
    BY LargestIs
  <2>3. f[1..k] = Op(ctx, f[1..k - 1], seq[k])
    BY <1>1, <2>1, <2>2 DEF Iterates
  <2> QED BY <2>1, <2>3
<1>5. Fold(ctx, base, seq) = acc[n]
  BY <1>2
<1> HIDE DEF acc
<1> QED BY <1>3, <1>4, <1>5 DEF Runs

\* Two runs over the same elements are equal.
THEOREM RunsAgree ==
  Ordered =>
  \A ctx, base, seq, acc, other : \A n \in Nat :
    Runs(acc, ctx, base, seq, n) /\ Runs(other, ctx, base, seq, n) => acc[n] = other[n]
<1> SUFFICES ASSUME Ordered, NEW ctx, NEW base, NEW seq, NEW acc, NEW other, NEW n \in Nat,
                    Runs(acc, ctx, base, seq, n), Runs(other, ctx, base, seq, n)
             PROVE  acc[n] = other[n]
  OBVIOUS
<1> DEFINE Bad == {k \in 0..n : acc[k] # other[k]}
<1>1. SUFFICES ASSUME Bad # {} PROVE FALSE
  BY <1>1
<1>2. PICK k \in Bad : \A y \in Bad : k <= y
  <2>1. Bad \in SUBSET Nat
    OBVIOUS
  <2> HIDE DEF Bad
  <2> QED BY <1>1, <2>1 DEF Ordered
<1>3. k # 0 /\ k \in 1..n
  BY <1>2 DEF Runs
<1>4. k - 1 \in 0..n /\ ~(k <= k - 1)
  BY <1>3
<1>5. acc[k - 1] = other[k - 1]
  BY <1>2, <1>4
<1> QED BY <1>2, <1>3, <1>5 DEF Runs

\* What runs over the elements ends with the fold.
THEOREM FoldIs ==
  Ordered =>
  \A ctx, base, seq, acc : \A n \in Nat :
    DOMAIN seq = 1..n /\ Runs(acc, ctx, base, seq, n) => Fold(ctx, base, seq) = acc[n]
  BY FoldRuns, RunsAgree

\* What holds at first and is kept by each element holds of the fold.
THEOREM FoldKeeps ==
  Ordered =>
  \A ctx, base, seq : \A n \in Nat :
    /\ DOMAIN seq = 1..n
    /\ Inv(ctx, 0, base)
    /\ \A k \in 1..n : \A a : Inv(ctx, k - 1, a) => Inv(ctx, k, Op(ctx, a, seq[k]))
    => Inv(ctx, n, Fold(ctx, base, seq))
<1> SUFFICES ASSUME Ordered, NEW ctx, NEW base, NEW seq, NEW n \in Nat, DOMAIN seq = 1..n,
                    Inv(ctx, 0, base),
                    \A k \in 1..n : \A a : Inv(ctx, k - 1, a) => Inv(ctx, k, Op(ctx, a, seq[k]))
             PROVE  Inv(ctx, n, Fold(ctx, base, seq))
  OBVIOUS
<1>1. PICK acc : Runs(acc, ctx, base, seq, n) /\ Fold(ctx, base, seq) = acc[n]
  BY FoldRuns
<1> DEFINE Bad == {k \in 0..n : ~Inv(ctx, k, acc[k])}
<1>2. SUFFICES ASSUME Bad # {} PROVE FALSE
  BY <1>1, <1>2
<1>3. PICK k \in Bad : \A y \in Bad : k <= y
  <2>1. Bad \in SUBSET Nat
    OBVIOUS
  <2> HIDE DEF Bad
  <2> QED BY <1>2, <2>1 DEF Ordered
<1>4. k # 0 /\ k \in 1..n
  BY <1>1, <1>3 DEF Runs
<1>5. k - 1 \in 0..n /\ ~(k <= k - 1)
  BY <1>4
<1>6. Inv(ctx, k - 1, acc[k - 1])
  BY <1>3, <1>5
<1> QED BY <1>1, <1>3, <1>4, <1>6 DEF Runs

\* A fold over one sequence after another is a fold after a fold.
THEOREM FoldConcat ==
  Ordered =>
  \A ctx, base, s, t, both : \A m, n \in Nat :
    /\ DOMAIN s = 1..m /\ DOMAIN t = 1..n /\ DOMAIN both = 1..m + n
    /\ \A i \in 1..m : both[i] = s[i]
    /\ \A i \in 1..n : both[m + i] = t[i]
    => Fold(ctx, base, both) = Fold(ctx, Fold(ctx, base, s), t)
<1> SUFFICES ASSUME Ordered, NEW ctx, NEW base, NEW s, NEW t, NEW both, NEW m \in Nat, NEW n \in Nat,
                    DOMAIN s = 1..m, DOMAIN t = 1..n, DOMAIN both = 1..m + n,
                    \A i \in 1..m : both[i] = s[i], \A i \in 1..n : both[m + i] = t[i]
             PROVE  Fold(ctx, base, both) = Fold(ctx, Fold(ctx, base, s), t)
  OBVIOUS
<1>1. PICK acc : Runs(acc, ctx, base, both, m + n) /\ Fold(ctx, base, both) = acc[m + n]
  BY FoldRuns
<1>2. PICK first : Runs(first, ctx, base, s, m) /\ Fold(ctx, base, s) = first[m]
  BY FoldRuns
<1>3. PICK second : /\ Runs(second, ctx, Fold(ctx, base, s), t, n)
                    /\ Fold(ctx, Fold(ctx, base, s), t) = second[n]
  BY FoldRuns
<1>4. Runs(acc, ctx, base, s, m)
  <2>1. \A k \in 1..m : k \in 1..m + n
    OBVIOUS
  <2> QED BY <1>1, <2>1 DEF Runs
<1>5. acc[m] = Fold(ctx, base, s)
  BY <1>2, <1>4, RunsAgree
<1> DEFINE rest == [k \in 0..n |-> acc[m + k]]
<1>6. Runs(rest, ctx, Fold(ctx, base, s), t, n)
  <2>1. rest[0] = Fold(ctx, base, s)
    BY <1>5
  <2>2. ASSUME NEW k \in 1..n PROVE rest[k] = Op(ctx, rest[k - 1], t[k])
    <3>1. m + k \in 1..m + n /\ (m + k) - 1 = m + (k - 1) /\ k \in 0..n /\ k - 1 \in 0..n
      OBVIOUS
    <3>2. acc[m + k] = Op(ctx, acc[m + (k - 1)], both[m + k])
      BY <1>1, <3>1 DEF Runs
    <3> QED BY <3>1, <3>2
  <2> HIDE DEF rest
  <2> QED BY <2>1, <2>2 DEF Runs
<1>7. rest[n] = second[n]
  BY <1>3, <1>6, RunsAgree
<1> QED BY <1>1, <1>3, <1>7

\* A fold over nothing, and over one element.
THEOREM FoldFew ==
  Ordered =>
  \A ctx, base, seq :
    /\ DOMAIN seq = {} => Fold(ctx, base, seq) = base
    /\ DOMAIN seq = {1} => Fold(ctx, base, seq) = Op(ctx, base, seq[1])
<1> SUFFICES ASSUME Ordered, NEW ctx, NEW base, NEW seq
             PROVE  /\ DOMAIN seq = {} => Fold(ctx, base, seq) = base
                    /\ DOMAIN seq = {1} => Fold(ctx, base, seq) = Op(ctx, base, seq[1])
  OBVIOUS
<1>1. CASE DOMAIN seq = {}
  <2>1. DOMAIN seq = 1..0
    BY <1>1
  <2> QED BY <1>1, <2>1, FoldRuns DEF Runs
<1>2. CASE DOMAIN seq = {1}
  <2>1. DOMAIN seq = 1..1
    BY <1>2
  <2>2. PICK acc : Runs(acc, ctx, base, seq, 1) /\ Fold(ctx, base, seq) = acc[1]
    <3> HIDE DEF Fold, Runs
    <3>1. 1 \in Nat
      OBVIOUS
    <3>2. \A n \in Nat : DOMAIN seq = 1..n => \E acc : Runs(acc, ctx, base, seq, n) /\ Fold(ctx, base, seq) = acc[n]
      BY FoldRuns
    <3> QED BY <2>1, <3>1, <3>2
  <2>3. 1 \in 1..1 /\ 1 - 1 = 0
    OBVIOUS
  <2> QED BY <1>2, <2>2, <2>3 DEF Runs
<1> QED BY <1>1, <1>2

-----------------------------------------------------------------------------
(* Folds that keep some of the elements *)

\* Of the first n elements, those of T.
Filters(ctx, seq, n, T) ==
  \A k \in 1..n : \A a : Op(ctx, a, seq[k]) = IF seq[k] \in T THEN Append(a, seq[k]) ELSE a

Filtered(r, seq, n, T) ==
  /\ r \in Seq({seq[k] : k \in 1..n} \cap T)
  /\ \A k \in 1..n : seq[k] \in T => \E j \in DOMAIN r : r[j] = seq[k]

\* Those that the fold keeps are in the result, and nothing else is.
THEOREM FoldFilters ==
  Ordered =>
  \A ctx, seq, T : \A n \in Nat :
    DOMAIN seq = 1..n /\ Filters(ctx, seq, n, T) => Filtered(Fold(ctx, <<>>, seq), seq, n, T)
<1> SUFFICES ASSUME Ordered, NEW ctx, NEW seq, NEW T, NEW n \in Nat, DOMAIN seq = 1..n, Filters(ctx, seq, n, T)
             PROVE  Filtered(Fold(ctx, <<>>, seq), seq, n, T)
  OBVIOUS
<1> DEFINE S == {seq[k] : k \in 1..n} \cap T
           Kept(k, a) == a \in Seq(S) /\ \A i \in 1..k : seq[i] \in T => \E j \in DOMAIN a : a[j] = seq[i]
<1>1. PICK acc : Runs(acc, ctx, <<>>, seq, n) /\ Fold(ctx, <<>>, seq) = acc[n]
  BY FoldRuns
<1> DEFINE Bad == {k \in 0..n : ~Kept(k, acc[k])}
<1>2. SUFFICES ASSUME Bad # {} PROVE FALSE
  <2>1. ASSUME Bad = {} PROVE Kept(n, acc[n])
    <3> HIDE DEF Kept
    <3> QED BY <2>1
  <2>2. Bad = {}
    BY <1>2
  <2> HIDE DEF Bad
  <2> QED BY <1>1, <2>1, <2>2 DEF Filtered
<1>3. PICK k \in Bad : \A y \in Bad : k <= y
  <2>1. Bad \in SUBSET Nat
    OBVIOUS
  <2> HIDE DEF Bad
  <2> QED BY <1>2, <2>1 DEF Ordered
<1>4. k # 0
  <2>1. acc[0] = <<>> /\ 1..0 = {}
    BY <1>1 DEF Runs
  <2>2. Kept(0, acc[0])
    BY <2>1
  <2> HIDE DEF Kept
  <2> QED BY <1>3, <2>2
<1>5. k \in 1..n /\ k - 1 \in 0..n /\ ~(k <= k - 1)
  BY <1>3, <1>4
<1>6. Kept(k - 1, acc[k - 1])
  <2> HIDE DEF Kept
  <2> QED BY <1>3, <1>5
<1>7. acc[k] = IF seq[k] \in T THEN Append(acc[k - 1], seq[k]) ELSE acc[k - 1]
  BY <1>1, <1>5 DEF Runs, Filters
<1>8. Kept(k, acc[k])
  <2> DEFINE a == acc[k - 1]
  <2>1. a \in Seq(S)
    BY <1>6
  <2>2. \A i \in 1..k - 1 : seq[i] \in T => \E j \in DOMAIN a : a[j] = seq[i]
    BY <1>6
  <2>3. \A i \in 1..k : i \in 1..k - 1 \/ i = k
    BY <1>5
  <2> HIDE DEF a
  <2>4. CASE seq[k] \in T
    <3>1. seq[k] \in S
      BY <1>5, <2>4
    <3> HIDE DEF S
    <3>2. /\ Append(a, seq[k]) \in Seq(S)
          /\ DOMAIN a \subseteq DOMAIN Append(a, seq[k])
          /\ Len(a) + 1 \in DOMAIN Append(a, seq[k]) /\ Append(a, seq[k])[Len(a) + 1] = seq[k]
          /\ \A j \in DOMAIN a : Append(a, seq[k])[j] = a[j]
      BY <2>1, <3>1
    <3>3. acc[k] = Append(a, seq[k])
      BY <1>7, <2>4 DEF a
    <3> QED BY <2>2, <2>3, <3>2, <3>3
  <2>5. CASE seq[k] \notin T
    <3> HIDE DEF S
    <3>1. acc[k] = a
      BY <1>7, <2>5 DEF a
    <3> QED BY <2>1, <2>2, <2>3, <2>5, <3>1
  <2> QED BY <2>4, <2>5
<1> HIDE DEF Kept
<1> QED BY <1>3, <1>8

\* A fold that passes over the first elements and keeps the rest.
PassesOver(ctx, seq, m, n) ==
  /\ \A k \in 1..m : \A a : Op(ctx, a, seq[k]) = a
  /\ \A k \in m + 1..n : \A a : Op(ctx, a, seq[k]) = Append(a, seq[k])

THEOREM FoldTail ==
  Ordered =>
  \A ctx, seq : \A m, n \in Nat :
    DOMAIN seq = 1..n /\ m <= n /\ PassesOver(ctx, seq, m, n)
    => Fold(ctx, <<>>, seq) = [j \in 1..n - m |-> seq[m + j]]
<1> SUFFICES ASSUME Ordered, NEW ctx, NEW seq, NEW m \in Nat, NEW n \in Nat, DOMAIN seq = 1..n, m <= n,
                    PassesOver(ctx, seq, m, n)
             PROVE  Fold(ctx, <<>>, seq) = [j \in 1..n - m |-> seq[m + j]]
  OBVIOUS
<1> DEFINE S == {seq[i] : i \in 1..n}
           Rest(k) == [j \in 1..k - m |-> seq[m + j]]
           acc == [k \in 0..n |-> IF k <= m THEN <<>> ELSE Rest(k)]
<1>1. acc[0] = <<>>
  OBVIOUS
<1>2. ASSUME NEW k \in 1..n PROVE acc[k] = Op(ctx, acc[k - 1], seq[k])
  <2>1. k \in 0..n /\ k - 1 \in 0..n
    OBVIOUS
  <2>2. CASE k <= m
    <3>1. acc[k] = <<>> /\ acc[k - 1] = <<>> /\ k \in 1..m
      BY <2>1, <2>2
    <3> QED BY <3>1 DEF PassesOver
  <2>3. CASE ~(k <= m)
    <3>1. acc[k] = Rest(k) /\ k \in m + 1..n
      BY <2>1, <2>3
    <3>2. acc[k - 1] = [j \in 1..(k - 1) - m |-> seq[m + j]]
      <4>1. CASE k - 1 <= m
        <5>1. 1..(k - 1) - m = {} /\ acc[k - 1] = <<>>
          BY <2>1, <4>1
        <5> QED BY <5>1
      <4>2. CASE ~(k - 1 <= m)
        BY <2>1, <4>2
      <4> QED BY <4>1, <4>2
    <3> DEFINE a == [j \in 1..(k - 1) - m |-> seq[m + j]]
               l == (k - 1) - m
    <3>3. l \in Nat /\ k - m = l + 1 /\ m + (l + 1) = k
      BY <2>3
    <3>4. a \in [1..l -> S] /\ seq[k] \in S
      <4>1. \A j \in 1..l : m + j \in 1..n
        BY <3>3
      <4> QED BY <4>1
    <3> HIDE DEF S
    <3>5. a \in Seq(S) /\ Len(a) = l
      <4>1. DOMAIN a = 1..l
        OBVIOUS
      <4> HIDE DEF a, l
      <4>2. a \in Seq(S)
        BY <3>3, <3>4
      <4> QED BY <3>3, <4>1, <4>2
    <3>6. Append(a, seq[k]) = [j \in 1..l + 1 |-> IF j = l + 1 THEN seq[k] ELSE a[j]]
      <4> HIDE DEF a, l
      <4>1. /\ Append(a, seq[k]) \in Seq(S) /\ Len(Append(a, seq[k])) = l + 1
            /\ \A i \in 1..l : Append(a, seq[k])[i] = a[i]
            /\ Append(a, seq[k])[l + 1] = seq[k]
        <5> DEFINE e == seq[k]
        <5>1. e \in S
          BY <3>4
        <5> HIDE DEF e
        <5>2. /\ Append(a, e) \in Seq(S) /\ Len(Append(a, e)) = Len(a) + 1
              /\ \A i \in 1..Len(a) : Append(a, e)[i] = a[i]
              /\ Append(a, e)[Len(a) + 1] = e
          BY <3>5, <5>1
        <5> QED BY <3>5, <5>2 DEF e
      <4> DEFINE b == Append(a, seq[k])
      <4>2. b = [j \in 1..l + 1 |-> b[j]]
        BY <3>3, <4>1
      <4>3. \A j \in 1..l + 1 : b[j] = IF j = l + 1 THEN seq[k] ELSE a[j]
        <5>1. \A j \in 1..l + 1 : j = l + 1 \/ (j \in 1..l /\ j # l + 1)
          BY <3>3
        <5> QED BY <4>1, <5>1
      <4> HIDE DEF b
      <4>4. b = [j \in 1..l + 1 |-> IF j = l + 1 THEN seq[k] ELSE a[j]]
        BY <4>2, <4>3
      <4> QED BY <4>4 DEF b
    <3>7. Rest(k) = [j \in 1..l + 1 |-> IF j = l + 1 THEN seq[k] ELSE a[j]]
      <4>1. \A j \in 1..l + 1 : j = l + 1 \/ j \in 1..l
        BY <3>3
      <4> QED BY <3>3, <4>1
    <3>8. Op(ctx, a, seq[k]) = Append(a, seq[k])
      BY <3>1 DEF PassesOver
    <3> QED BY <3>1, <3>2, <3>6, <3>7, <3>8 DEF a
  <2> QED BY <2>2, <2>3
<1>3. Runs(acc, ctx, <<>>, seq, n)
  <2> HIDE DEF acc
  <2> QED BY <1>1, <1>2 DEF Runs
<1>4. Fold(ctx, <<>>, seq) = acc[n]
  <2> HIDE DEF acc
  <2> QED BY <1>3, FoldIs
<1>5. acc[n] = [j \in 1..n - m |-> seq[m + j]]
  <2>1. CASE n <= m
    <3>1. 1..n - m = {} /\ acc[n] = <<>>
      BY <2>1
    <3> QED BY <3>1
  <2> QED BY <2>1
<1> QED BY <1>4, <1>5
=============================================================================
