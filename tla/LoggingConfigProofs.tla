------------------------ MODULE LoggingConfigProofs ------------------------
(***************************************************************************)
(* Theorems about LoggingConfig, for any names, specs and number of        *)
(* changes: no change is lost between the store and the list, the list has *)
(* one entry per name, and keeps its order.                                *)
(***************************************************************************)
EXTENDS LoggingConfig, SequenceTheorems, FiniteSetTheorems, WellFoundedInduction, TLAPS

USE ConfigAssumption DEF ConfigAssumption

-----------------------------------------------------------------------------
(* Versions *)

\* A set of naturals with an upper bound has a greatest element.
LEMMA GreatestExists ==
  ASSUME NEW v \in Nat, NEW S \in SUBSET (1..v), S # {}
  PROVE  \E i \in S : \A j \in S : j <= i
<1> DEFINE T == {v - i : i \in S}
<1>1. T \subseteq Nat /\ T # {}
  <2>1. \A i \in S : i \in 1..v /\ v - i \in Nat
    OBVIOUS
  <2>2. PICK i \in S : TRUE
    OBVIOUS
  <2>3. v - i \in T
    OBVIOUS
  <2> QED
    BY <2>1, <2>3
<1>2. PICK x \in T : \A y \in T : ~(<<y, x>> \in OpToRel(<, Nat))
  <2> HIDE DEF T
  <2> QED
    BY <1>1, NatLessThanWellFounded, WFMin
<1>3. PICK i \in S : x = v - i
  OBVIOUS
<1>4. ASSUME NEW j \in S PROVE j <= i
  <2>1. v - j \in T /\ v - j \in Nat /\ x \in Nat
    OBVIOUS
  <2>2. ~(v - j < x)
    BY <1>2, <2>1 DEF OpToRel
  <2> QED
    BY <2>2, <1>3
<1> QED
  BY <1>4

LEMMA LastOfIs ==
  ASSUME NEW log, NEW n, NEW v \in Nat
  PROVE  /\ LastOf(log, n, v) \in 0..v
         /\ LastOf(log, n, v) # 0 => log[LastOf(log, n, v)].name = n
         /\ \A i \in 1..v : log[i].name = n => i <= LastOf(log, n, v)
<1> DEFINE of == {i \in 1..v : log[i].name = n}
<1>1. CASE of = {}
  BY <1>1 DEF LastOf
<1>2. CASE of # {}
  <2>1. \E i \in of : \A j \in of : j <= i
    BY <1>2, GreatestExists
  <2>2. LastOf(log, n, v) = CHOOSE i \in of : \A j \in of : j <= i
    BY <1>2 DEF LastOf
  <2> DEFINE last == LastOf(log, n, v)
  <2>3. last \in of /\ \A j \in of : j <= last
    <3> HIDE DEF of, last
    <3> QED
      BY <2>1, <2>2 DEF last
  <2> QED
    BY <2>3
<1> QED
  BY <1>1, <1>2

\* It depends on the first v changes only.
LEMMA LastOfSame ==
  ASSUME NEW log, NEW longer, NEW n, NEW v \in Nat,
         \A i \in 1..v : longer[i] = log[i]
  PROVE  LastOf(longer, n, v) = LastOf(log, n, v)
<1> DEFINE a == LastOf(log, n, v)
           b == LastOf(longer, n, v)
<1>1. /\ a \in 0..v /\ (a # 0 => log[a].name = n)
      /\ \A i \in 1..v : log[i].name = n => i <= a
  BY LastOfIs
<1>2. /\ b \in 0..v /\ (b # 0 => longer[b].name = n)
      /\ \A i \in 1..v : longer[i].name = n => i <= b
  BY LastOfIs
<1> HIDE DEF a, b
<1>3. a <= b
  BY <1>1, <1>2
<1>4. b <= a
  BY <1>1, <1>2
<1> QED
  BY <1>1, <1>2, <1>3, <1>4 DEF a, b

-----------------------------------------------------------------------------
(* The list *)

IsMap(list) == \A i, j \in 1..Len(list) : list[i].name = list[j].name => i = j

LEMMA FirstIs ==
  ASSUME NEW list \in Seq(Entry), IsMap(list), NEW k \in 1..Len(list), NEW n,
         list[k].name = n
  PROVE  /\ Position(list, n) = {k}
         /\ First(Position(list, n)) = k
         /\ ShownIn(list, n) = list[k].version
<1>1. Position(list, n) = {k}
  BY DEF Position, IsMap
<1>2. First({k}) = k
  BY DEF First
<1> QED
  BY <1>1, <1>2 DEF ShownIn

LEMMA NotShown ==
  ASSUME NEW list, NEW n, \A i \in 1..Len(list) : list[i].name # n
  PROVE  Position(list, n) = {} /\ ShownIn(list, n) = 0
BY DEF Position, ShownIn

\* An entry is changed in place, or added at the end.
LEMMA PutChanges ==
  ASSUME NEW list \in Seq(Entry), IsMap(list), NEW n \in Names, NEW v \in Nat
  PROVE  LET new == Put(list, n, v) IN
         /\ new \in Seq(Entry)
         /\ \/ /\ \A i \in 1..Len(list) : list[i].name # n
               /\ Len(new) = Len(list) + 1
               /\ new[Len(list) + 1] = [name |-> n, version |-> v]
               /\ \A i \in 1..Len(list) : new[i] = list[i]
            \/ \E k \in 1..Len(list) :
                 /\ list[k].name = n
                 /\ Len(new) = Len(list)
                 /\ new[k] = [name |-> n, version |-> v]
                 /\ \A i \in 1..Len(list) : i # k => new[i] = list[i]
<1> DEFINE entry == [name |-> n, version |-> v]
<1>1. entry \in Entry
  BY DEF Entry
<1>2. CASE Position(list, n) = {}
  <2>1. Put(list, n, v) = Append(list, entry)
    BY <1>2 DEF Put
  <2>2. \A i \in 1..Len(list) : list[i].name # n
    BY <1>2 DEF Position
  <2> HIDE DEF entry
  <2>3. /\ Append(list, entry) \in Seq(Entry)
        /\ Len(Append(list, entry)) = Len(list) + 1
        /\ \A i \in 1..Len(list) : Append(list, entry)[i] = list[i]
        /\ Append(list, entry)[Len(list) + 1] = entry
    BY <1>1, AppendProperties
  <2> QED
    BY <2>1, <2>2, <2>3 DEF entry
<1>3. CASE Position(list, n) # {}
  <2>1. PICK k \in 1..Len(list) : list[k].name = n
    BY <1>3 DEF Position
  <2>2. First(Position(list, n)) = k
    BY <2>1, FirstIs
  <2>3. Put(list, n, v) = [list EXCEPT ![k] = entry]
    BY <1>3, <2>2 DEF Put
  <2> HIDE DEF entry
  <2>4. /\ [list EXCEPT ![k] = entry] \in Seq(Entry)
        /\ Len([list EXCEPT ![k] = entry]) = Len(list)
        /\ \A j \in 1..Len(list) :
             [list EXCEPT ![k] = entry][j] = IF j = k THEN entry ELSE list[j]
    BY <1>1, ExceptSeq
  <2> QED
    BY <2>1, <2>3, <2>4 DEF entry
<1> QED
  BY <1>2, <1>3

\* What follows a deleted entry moves up.
LEMMA DropChanges ==
  ASSUME NEW list \in Seq(Entry), IsMap(list), NEW n
  PROVE  LET new == Drop(list, n) IN
         /\ new \in Seq(Entry)
         /\ \/ (\A i \in 1..Len(list) : list[i].name # n) /\ new = list
            \/ \E k \in 1..Len(list) :
                 /\ list[k].name = n
                 /\ Len(new) = Len(list) - 1
                 /\ \A i \in 1..Len(new) : new[i] = IF i < k THEN list[i] ELSE list[i + 1]
<1>1. CASE Position(list, n) = {}
  BY <1>1 DEF Position, Drop
<1>2. CASE Position(list, n) # {}
  <2>1. PICK k \in 1..Len(list) : list[k].name = n
    BY <1>2 DEF Position
  <2>2. First(Position(list, n)) = k
    BY <2>1, FirstIs
  <2> DEFINE front == SubSeq(list, 1, k - 1)
             back == SubSeq(list, k + 1, Len(list))
  <2>3. Drop(list, n) = front \o back
    BY <1>2, <2>2 DEF Drop
  <2>4. Len(list) \in Nat /\ \A i \in 1..Len(list) : list[i] \in Entry
    OBVIOUS
  <2>5. /\ front \in Seq(Entry) /\ Len(front) = k - 1
        /\ \A i \in 1..(k - 1) : front[i] = list[i]
    <3>1. \A i \in 1..(k - 1) : list[i] \in Entry
      BY <2>4
    <3>2. /\ front \in Seq(Entry)
          /\ Len(front) = IF 1 <= k - 1 THEN (k - 1) - 1 + 1 ELSE 0
          /\ \A i \in 1..((k - 1) - 1 + 1) : front[i] = list[1 + i - 1]
      BY <3>1, SubSeqProperties
    <3> HIDE DEF front
    <3> QED
      BY <3>2
  <2>6. /\ back \in Seq(Entry) /\ Len(back) = Len(list) - k
        /\ \A i \in 1..(Len(list) - k) : back[i] = list[k + i]
    <3>1. \A i \in (k + 1)..Len(list) : list[i] \in Entry
      BY <2>4
    <3>2. /\ back \in Seq(Entry)
          /\ Len(back) = IF k + 1 <= Len(list) THEN Len(list) - (k + 1) + 1 ELSE 0
          /\ \A i \in 1..(Len(list) - (k + 1) + 1) : back[i] = list[(k + 1) + i - 1]
      BY <3>1, <2>4, SubSeqProperties
    <3> HIDE DEF back
    <3> QED
      BY <3>2, <2>4
  <2> HIDE DEF front, back
  <2>7. /\ front \o back \in Seq(Entry)
        /\ Len(front \o back) = Len(list) - 1
        /\ \A i \in 1..(Len(list) - 1) :
             (front \o back)[i] = IF i < k THEN list[i] ELSE list[i + 1]
    <3>1. /\ front \o back \in Seq(Entry)
          /\ Len(front \o back) = Len(front) + Len(back)
          /\ \A i \in 1..Len(front) + Len(back) :
               (front \o back)[i] = IF i <= Len(front) THEN front[i] ELSE back[i - Len(front)]
      BY <2>5, <2>6, ConcatProperties
    <3>2. Len(front) + Len(back) = Len(list) - 1
      BY <2>4, <2>5, <2>6
    <3>3. ASSUME NEW i \in 1..(Len(list) - 1)
          PROVE  (front \o back)[i] = IF i < k THEN list[i] ELSE list[i + 1]
      <4>1. CASE i < k
        <5>1. i \in 1..(k - 1) /\ i <= Len(front)
          BY <4>1, <2>4, <2>5
        <5> QED
          BY <4>1, <5>1, <3>1, <3>2, <2>5
      <4>2. CASE ~(i < k)
        <5>1. ~(i <= Len(front)) /\ i - Len(front) \in 1..(Len(list) - k)
              /\ k + (i - Len(front)) = i + 1
          BY <4>2, <2>4, <2>5
        <5>2. (front \o back)[i] = back[i - Len(front)]
          BY <5>1, <3>1, <3>2
        <5>3. back[i - Len(front)] = list[k + (i - Len(front))]
          BY <5>1, <2>6
        <5> QED
          BY <4>2, <5>1, <5>2, <5>3
      <4> QED
        BY <4>1, <4>2
    <3> QED
      BY <3>1, <3>2, <3>3
  <2> QED
    BY <2>1, <2>3, <2>7
<1> QED
  BY <1>1, <1>2
-----------------------------------------------------------------------------
(* What steps leave alone *)

\* The log of changes only grows.
LogGrows ==
  /\ Len(changes) <= Len(changes')
  /\ \A i \in 1..Len(changes) : changes'[i] = changes[i]

LEMMA TypeFacts ==
  ASSUME TypeOK
  PROVE  /\ Len(changes) \in Nat /\ received \in Nat /\ received <= Len(changes)
         /\ \A i \in 1..Len(changes) : changes[i] \in Change
         /\ Len(configs) \in Nat
         /\ \A i \in 1..Len(configs) :
              /\ configs[i] \in Entry
              /\ configs[i].name \in Names /\ configs[i].version \in Nat
         /\ worker.at \in WorkerPoints /\ worker.name \in Names /\ worker.found \in Nat
<1>1. changes \in Seq(Change) /\ configs \in Seq(Entry) /\ received \in 0..Len(changes)
  BY DEF TypeOK
<1>2. Len(changes) \in Nat /\ \A i \in 1..Len(changes) : changes[i] \in Change
  BY <1>1
<1>3. Len(configs) \in Nat /\ \A i \in 1..Len(configs) : configs[i] \in Entry
  BY <1>1
<1>4. \A i \in 1..Len(configs) : configs[i].name \in Names /\ configs[i].version \in Nat
  BY <1>3 DEF Entry
<1>5. worker.at \in WorkerPoints /\ worker.name \in Names /\ worker.found \in Nat
  BY DEF TypeOK
<1> QED
  BY <1>1, <1>2, <1>3, <1>4, <1>5

\* A list that is not touched stays right while the store moves on.
LEMMA ListStays ==
  ASSUME Inv, UNCHANGED configs, LogGrows, received' \in Nat, received <= received'
  PROVE  ListIsMap'
<1>1. TypeOK /\ ListIsMap
  BY DEF Inv
<1>2. \A i \in 1..Len(configs) :
        /\ configs[i].version <= received'
        /\ configs[i].version \in 1..Len(changes)
  BY <1>1, TypeFacts DEF ListIsMap, Exists
<1> QED
  BY <1>1, <1>2 DEF ListIsMap, LogGrows, Exists

\* So does what the worker holds.
LEMMA WorkerStays ==
  ASSUME Inv, UNCHANGED configs, LogGrows, received' \in Nat, received <= received',
         UNCHANGED worker \/ worker'.at # "apply"
  PROVE  WorkerInv'
<1>1. CASE worker'.at # "apply"
  BY <1>1 DEF WorkerInv
<1>2. CASE UNCHANGED worker
  <2>1. TypeOK /\ WorkerInv
    BY DEF Inv
  <2>2. (worker.at = "apply" /\ worker.found # 0) => worker.found \in 1..Len(changes)
    BY <2>1, TypeFacts DEF WorkerInv
  <2> QED
    BY <1>2, <2>1, <2>2, TypeFacts DEF WorkerInv, LogGrows
<1> QED
  BY <1>1, <1>2

\* The store shows the same of a name as long as it does not move.
LEMMA StoreStays ==
  ASSUME Inv, LogGrows, UNCHANGED received, NEW n
  PROVE  /\ InStore(n)' = InStore(n)
         /\ InStore(n) \in 0..Len(changes)
         /\ \A v \in 0..Len(changes) : Exists(v)' <=> Exists(v)
<1>1. TypeOK
  BY DEF Inv
<1>2. \A i \in 1..received : changes'[i] = changes[i]
  BY <1>1, TypeFacts DEF LogGrows
<1>3. LastOf(changes', n, received) = LastOf(changes, n, received)
  BY <1>1, <1>2, TypeFacts, LastOfSame
<1>4. LastOf(changes, n, received) \in 0..received
  BY <1>1, TypeFacts, LastOfIs
<1>5. InStore(n)' = InStore(n)
  BY <1>3 DEF InStore, VersionAt
<1>6. InStore(n) \in 0..Len(changes)
  BY <1>1, <1>4, TypeFacts DEF InStore, VersionAt
<1>7. ASSUME NEW v \in 0..Len(changes) PROVE Exists(v)' <=> Exists(v)
  <2>1. CASE v = 0
    BY <2>1 DEF Exists
  <2>2. CASE v # 0
    <3>1. v \in 1..Len(changes)
      BY <2>2, <1>1, TypeFacts
    <3>2. changes'[v] = changes[v]
      BY <3>1 DEF LogGrows
    <3> QED
      BY <3>2 DEF Exists
  <2> QED
    BY <2>1, <2>2
<1> QED
  BY <1>5, <1>6, <1>7


\* Steps that do not touch the store or the list.
LEMMA SameStore ==
  ASSUME UNCHANGED <<changes, received, configs>>, NEW m
  PROVE  /\ InStore(m)' = InStore(m) /\ Agrees(m)' = Agrees(m)
         /\ \A w : Exists(w)' <=> Exists(w)
<1>1. InStore(m)' = InStore(m) /\ Shown(m)' = Shown(m)
  BY DEF InStore, VersionAt, Shown
<1>2. \A w : Exists(w)' <=> Exists(w)
  BY DEF Exists
<1>3. Exists(InStore(m))' <=> Exists(InStore(m))
  BY <1>1 DEF Exists
<1> QED
  BY <1>1, <1>2, <1>3 DEF Agrees

\* It is enough that a step keeps every name that agrees or is pending so.
Kept(m) ==
  /\ Pending(m) => Pending(m)'
  /\ Agrees(m) => (Agrees(m)' \/ Pending(m)')

LEMMA NothingIsLost ==
  ASSUME Inv, \A m \in Names : Kept(m), watcher = "stopped" => watcher' = "stopped",
         UNCHANGED worker \/ worker'.at # "apply" \/ Pending(worker.name)'
  PROVE  NothingLost' /\ HeldIsPending'
<1>1. TypeOK /\ NothingLost /\ HeldIsPending
  BY DEF Inv
<1>2. ~ShutDown' => ~ShutDown
  BY DEF ShutDown
<1>3. NothingLost'
  BY <1>1, <1>2 DEF NothingLost, Kept
<1>4. CASE UNCHANGED worker
  <2>1. worker.name \in Names
    BY <1>1, TypeFacts
  <2>2. Pending(worker.name) => Pending(worker.name)'
    BY <1>4, <2>1 DEF Kept, Pending
  <2> QED
    BY <1>1, <1>2, <1>3, <1>4, <2>2 DEF HeldIsPending
<1>5. CASE worker'.at # "apply" \/ Pending(worker.name)'
  BY <1>3, <1>5 DEF HeldIsPending
<1> QED
  BY <1>4, <1>5

LEMMA Initially == Init => Inv
<1> SUFFICES ASSUME Init PROVE Inv
  OBVIOUS
<1>1. SomeName \in Names
  BY DEF SomeName
<1>2. TypeOK
  <2>1. /\ changes \in Seq(Change) /\ notices \in Seq(Names) /\ queue \in Seq(Names)
        /\ configs \in Seq(Entry)
    BY EmptySeq DEF Init
  <2>2. received \in 0..Len(changes) /\ waiting \subseteq Names /\ dirty \subseteq Names
    BY EmptySeq DEF Init
  <2>3. worker \in [at: WorkerPoints, name: Names, found: Nat]
    BY <1>1 DEF Init, WorkerPoints
  <2>4. watcher \in WatcherPoints /\ cancelled \in BOOLEAN
    BY DEF Init, WatcherPoints
  <2> QED
    BY <2>1, <2>2, <2>3, <2>4 DEF TypeOK
<1>3. Len(configs) = 0 /\ Len(queue) = 0
  BY EmptySeq DEF Init
<1>4. QueueMatchesDirty /\ WorkerInv /\ HeldIsPending /\ ListIsMap
  BY <1>3 DEF Init, QueueMatchesDirty, WorkerInv, HeldIsPending, ListIsMap
<1>5. NothingLost
  <2>1. ASSUME NEW n \in Names PROVE Agrees(n)
    <3>1. InStore(n) = 0
      <4>1. LastOf(changes, n, 0) \in 0..0
        BY LastOfIs
      <4> QED
        BY <4>1 DEF Init, InStore, VersionAt
    <3>2. Shown(n) = 0
      BY <1>3, NotShown DEF Shown
    <3> QED
      BY <3>1, <3>2 DEF Agrees, Exists
  <2> QED
    BY <2>1 DEF NothingLost
<1> QED
  BY <1>2, <1>4, <1>5 DEF Inv

-----------------------------------------------------------------------------
(* The API server and the informer *)

LEMMA ApiChangeKeeps ==
  ASSUME Inv, NEW n \in Names, NEW spec \in Specs \cup {Gone}, ApiChange(n, spec)
  PROVE  Inv'
<1> TypeOK
  BY DEF Inv
<1> DEFINE change == [name |-> n, spec |-> spec]
<1>1. change \in Change
  BY DEF Change
<1> HIDE DEF change
<1>2. /\ changes' \in Seq(Change)
      /\ Len(changes') = Len(changes) + 1
      /\ \A i \in 1..Len(changes) : changes'[i] = changes[i]
  BY <1>1, AppendProperties DEF ApiChange, TypeOK, change
<1>3. LogGrows
  BY <1>2, TypeFacts DEF LogGrows
<1>4. UNCHANGED <<received, notices, waiting, queue, dirty, worker, configs, watcher, cancelled>>
  BY DEF ApiChange
<1>5. TypeOK'
  BY <1>2, <1>4, TypeFacts DEF TypeOK
<1>6. QueueMatchesDirty'
  BY <1>4 DEF Inv, QueueMatchesDirty, Processing
<1>7. WorkerInv' /\ ListIsMap'
  BY <1>3, <1>4, TypeFacts, WorkerStays, ListStays
<1>8. ASSUME NEW m \in Names PROVE Kept(m)
  <2>1. InStore(m)' = InStore(m) /\ (Exists(InStore(m))' <=> Exists(InStore(m)))
    BY <1>3, <1>4, StoreStays
  <2>2. Agrees(m) => Agrees(m)'
    BY <2>1, <1>4 DEF Agrees, Shown, ShownIn, Position, First, Exists
  <2>3. worker.at = "apply" => (Exists(worker.found)' <=> Exists(worker.found))
    BY <1>3, <1>4, StoreStays, TypeFacts DEF Inv, WorkerInv, Exists, LogGrows
  <2>4. Pending(m) => Pending(m)'
    BY <2>1, <2>3, <1>4 DEF Pending, Exists
  <2> QED
    BY <2>2, <2>4 DEF Kept
<1>9. NothingLost' /\ HeldIsPending'
  BY <1>4, <1>8, NothingIsLost
<1> QED
  BY <1>5, <1>6, <1>7, <1>9 DEF Inv

LEMMA ReceiveKeeps ==
  ASSUME Inv, Receive
  PROVE  Inv'
<1>0. TypeOK
  BY DEF Inv
<1>1. PICK v \in received + 1..Len(changes) :
        /\ received' = v
        /\ \E calls \in Calls(Announced(received, v)) : notices' = notices \o calls
  BY DEF Receive
<1>2. v \in Nat /\ v <= Len(changes) /\ received < v
  BY <1>0, <1>1, TypeFacts
<1>3. UNCHANGED <<changes, waiting, queue, dirty, worker, configs, watcher, cancelled>>
  BY DEF Receive
<1>4. LogGrows
  BY <1>3, <1>0, TypeFacts DEF LogGrows
<1>5. PICK calls \in Calls(Announced(received, v)) : notices' = notices \o calls
  BY <1>1
<1> DEFINE names == Announced(received, v)
           size == Cardinality(names)
<1>6. names \subseteq Names /\ IsFiniteSet(names) /\ size \in Nat
  <2>1. names \subseteq Names
    BY DEF Announced
  <2> HIDE DEF names
  <2>2. IsFiniteSet(names)
    BY <2>1, FS_Subset
  <2> QED
    BY <2>1, <2>2, FS_CardinalityType
<1>7. calls \in [1..size -> names] /\ {calls[i] : i \in DOMAIN calls} = names
  BY <1>5 DEF Calls
<1> HIDE DEF names, size
<1>8. calls \in Seq(Names) /\ Len(calls) = size
      /\ \A n \in names : \E i \in 1..Len(calls) : calls[i] = n
  <2>1. calls \in [1..size -> Names]
    BY <1>6, <1>7
  <2>2. calls \in Seq(Names)
    BY <2>1, <1>6, SeqDef
  <2>3. DOMAIN calls = 1..size
    BY <2>1
  <2>4. Len(calls) = size
    BY <2>2, <2>3, <1>6, LenProperties
  <2> QED
    BY <2>2, <2>3, <2>4, <1>7
<1>9. /\ notices' \in Seq(Names)
      /\ Len(notices') = Len(notices) + Len(calls)
      /\ \A i \in 1..Len(notices) + Len(calls) :
           notices'[i] = IF i <= Len(notices) THEN notices[i] ELSE calls[i - Len(notices)]
  <2>1. notices \in Seq(Names)
    BY <1>0 DEF TypeOK
  <2> QED
    BY <1>5, <1>8, <2>1, ConcatProperties
<1>10. Len(notices) \in Nat /\ Len(calls) \in Nat
  BY <1>0, <1>8, <1>6 DEF TypeOK
<1>11. TypeOK'
  <2>1. received' \in 0..Len(changes)
    BY <1>1, <1>2
  <2> QED
    BY <2>1, <1>0, <1>3, <1>9 DEF TypeOK
<1>12. QueueMatchesDirty'
  BY <1>3 DEF Inv, QueueMatchesDirty, Processing
<1>13. WorkerInv' /\ ListIsMap'
  <2>1. received' \in Nat /\ received <= received'
    BY <1>1, <1>2, <1>0, TypeFacts
  <2> QED
    BY <2>1, <1>3, <1>4, WorkerStays, ListStays
<1>14. ASSUME NEW m \in Names PROVE Kept(m)
  <2>1. InStore(m) = VersionAt(m, received) /\ InStore(m)' = VersionAt(m, v)
    BY <1>1, <1>3 DEF InStore, VersionAt
  <2>2. /\ \A w : Exists(w)' <=> Exists(w)
        /\ Exists(InStore(m))' <=> Exists(VersionAt(m, v))
    BY <2>1, <1>3 DEF Exists
  <2>3. Shown(m)' = Shown(m)
    BY <1>3 DEF Shown
  <2>4. CASE m \in names
    <3>1. PICK i \in 1..Len(calls) : calls[i] = m
      BY <2>4, <1>8
    <3>2. /\ Len(notices) + i \in 1..Len(notices) + Len(calls)
          /\ ~(Len(notices) + i <= Len(notices))
          /\ (Len(notices) + i) - Len(notices) = i
      BY <3>1, <1>10
    <3>3. Len(notices) + i \in 1..Len(notices') /\ notices'[Len(notices) + i] = m
      BY <3>1, <3>2, <1>9
    <3> QED
      BY <3>3 DEF Pending, Kept
  <2>5. ASSUME \/ InStore(m)' = InStore(m)
               \/ ~Exists(VersionAt(m, received)) /\ ~Exists(VersionAt(m, v))
        PROVE  Kept(m)
    <3>1. Agrees(m) => Agrees(m)'
      BY <2>1, <2>2, <2>3, <2>5 DEF Agrees
    <3>2. ASSUME NEW i \in 1..Len(notices), notices[i] = m PROVE Pending(m)'
      <4>1. i \in 1..Len(notices) + Len(calls) /\ i <= Len(notices)
        BY <3>2, <1>10
      <4>2. i \in 1..Len(notices') /\ notices'[i] = m
        BY <3>2, <4>1, <1>9
      <4> QED
        BY <4>2 DEF Pending
    <3>3. m \in waiting \cup dirty => Pending(m)'
      BY <1>3 DEF Pending
    <3>4. (worker.at = "read" /\ worker.name = m) => Pending(m)'
      BY <1>3 DEF Pending
    <3>5. ASSUME worker.at = "apply", worker.name = m,
                 \/ worker.found = InStore(m)
                 \/ ~Exists(worker.found) /\ ~Exists(InStore(m))
          PROVE  Pending(m)'
      <4>1. \/ worker.found = InStore(m)'
            \/ ~Exists(worker.found) /\ ~Exists(VersionAt(m, v))
        BY <3>5, <2>1, <2>5
      <4>2. \/ worker.found' = InStore(m)'
            \/ ~Exists(worker.found)' /\ ~Exists(InStore(m))'
        BY <4>1, <2>2, <1>3 DEF Exists
      <4> QED
        BY <3>5, <4>2, <1>3 DEF Pending
    <3> QED
      BY <3>1, <3>2, <3>3, <3>4, <3>5 DEF Kept, Pending
  <2> QED
    BY <2>1, <2>4, <2>5 DEF names, Announced
<1>15. NothingLost' /\ HeldIsPending'
  BY <1>3, <1>14, NothingIsLost
<1> QED
  BY <1>11, <1>12, <1>13, <1>15 DEF Inv

-----------------------------------------------------------------------------
(* The work queue *)

LEMMA EnqueueKeeps ==
  ASSUME Inv, Enqueue
  PROVE  Inv'
<1>0. TypeOK
  BY DEF Inv
<1>1. UNCHANGED <<changes, received, queue, dirty, worker, configs, watcher, cancelled>>
  BY DEF Enqueue
<1>2. notices \in Seq(Names) /\ notices # <<>> /\ notices' = Tail(notices)
  BY <1>0 DEF Enqueue, TypeOK
<1>3. /\ Head(notices) = notices[1] /\ Head(notices) \in Names
      /\ notices' \in Seq(Names) /\ Len(notices) \in Nat
      /\ Len(notices') = Len(notices) - 1
      /\ \A i \in 1..Len(notices') : notices'[i] = notices[i + 1]
  BY <1>2, HeadTailProperties
<1>4. TypeOK'
  BY <1>0, <1>1, <1>3 DEF TypeOK, Enqueue
<1>5. QueueMatchesDirty'
  BY <1>1 DEF Inv, QueueMatchesDirty, Processing
<1>6. LogGrows /\ received' \in Nat /\ received <= received'
  BY <1>0, <1>1, TypeFacts DEF LogGrows
<1>7. WorkerInv' /\ ListIsMap'
  BY <1>1, <1>6, WorkerStays, ListStays
<1>8. CASE ShutDown
  BY <1>1, <1>4, <1>5, <1>7, <1>8 DEF Inv, NothingLost, HeldIsPending, ShutDown
<1>9. CASE ~ShutDown
  <2>1. waiting' = waiting \cup {Head(notices)}
    BY <1>9 DEF Enqueue
  <2>2. ASSUME NEW m \in Names PROVE Kept(m)
    <3>1. /\ InStore(m)' = InStore(m) /\ Agrees(m)' = Agrees(m)
          /\ \A w : Exists(w)' <=> Exists(w)
      BY <1>1, SameStore
    <3>2. ASSUME NEW i \in 1..Len(notices), notices[i] = m PROVE Pending(m)'
      <4>1. CASE i = 1
        BY <3>2, <4>1, <1>3, <2>1 DEF Pending
      <4>2. CASE i # 1
        <5>1. i - 1 \in 1..Len(notices') /\ (i - 1) + 1 = i
          BY <4>2, <1>3
        <5>2. notices'[i - 1] = m
          BY <3>2, <5>1, <1>3
        <5> QED
          BY <5>1, <5>2 DEF Pending
      <4> QED
        BY <4>1, <4>2
    <3>3. Pending(m) => Pending(m)'
      BY <3>1, <3>2, <1>1, <2>1 DEF Pending, Exists
    <3> QED
      BY <3>1, <3>3 DEF Kept
  <2>3. NothingLost' /\ HeldIsPending'
    BY <1>1, <2>2, NothingIsLost
  <2> QED
    BY <1>4, <1>5, <1>7, <2>3 DEF Inv
<1> QED
  BY <1>8, <1>9

LEMMA DueKeeps ==
  ASSUME Inv, NEW n \in Names, Due(n)
  PROVE  Inv'
<1>0. TypeOK /\ QueueMatchesDirty
  BY DEF Inv
<1>1. UNCHANGED <<changes, received, notices, worker, configs, watcher, cancelled>>
  BY DEF Due
<1>2. /\ waiting' = waiting \ {n} /\ dirty' = dirty \cup {n}
      /\ queue' = IF n \in dirty \/ Processing(n) THEN queue ELSE Append(queue, n)
  BY DEF Due, Add
<1>3. queue \in Seq(Names) /\ Len(queue) \in Nat
  BY <1>0 DEF TypeOK
<1>4. \A m : Processing(m)' <=> Processing(m)
  BY <1>1 DEF Processing
<1>5. ASSUME n \in dirty \/ Processing(n)
      PROVE  TypeOK' /\ QueueMatchesDirty'
  <2>1. queue' = queue
    BY <1>2, <1>5
  <2>2. TypeOK'
    BY <1>0, <1>1, <1>2, <2>1 DEF TypeOK
  <2>3. QueueMatchesDirty'
    BY <1>0, <1>2, <1>4, <1>5, <2>1 DEF QueueMatchesDirty
  <2> QED
    BY <2>2, <2>3
<1>6. ASSUME n \notin dirty /\ ~Processing(n)
      PROVE  TypeOK' /\ QueueMatchesDirty'
  <2>1. queue' = Append(queue, n)
    BY <1>2, <1>6
  <2>2. /\ queue' \in Seq(Names) /\ Len(queue') = Len(queue) + 1
        /\ \A i \in 1..Len(queue) : queue'[i] = queue[i]
        /\ queue'[Len(queue) + 1] = n
    BY <1>3, <2>1, AppendProperties
  <2>3. TypeOK'
    BY <1>0, <1>1, <1>2, <2>2 DEF TypeOK
  <2>4. \A i \in 1..Len(queue) : queue[i] \in dirty /\ ~Processing(queue[i]) /\ queue[i] # n
    BY <1>0, <1>6 DEF QueueMatchesDirty
  <2>5. \A i \in 1..Len(queue') : i \in 1..Len(queue) \/ i = Len(queue) + 1
    BY <1>3, <2>2
  <2>6. Len(queue) + 1 \in 1..Len(queue') /\ \A i \in 1..Len(queue) : i \in 1..Len(queue')
    BY <1>3, <2>2
  <2>7. \A m \in dirty' : Processing(m)' \/ \E i \in 1..Len(queue') : queue'[i] = m
    BY <1>0, <1>2, <1>4, <2>2, <2>6 DEF QueueMatchesDirty
  <2>8. \A i \in 1..Len(queue') : queue'[i] \in dirty' /\ ~Processing(queue[i])'
    BY <1>1, <1>2, <1>6, <2>2, <2>4, <2>5 DEF Processing
  <2>9. \A i, j \in 1..Len(queue') : queue'[i] = queue'[j] => i = j
    BY <1>0, <2>2, <2>4, <2>5 DEF QueueMatchesDirty
  <2> QED
    BY <2>3, <2>7, <2>8, <2>9 DEF QueueMatchesDirty
<1>7. LogGrows /\ received' \in Nat /\ received <= received'
  BY <1>0, <1>1, TypeFacts DEF LogGrows
<1>8. WorkerInv' /\ ListIsMap'
  BY <1>1, <1>7, WorkerStays, ListStays
<1>9. ASSUME NEW m \in Names PROVE Kept(m)
  <2>1. /\ InStore(m)' = InStore(m) /\ Agrees(m)' = Agrees(m)
        /\ \A w : Exists(w)' <=> Exists(w)
    BY <1>1, SameStore
  <2>2. Pending(m) => Pending(m)'
    BY <2>1, <1>1, <1>2 DEF Pending, Exists
  <2> QED
    BY <2>1, <2>2 DEF Kept
<1>10. NothingLost' /\ HeldIsPending'
  BY <1>1, <1>9, NothingIsLost
<1> QED
  BY <1>5, <1>6, <1>8, <1>10 DEF Inv

-----------------------------------------------------------------------------
(* The worker *)

\* Steps to a place where the worker holds no name, from one where it held none.
LEMMA IdleKeeps ==
  ASSUME Inv, Select \/ Quit
  PROVE  Inv'
<1>0. TypeOK
  BY DEF Inv
<1>1. UNCHANGED <<changes, received, notices, waiting, queue, dirty, configs, watcher, cancelled>>
  BY DEF Select, Quit
<1>2. worker.at \in {"select", "get"}
  BY DEF Select, Quit
<1>3. \E at \in {"returned", "get"} : worker' = [worker EXCEPT !.at = at]
  BY DEF Select, Quit
<1>4. /\ worker'.at \in {"returned", "get"}
      /\ worker' \in [at: WorkerPoints, name: Names, found: Nat]
  BY <1>0, <1>3 DEF TypeOK, WorkerPoints
<1>5. TypeOK'
  BY <1>0, <1>1, <1>4 DEF TypeOK
<1>6. \A m : ~Processing(m) /\ ~Processing(m)'
  BY <1>2, <1>4 DEF Processing
<1>7. QueueMatchesDirty'
  BY <1>1, <1>6 DEF Inv, QueueMatchesDirty, Processing
<1>8. LogGrows /\ received' \in Nat /\ received <= received'
  BY <1>0, <1>1, TypeFacts DEF LogGrows
<1>9. WorkerInv' /\ ListIsMap'
  BY <1>1, <1>4, <1>8, WorkerStays, ListStays
<1>10. ASSUME NEW m \in Names PROVE Kept(m)
  BY <1>1, <1>2, SameStore DEF Kept, Pending
<1>11. NothingLost' /\ HeldIsPending'
  BY <1>1, <1>4, <1>10, NothingIsLost
<1> QED
  BY <1>5, <1>7, <1>9, <1>11 DEF Inv

LEMMA TakeKeeps ==
  ASSUME Inv, Take
  PROVE  Inv'
<1>0. TypeOK /\ QueueMatchesDirty
  BY DEF Inv
<1>1. UNCHANGED <<changes, received, notices, waiting, configs, watcher, cancelled>>
  BY DEF Take
<1>2. queue \in Seq(Names) /\ queue # <<>> /\ queue' = Tail(queue)
  BY <1>0 DEF Take, TypeOK
<1> DEFINE head == Head(queue)
<1>3. /\ head = queue[1] /\ head \in Names /\ 1 \in 1..Len(queue)
      /\ queue' \in Seq(Names) /\ Len(queue) \in Nat
      /\ Len(queue') = Len(queue) - 1
      /\ \A i \in 1..Len(queue') : queue'[i] = queue[i + 1]
  BY <1>2, HeadTailProperties
<1> HIDE DEF head
<1>4. /\ worker.at = "get" /\ dirty' = dirty \ {head}
      /\ worker' = [worker EXCEPT !.at = "read", !.name = head]
  BY DEF Take, head
<1>5. /\ worker'.at = "read" /\ worker'.name = head
      /\ worker' \in [at: WorkerPoints, name: Names, found: Nat]
  BY <1>0, <1>3, <1>4 DEF TypeOK, WorkerPoints
<1>6. TypeOK'
  BY <1>0, <1>1, <1>3, <1>4, <1>5 DEF TypeOK
<1>7. QueueMatchesDirty'
  <2>1. \A m : ~Processing(m) /\ (Processing(m)' <=> m = head)
    BY <1>4, <1>5 DEF Processing
  <2>2. \A i \in 1..Len(queue') : i + 1 \in 1..Len(queue) /\ i + 1 # 1
    BY <1>3
  <2>3. ASSUME NEW m \in dirty' PROVE \E i \in 1..Len(queue') : queue'[i] = m
    <3>1. PICK i \in 1..Len(queue) : queue[i] = m
      BY <1>0, <1>4, <2>1 DEF QueueMatchesDirty
    <3>2. i # 1
      BY <1>3, <1>4, <3>1
    <3>3. i - 1 \in 1..Len(queue') /\ (i - 1) + 1 = i
      BY <1>3, <3>2
    <3>4. queue'[i - 1] = m
      BY <1>3, <3>1, <3>3
    <3> QED
      BY <3>3, <3>4
  <2>4. ASSUME NEW i \in 1..Len(queue')
        PROVE  queue'[i] \in dirty' /\ queue'[i] # head
    <3>1. queue'[i] = queue[i + 1] /\ i + 1 \in 1..Len(queue) /\ i + 1 # 1
      BY <1>3, <2>2
    <3>2. queue[i + 1] \in dirty /\ queue[i + 1] # queue[1]
      BY <1>0, <1>3, <3>1 DEF QueueMatchesDirty
    <3> QED
      BY <1>3, <1>4, <3>1, <3>2
  <2>5. ASSUME NEW i \in 1..Len(queue'), NEW j \in 1..Len(queue'), queue'[i] = queue'[j]
        PROVE  i = j
    <3>1. i + 1 = j + 1
      BY <1>0, <1>3, <2>2, <2>5 DEF QueueMatchesDirty
    <3> QED
      BY <3>1
  <2>6. \A i \in 1..Len(queue') : ~Processing(queue[i])'
    BY <1>5, <2>4 DEF Processing
  <2> QED
    BY <2>3, <2>4, <2>5, <2>6 DEF QueueMatchesDirty
<1>8. LogGrows /\ received' \in Nat /\ received <= received'
  BY <1>0, <1>1, TypeFacts DEF LogGrows
<1>9. WorkerInv' /\ ListIsMap'
  BY <1>1, <1>5, <1>8, WorkerStays, ListStays
<1>10. ASSUME NEW m \in Names PROVE Kept(m)
  <2>1. Agrees(m)' = Agrees(m)
    BY <1>1, SameStore
  <2>2. Pending(m) => Pending(m)'
    BY <1>1, <1>4, <1>5 DEF Pending
  <2> QED
    BY <2>1, <2>2 DEF Kept
<1>11. NothingLost' /\ HeldIsPending'
  BY <1>1, <1>5, <1>10, NothingIsLost
<1> QED
  BY <1>6, <1>7, <1>9, <1>11 DEF Inv

LEMMA ReadKeeps ==
  ASSUME Inv, Read
  PROVE  Inv'
<1>0. TypeOK /\ ListIsMap
  BY DEF Inv
<1>1. UNCHANGED <<changes, received, notices, waiting, queue, dirty, configs, watcher, cancelled>>
  BY DEF Read
<1> DEFINE n == worker.name
           found == InStore(worker.name)
<1>2. /\ found \in 0..received
      /\ found # 0 => changes[found].name = n
      /\ \A i \in 1..received : changes[i].name = n => i <= found
  <2>1. received \in Nat
    BY <1>0, TypeFacts
  <2>2. found = LastOf(changes, n, received)
    BY DEF InStore, VersionAt
  <2> HIDE DEF found, n
  <2> QED
    BY <2>1, <2>2, LastOfIs
<1>3. worker.at = "read" /\ worker' = [worker EXCEPT !.at = "apply", !.found = found]
  BY DEF Read
<1>4. \A m : InStore(m)' = InStore(m) /\ Agrees(m)' = Agrees(m)
  BY <1>1, SameStore
<1> HIDE DEF found
<1> found \in Nat
  BY <1>0, <1>2, TypeFacts
<1>5. /\ worker'.at = "apply" /\ worker'.name = n /\ worker'.found = found
      /\ worker' \in [at: WorkerPoints, name: Names, found: Nat]
  BY <1>0, <1>3 DEF TypeOK, WorkerPoints
<1>6. TypeOK'
  BY <1>0, <1>1, <1>5 DEF TypeOK
<1>7. QueueMatchesDirty'
  <2>1. \A m : Processing(m)' <=> Processing(m)
    BY <1>3, <1>5 DEF Processing
  <2> QED
    BY <1>1, <2>1, <1>3, <1>5 DEF Inv, QueueMatchesDirty, Processing
<1>8. LogGrows /\ received' \in Nat /\ received <= received'
  BY <1>0, <1>1, TypeFacts DEF LogGrows
<1>9. ListIsMap'
  BY <1>1, <1>8, ListStays
<1>10. WorkerInv'
  <2>1. ASSUME NEW i \in 1..Len(configs), configs[i].name = n
        PROVE  configs[i].version <= found
    <3>1. configs[i].version \in 1..received /\ changes[configs[i].version].name = n
      BY <1>0, <2>1, TypeFacts DEF ListIsMap, Exists
    <3> QED
      BY <1>2, <3>1
  <2> QED
    BY <1>1, <1>2, <1>5, <2>1 DEF WorkerInv
<1>11. ASSUME NEW m, m = worker.name PROVE Pending(m)'
  <2>1. worker'.found = InStore(m)'
    BY <1>4, <1>5, <1>11 DEF found
  <2> QED
    BY <1>5, <1>11, <2>1 DEF Pending
<1>12. Pending(worker.name)'
  BY <1>5, <1>11 DEF Pending
<1>13. ASSUME NEW m \in Names PROVE Kept(m)
  <2>1. Agrees(m)' = Agrees(m)
    BY <1>4
  <2>2. CASE m = n
    BY <1>11, <2>1, <2>2 DEF Kept
  <2>3. CASE m # n
    <3>1. Pending(m) => Pending(m)'
      BY <1>1, <2>3 DEF Pending
    <3> QED
      BY <2>1, <3>1 DEF Kept
  <2> QED
    BY <2>2, <2>3
<1>14. NothingLost' /\ HeldIsPending'
  BY <1>1, <1>12, <1>13, NothingIsLost
<1> QED
  BY <1>6, <1>7, <1>9, <1>10, <1>14 DEF Inv

-----------------------------------------------------------------------------
(* start() *)

LEMMA WatcherKeeps ==
  ASSUME Inv, Preflight \/ Synced \/ Cancel \/ Stop
  PROVE  Inv'
<1>0. TypeOK
  BY DEF Inv
<1>1. UNCHANGED <<changes, received, notices, waiting, queue, dirty, worker, configs>>
  BY DEF Preflight, Synced, Cancel, Stop
<1>2. watcher' \in WatcherPoints /\ (watcher = "stopped" => watcher' = "stopped")
  BY <1>0 DEF Preflight, Synced, Cancel, Stop, WatcherPoints, TypeOK
<1>3. cancelled' \in BOOLEAN
  BY <1>0 DEF Preflight, Synced, Cancel, Stop, TypeOK
<1>4. TypeOK'
  BY <1>0, <1>1, <1>2, <1>3 DEF TypeOK
<1>5. QueueMatchesDirty'
  BY <1>1 DEF Inv, QueueMatchesDirty, Processing
<1>6. LogGrows /\ received' \in Nat /\ received <= received'
  BY <1>0, <1>1, TypeFacts DEF LogGrows
<1>7. WorkerInv' /\ ListIsMap'
  BY <1>1, <1>6, WorkerStays, ListStays
<1>8. ASSUME NEW m \in Names PROVE Kept(m)
  <2>1. /\ InStore(m)' = InStore(m) /\ Agrees(m)' = Agrees(m)
        /\ \A w : Exists(w)' <=> Exists(w)
    BY <1>1, SameStore
  <2>2. Pending(m) => Pending(m)'
    BY <2>1, <1>1 DEF Pending, Exists
  <2> QED
    BY <2>1, <2>2 DEF Kept
<1>9. NothingLost' /\ HeldIsPending'
  BY <1>1, <1>2, <1>8, NothingIsLost
<1> QED
  BY <1>4, <1>5, <1>7, <1>9 DEF Inv

-----------------------------------------------------------------------------
(* The list is changed *)

\* What becomes of the list when the worker applies `found` to `n`: the other
\* entries keep their versions and their order.
Applied(n, found) ==
  IF Exists(found) THEN Put(configs, n, found) ELSE Drop(configs, n)

\* The list has an entry for n; entries of the new list are the applied one or
\* old ones of other names, keep their order, and none of the others is dropped.
Listed(list, n) == \E k \in 1..Len(list) : list[k].name = n
ComeFrom(new, n, found) ==
  \A k \in 1..Len(new) :
    \/ new[k] = [name |-> n, version |-> found] /\ Exists(found)
    \/ \E i \in 1..Len(configs) : new[k] = configs[i] /\ new[k].name # n
SameOrder(new) ==
  \A i, j \in 1..Len(configs), k, l \in 1..Len(new) :
    new[k].name = configs[i].name /\ new[l].name = configs[j].name => (k < l <=> i < j)
OthersStay(new, n) ==
  \A i \in 1..Len(configs) :
    configs[i].name # n => \E k \in 1..Len(new) : new[k] = configs[i]

LEMMA AppliedIs ==
  ASSUME TypeOK, ListIsMap, NEW n \in Names, NEW found \in Nat,
         NEW new, new = Applied(n, found)
  PROVE  /\ new \in Seq(Entry)
         /\ ComeFrom(new, n, found)
         /\ Exists(found) => Listed(new, n)
         /\ OthersStay(new, n)
         /\ SameOrder(new)
         /\ IsMap(new)
<1>1. /\ configs \in Seq(Entry) /\ Len(configs) \in Nat /\ IsMap(configs)
      /\ \A i, j \in 1..Len(configs) : configs[i].name = configs[j].name => i = j
  BY TypeFacts DEF TypeOK, ListIsMap, IsMap
<1> DEFINE entry == [name |-> n, version |-> found]
<1>2. entry.name = n
  OBVIOUS
<1>3. CASE Exists(found)
  <2>1. new = Put(configs, n, found)
    BY <1>3 DEF Applied
  <2>2. new \in Seq(Entry)
    <3>1. Put(configs, n, found) \in Seq(Entry)
      BY <1>1, PutChanges
    <3> QED
      BY <2>1, <3>1
  <2>3. CASE /\ \A i \in 1..Len(configs) : configs[i].name # n
             /\ Len(new) = Len(configs) + 1
             /\ new[Len(configs) + 1] = entry
             /\ \A i \in 1..Len(configs) : new[i] = configs[i]
    <3> HIDE DEF entry
    <3>1. \A k \in 1..Len(new) : k \in 1..Len(configs) \/ k = Len(configs) + 1
      BY <1>1, <2>3
    <3>2. /\ \A i \in 1..Len(configs) : i \in 1..Len(new) /\ i < Len(configs) + 1
          /\ Len(configs) + 1 \in 1..Len(new)
      BY <1>1, <2>3
    <3>3. \A k \in 1..Len(new), i \in 1..Len(configs) :
            new[k].name = configs[i].name => k = i
      BY <1>1, <1>2, <2>3, <3>1
    <3>4. IsMap(new)
      BY <1>1, <1>2, <2>3, <3>1 DEF IsMap
    <3>5. \A k \in 1..Len(new) :
              \/ new[k] = entry
              \/ \E i \in 1..Len(configs) : new[k] = configs[i] /\ new[k].name # n
      BY <2>3, <3>1
    <3>6. /\ \E k \in 1..Len(new) : new[k].name = n
          /\ \A i \in 1..Len(configs) : \E k \in 1..Len(new) : new[k] = configs[i]
      BY <1>2, <2>3, <3>2
    <3> QED
      BY <1>3, <2>2, <3>3, <3>4, <3>5, <3>6 DEF entry, OthersStay, Listed, ComeFrom, SameOrder
  <2>4. ASSUME NEW p \in 1..Len(configs),
               configs[p].name = n,
               Len(new) = Len(configs),
               new[p] = entry,
               \A i \in 1..Len(configs) : i # p => new[i] = configs[i]
        PROVE  /\ \A k \in 1..Len(new) :
                    \/ new[k] = entry
                    \/ \E i \in 1..Len(configs) : new[k] = configs[i] /\ new[k].name # n
               /\ \E k \in 1..Len(new) : new[k].name = n
               /\ \A i \in 1..Len(configs) :
                    configs[i].name # n => \E k \in 1..Len(new) : new[k] = configs[i]
               /\ \A k \in 1..Len(new), i \in 1..Len(configs) :
                    new[k].name = configs[i].name => k = i
               /\ IsMap(new)
    <3> HIDE DEF entry
    <3>1. \A i \in 1..Len(configs) : new[i].name = configs[i].name
      BY <1>2, <2>4
    <3>2. IsMap(new)
      BY <1>1, <2>4, <3>1 DEF IsMap
    <3>3. \A k \in 1..Len(new), i \in 1..Len(configs) :
            new[k].name = configs[i].name => k = i
      BY <1>1, <2>4, <3>1
    <3>4. \A k \in 1..Len(new) :
                    \/ new[k] = entry
                    \/ \E i \in 1..Len(configs) : new[k] = configs[i] /\ new[k].name # n
      <4> TAKE k \in 1..Len(new)
      <4>1. CASE k = p
        BY <2>4, <4>1
      <4>2. CASE k # p
        <5>1. k \in 1..Len(configs) /\ new[k] = configs[k] /\ configs[k].name # n
          BY <1>1, <2>4, <4>2
        <5> QED
          BY <5>1
      <4> QED
        BY <4>1, <4>2
    <3>5. \E k \in 1..Len(new) : new[k].name = n
      BY <2>4, <3>1
    <3>6. \A i \in 1..Len(configs) :
            configs[i].name # n => \E k \in 1..Len(new) : new[k] = configs[i]
      BY <2>4
    <3> QED
      BY <3>2, <3>3, <3>4, <3>5, <3>6
  <2>5. \/ /\ \A i \in 1..Len(configs) : configs[i].name # n
           /\ Len(new) = Len(configs) + 1
           /\ new[Len(configs) + 1] = entry
           /\ \A i \in 1..Len(configs) : new[i] = configs[i]
        \/ \E p \in 1..Len(configs) :
             /\ configs[p].name = n
             /\ Len(new) = Len(configs)
             /\ new[p] = entry
             /\ \A i \in 1..Len(configs) : i # p => new[i] = configs[i]
    BY <1>1, <2>1, PutChanges
  <2> QED
    BY <1>3, <2>2, <2>3, <2>4, <2>5 DEF OthersStay, Listed, ComeFrom, SameOrder
<1>4. CASE ~Exists(found)
  <2>1. new = Drop(configs, n)
    BY <1>4 DEF Applied
  <2>2. new \in Seq(Entry)
    BY <1>1, <2>1, DropChanges
  <2>3. CASE (\A i \in 1..Len(configs) : configs[i].name # n) /\ new = configs
    BY <1>1, <1>4, <2>2, <2>3 DEF OthersStay, ComeFrom, SameOrder
  <2>4. ASSUME NEW p \in 1..Len(configs),
               configs[p].name = n,
               Len(new) = Len(configs) - 1,
               \A i \in 1..Len(new) : new[i] = IF i < p THEN configs[i] ELSE configs[i + 1]
        PROVE  /\ \A k \in 1..Len(new) :
                    \E i \in 1..Len(configs) : new[k] = configs[i] /\ new[k].name # n
               /\ \A i \in 1..Len(configs) :
                    configs[i].name # n => \E k \in 1..Len(new) : new[k] = configs[i]
               /\ \A k \in 1..Len(new), i \in 1..Len(configs) :
                    new[k].name = configs[i].name => i = IF k < p THEN k ELSE k + 1
               /\ IsMap(new)
    <3> DEFINE from(k) == IF k < p THEN k ELSE k + 1
    <3>1. \A k \in 1..Len(new) :
            from(k) \in 1..Len(configs) /\ from(k) # p /\ new[k] = configs[from(k)]
      BY <1>1, <2>4
    <3>2. \A k, l \in 1..Len(new) : from(k) = from(l) => k = l
      BY <1>1, <2>4
    <3>3. \A i \in 1..Len(configs) : i # p => \E k \in 1..Len(new) : from(k) = i
      <4> TAKE i \in 1..Len(configs)
      <4> HAVE i # p
      <4>1. CASE i < p
        <5>1. i \in 1..Len(new) /\ from(i) = i
          BY <1>1, <2>4, <4>1
        <5> QED
          BY <5>1
      <4>2. CASE i > p
        <5>1. i - 1 \in 1..Len(new) /\ from(i - 1) = i
          BY <1>1, <2>4, <4>2
        <5> QED
          BY <5>1
      <4> QED
        BY <1>1, <4>1, <4>2
    <3>4. \A k \in 1..Len(new), i \in 1..Len(configs) :
            new[k].name = configs[i].name => i = from(k)
      <4> HIDE DEF from
      <4> QED
        BY <1>1, <3>1
    <3>5. IsMap(new)
      <4> SUFFICES ASSUME NEW k \in 1..Len(new), NEW l \in 1..Len(new),
                          new[k].name = new[l].name
                   PROVE  k = l
        BY DEF IsMap
      <4> HIDE DEF from
      <4>1. from(k) = from(l)
        BY <1>1, <3>1
      <4> QED
        BY <3>2, <4>1
    <3>6. \A k \in 1..Len(new) :
            \E i \in 1..Len(configs) : new[k] = configs[i] /\ new[k].name # n
      <4> HIDE DEF from
      <4>1. ASSUME NEW k \in 1..Len(new)
            PROVE  new[k] = configs[from(k)] /\ configs[from(k)].name # n
        BY <1>1, <2>4, <3>1
      <4> QED
        BY <3>1, <4>1
    <3>7. \A i \in 1..Len(configs) :
            configs[i].name # n => \E k \in 1..Len(new) : new[k] = configs[i]
      <4> HIDE DEF from
      <4> QED
        BY <2>4, <3>1, <3>3
    <3> QED
      BY <3>4, <3>5, <3>6, <3>7
  <2>5. \/ (\A i \in 1..Len(configs) : configs[i].name # n) /\ new = configs
        \/ \E p \in 1..Len(configs) :
             /\ configs[p].name = n
             /\ Len(new) = Len(configs) - 1
             /\ \A i \in 1..Len(new) : new[i] = IF i < p THEN configs[i] ELSE configs[i + 1]
    BY <1>1, <2>1, DropChanges
  <2>6. CASE \E p \in 1..Len(configs) :
               /\ configs[p].name = n
               /\ Len(new) = Len(configs) - 1
               /\ \A i \in 1..Len(new) :
                    new[i] = IF i < p THEN configs[i] ELSE configs[i + 1]
    <3>1. PICK p \in 1..Len(configs) :
               /\ configs[p].name = n
               /\ Len(new) = Len(configs) - 1
               /\ \A i \in 1..Len(new) :
                    new[i] = IF i < p THEN configs[i] ELSE configs[i + 1]
      BY <2>6
    <3>2. /\ \A k \in 1..Len(new) :
               \E i \in 1..Len(configs) : new[k] = configs[i] /\ new[k].name # n
          /\ \A i \in 1..Len(configs) :
               configs[i].name # n => \E k \in 1..Len(new) : new[k] = configs[i]
          /\ \A k \in 1..Len(new), i \in 1..Len(configs) :
               new[k].name = configs[i].name => i = IF k < p THEN k ELSE k + 1
          /\ IsMap(new)
      BY <2>4, <3>1
    <3>3. ASSUME NEW i \in 1..Len(configs), NEW j \in 1..Len(configs),
                 NEW k \in 1..Len(new), NEW l \in 1..Len(new),
                 new[k].name = configs[i].name, new[l].name = configs[j].name
          PROVE  k < l <=> i < j
      <4>1. i = (IF k < p THEN k ELSE k + 1) /\ j = (IF l < p THEN l ELSE l + 1)
        BY <3>2, <3>3
      <4> QED
        BY <4>1
    <3>4. OthersStay(new, n)
      BY <3>2 DEF OthersStay
    <3>5. SameOrder(new)
      BY <3>3 DEF SameOrder
    <3>6. ComeFrom(new, n, found)
      BY <3>2 DEF ComeFrom
    <3> QED
      BY <1>4, <2>2, <3>2, <3>4, <3>5, <3>6
  <2> QED
    BY <2>3, <2>5, <2>6
<1> QED
  BY <1>3, <1>4

LEMMA ApplyKeeps ==
  ASSUME Inv, Apply
  PROVE  Inv'
<1>0. TypeOK /\ QueueMatchesDirty /\ WorkerInv /\ HeldIsPending /\ ListIsMap
  BY DEF Inv
<1> DEFINE n == worker.name
           found == worker.found
<1>1. UNCHANGED <<changes, received, notices, waiting, dirty, watcher, cancelled>>
  BY DEF Apply
<1>2. n \in Names /\ found \in Nat /\ received \in Nat /\ received <= Len(changes)
  BY <1>0, TypeFacts
<1>3. worker.at = "apply" /\ worker' = [worker EXCEPT !.at = "select", !.found = 0]
  BY DEF Apply
<1>4. worker'.at = "select" /\ worker' \in [at: WorkerPoints, name: Names, found: Nat]
  BY <1>0, <1>3 DEF TypeOK, WorkerPoints
<1>5. configs' = Applied(n, found)
  BY DEF Apply, Applied
<1>6. queue' = IF n \in dirty THEN Append(queue, n) ELSE queue
  BY DEF Apply
<1>7. \A m : (Processing(m) <=> m = n) /\ ~Processing(m)'
  BY <1>3, <1>4 DEF Processing
<1>8. Exists(found) => /\ found \in 1..received
                       /\ changes[found].name = n
  BY <1>0, <1>2, <1>3 DEF WorkerInv, Exists
<1>9. n \notin dirty => \A m \in dirty : m # n
  OBVIOUS
<1> HIDE DEF n, found
<1>10. /\ configs' \in Seq(Entry) /\ IsMap(configs')
       /\ ComeFrom(configs', n, found) /\ OthersStay(configs', n)
       /\ Exists(found) => Listed(configs', n)
  BY <1>0, <1>2, <1>5, AppliedIs
<1>11. queue \in Seq(Names) /\ Len(queue) \in Nat
  BY <1>0 DEF TypeOK
<1>12. TypeOK' /\ QueueMatchesDirty'
  <2>1. CASE n \notin dirty
    <3>1. queue' = queue
      BY <1>6, <2>1
    <3>2. TypeOK'
      BY <1>0, <1>1, <1>4, <1>10, <3>1 DEF TypeOK
    <3>3. QueueMatchesDirty'
      BY <1>0, <1>1, <1>4, <1>7, <2>1, <3>1 DEF QueueMatchesDirty, Processing
    <3> QED
      BY <3>2, <3>3
  <2>2. CASE n \in dirty
    <3>1. queue' = Append(queue, n)
      BY <1>6, <2>2
    <3>2. /\ queue' \in Seq(Names) /\ Len(queue') = Len(queue) + 1
          /\ \A i \in 1..Len(queue) : queue'[i] = queue[i]
          /\ queue'[Len(queue) + 1] = n
      BY <1>2, <1>11, <3>1, AppendProperties
    <3>3. TypeOK'
      BY <1>0, <1>1, <1>4, <1>10, <3>2 DEF TypeOK
    <3>4. \A i \in 1..Len(queue) : queue[i] \in dirty /\ queue[i] # n
      BY <1>0, <1>7 DEF QueueMatchesDirty
    <3>5. \A i \in 1..Len(queue') : i \in 1..Len(queue) \/ i = Len(queue) + 1
      BY <1>11, <3>2
    <3>6. Len(queue) + 1 \in 1..Len(queue') /\ \A i \in 1..Len(queue) : i \in 1..Len(queue')
      BY <1>11, <3>2
    <3>7. \A m \in dirty' : \E i \in 1..Len(queue') : queue'[i] = m
      BY <1>0, <1>1, <1>7, <3>2, <3>6 DEF QueueMatchesDirty
    <3>8. \A i \in 1..Len(queue') : queue'[i] \in dirty' /\ ~Processing(queue[i])'
      BY <1>1, <1>4, <2>2, <3>2, <3>4, <3>5 DEF Processing
    <3>9. \A i, j \in 1..Len(queue') : queue'[i] = queue'[j] => i = j
      BY <1>0, <3>2, <3>4, <3>5 DEF QueueMatchesDirty
    <3> QED
      BY <3>3, <3>7, <3>8, <3>9 DEF QueueMatchesDirty
  <2> QED
    BY <2>1, <2>2
<1>13. ListIsMap'
  <2>1. \A i \in 1..Len(configs) :
          /\ configs[i].version <= received
          /\ Exists(configs[i].version)
          /\ changes[configs[i].version].name = configs[i].name
    BY <1>0 DEF ListIsMap
  <2>2. ASSUME NEW k \in 1..Len(configs')
        PROVE  /\ configs'[k].version <= received
               /\ Exists(configs'[k].version)
               /\ changes[configs'[k].version].name = configs'[k].name
    <3>1. CASE configs'[k] = [name |-> n, version |-> found] /\ Exists(found)
      BY <1>2, <1>8, <3>1
    <3>2. CASE \E i \in 1..Len(configs) : configs'[k] = configs[i] /\ configs'[k].name # n
      BY <2>1, <3>2
    <3> QED
      BY <1>10, <3>1, <3>2 DEF ComeFrom
  <2> QED
    BY <1>1, <1>10, <2>2 DEF ListIsMap, IsMap, Exists
<1>14. WorkerInv' /\ HeldIsPending'
  BY <1>4 DEF WorkerInv, HeldIsPending
<1>15. NothingLost'
  <2> SUFFICES ASSUME ~ShutDown, NEW m \in Names
               PROVE  Agrees(m)' \/ Pending(m)'
    BY <1>1 DEF NothingLost, ShutDown
  <2>0. InStore(m)' = InStore(m) /\ (Exists(InStore(m))' <=> Exists(InStore(m)))
    BY <1>1 DEF InStore, VersionAt, Exists
  <2>1. Shown(m)' = ShownIn(configs', m) /\ Shown(m) = ShownIn(configs, m)
    BY DEF Shown
  <2>2. IsMap(configs) /\ configs \in Seq(Entry) /\ configs' \in Seq(Entry)
    BY <1>0, <1>10 DEF ListIsMap, IsMap, TypeOK
  <2>3. CASE m # n
    <3>1. Pending(m) => Pending(m)'
      BY <1>1, <2>3 DEF Pending, n
    <3>2. ShownIn(configs', m) = ShownIn(configs, m)
      <4>1. CASE \E i \in 1..Len(configs) : configs[i].name = m
        <5>1. PICK i \in 1..Len(configs) : configs[i].name = m
          BY <4>1
        <5>2. PICK k \in 1..Len(configs') : configs'[k] = configs[i]
          BY <1>10, <2>3, <5>1 DEF OthersStay
        <5>3. ShownIn(configs, m) = configs[i].version
          BY <2>2, <5>1, FirstIs
        <5>4. ShownIn(configs', m) = configs'[k].version
          BY <1>10, <2>2, <5>1, <5>2, FirstIs
        <5> QED
          BY <5>2, <5>3, <5>4
      <4>2. CASE \A i \in 1..Len(configs) : configs[i].name # m
        <5>1. \A k \in 1..Len(configs') : configs'[k].name # m
          BY <1>10, <2>3, <4>2 DEF ComeFrom
        <5> QED
          BY <4>2, <5>1, NotShown
      <4> QED
        BY <4>1, <4>2
    <3>3. Agrees(m) => Agrees(m)'
      BY <2>0, <2>1, <3>2 DEF Agrees
    <3> QED
      BY <1>0, <3>1, <3>3 DEF NothingLost, Inv
  <2>4. CASE m = n
    <3>1. Pending(m)
      BY <1>0, <1>3, <2>4 DEF HeldIsPending, n
    <3>2. CASE (\E i \in 1..Len(notices) : notices[i] = m) \/ m \in waiting \cup dirty
      BY <1>1, <3>2 DEF Pending
    <3>3. CASE found = InStore(m) \/ (~Exists(found) /\ ~Exists(InStore(m)))
      <4>1. CASE Exists(found)
        <5>1. found = InStore(m)
          BY <3>3, <4>1
        <5>2. PICK k \in 1..Len(configs') : configs'[k].name = n
          BY <1>10, <4>1 DEF Listed
        <5>3. configs'[k] = [name |-> n, version |-> found]
          BY <1>10, <5>2 DEF ComeFrom
        <5>4. ShownIn(configs', m) = found
          BY <1>10, <2>2, <2>4, <5>2, <5>3, FirstIs
        <5> QED
          BY <2>0, <2>1, <4>1, <5>1, <5>4 DEF Agrees
      <4>2. CASE ~Exists(found)
        <5>1. ~Exists(InStore(m))
          BY <3>3, <4>2
        <5>2. \A k \in 1..Len(configs') : configs'[k].name # m
          BY <1>10, <2>4, <4>2 DEF ComeFrom
        <5>3. ShownIn(configs', m) = 0
          BY <5>2, NotShown
        <5> QED
          BY <2>0, <2>1, <5>1, <5>3 DEF Agrees
      <4> QED
        BY <4>1, <4>2
    <3>4. \/ (\E i \in 1..Len(notices) : notices[i] = m) \/ m \in waiting \cup dirty
          \/ found = InStore(m) \/ (~Exists(found) /\ ~Exists(InStore(m)))
      BY <1>3, <3>1 DEF Pending, found
    <3> QED
      BY <3>2, <3>3, <3>4
  <2> QED
    BY <2>3, <2>4
<1> QED
  BY <1>12, <1>13, <1>14, <1>15 DEF Inv

-----------------------------------------------------------------------------
(* The theorems *)

LEMMA Inductive == Inv /\ [Next]_vars => Inv'
<1> SUFFICES ASSUME Inv, [Next]_vars PROVE Inv'
  OBVIOUS
<1>1. CASE \E n \in Names, spec \in Specs \cup {Gone} : ApiChange(n, spec)
  BY <1>1, ApiChangeKeeps
<1>2. CASE Receive \/ Enqueue
  BY <1>2, ReceiveKeeps, EnqueueKeeps
<1>3. CASE \E n \in Names : Due(n)
  BY <1>3, DueKeeps
<1>4. CASE Worker
  BY <1>4, IdleKeeps, TakeKeeps, ReadKeeps, ApplyKeeps DEF Worker
<1>5. CASE Preflight \/ Synced \/ Cancel \/ Stop
  BY <1>5, WatcherKeeps
<1>6. CASE UNCHANGED vars
  <2>1. UNCHANGED <<changes, received, notices, waiting, queue, dirty, worker, configs, watcher,
                   cancelled>>
    BY <1>6 DEF vars
  <2>2. TypeOK' = TypeOK /\ ListIsMap' = ListIsMap
    BY <2>1 DEF TypeOK, ListIsMap, Exists
  <2>3. QueueMatchesDirty' = QueueMatchesDirty /\ WorkerInv' = WorkerInv
    BY <2>1 DEF QueueMatchesDirty, WorkerInv, Processing
  <2>4. \A m : Agrees(m)' = Agrees(m) /\ InStore(m)' = InStore(m)
    BY <2>1, SameStore
  <2>5. \A m : Pending(m) => Pending(m)'
    BY <2>1, <2>4 DEF Pending, Exists
  <2>6. ASSUME NEW m \in Names PROVE Kept(m)
    BY <2>4, <2>5 DEF Kept
  <2>7. NothingLost' /\ HeldIsPending'
    BY <2>1, <2>6, NothingIsLost
  <2> QED
    BY <2>2, <2>3, <2>7 DEF Inv
<1> QED
  BY <1>1, <1>2, <1>3, <1>4, <1>5, <1>6 DEF Next

\* Whatever changes, in whatever order events, timers and the worker run, the
\* inductive invariant holds (src/apis/logging/watcher.go).
THEOREM LoggingInvariance == Spec => []Inv
<1>1. Init => Inv
  BY Initially
<1>2. Inv /\ [Next]_vars => Inv'
  BY Inductive
<1> QED
  BY <1>1, <1>2, PTL DEF Spec

\* Until the queue is shut down, the list agrees with the informer's store on every
\* name that nothing is going to bring before the worker again.
THEOREM NoChangeIsLost == Spec => []NothingLost
<1>1. Inv => NothingLost
  BY DEF Inv
<1> QED
  BY <1>1, LoggingInvariance, PTL

\* The list has one entry per name, each of a version that has existed.
THEOREM ListHasOneEntryPerName == Spec => []ListIsMap
<1>1. Inv => ListIsMap
  BY DEF Inv
<1> QED
  BY <1>1, LoggingInvariance, PTL

\* No step changes the order of two entries, or puts an older version back.
THEOREM OrderIsKept == Spec => OrderKept
<1> DEFINE Step ==
      \A i, j \in 1..Len(configs), k, l \in 1..Len(configs)' :
        /\ configs'[k].name = configs[i].name
        /\ configs'[l].name = configs[j].name
        => /\ i < j => k < l
           /\ configs'[k].version >= configs[i].version
<1>1. Inv /\ [Next]_vars => Step
  <2> SUFFICES ASSUME Inv, [Next]_vars,
                      NEW i \in 1..Len(configs), NEW j \in 1..Len(configs),
                      NEW k \in 1..Len(configs'), NEW l \in 1..Len(configs'),
                      configs'[k].name = configs[i].name,
                      configs'[l].name = configs[j].name
               PROVE  /\ i < j => k < l
                      /\ configs'[k].version >= configs[i].version
    OBVIOUS
  <2>1. TypeOK /\ ListIsMap /\ WorkerInv
    BY DEF Inv
  <2>2. CASE UNCHANGED configs
    <3>1. k = i /\ l = j
      BY <2>1, <2>2 DEF ListIsMap
    <3> QED
      BY <2>1, <2>2, <3>1, TypeFacts
  <2>3. CASE Apply
    <3> DEFINE n == worker.name
               found == worker.found
    <3>1. n \in Names /\ found \in Nat /\ configs[i].version \in Nat
      BY <2>1, TypeFacts
    <3>2. configs' = Applied(n, found)
      BY <2>3 DEF Apply, Applied
    <3>3. Exists(found) /\ configs[i].name = n => configs[i].version <= found
      BY <2>1, <2>3 DEF Apply, WorkerInv, Exists
    <3> HIDE DEF n, found
    <3>0. ComeFrom(configs', n, found) /\ SameOrder(configs')
      BY <2>1, <3>1, <3>2, AppliedIs
    <3>4. /\ \/ configs'[k] = [name |-> n, version |-> found] /\ Exists(found)
             \/ \E m \in 1..Len(configs) : configs'[k] = configs[m]
          /\ k < l <=> i < j
      BY <3>0 DEF ComeFrom, SameOrder
    <3>5. configs'[k].version >= configs[i].version
      <4>1. CASE configs'[k] = [name |-> n, version |-> found] /\ Exists(found)
        BY <3>1, <3>3, <4>1
      <4>2. CASE \E m \in 1..Len(configs) : configs'[k] = configs[m]
        <5>1. PICK m \in 1..Len(configs) : configs'[k] = configs[m]
          BY <4>2
        <5>2. m = i
          BY <2>1, <5>1 DEF ListIsMap
        <5> QED
          BY <3>1, <5>1, <5>2
      <4> QED
        BY <3>4, <4>1, <4>2
    <3> QED
      BY <3>4, <3>5
  <2>4. UNCHANGED configs \/ Apply
    BY DEF Next, vars, ApiChange, Receive, Enqueue, Due, Worker, Select, Take, Quit, Read,
           Preflight, Synced, Cancel, Stop
  <2> QED
    BY <2>2, <2>3, <2>4
<1>2. Inv /\ [Next]_vars => [Step]_vars
  BY <1>1
<1> QED
  BY <1>2, LoggingInvariance, PTL DEF Spec, OrderKept
=============================================================================
