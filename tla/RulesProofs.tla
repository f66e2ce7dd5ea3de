---------------------------- MODULE RulesProofs ----------------------------
(***************************************************************************)
(* Theorems about the label selector parser and the set-up of rules, for   *)
(* every configuration: the parser never reads past its tokens, what it    *)
(* lets through is what the documented grammar says, and the rules that a  *)
(* review finds are those that apply by their text.                        *)
(***************************************************************************)
EXTENDS Rules, SequenceTheorems, FiniteSetTheorems, WellFoundedInduction, TLAPS

-----------------------------------------------------------------------------
(* Stretches between ends *)

\* A set of numbers that is not empty has a least one.
LEMMA LeastExists ==
  ASSUME NEW S \in SUBSET Nat, S # {}
  PROVE  \E x \in S : \A y \in S : x <= y
<1>1. PICK x \in S : \A y \in S : ~(<<y, x>> \in OpToRel(<, Nat))
  BY NatLessThanWellFounded, WFMin
<1>2. ASSUME NEW y \in S PROVE x <= y
  <2>1. ~(y < x)
    BY <1>1 DEF OpToRel
  <2> QED BY <2>1
<1> QED BY <1>2

\* A bounded one has a greatest.
LEMMA GreatestExists ==
  ASSUME NEW S \in SUBSET Nat, S # {}, NEW v \in Nat, \A x \in S : x <= v
  PROVE  \E x \in S : \A y \in S : y <= x
<1> DEFINE T == {v - x : x \in S}
<1>1. T \subseteq Nat /\ T # {}
  <2>1. \A x \in S : v - x \in Nat /\ v - x \in T
    OBVIOUS
  <2>2. PICK x \in S : TRUE
    OBVIOUS
  <2> QED BY <2>1, <2>2
<1>2. PICK t \in T : \A u \in T : t <= u
  <2> HIDE DEF T
  <2> QED BY <1>1, LeastExists
<1>3. PICK x \in S : t = v - x
  OBVIOUS
<1>4. ASSUME NEW y \in S PROVE y <= x
  <2>1. v - y \in T
    OBVIOUS
  <2>2. v - x <= v - y /\ x \in Nat /\ y \in Nat
    BY <1>2, <1>3, <2>1
  <2> QED BY <2>2
<1> QED BY <1>4

\* After an end that is not the last there is a next one.
LEMMA NextEnd ==
  ASSUME NEW S \in SUBSET Nat, NEW a \in S, NEW e \in S, a < e
  PROVE  \E b \in S : a < b /\ b <= e /\ <<a, b>> \in Adjacent(S)
<1> DEFINE T == {c \in S : a < c}
<1>1. PICK b \in T : \A c \in T : b <= c
  <2>1. T \in SUBSET Nat /\ T # {}
    OBVIOUS
  <2> HIDE DEF T
  <2> QED BY <2>1, LeastExists
<1>2. b \in S /\ a < b /\ b <= e
  BY <1>1
<1>3. \A c \in S : ~(a < c /\ c < b)
  BY <1>1
<1> QED BY <1>2, <1>3 DEF Adjacent

\* What is between two ends and is no end is in a stretch.
LEMMA Surrounded ==
  ASSUME NEW S \in SUBSET Nat, NEW j \in Nat \ S, NEW u \in S, NEW v \in S, u < j, j < v
  PROVE  \E x \in S, y \in S : x < j /\ j < y /\ <<x, y>> \in Adjacent(S)
<1> DEFINE T == {c \in S : c < j}
<1>1. PICK x \in T : \A c \in T : c <= x
  <2>1. T \in SUBSET Nat /\ u \in T
    OBVIOUS
  <2>2. \A c \in T : c \in Nat /\ c <= j
    OBVIOUS
  <2> HIDE DEF T
  <2> QED BY <2>1, <2>2, GreatestExists
<1>2. x \in S /\ x < j /\ x < v
  OBVIOUS
<1>3. PICK y \in S : x < y /\ y <= v /\ <<x, y>> \in Adjacent(S)
  BY <1>2, NextEnd
<1>4. ~(y < j)
  BY <1>1, <1>3
<1> QED BY <1>2, <1>3, <1>4

-----------------------------------------------------------------------------
(* Parentheses *)

\* Counting the occurrences of a token, one token further.
LEMMA BeforeNext ==
  ASSUME NEW s, NEW t, NEW i \in Nat
  PROVE  /\ Before(s, t, i) \in Nat
         /\ Before(s, t, 0) = 0
         /\ Before(s, t, i + 1) = Before(s, t, i) + (IF s[i + 1] = t THEN 1 ELSE 0)
<1> DEFINE A(k) == {j \in 1..k : s[j] = t}
<1>1. \A k \in Nat : IsFiniteSet(A(k))
  <2> SUFFICES ASSUME NEW k \in Nat PROVE IsFiniteSet(A(k))
    OBVIOUS
  <2>1. IsFiniteSet(1..k) /\ A(k) \subseteq 1..k
    BY FS_Interval
  <2> QED BY <2>1, FS_Subset
<1>2. A(0) = {} /\ Cardinality({}) = 0
  BY FS_EmptySet
<1>3. \A k \in Nat : Before(s, t, k) = Cardinality(A(k)) /\ Cardinality(A(k)) \in Nat
  BY <1>1, FS_CardinalityType DEF Before
<1>4. CASE s[i + 1] = t
  <2>1. A(i + 1) = A(i) \cup {i + 1} /\ i + 1 \notin A(i)
    <3>1. 1..i + 1 = (1..i) \cup {i + 1} /\ i + 1 \notin 1..i
      OBVIOUS
    <3> QED BY <1>4, <3>1
  <2>2. Cardinality(A(i + 1)) = Cardinality(A(i)) + 1
    BY <1>1, <2>1, FS_AddElement
  <2>3. i + 1 \in Nat /\ 0 \in Nat
    OBVIOUS
  <2> HIDE DEF A
  <2>4. Before(s, t, i + 1) = Cardinality(A(i)) + 1
    BY <1>3, <2>2, <2>3
  <2>5. Before(s, t, i) = Cardinality(A(i)) /\ Cardinality(A(i)) \in Nat /\ Before(s, t, 0) = 0
    BY <1>2, <1>3, <2>3
  <2> QED BY <1>4, <2>4, <2>5
<1>5. CASE s[i + 1] # t
  <2>1. A(i + 1) = A(i)
    <3>1. 1..i + 1 = (1..i) \cup {i + 1}
      OBVIOUS
    <3> QED BY <1>5, <3>1
  <2>2. i + 1 \in Nat /\ 0 \in Nat
    OBVIOUS
  <2> HIDE DEF A
  <2>3. Before(s, t, i + 1) = Cardinality(A(i))
    BY <1>3, <2>1, <2>2
  <2>4. Before(s, t, i) = Cardinality(A(i)) /\ Cardinality(A(i)) \in Nat /\ Before(s, t, 0) = 0
    BY <1>2, <1>3, <2>2
  <2> QED BY <1>5, <2>3, <2>4
<1> QED BY <1>4, <1>5

-----------------------------------------------------------------------------
(* What a list of values denotes *)

\* The tokens between two ends.
LEMMA BetweenIs ==
  ASSUME NEW S, NEW s \in Seq(S), NEW a \in Nat, NEW b \in 1..Len(s) + 1, a < b
  PROVE  /\ Between(s, <<a, b>>) \in Seq(S)
         /\ Len(Between(s, <<a, b>>)) = b - a - 1
         /\ \A i \in 1..b - a - 1 : Between(s, <<a, b>>)[i] = s[a + i]
         /\ b = a + 1 => Between(s, <<a, b>>) = <<>>
<1>1. Between(s, <<a, b>>) = SubSeq(s, a + 1, b - 1) /\ Len(s) \in Nat
  BY DEF Between
<1>2. \A i \in a + 1..b - 1 : s[i] \in S
  BY <1>1
<1>3. /\ SubSeq(s, a + 1, b - 1) \in Seq(S)
      /\ Len(SubSeq(s, a + 1, b - 1)) = IF a + 1 <= b - 1 THEN (b - 1) - (a + 1) + 1 ELSE 0
      /\ \A i \in 1..(b - 1) - (a + 1) + 1 : SubSeq(s, a + 1, b - 1)[i] = s[a + 1 + i - 1]
  BY <1>1, <1>2, SubSeqProperties
<1>4. b = a + 1 => SubSeq(s, a + 1, b - 1) = <<>>
  BY SubSeqEmpty
<1>5. /\ (b - 1) - (a + 1) + 1 = b - a - 1
      /\ (a + 1 <= b - 1) => (b - 1) - (a + 1) + 1 = b - a - 1
      /\ ~(a + 1 <= b - 1) => b - a - 1 = 0
      /\ \A i \in 1..b - a - 1 : a + 1 + i - 1 = a + i
  BY <1>1
<1>6. Len(SubSeq(s, a + 1, b - 1)) = b - a - 1
  BY <1>3, <1>5
<1>7. \A i \in 1..b - a - 1 : SubSeq(s, a + 1, b - 1)[i] = s[a + i]
  BY <1>3, <1>5
<1> QED BY <1>1, <1>3, <1>4, <1>6, <1>7

\* The ends of the fields of a list of values.
LEMMA EndsAre ==
  ASSUME NEW s \in Seq(Strings)
  PROVE  /\ Ends(s, Commas(s)) \in SUBSET Nat
         /\ 0 \in Ends(s, Commas(s)) /\ Len(s) + 1 \in Ends(s, Commas(s))
         /\ \A x \in Ends(s, Commas(s)) : x <= Len(s) + 1
         /\ \A x \in 1..Len(s) : x \in Ends(s, Commas(s)) <=> s[x] = Comma
BY DEF Ends, Commas

\* The stretches between the commas are values, empty or not, if there are only
\* literals beside the commas and no two of them side by side.
LEMMA FieldsSpaced ==
  ASSUME NEW s \in Seq(Strings), \A g \in Fields(s, Commas(s)) : IsValue(g),
         NEW j \in 1..Len(s), s[j] # Comma
  PROVE  Literal(s[j]) /\ (j < Len(s) => s[j + 1] = Comma)
<1> DEFINE E == Ends(s, Commas(s))
<1>1. PICK x \in E, y \in E : x < j /\ j < y /\ <<x, y>> \in Adjacent(E)
  <2>1. j \in Nat \ E /\ E \in SUBSET Nat /\ 0 \in E /\ Len(s) + 1 \in E
    BY EndsAre
  <2>2. 0 < j /\ j < Len(s) + 1
    OBVIOUS
  <2> HIDE DEF E
  <2> QED BY <2>1, <2>2, Surrounded
<1>2. x \in Nat /\ y \in 1..Len(s) + 1 /\ x < y
  BY <1>1, EndsAre
<1>3. IsValue(Between(s, <<x, y>>))
  BY <1>1 DEF Fields
<1>4. /\ Len(Between(s, <<x, y>>)) = y - x - 1
      /\ \A i \in 1..y - x - 1 : Between(s, <<x, y>>)[i] = s[x + i]
  BY <1>2, BetweenIs
<1>5. y - x - 1 # 0 /\ y - x - 1 \in Nat
  BY <1>1, <1>2
<1>6. y - x - 1 = 1 /\ Literal(Between(s, <<x, y>>)[1])
  BY <1>3, <1>4, <1>5 DEF IsValue
<1>7. j = x + 1 /\ y = j + 1
  BY <1>1, <1>2, <1>6
<1>8. Literal(s[j])
  BY <1>4, <1>6, <1>7
<1>9. j < Len(s) => s[j + 1] = Comma
  BY <1>1, <1>7, EndsAre
<1> QED BY <1>8, <1>9

\* Their values: the literals, and an empty one wherever nothing is between two ends.
LEMMA SpacedFields ==
  ASSUME NEW s \in Seq(Strings),
         \A j \in 1..Len(s) : s[j] = Comma \/ Literal(s[j]),
         \A j \in 2..Len(s) : s[j - 1] = Comma \/ s[j] = Comma
  PROVE  /\ \A g \in Fields(s, Commas(s)) : IsValue(g)
         /\ {ValueOf(g) : g \in Fields(s, Commas(s))}
              = {s[j] : j \in {l \in 1..Len(s) : Literal(s[l])}}
                  \cup {v \in {Blank} : \E x \in 0..Len(s) :
                           (x = 0 \/ s[x] = Comma) /\ (x = Len(s) \/ s[x + 1] = Comma)}
<1> DEFINE E == Ends(s, Commas(s))
           n == Len(s)
           L == {s[j] : j \in {l \in 1..n : Literal(s[l])}}
           B == {v \in {Blank} : \E x \in 0..n : (x = 0 \/ s[x] = Comma) /\ (x = n \/ s[x + 1] = Comma)}
<1>0. n \in Nat /\ \A t : Literal(t) => t # Comma
  BY DEF Literal, Symbols
<1>1. \A x \in 0..n : x \in E <=> x = 0 \/ s[x] = Comma
  BY <1>0, EndsAre
<1>2. \A x \in 0..n : x + 1 \in E <=> x = n \/ s[x + 1] = Comma
  BY <1>0, EndsAre
<1>3. ASSUME NEW p \in Adjacent(E)
      PROVE  \E x \in 0..n : /\ x \in E
                             /\ \/ x + 1 \in E /\ p = <<x, x + 1>>
                                \/ x + 2 \in E /\ p = <<x, x + 2>> /\ x + 1 \in 1..n /\ Literal(s[x + 1])
  <2>1. PICK x \in E, y \in E : p = <<x, y>> /\ x < y /\ \A c \in E : ~(x < c /\ c < y)
    BY DEF Adjacent
  <2>2. x \in 0..n /\ y \in 1..n + 1 /\ y <= n + 1
    BY <1>0, <2>1, EndsAre
  <2>3. ~(y > x + 2)
    <3> SUFFICES ASSUME y > x + 2 PROVE FALSE
      OBVIOUS
    <3>1. x + 1 \in 1..n /\ x + 2 \in 2..n /\ x + 1 \notin E /\ x + 2 \notin E
      BY <1>0, <2>1, <2>2
    <3>2. s[x + 1] # Comma /\ s[x + 2] # Comma /\ (x + 2) - 1 = x + 1
      BY <3>1, <2>2, EndsAre
    <3> QED BY <3>1, <3>2
  <2>4. y = x + 1 \/ y = x + 2
    BY <2>1, <2>2, <2>3
  <2>5. y = x + 2 => x + 1 \in 1..n /\ x + 1 \notin E
    BY <2>1, <2>2
  <2>6. y = x + 2 => Literal(s[x + 1])
    BY <2>5, EndsAre
  <2> QED BY <2>1, <2>2, <2>4, <2>5, <2>6
<1>4. \A x \in 0..n : Between(s, <<x, x + 1>>) = <<>>
  BY <1>0, BetweenIs
<1>5. \A x \in 0..n : x + 1 \in 1..n => /\ Len(Between(s, <<x, x + 2>>)) = 1
                                        /\ Between(s, <<x, x + 2>>)[1] = s[x + 1]
  <2> SUFFICES ASSUME NEW x \in 0..n, x + 1 \in 1..n
               PROVE  /\ Len(Between(s, <<x, x + 2>>)) = 1
                      /\ Between(s, <<x, x + 2>>)[1] = s[x + 1]
    OBVIOUS
  <2>1. x \in Nat /\ x + 2 \in 1..n + 1 /\ x < x + 2 /\ (x + 2) - x - 1 = 1
    BY <1>0
  <2> DEFINE b == Between(s, <<x, x + 2>>)
  <2>2. Len(b) = (x + 2) - x - 1 /\ \A i \in 1..(x + 2) - x - 1 : b[i] = s[x + i]
    BY <2>1, BetweenIs
  <2> HIDE DEF b
  <2>3. Len(b) = 1
    BY <2>1, <2>2
  <2>4. b[1] = s[x + 1]
    <3>1. 1 \in 1..(x + 2) - x - 1
      BY <2>1
    <3> QED BY <2>2, <3>1
  <2> QED BY <2>3, <2>4 DEF b
<1>6. \A f : Len(f) = 1 => f # <<>>
  <2>1. \A f : f = <<>> => Len(f) = 0
    OBVIOUS
  <2> QED BY <2>1
<1>7. ASSUME NEW g \in Fields(s, Commas(s))
      PROVE  IsValue(g) /\ ValueOf(g) \in L \cup B
  <2>1. PICK p \in Adjacent(E) : g = Between(s, p)
    BY DEF Fields
  <2>2. PICK x \in 0..n : /\ x \in E
                          /\ \/ x + 1 \in E /\ p = <<x, x + 1>>
                             \/ x + 2 \in E /\ p = <<x, x + 2>> /\ x + 1 \in 1..n /\ Literal(s[x + 1])
    BY <1>3
  <2>3. CASE x + 1 \in E /\ p = <<x, x + 1>>
    BY <1>1, <1>2, <1>4, <2>1, <2>2, <2>3 DEF IsValue, ValueOf
  <2>4. CASE p = <<x, x + 2>> /\ x + 1 \in 1..n /\ Literal(s[x + 1])
    BY <1>5, <1>6, <2>1, <2>4 DEF IsValue, ValueOf
  <2> QED BY <2>2, <2>3, <2>4
<1>8. ASSUME NEW v \in L PROVE \E g \in Fields(s, Commas(s)) : v = ValueOf(g)
  <2>1. PICK j \in 1..n : Literal(s[j]) /\ v = s[j]
    OBVIOUS
  <2> DEFINE x == j - 1
  <2>2. x \in 0..n /\ x + 1 = j /\ x + 2 = j + 1
    BY <1>0
  <2>3. x \in E
    <3>1. j # 1 => s[x] = Comma
      BY <1>0, <2>1
    <3> QED BY <1>1, <2>2, <3>1
  <2>4. x + 2 \in E
    <3>1. j # n => j + 1 \in 2..n /\ (j + 1) - 1 = j
      BY <1>0
    <3>2. j # n => s[j + 1] = Comma
      BY <1>0, <2>1, <3>1
    <3> QED BY <1>2, <2>2, <3>2
  <2>5. \A c \in E : ~(x < c /\ c < x + 2)
    <3>1. j \notin E
      BY <1>0, <2>1, EndsAre
    <3> QED BY <2>2, <3>1, EndsAre
  <2>6. <<x, x + 2>> \in Adjacent(E)
    BY <2>2, <2>3, <2>4, <2>5 DEF Adjacent
  <2>7. Between(s, <<x, x + 2>>) \in Fields(s, Commas(s))
    BY <2>6 DEF Fields
  <2>8. ValueOf(Between(s, <<x, x + 2>>)) = s[j]
    BY <1>5, <1>6, <2>2 DEF ValueOf
  <2> QED BY <2>1, <2>7, <2>8
<1>9. ASSUME NEW v \in B PROVE \E g \in Fields(s, Commas(s)) : v = ValueOf(g)
  <2>1. PICK x \in 0..n : v = Blank /\ (x = 0 \/ s[x] = Comma) /\ (x = n \/ s[x + 1] = Comma)
    OBVIOUS
  <2>2. x \in E /\ x + 1 \in E
    BY <1>1, <1>2, <2>1
  <2>3. \A c \in E : ~(x < c /\ c < x + 1)
    BY EndsAre
  <2>4. <<x, x + 1>> \in Adjacent(E)
    BY <2>2, <2>3 DEF Adjacent
  <2>5. Between(s, <<x, x + 1>>) \in Fields(s, Commas(s))
    BY <2>4 DEF Fields
  <2> QED BY <1>4, <2>1, <2>5 DEF ValueOf
<1> HIDE DEF L, B
<1>10. {ValueOf(g) : g \in Fields(s, Commas(s))} = L \cup B
  BY <1>7, <1>8, <1>9
<1>11. \A g \in Fields(s, Commas(s)) : IsValue(g)
  BY <1>7
<1> QED BY <1>10, <1>11 DEF L, B

-----------------------------------------------------------------------------
(* What a stretch denotes *)

\* The tokens that the parser tells apart.
LEMMA TokensDiffer ==
  /\ Comma # End /\ Comma # "(" /\ Comma # ")" /\ Comma # "!" /\ Comma \notin Operators
  /\ End # "(" /\ End # ")" /\ End # "!" /\ End \notin Operators
  /\ "(" # ")" /\ "(" # "!" /\ ")" # "!" /\ "(" \notin Operators /\ ")" \notin Operators
  /\ ~Literal(Comma) /\ ~Literal("(") /\ ~Literal(")") /\ ~Literal("!") /\ ~Literal(End)
  /\ \A t \in GlobOperators \cup CompareOperators : ~Literal(t) /\ t \notin SetOperators
  /\ \A t \in SetOperators : Literal(t)
  /\ \A t \in Keys : Literal(t) /\ t \in Strings
  /\ Blank \notin Operators /\ Blank \notin Keys
<1>1. /\ Comma # End /\ Comma # "(" /\ Comma # ")" /\ Comma # "!" /\ Comma # "in" /\ Comma # "notin"
      /\ Comma # "exists" /\ Comma # "=" /\ Comma # "==" /\ Comma # "!=" /\ Comma # ">" /\ Comma # "<"
  BY Zenon DEF Comma, End
<1>2. /\ Blank # "in" /\ Blank # "notin" /\ Blank # "exists" /\ Blank # "=" /\ Blank # "=="
      /\ Blank # "!=" /\ Blank # ">" /\ Blank # "<" /\ Blank # "!"
  BY Zenon DEF Blank
<1>3. Comma \notin Operators /\ Blank \notin Operators
  BY <1>1, <1>2 DEF Operators, SetOperators, GlobOperators, CompareOperators, KeyOperators
<1>4. /\ End # "(" /\ End # ")" /\ End # "!" /\ End \notin Operators
      /\ "(" # ")" /\ "(" # "!" /\ ")" # "!" /\ "(" \notin Operators /\ ")" \notin Operators
  BY DEF End, Operators, SetOperators, GlobOperators, CompareOperators, KeyOperators
<1>5. /\ ~Literal(Comma) /\ ~Literal("(") /\ ~Literal(")") /\ ~Literal("!") /\ ~Literal(End)
      /\ \A t \in GlobOperators \cup CompareOperators : ~Literal(t) /\ t \notin SetOperators
  BY DEF Literal, Symbols, SetOperators, GlobOperators, CompareOperators
<1>6. \A t \in SetOperators : Literal(t)
  BY <1>1 DEF Literal, Symbols, SetOperators, End
<1>7. \A t \in Keys : Literal(t) /\ t \in Strings
  BY SymbolAssumption, LabelAssumption DEF Literal
<1>8. Blank \notin Keys
  BY LabelAssumption
<1> QED BY <1>1, <1>3, <1>4, <1>5, <1>6, <1>7, <1>8

\* In a stretch from its fourth token on: values and commas, no two values side by
\* side.
Spaced(f) ==
  /\ \A j \in 4..Len(f) - 1 : f[j] = Comma \/ Literal(f[j])
  /\ \A j \in 5..Len(f) - 1 : f[j - 1] = Comma \/ f[j] = Comma

\* The list between the parentheses.
LEMMA BodyIs ==
  ASSUME NEW f \in Seq(Strings), Len(f) >= 4
  PROVE  LET body == SubSeq(f, 4, Len(f) - 1)
         IN  /\ body \in Seq(Strings) /\ Len(body) = Len(f) - 4
             /\ \A i \in 1..Len(f) - 4 : body[i] = f[i + 3]
<1>1. \A i \in 4..Len(f) - 1 : f[i] \in Strings
  OBVIOUS
<1> DEFINE body == SubSeq(f, 4, Len(f) - 1)
<1>2. /\ body \in Seq(Strings)
      /\ Len(body) = IF 4 <= Len(f) - 1 THEN (Len(f) - 1) - 4 + 1 ELSE 0
      /\ \A i \in 1..(Len(f) - 1) - 4 + 1 : body[i] = f[4 + i - 1]
  BY <1>1, SubSeqProperties
<1>3. Len(body) = Len(f) - 4
  <2>1. PICK n \in Nat : n = Len(f)
    OBVIOUS
  <2>2. n >= 4 /\ (n - 1) - 4 + 1 = n - 4 /\ (~(4 <= n - 1) => n - 4 = 0)
    BY <2>1
  <2> HIDE DEF body
  <2> QED BY <1>2, <2>1, <2>2
<1>4. \A i \in 1..Len(f) - 4 : body[i] = f[i + 3]
  <2>1. (Len(f) - 1) - 4 + 1 = Len(f) - 4 /\ \A i \in 1..Len(f) - 4 : 4 + i - 1 = i + 3
    OBVIOUS
  <2> HIDE DEF body
  <2> QED BY <1>2, <2>1
<1> QED BY <1>2, <1>3, <1>4

\* Only four kinds of stretch denote a valid requirement.
LEMMA ValidShapes ==
  ASSUME NEW f \in Seq(Strings), ValidRequirement(Denotes(f))
  PROVE  \/ Len(f) = 1 /\ f[1] \in Keys
         \/ Len(f) = 2 /\ f[1] = "!" /\ f[2] \in Keys
         \/ /\ Len(f) \in {2, 3} /\ f[1] \in Keys /\ f[2] \in GlobOperators \cup CompareOperators
            /\ Len(f) = 3 => Literal(f[3])
         \/ /\ Len(f) >= 4 /\ f[1] \in Keys /\ f[2] \in SetOperators
            /\ f[3] = "(" /\ f[Len(f)] = ")" /\ Spaced(f)
<1> DEFINE n == Len(f)
           body == SubSeq(f, 4, n - 1)
           fields == Fields(body, Commas(body))
           rest == SubSeq(f, 3, n)
<1>1. n \in Nat /\ Denotes(f).key \in Keys
  BY DEF ValidRequirement
<1>2. CASE n = 1
  <2>1. Denotes(f).key = f[1]
    BY <1>2 DEF Denotes
  <2> QED BY <1>1, <1>2, <2>1
<1>3. CASE n = 2 /\ f[1] = "!"
  <2>1. Denotes(f).key = f[2]
    BY <1>3 DEF Denotes
  <2> QED BY <1>1, <1>3, <2>1
<1>4. CASE n \in {2, 3} /\ f[1] # "!" /\ f[2] \in GlobOperators \cup CompareOperators /\ IsValue(rest)
  <2>1. Denotes(f).key = f[1]
    BY <1>4 DEF Denotes
  <2>2. n = 3 => Literal(f[3])
    <3>1. n = 3 => Len(rest) = 1 /\ rest[1] = f[3]
      BY <1>1
    <3>2. \A t : t = <<>> => Len(t) = 0
      OBVIOUS
    <3> QED BY <1>4, <3>1, <3>2 DEF IsValue
  <2> QED BY <1>1, <1>4, <2>1, <2>2
<1>5. CASE /\ n >= 4 /\ f[2] \in SetOperators /\ f[3] = "(" /\ f[n] = ")"
           /\ \A g \in fields : IsValue(g)
  <2>1. Denotes(f).key = f[1]
    BY <1>1, <1>5 DEF Denotes
  <2>2. /\ body \in Seq(Strings) /\ Len(body) = n - 4
        /\ \A i \in 1..n - 4 : body[i] = f[i + 3]
    BY <1>5, BodyIs
  <2>3. \A j \in 1..n - 4 :
          body[j] # Comma => Literal(body[j]) /\ (j < n - 4 => body[j + 1] = Comma)
    <3> HIDE DEF body
    <3> QED BY <1>5, <2>2, FieldsSpaced
  <2>4. ASSUME NEW j \in 4..n - 1 PROVE f[j] = Comma \/ Literal(f[j])
    <3>1. j - 3 \in 1..n - 4 /\ (j - 3) + 3 = j
      BY <1>1
    <3> HIDE DEF body
    <3> QED BY <2>2, <2>3, <3>1
  <2>5. ASSUME NEW j \in 5..n - 1 PROVE f[j - 1] = Comma \/ f[j] = Comma
    <3>1. j - 4 \in 1..n - 4 /\ (j - 4) + 3 = j - 1 /\ (j - 4) + 1 \in 1..n - 4 /\ ((j - 4) + 1) + 3 = j
          /\ j - 4 < n - 4
      BY <1>1
    <3> HIDE DEF body
    <3> QED BY <2>2, <2>3, <3>1
  <2>6. Spaced(f)
    BY <2>4, <2>5 DEF Spaced
  <2> QED BY <1>1, <1>5, <2>1, <2>6
<1>6. CASE /\ n # 1 /\ ~(n = 2 /\ f[1] = "!")
           /\ ~(n \in {2, 3} /\ f[1] # "!" /\ f[2] \in GlobOperators \cup CompareOperators /\ IsValue(rest))
           /\ ~(/\ n >= 4 /\ f[2] \in SetOperators /\ f[3] = "(" /\ f[n] = ")"
                /\ \A g \in fields : IsValue(g))
  <2>1. Denotes(f) = Nonsense
    BY <1>6 DEF Denotes
  <2>2. Nonsense.key = Blank
    BY DEF Nonsense, NoDraft
  <2> QED BY <1>1, <2>1, <2>2, TokensDiffer
<1> QED BY <1>2, <1>3, <1>4, <1>5, <1>6

\* What the stretches of each shape denote: a key alone,
LEMMA KeyDenotes ==
  ASSUME NEW f \in Seq(Strings)
  PROVE  /\ Len(f) = 1 => Denotes(f) = [key |-> f[1], operator |-> "exists", values |-> {}]
         /\ Len(f) = 2 /\ f[1] = "!" => Denotes(f) = [key |-> f[2], operator |-> "!", values |-> {}]
BY DEF Denotes

\* a comparison, whose value may be left out,
LEMMA ExactDenotes ==
  ASSUME NEW f \in Seq(Strings), f[1] # "!", f[2] \in GlobOperators \cup CompareOperators
  PROVE  /\ Len(f) = 2 => Denotes(f) = [key |-> f[1], operator |-> f[2], values |-> {Blank}]
         /\ Len(f) = 3 /\ Literal(f[3]) =>
              Denotes(f) = [key |-> f[1], operator |-> f[2], values |-> {f[3]}]
<1> DEFINE rest == SubSeq(f, 3, Len(f))
<1>1. Len(f) = 2 => rest = <<>>
  BY SubSeqEmpty
<1>2. Len(f) = 3 => Len(rest) = 1 /\ rest[1] = f[3] /\ rest # <<>>
  OBVIOUS
<1>3. CASE Len(f) = 2
  <2>1. IsValue(rest) /\ ValueOf(rest) = Blank
    BY <1>1, <1>3 DEF IsValue, ValueOf
  <2>2. Len(f) # 1 /\ Len(f) \in {2, 3} /\ ~(Len(f) >= 4) /\ f[1] # "!"
    BY <1>3
  <2>3. Denotes(f) = [key |-> f[1], operator |-> f[2], values |-> {ValueOf(rest)}]
    <3> HIDE DEF rest
    <3>1. IsValue(SubSeq(f, 3, Len(f)))
      BY <2>1 DEF rest
    <3> QED BY <2>2, <3>1 DEF Denotes, rest
  <2> HIDE DEF rest
  <2> QED BY <1>3, <2>1, <2>3
<1>4. CASE Len(f) = 3 /\ Literal(f[3])
  <2>1. IsValue(rest) /\ ValueOf(rest) = f[3]
    BY <1>2, <1>4 DEF IsValue, ValueOf
  <2>2. Len(f) # 1 /\ Len(f) \in {2, 3} /\ ~(Len(f) >= 4) /\ f[1] # "!"
    BY <1>4
  <2>3. Denotes(f) = [key |-> f[1], operator |-> f[2], values |-> {ValueOf(rest)}]
    <3> HIDE DEF rest
    <3>1. IsValue(SubSeq(f, 3, Len(f)))
      BY <2>1 DEF rest
    <3> QED BY <2>2, <3>1 DEF Denotes, rest
  <2> HIDE DEF rest
  <2> QED BY <1>4, <2>1, <2>3
<1> QED BY <1>3, <1>4

\* and a list.
LEMMA ListDenotes ==
  ASSUME NEW f \in Seq(Strings), NEW n \in Nat, n = Len(f), n >= 4, f[2] \in SetOperators, f[3] = "(",
         f[n] = ")", Spaced(f)
  PROVE  Denotes(f) =
           [key |-> f[1], operator |-> f[2],
            values |-> {f[j] : j \in {l \in 4..n - 1 : Literal(f[l])}}
                         \cup {v \in {Blank} : \E x \in 3..n - 1 :
                                 (x = 3 \/ f[x] = Comma) /\ (x = n - 1 \/ f[x + 1] = Comma)}]
<1> DEFINE body == SubSeq(f, 4, n - 1)
           fields == Fields(body, Commas(body))
           L == {f[j] : j \in {l \in 4..n - 1 : Literal(f[l])}}
           B == {v \in {Blank} : \E x \in 3..n - 1 :
                   (x = 3 \/ f[x] = Comma) /\ (x = n - 1 \/ f[x + 1] = Comma)}
           LB == {body[j] : j \in {l \in 1..n - 4 : Literal(body[l])}}
           BB == {v \in {Blank} : \E x \in 0..n - 4 :
                   (x = 0 \/ body[x] = Comma) /\ (x = n - 4 \/ body[x + 1] = Comma)}
<1>1. /\ body \in Seq(Strings) /\ Len(body) = n - 4
      /\ \A i \in 1..n - 4 : body[i] = f[i + 3]
  BY BodyIs
<1> HIDE DEF body
<1>2. \A j \in 1..n - 4 : body[j] = Comma \/ Literal(body[j])
  <2>1. \A j \in 1..n - 4 : j + 3 \in 4..n - 1
    OBVIOUS
  <2> QED BY <1>1, <2>1 DEF Spaced
<1>3. \A j \in 2..n - 4 : body[j - 1] = Comma \/ body[j] = Comma
  <2>1. \A j \in 2..n - 4 : /\ j + 3 \in 5..n - 1 /\ (j - 1) + 3 = (j + 3) - 1
                            /\ j - 1 \in 1..n - 4 /\ j \in 1..n - 4
    OBVIOUS
  <2> QED BY <1>1, <2>1 DEF Spaced
<1>4. /\ \A g \in fields : IsValue(g)
      /\ {ValueOf(g) : g \in fields} = LB \cup BB
  <2>1. /\ \A j \in 1..Len(body) : body[j] = Comma \/ Literal(body[j])
        /\ \A j \in 2..Len(body) : body[j - 1] = Comma \/ body[j] = Comma
    BY <1>1, <1>2, <1>3
  <2>2. /\ \A g \in Fields(body, Commas(body)) : IsValue(g)
        /\ {ValueOf(g) : g \in Fields(body, Commas(body))}
              = {body[j] : j \in {l \in 1..Len(body) : Literal(body[l])}}
                  \cup {v \in {Blank} : \E x \in 0..Len(body) :
                           (x = 0 \/ body[x] = Comma) /\ (x = Len(body) \/ body[x + 1] = Comma)}
    BY <1>1, <2>1, SpacedFields
  <2> QED BY <1>1, <2>2
<1>5. LB = L
  <2>1. ASSUME NEW j \in 1..n - 4 PROVE j + 3 \in 4..n - 1 /\ body[j] = f[j + 3]
    BY <1>1
  <2>2. ASSUME NEW j \in 4..n - 1 PROVE j - 3 \in 1..n - 4 /\ body[j - 3] = f[j]
    <3>1. j - 3 \in 1..n - 4 /\ (j - 3) + 3 = j
      OBVIOUS
    <3> QED BY <1>1, <3>1
  <2>3. ASSUME NEW v \in LB PROVE v \in L
    <3>1. PICK j \in 1..n - 4 : Literal(body[j]) /\ v = body[j]
      OBVIOUS
    <3> QED BY <2>1, <3>1
  <2>4. ASSUME NEW v \in L PROVE v \in LB
    <3>1. PICK j \in 4..n - 1 : Literal(f[j]) /\ v = f[j]
      OBVIOUS
    <3> QED BY <2>2, <3>1
  <2> QED BY <2>3, <2>4
<1>6. BB = B
  <2>1. ASSUME NEW x \in 0..n - 4, x = 0 \/ body[x] = Comma, x = n - 4 \/ body[x + 1] = Comma
        PROVE  /\ x + 3 \in 3..n - 1 /\ (x + 3 = 3 \/ f[x + 3] = Comma)
               /\ x + 3 = n - 1 \/ f[(x + 3) + 1] = Comma
    <3>1. x + 3 \in 3..n - 1 /\ (x # 0 => x \in 1..n - 4) /\ (x # n - 4 => x + 1 \in 1..n - 4)
          /\ (x + 1) + 3 = (x + 3) + 1
      OBVIOUS
    <3> QED BY <1>1, <2>1, <3>1
  <2>2. ASSUME NEW y \in 3..n - 1, y = 3 \/ f[y] = Comma, y = n - 1 \/ f[y + 1] = Comma
        PROVE  /\ y - 3 \in 0..n - 4 /\ (y - 3 = 0 \/ body[y - 3] = Comma)
               /\ y - 3 = n - 4 \/ body[(y - 3) + 1] = Comma
    <3>1. y - 3 \in 0..n - 4 /\ (y # 3 => y - 3 \in 1..n - 4) /\ (y # n - 1 => (y - 3) + 1 \in 1..n - 4)
          /\ ((y - 3) + 1) + 3 = y + 1 /\ (y - 3) + 3 = y
      OBVIOUS
    <3> QED BY <1>1, <2>2, <3>1
  <2> QED BY <2>1, <2>2
<1>7. Denotes(f) = [key |-> f[1], operator |-> f[2], values |-> {ValueOf(g) : g \in fields}]
  <2>1. /\ Len(f) # 1 /\ Len(f) # 2 /\ Len(f) \notin {2, 3} /\ Len(f) >= 4
    OBVIOUS
  <2> QED BY <1>4, <2>1 DEF Denotes, body
<1> QED BY <1>4, <1>5, <1>6, <1>7

-----------------------------------------------------------------------------
(* The text that is being parsed *)

\* The text is the tokens without End.
LEMMA GivenIs ==
  ASSUME items \in Seq(Strings), items # <<>>
  PROVE  /\ Given \in Seq(Strings) /\ Len(items) \in Nat \ {0} /\ Len(Given) = Len(items) - 1
         /\ \A i \in 1..Len(items) - 1 : Given[i] = items[i]
<1>1. /\ Len(items) \in Nat \ {0} /\ \A i \in 1..Len(items) - 1 : items[i] \in Strings
  OBVIOUS
<1>2. /\ SubSeq(items, 1, Len(items) - 1) \in Seq(Strings)
      /\ Len(SubSeq(items, 1, Len(items) - 1)) =
           IF 1 <= Len(items) - 1 THEN (Len(items) - 1) - 1 + 1 ELSE 0
      /\ \A i \in 1..(Len(items) - 1) - 1 + 1 : SubSeq(items, 1, Len(items) - 1)[i] = items[1 + i - 1]
  BY <1>1, SubSeqProperties
<1>3. PICK n \in Nat \ {0} : n = Len(items)
  BY <1>1
<1>4. /\ (n - 1) - 1 + 1 = n - 1 /\ (~(1 <= n - 1) => n - 1 = 0)
      /\ \A i \in 1..n - 1 : 1 + i - 1 = i
  OBVIOUS
<1> QED BY <1>2, <1>3, <1>4 DEF Given

\* A stretch of the text, token by token.
LEMMA StretchIs ==
  ASSUME items \in Seq(Strings), items # <<>>, NEW a \in Nat, NEW b \in 1..Len(items), a < b
  PROVE  /\ Between(Given, <<a, b>>) \in Seq(Strings)
         /\ Len(Between(Given, <<a, b>>)) = b - a - 1
         /\ \A i \in 1..b - a - 1 : Between(Given, <<a, b>>)[i] = items[a + i]
<1>1. /\ Given \in Seq(Strings) /\ Len(items) \in Nat \ {0} /\ Len(Given) = Len(items) - 1
      /\ \A i \in 1..Len(items) - 1 : Given[i] = items[i]
  BY GivenIs
<1>2. b \in 1..Len(Given) + 1
  BY <1>1
<1>3. /\ Between(Given, <<a, b>>) \in Seq(Strings)
      /\ Len(Between(Given, <<a, b>>)) = b - a - 1
      /\ \A i \in 1..b - a - 1 : Between(Given, <<a, b>>)[i] = Given[a + i]
  BY <1>1, <1>2, BetweenIs
<1>4. \A i \in 1..b - a - 1 : a + i \in 1..Len(items) - 1
  BY <1>1
<1> QED BY <1>1, <1>3, <1>4

\* A list between parentheses, with what the parser has read of it.
LEMMA ClosedList ==
  ASSUME items \in Seq(Strings), items # <<>>, NEW a \in Nat, NEW k \in Nat, a + 4 <= k, k < Len(items),
         items[a + 2] \in SetOperators, items[a + 3] = "(", items[k] = ")", ListRead(a + 4, k)
  PROVE  Denotes(Between(Given, <<a, k + 1>>)) =
           [key |-> items[a + 1], operator |-> items[a + 2],
            values |-> Listed(a + 4, k)
                         \cup (IF k = a + 4 \/ items[k - 1] = Comma THEN {Blank} ELSE {})]
<1> DEFINE f == Between(Given, <<a, k + 1>>)
           n == k - a
           L == {f[j] : j \in {l \in 4..n - 1 : Literal(f[l])}}
           B == {v \in {Blank} : \E x \in 3..n - 1 :
                   (x = 3 \/ f[x] = Comma) /\ (x = n - 1 \/ f[x + 1] = Comma)}
           LI == {items[j] : j \in {l \in a + 4..k - 1 : Literal(items[l])}}
           BI == {v \in {Blank} : \E j \in a + 4..k - 1 :
                   items[j] = Comma /\ (j = a + 4 \/ items[j - 1] = Comma)}
           BE == IF k = a + 4 \/ items[k - 1] = Comma THEN {Blank} ELSE {}
<1>1. /\ f \in Seq(Strings) /\ n \in Nat /\ Len(f) = n /\ n >= 4
      /\ \A i \in 1..n : f[i] = items[a + i]
  <2>1. k + 1 \in 1..Len(items) /\ a < k + 1 /\ (k + 1) - a - 1 = k - a
    OBVIOUS
  <2>2. /\ f \in Seq(Strings) /\ Len(f) = (k + 1) - a - 1
        /\ \A i \in 1..(k + 1) - a - 1 : f[i] = items[a + i]
    BY <2>1, StretchIs
  <2> HIDE DEF f
  <2> QED BY <2>1, <2>2
<1> HIDE DEF f
<1>2. f[1] = items[a + 1] /\ f[2] = items[a + 2] /\ f[3] = items[a + 3] /\ f[n] = items[k]
  <2>1. 1 \in 1..n /\ 2 \in 1..n /\ 3 \in 1..n /\ n \in 1..n /\ a + n = k
    BY <1>1
  <2> QED BY <1>1, <2>1
<1>3. Spaced(f)
  <2>1. ASSUME NEW j \in 4..n - 1 PROVE f[j] = Comma \/ Literal(f[j])
    <3>1. j \in 1..n /\ a + j \in a + 4..k - 1
      BY <1>1
    <3> QED BY <1>1, <3>1 DEF ListRead
  <2>2. ASSUME NEW j \in 5..n - 1 PROVE f[j - 1] = Comma \/ f[j] = Comma
    <3>1. j \in 1..n /\ j - 1 \in 1..n /\ a + j \in (a + 4) + 1..k - 1 /\ a + (j - 1) = (a + j) - 1
      BY <1>1
    <3> QED BY <1>1, <3>1 DEF ListRead
  <2> QED BY <1>1, <2>1, <2>2 DEF Spaced
<1>4. Denotes(f) = [key |-> f[1], operator |-> f[2], values |-> L \cup B]
  <2> HIDE DEF n
  <2> QED BY <1>1, <1>2, <1>3, ListDenotes
<1>5. L = LI
  <2>1. ASSUME NEW j \in 4..n - 1 PROVE a + j \in a + 4..k - 1 /\ f[j] = items[a + j]
    BY <1>1
  <2>2. ASSUME NEW j \in a + 4..k - 1 PROVE j - a \in 4..n - 1 /\ f[j - a] = items[j]
    <3>1. j - a \in 4..n - 1 /\ j - a \in 1..n /\ a + (j - a) = j
      OBVIOUS
    <3> QED BY <1>1, <3>1
  <2>3. ASSUME NEW v \in L PROVE v \in LI
    <3>1. PICK j \in 4..n - 1 : Literal(f[j]) /\ v = f[j]
      OBVIOUS
    <3> QED BY <2>1, <3>1
  <2>4. ASSUME NEW v \in LI PROVE v \in L
    <3>1. PICK j \in a + 4..k - 1 : Literal(items[j]) /\ v = items[j]
      OBVIOUS
    <3> QED BY <2>2, <3>1
  <2> QED BY <2>3, <2>4
<1>6. B = BI \cup BE
  <2>1. ASSUME NEW x \in 3..n - 1, x = 3 \/ f[x] = Comma, x = n - 1 \/ f[x + 1] = Comma
        PROVE  \/ k = a + 4 \/ items[k - 1] = Comma
               \/ \E j \in a + 4..k - 1 : items[j] = Comma /\ (j = a + 4 \/ items[j - 1] = Comma)
    <3>1. x \in 1..n /\ (x = n - 1 => a + x = k - 1) /\ (x = n - 1 /\ x = 3 => k = a + 4)
          /\ (x # n - 1 => x + 1 \in 1..n /\ a + (x + 1) \in a + 4..k - 1)
          /\ (a + (x + 1)) - 1 = a + x /\ (x = 3 => a + (x + 1) = a + 4)
      BY <1>1
    <3> QED BY <1>1, <2>1, <3>1
  <2>2. ASSUME k = a + 4 \/ items[k - 1] = Comma
        PROVE  \E x \in 3..n - 1 : (x = 3 \/ f[x] = Comma) /\ (x = n - 1 \/ f[x + 1] = Comma)
    <3>1. n - 1 \in 3..n - 1 /\ n - 1 \in 1..n /\ a + (n - 1) = k - 1 /\ (k = a + 4 => n - 1 = 3)
      BY <1>1
    <3>2. n - 1 = 3 \/ f[n - 1] = Comma
      BY <1>1, <2>2, <3>1
    <3> QED BY <3>1, <3>2
  <2>3. ASSUME NEW j \in a + 4..k - 1, items[j] = Comma, j = a + 4 \/ items[j - 1] = Comma
        PROVE  \E x \in 3..n - 1 : (x = 3 \/ f[x] = Comma) /\ (x = n - 1 \/ f[x + 1] = Comma)
    <3> DEFINE x == j - a - 1
    <3>1. x \in 3..n - 1 /\ x \in 1..n /\ x + 1 \in 1..n /\ a + x = j - 1 /\ a + (x + 1) = j
          /\ (j = a + 4 => x = 3)
      BY <1>1
    <3>2. (x = 3 \/ f[x] = Comma) /\ f[x + 1] = Comma
      BY <1>1, <2>3, <3>1
    <3> HIDE DEF x
    <3> QED BY <3>1, <3>2
  <2> QED BY <2>1, <2>2, <2>3
<1>7. Denotes(f) = [key |-> items[a + 1], operator |-> items[a + 2], values |-> (LI \cup BI) \cup BE]
  <2>1. L \cup B = (LI \cup BI) \cup BE
    BY <1>5, <1>6
  <2> HIDE DEF L, B, LI, BI, BE
  <2> QED BY <1>2, <1>4, <2>1
<1> QED BY <1>7 DEF f, Listed

\* The parser's tokens, while it reads them.
Text ==
  /\ items \in Seq(Strings) /\ items # <<>>
  /\ items[Len(items)] = End
  /\ \A i \in 1..Len(items) - 1 : items[i] # End

\* The invariant says so between ParseSelector and the end.
LEMMA TextIs ==
  ASSUME ParserTypeOK, EndAhead, point # "idle"
  PROVE  Text
BY DEF ParserTypeOK, EndAhead, Text

\* The ends of the stretches of the text.
LEMMA OuterIs ==
  ASSUME Text
  PROVE  /\ Outer \in SUBSET Nat /\ 0 \in Outer /\ Len(items) \in Outer
         /\ \A x \in Outer : x <= Len(items)
         /\ \A x \in Outer : x # 0 /\ x # Len(items) => items[x] = Comma
         /\ \A i \in 1..Len(items) - 1 :
              /\ i \in Outer <=> i \in OuterCommas(Given)
              /\ i \in OuterCommas(Given) <=>
                   items[i] = Comma /\ Before(Given, "(", i) = Before(Given, ")", i)
<1>1. /\ Given \in Seq(Strings) /\ Len(items) \in Nat \ {0} /\ Len(Given) = Len(items) - 1
      /\ \A i \in 1..Len(items) - 1 : Given[i] = items[i]
  BY GivenIs DEF Text
<1>2. \A x : x \in Commas(Given) <=> x \in 1..Len(items) - 1 /\ items[x] = Comma
  BY <1>1 DEF Commas
<1>3. \A x : x \in OuterCommas(Given) <=>
               x \in Commas(Given) /\ Before(Given, "(", x) = Before(Given, ")", x)
  BY DEF OuterCommas
<1>4. \A x : x \in Outer <=> x \in OuterCommas(Given) \/ x = 0 \/ x = Len(items)
  BY <1>1 DEF Outer, Ends
<1> QED BY <1>1, <1>2, <1>3, <1>4

\* How far the opening parentheses are ahead of the closing ones.
Balance(i, d) == Before(Given, "(", i) = Before(Given, ")", i) + d

\* The balance, one token further:
LEMMA BeforeGiven ==
  \A i \in Nat : \A t :
    /\ Before(Given, t, i) \in Nat
    /\ Before(Given, t, i + 1) = Before(Given, t, i) + (IF Given[i + 1] = t THEN 1 ELSE 0)
<1> TAKE i \in Nat
<1> TAKE t
<1> QED BY BeforeNext

\* the parser is inside a list exactly if it is 1, and only a comma outside is an end.
LEMMA BalanceNext ==
  ASSUME Text, NEW k \in 1..Len(items) - 1, NEW d \in {0, 1}, Balance(k - 1, d)
  PROVE  /\ items[k] \notin {"(", ")"} => Balance(k, d)
         /\ items[k] = "(" /\ d = 0 => Balance(k, 1)
         /\ items[k] = ")" /\ d = 1 => Balance(k, 0)
         /\ items[k] # Comma \/ d = 1 => k \notin OuterCommas(Given)
         /\ items[k] = Comma /\ d = 0 => k \in OuterCommas(Given)
<1>1. Given[k] = items[k]
  BY GivenIs DEF Text
<1>2. PICK i \in Nat : i = k - 1 /\ i + 1 = k
  <2>1. k - 1 \in Nat /\ (k - 1) + 1 = k
    OBVIOUS
  <2> QED BY <2>1
<1>3. /\ Before(Given, "(", k - 1) \in Nat /\ Before(Given, ")", k - 1) \in Nat
      /\ Before(Given, "(", k) = Before(Given, "(", k - 1) + (IF items[k] = "(" THEN 1 ELSE 0)
      /\ Before(Given, ")", k) = Before(Given, ")", k - 1) + (IF items[k] = ")" THEN 1 ELSE 0)
  <2>1. \A t : /\ Before(Given, t, i) \in Nat
               /\ Before(Given, t, i + 1) = Before(Given, t, i) + (IF Given[i + 1] = t THEN 1 ELSE 0)
    BY BeforeGiven
  <2>2. \A t : /\ Before(Given, t, k - 1) \in Nat
               /\ Before(Given, t, k) = Before(Given, t, k - 1) + (IF items[k] = t THEN 1 ELSE 0)
    BY <1>1, <1>2, <2>1
  <2> QED BY <2>2
<1>4. k \in OuterCommas(Given) <=>
        items[k] = Comma /\ Before(Given, "(", k) = Before(Given, ")", k)
  BY OuterIs
<1> QED BY <1>3, <1>4, TokensDiffer DEF Balance

\* What comes before the end b that follows a, if it denotes a valid requirement.
Shape(a, b) ==
  \/ b = a + 2 /\ items[a + 1] \in Keys
  \/ b = a + 3 /\ items[a + 1] = "!" /\ items[a + 2] \in Keys
  \/ /\ b \in {a + 3, a + 4} /\ items[a + 1] \in Keys /\ items[a + 2] \in GlobOperators \cup CompareOperators
     /\ b = a + 4 => Literal(items[a + 3])
  \/ /\ b >= a + 5 /\ items[a + 1] \in Keys /\ items[a + 2] \in SetOperators
     /\ items[a + 3] = "(" /\ items[b - 1] = ")" /\ ListRead(a + 4, b - 1)

\* The stretch from a to the end b, if it is as the grammar has it.
Stretch(a, b) ==
  /\ items[b] \in {End, Comma} /\ Shape(a, b)
  /\ ValidRequirement(Denotes(Between(Given, <<a, b>>)))

\* In a text of the grammar each stretch has one of the shapes.
LEMMA StretchShape ==
  ASSUME Text, Sentence(Given), Len(items) # 1, NEW a \in Outer, a < Len(items)
  PROVE  \E b \in Outer : a < b /\ b <= Len(items) /\ Stretch(a, b)
<1>1. PICK b \in Outer : a < b /\ b <= Len(items) /\ <<a, b>> \in Adjacent(Outer)
  BY OuterIs, NextEnd
<1>2. items[b] \in {End, Comma} /\ b \in 1..Len(items) /\ a \in Nat
  BY <1>1, OuterIs DEF Text
<1> DEFINE f == Between(Given, <<a, b>>)
<1>3. f \in Seq(Strings) /\ Len(f) = b - a - 1 /\ \A i \in 1..b - a - 1 : f[i] = items[a + i]
  BY <1>1, <1>2, StretchIs DEF Text
<1>4. ValidRequirement(Denotes(f))
  <2>1. Given # <<>>
    <3>1. Len(Given) # 0
      BY GivenIs DEF Text
    <3> QED BY <3>1
  <2>2. f \in Fields(Given, OuterCommas(Given))
    BY <1>1 DEF Fields, Outer
  <2> QED BY <2>1, <2>2 DEF Sentence, Meaning
<1>0. ValidRequirement(Denotes(Between(Given, <<a, b>>)))
  BY <1>4
<1> HIDE DEF f
<1> DEFINE n == b - a - 1
<1>5. n \in Nat /\ Len(f) = n /\ \A i \in 1..n : f[i] = items[a + i]
  BY <1>1, <1>2, <1>3
<1>6. \/ n = 1 /\ f[1] \in Keys
      \/ n = 2 /\ f[1] = "!" /\ f[2] \in Keys
      \/ /\ n \in {2, 3} /\ f[1] \in Keys /\ f[2] \in GlobOperators \cup CompareOperators
         /\ n = 3 => Literal(f[3])
      \/ /\ n >= 4 /\ f[1] \in Keys /\ f[2] \in SetOperators
         /\ f[3] = "(" /\ f[n] = ")" /\ Spaced(f)
  BY <1>3, <1>4, <1>5, ValidShapes
<1>7. CASE n = 1 /\ f[1] \in Keys
  <2>1. b = a + 2 /\ 1 \in 1..n
    BY <1>2, <1>7
  <2> QED BY <1>0, <1>1, <1>2, <1>5, <1>7, <2>1 DEF Shape, Stretch
<1>8. CASE n = 2 /\ f[1] = "!" /\ f[2] \in Keys
  <2>1. b = a + 3 /\ 1 \in 1..n /\ 2 \in 1..n
    BY <1>2, <1>8
  <2> QED BY <1>0, <1>1, <1>2, <1>5, <1>8, <2>1 DEF Shape, Stretch
<1>9. CASE /\ n \in {2, 3} /\ f[1] \in Keys /\ f[2] \in GlobOperators \cup CompareOperators
           /\ n = 3 => Literal(f[3])
  <2>1. b \in {a + 3, a + 4} /\ 1 \in 1..n /\ 2 \in 1..n /\ (b = a + 4 => n = 3 /\ 3 \in 1..n)
    BY <1>2, <1>9
  <2> QED BY <1>0, <1>1, <1>2, <1>5, <1>9, <2>1 DEF Shape, Stretch
<1>10. CASE /\ n >= 4 /\ f[1] \in Keys /\ f[2] \in SetOperators
            /\ f[3] = "(" /\ f[n] = ")" /\ Spaced(f)
  <2>1. b >= a + 5 /\ 1 \in 1..n /\ 2 \in 1..n /\ 3 \in 1..n /\ n \in 1..n /\ a + n = b - 1
    BY <1>2, <1>10
  <2>2. ListRead(a + 4, b - 1)
    <3>1. ASSUME NEW j \in a + 4..(b - 1) - 1 PROVE Literal(items[j]) \/ items[j] = Comma
      <4>1. j - a \in 4..n - 1 /\ j - a \in 1..n /\ a + (j - a) = j
        BY <1>2
      <4> QED BY <1>5, <1>10, <4>1 DEF Spaced
    <3>2. ASSUME NEW j \in (a + 4) + 1..(b - 1) - 1 PROVE items[j - 1] = Comma \/ items[j] = Comma
      <4>1. /\ j - a \in 5..n - 1 /\ j - a \in 1..n /\ (j - a) - 1 \in 1..n
            /\ a + (j - a) = j /\ a + ((j - a) - 1) = j - 1
        BY <1>2
      <4> QED BY <1>5, <1>10, <4>1 DEF Spaced
    <3> QED BY <3>1, <3>2 DEF ListRead
  <2>3. items[a + 1] \in Keys /\ items[a + 2] \in SetOperators /\ items[a + 3] = "(" /\ items[b - 1] = ")"
    BY <1>5, <1>10, <2>1
  <2>4. Shape(a, b)
    BY <2>1, <2>2, <2>3 DEF Shape
  <2> QED BY <1>0, <1>1, <1>2, <2>4 DEF Stretch
<1> QED BY <1>6, <1>7, <1>8, <1>9, <1>10

\* The stretch that has been read up to k goes on to its end, and must have a shape.
LEMMA RestShape ==
  ASSUME Text, Sentence(Given), Len(items) # 1, NEW a \in Outer, NEW k \in 1..Len(items), a < k,
         \A i \in a + 1..k - 1 : i \notin OuterCommas(Given)
  PROVE  \E b \in k..Len(items) : Stretch(a, b)
<1>0. a \in Nat /\ Len(items) \in Nat /\ a < Len(items)
  BY OuterIs DEF Text
<1>1. PICK b \in Outer : a < b /\ b <= Len(items) /\ Stretch(a, b)
  BY <1>0, StretchShape
<1>2. a \in Nat /\ b \in Nat
  BY OuterIs
<1>3. ~(b < k)
  <2> SUFFICES ASSUME b < k PROVE FALSE
    OBVIOUS
  <2>1. b \in a + 1..k - 1 /\ b \in 1..Len(items) - 1
    BY <1>1, <1>2
  <2> QED BY <2>1, OuterIs
<1> QED BY <1>1, <1>2, <1>3

\* What is known at each point of the parser.
LEMMA AtPoint ==
  ASSUME NEW a, Reads(a)
  PROVE  /\ point = "requirement" => position = a + 1 /\ (a # 0 => Literal(Token) \/ Token = "!")
         /\ point = "key" => \/ position = a + 1 /\ draft = NoDraft /\ Literal(Token)
                             \/ /\ position = a + 2 /\ draft = [NoDraft EXCEPT !.operator = "!"]
                                /\ items[a + 1] = "!"
         /\ point = "operator" => /\ position = a + 2 /\ Named(a)
                                  /\ draft = [NoDraft EXCEPT !.key = items[a + 1]]
                                  /\ Token \notin {End, Comma}
         /\ point \in {"open", "first", "list", "close"} =>
              /\ Named(a) /\ items[a + 2] \in SetOperators
              /\ point # "open" => items[a + 3] = "("
         /\ point = "open" => position = a + 3 /\ Requires(a, {})
         /\ point = "first" => position = a + 4 /\ Requires(a, {})
         /\ point = "list" => ReadsList(a)
         /\ point = "close" => ReadsClose(a)
         /\ point = "exact" => ReadsExact(a)
         /\ point \in {"build", "separator"} => HasRead(a)
BY DEF Reads, Place, ReadsKey, ReadsValues, ReadsExact, HasRead, ReadsList, ReadsClose

\* A stretch that is as the grammar has it ends where the parser stops reading it.
LEMMA NothingLonger ==
  ASSUME Text, NEW a \in Nat, HasRead(a), position \in 1..Len(items), NEW b \in position..Len(items), Stretch(a, b)
  PROVE  b = position
<1> USE DEF Token, Named
<1>1. items[b] \in {End, Comma} /\ Shape(a, b) /\ position \in Nat /\ Len(items) \in Nat /\ b >= position /\ b \in Nat
  BY DEF Stretch, Text
<1>2. CASE position = a + 2 /\ Token \in {End, Comma}
  <2>1. ~Literal(items[a + 2]) /\ items[a + 2] \notin GlobOperators \cup CompareOperators
    BY <1>2, TokensDiffer DEF Operators
  <2>2. items[a + 2] \notin SetOperators /\ items[a + 2] \notin Keys
    BY <2>1, TokensDiffer
  <2> QED BY <1>1, <1>2, <2>1, <2>2 DEF Shape
<1>3. CASE position = a + 3 /\ items[a + 1] = "!"
  BY <1>1, <1>3, TokensDiffer DEF Shape
<1>4. CASE /\ position \in {a + 3, a + 4} /\ Named(a) /\ items[a + 2] \in GlobOperators \cup CompareOperators
           /\ position = a + 3 => Token \in {End, Comma}
  BY <1>1, <1>4, TokensDiffer DEF Shape
<1>5. CASE position > a + 4 /\ Named(a) /\ items[a + 2] \in SetOperators /\ items[position - 1] = ")"
  <2>1. b >= a + 5 /\ ListRead(a + 4, b - 1)
    BY <1>1, <1>5, TokensDiffer DEF Shape
  <2>2. ASSUME b # position PROVE FALSE
    <3>1. position - 1 \in a + 4..(b - 1) - 1
      BY <1>1, <1>5, <2>1, <2>2
    <3> QED BY <2>1, <3>1, <1>5, TokensDiffer DEF ListRead
  <2> QED BY <2>2
<1> QED BY <1>2, <1>3, <1>4, <1>5 DEF HasRead

\* A parser that rejects is right to, or the text is of the one form of the grammar
\* that parseIdentifiersList rejects.
LEMMA RejectIsRight ==
  ASSUME ParserTypeOK, EndAhead, ReadingInv, ParserStep, Reject
  PROVE  ~Sentence(Given) \/ EvenCommas(Given)
<1> SUFFICES ASSUME Sentence(Given) PROVE EvenCommas(Given)
  OBVIOUS
<1>1. point \in ReadingPoints \cup {"build"} /\ point # "idle"
  BY DEF ParserStep, BeginRequirement, ParseKey, ParseOperator, OpenValues, FirstValue,
     ListValue, ListComma, ListEnd, CloseValues, ExactValue, Build, Separate, ReadingPoints
<1>2. Text /\ position \in 1..Len(items) /\ Len(items) \in Nat /\ position \in Nat
  BY <1>1, TextIs DEF EndAhead, ParserTypeOK, Text
<1>3. PICK a \in Outer : Reads(a)
  BY <1>1 DEF ReadingInv
<1>4. a \in Nat /\ a < position /\ \A i \in a + 1..position - 1 : i \notin OuterCommas(Given)
  BY <1>3, <1>2, OuterIs DEF Reads
<1>5. point' = "rejected" /\ UNCHANGED <<items, position, draft, requirements>>
  BY DEF Reject
<1>6. ASSUME Len(items) # 1 PROVE \E b \in position..Len(items) : Stretch(a, b)
  BY <1>2, <1>4, <1>6, RestShape
<1>7. Token # End \/ a # 0 \/ position # 1 => Len(items) # 1
  BY <1>2, <1>4 DEF Text, Token
<1>8. \A t : Literal(t) => t # End /\ t # Comma /\ t # "!" /\ t # ")" /\ t # "("
  BY TokensDiffer
<1> USE DEF Token, Following, Named
<1>9. CASE BeginRequirement
  <2>1. position = a + 1 /\ ~Literal(Token) /\ Token # "!" /\ Token # End
    BY <1>3, <1>5, <1>9, AtPoint DEF BeginRequirement, Go
  <2>2. PICK b \in position..Len(items) : Stretch(a, b)
    BY <1>6, <1>7, <2>1
  <2> QED BY <1>4, <2>1, <2>2, TokensDiffer DEF Shape, Stretch
<1>10. CASE ParseKey
  <2>1. Token \notin Keys
    BY <1>5, <1>10, TokensDiffer DEF ParseKey, Go
  <2>2. CASE position = a + 1 /\ Literal(Token)
    <3>1. PICK b \in position..Len(items) : Stretch(a, b)
      BY <1>6, <1>7, <1>8, <2>2
    <3> QED BY <2>1, <2>2, <3>1, <1>8 DEF Shape, Stretch
  <2>3. CASE position = a + 2 /\ items[a + 1] = "!"
    <3>1. PICK b \in position..Len(items) : Stretch(a, b)
      BY <1>4, <1>6, <1>7, <2>3
    <3> QED BY <2>1, <2>3, <3>1, <1>4, TokensDiffer DEF Shape, Stretch
  <2> QED BY <1>3, <1>10, <2>2, <2>3, AtPoint DEF ParseKey
<1>11. CASE ParseOperator
  <2>1. position = a + 2 /\ Named(a) /\ Token \notin {End, Comma}
        /\ Token \notin SetOperators \cup GlobOperators \cup CompareOperators
    BY <1>3, <1>5, <1>11, AtPoint DEF ParseOperator, Go
  <2>2. PICK b \in position..Len(items) : Stretch(a, b)
    BY <1>6, <1>7, <2>1
  <2> QED BY <1>4, <1>8, <2>1, <2>2, TokensDiffer DEF Shape, Stretch
<1>12. CASE OpenValues
  <2>1. position = a + 3 /\ Named(a) /\ items[a + 2] \in SetOperators /\ Token # "("
    BY <1>3, <1>5, <1>12, AtPoint DEF OpenValues, Go
  <2>2. PICK b \in position..Len(items) : Stretch(a, b)
    BY <1>4, <1>6, <1>7, <2>1
  <2> QED BY <1>4, <1>8, <2>1, <2>2, TokensDiffer DEF Shape, Stretch
\* In a list, the stretch goes on to a ")" and is a list up to it.
<1>13. ASSUME Named(a), items[a + 2] \in SetOperators, items[a + 3] = "(", position >= a + 4
       PROVE  \E b \in position..Len(items) : /\ b >= a + 5 /\ items[b] \in {End, Comma}
                                              /\ items[b - 1] = ")" /\ ListRead(a + 4, b - 1)
  <2>1. PICK b \in position..Len(items) : Stretch(a, b)
    BY <1>4, <1>6, <1>7, <1>13
  <2> QED BY <1>4, <1>8, <1>13, <2>1, TokensDiffer DEF Shape, Stretch
<1>14. CASE FirstValue
  <2>1. /\ Named(a) /\ items[a + 2] \in SetOperators /\ items[a + 3] = "(" /\ position = a + 4
        /\ ~Literal(Token) /\ Token \notin {Comma, ")"}
    BY <1>3, <1>5, <1>14, AtPoint DEF FirstValue, Go
  <2>2. PICK b \in position..Len(items) : /\ b >= a + 5 /\ items[b] \in {End, Comma}
                                          /\ items[b - 1] = ")" /\ ListRead(a + 4, b - 1)
    BY <1>4, <1>13, <2>1
  <2>3. position # b - 1 /\ position < b
    BY <1>2, <1>4, <2>1, <2>2
  <2>4. position \in a + 4..(b - 1) - 1
    BY <1>2, <1>4, <2>1, <2>2, <2>3
  <2> QED BY <2>1, <2>2, <2>4 DEF ListRead
<1>15. CASE ListValue
  <2>1. /\ Named(a) /\ items[a + 2] \in SetOperators /\ items[a + 3] = "(" /\ position >= a + 4
        /\ Literal(Token) /\ Following \notin {Comma, ")"}
    BY <1>3, <1>5, <1>15, AtPoint DEF ListValue, Go, ReadsList
  <2>2. PICK b \in position..Len(items) : /\ b >= a + 5 /\ items[b] \in {End, Comma}
                                          /\ items[b - 1] = ")" /\ ListRead(a + 4, b - 1)
    BY <1>4, <1>13, <2>1
  <2>3. position # b - 1 /\ position # b /\ position + 1 # b - 1
    BY <1>2, <1>4, <1>8, <2>1, <2>2
  <2>4. position + 1 \in (a + 4) + 1..(b - 1) - 1 /\ (position + 1) - 1 = position
    BY <1>2, <1>4, <2>1, <2>2, <2>3
  <2> QED BY <2>1, <2>2, <2>4, <1>8 DEF ListRead
<1>16. CASE ListComma
  BY <1>5, <1>16 DEF ListComma, Go
<1>17. CASE ListEnd
  <2>1. /\ Named(a) /\ items[a + 2] \in SetOperators /\ items[a + 3] = "(" /\ position >= a + 4
        /\ ~Literal(Token) /\ Token # Comma /\ ReadsList(a)
    BY <1>3, <1>5, <1>17, AtPoint DEF ListEnd, ReadsList
  <2>2. PICK b \in position..Len(items) : /\ b >= a + 5 /\ items[b] \in {End, Comma}
                                          /\ items[b - 1] = ")" /\ ListRead(a + 4, b - 1)
    BY <1>4, <1>13, <2>1
  <2>3. CASE b = position
    <3>1. position - 1 \in a + 4..position - 1 /\ ListRead(a + 4, position)
      BY <1>2, <1>4, <2>1, <2>2, <2>3 DEF ReadsList
    <3> QED BY <2>2, <2>3, <3>1, TokensDiffer DEF ListRead
  <2>4. CASE b - 1 = position
    <3>1. Token = ")" /\ EvenRun(a + 4, position) /\ items[position - 1] = Comma
      BY <2>1, <2>2, <2>4 DEF ReadsList
    <3>2. PICK from \in a + 4..position :
            /\ (position - from) % 2 = 0
            /\ items[from - 1] # Comma
            /\ \A j \in from..position - 1 : items[j] = Comma
      BY <3>1 DEF EvenRun
    <3>3. from # position /\ from \in 1..position - 1 /\ position \in 1..Len(items) - 1
      BY <1>2, <1>4, <2>2, <2>4, <3>1, <3>2
    <3>4. /\ Len(Given) = Len(items) - 1 /\ \A i \in 1..Len(items) - 1 : Given[i] = items[i]
      BY <1>2, GivenIs DEF Text
    <3>5. Given[position] = ")" /\ (from > 1 => Given[from - 1] # Comma)
      BY <1>2, <3>1, <3>2, <3>3, <3>4
    <3>6. \A j \in from..position - 1 : Given[j] = Comma
      BY <1>2, <3>2, <3>3, <3>4
    <3>7. EvenBefore(Given, position)
      BY <3>2, <3>3, <3>5, <3>6 DEF EvenBefore
    <3> QED BY <3>3, <3>4, <3>5, <3>7 DEF EvenCommas
  <2>5. CASE b # position /\ b - 1 # position
    <3>1. position \in a + 4..(b - 1) - 1
      BY <1>2, <1>4, <2>1, <2>2, <2>5
    <3> QED BY <2>1, <2>2, <3>1 DEF ListRead
  <2> QED BY <2>3, <2>4, <2>5
<1>18. CASE CloseValues
  BY <1>3, <1>5, <1>18, AtPoint DEF CloseValues, Go, ReadsClose
<1>19. CASE ExactValue
  <2>1. /\ position = a + 3 /\ Named(a) /\ items[a + 2] \in GlobOperators \cup CompareOperators
        /\ ~Literal(Token) /\ Token \notin {End, Comma}
    BY <1>3, <1>5, <1>19, AtPoint DEF ExactValue, Go, ReadsExact
  <2>2. PICK b \in position..Len(items) : Stretch(a, b)
    BY <1>4, <1>6, <1>7, <2>1
  <2> QED BY <1>4, <1>8, <2>1, <2>2, TokensDiffer DEF Shape, Stretch
<1>20. CASE Build
  <2>1. HasRead(a) /\ ~ValidRequirement(draft) /\ draft = Denotes(Between(Given, <<a, position>>))
    BY <1>3, <1>5, <1>20, AtPoint DEF Build, HasRead
  <2>2. position # 1
    BY <1>4, <2>1 DEF HasRead
  <2>3. PICK b \in position..Len(items) : Stretch(a, b)
    BY <1>6, <1>7, <2>2
  <2>4. b = position
    BY <1>2, <1>4, <2>1, <2>3, NothingLonger
  <2> QED BY <2>1, <2>3, <2>4 DEF Stretch
<1>21. CASE Separate
  <2>1. /\ HasRead(a) /\ point = "separator"
        /\ \/ Token \notin {End, Comma}
           \/ Token = Comma /\ ~Literal(Following) /\ Following # "!"
    BY <1>3, <1>5, <1>21, AtPoint DEF Separate, Go
  <2>2. position # 1
    BY <1>4, <2>1 DEF HasRead
  <2>3. CASE Token \notin {End, Comma}
    <3>1. PICK b \in position..Len(items) : Stretch(a, b)
      BY <1>6, <1>7, <2>2
    <3>2. b = position
      BY <1>2, <1>4, <2>1, <3>1, NothingLonger
    <3> QED BY <2>3, <3>1, <3>2 DEF Stretch
  <2>4. CASE Token = Comma /\ ~Literal(Following) /\ Following # "!"
    <3>1. Balance(position - 1, 0) /\ position \in 1..Len(items) - 1
      <4>1. position # Len(items)
        BY <1>2, <2>4, TokensDiffer DEF Text
      <4>2. Before(Given, "(", position - 1) = Before(Given, ")", position - 1) + 0
        BY <2>1 DEF ReadingInv, Inside, ReadingPoints
      <4> QED BY <1>2, <4>1, <4>2 DEF Balance
    <3>2. position \in Outer
      BY <1>2, <2>4, <3>1, BalanceNext, OuterIs
    <3>3. Len(items) # 1
      BY <1>7, <2>2
    <3>4. PICK k \in 1..Len(items) : k = position + 1
      BY <1>2, <3>1
    <3>5. \A i \in position + 1..k - 1 : i \notin OuterCommas(Given)
      BY <1>2, <3>4
    <3>6. PICK b \in k..Len(items) : Stretch(position, b)
      <4>1. position < k
        BY <1>2, <3>4
      <4> QED BY <1>2, <3>2, <3>3, <3>5, <4>1, RestShape
    <3> QED BY <2>4, <3>6, TokensDiffer DEF Stretch, Shape
  <2> QED BY <2>1, <2>3, <2>4
<1> QED BY <1>9, <1>10, <1>11, <1>12, <1>14, <1>15, <1>16, <1>17, <1>18, <1>19, <1>20, <1>21
        DEF ParserStep

\* The parser's tokens, and what of them is a requirement.
BasicInv == ParserTypeOK /\ EndAhead /\ RequirementsValid

\* A token that is not End is not the last; neither is one before such a token.
LEMMA TokensRemain ==
  ASSUME ParserTypeOK, EndAhead, point \in ReadingPoints \cup {"build"}
  PROVE  /\ Len(items) \in Nat /\ position \in 1..Len(items) /\ Token \in Strings
         /\ Token # End => position + 1 \in 1..Len(items) /\ Following \in Strings
         /\ Token # End /\ Following # End => position + 2 \in 1..Len(items)
<1>1. /\ Len(items) \in Nat /\ position \in 1..Len(items) /\ items[Len(items)] = End
      /\ \A i \in 1..Len(items) : items[i] \in Strings
  BY DEF EndAhead, ParserTypeOK, ReadingPoints
<1>2. Token # End => position + 1 \in 1..Len(items)
  BY <1>1 DEF Token
<1>3. Token # End /\ Following # End => position + 2 \in 1..Len(items)
  BY <1>1, <1>2 DEF Following
<1> QED
  BY <1>1, <1>2, <1>3 DEF Token, Following

\* Going on at a point that leaves End ahead, or at the end, keeps the invariant.
LEMMA GoOn ==
  ASSUME BasicInv, point \in ReadingPoints,
         NEW p \in ParserPoints \ {"idle"}, NEW n \in {0, 1, 2}, NEW d \in Draft, Go(p, n, d),
         p \in ReadingPoints \cup {"build"} => position + n \in 1..Len(items)
  PROVE  BasicInv'
<1>1. ParserTypeOK'
  BY DEF BasicInv, ParserTypeOK, Go
<1>2. EndAhead'
  BY DEF BasicInv, EndAhead, Go, ReadingPoints
<1>3. RequirementsValid'
  BY DEF BasicInv, RequirementsValid, Go
<1> QED
  BY <1>1, <1>2, <1>3 DEF BasicInv

\* What rejecting keeps.
LEMMA RejectKeeps ==
  ASSUME BasicInv, point # "idle", Reject
  PROVE  BasicInv'
  BY DEF BasicInv, ParserTypeOK, EndAhead, RequirementsValid, Reject, ReadingPoints, ParserPoints

\* What the actions make of a draft is one.
LEMMA DraftsTyped ==
  ASSUME ParserTypeOK, NEW t \in Strings
  PROVE  /\ NoDraft \in Draft
         /\ [NoDraft EXCEPT !.operator = "!"] \in Draft
         /\ Insert(t) \in Draft
         /\ [draft EXCEPT !.key = t] \in Draft
         /\ [[draft EXCEPT !.key = t] EXCEPT !.operator = "exists"] \in Draft
         /\ t \in Operators => [draft EXCEPT !.operator = t] \in Draft
<1>1. Blank \in Strings /\ "!" \in Operators /\ "exists" \in Operators
  BY LabelAssumption DEF Operators, KeyOperators
<1>2. NoDraft \in Draft
  BY <1>1 DEF Draft, NoDraft
<1>3. [NoDraft EXCEPT !.operator = "!"] \in Draft
  BY <1>1, <1>2 DEF Draft
<1>4. Insert(t) \in Draft
  BY DEF ParserTypeOK, Draft, Insert
<1>5. [draft EXCEPT !.key = t] \in Draft
  BY DEF ParserTypeOK, Draft
<1>6. [[draft EXCEPT !.key = t] EXCEPT !.operator = "exists"] \in Draft
  BY <1>1, <1>5 DEF Draft
<1>7. t \in Operators => [draft EXCEPT !.operator = t] \in Draft
  BY DEF ParserTypeOK, Draft
<1> QED
  BY <1>2, <1>3, <1>4, <1>5, <1>6, <1>7

\* One step of the parser keeps that part of the invariant.
LEMMA ParserStepKeeps ==
  ASSUME BasicInv, ParserStep
  PROVE  BasicInv' /\ point' # "idle"
<1> USE DEF BasicInv
<1>1. point \in ReadingPoints \cup {"build"} /\ point # "idle"
  BY DEF ParserStep, BeginRequirement, ParseKey, ParseOperator, OpenValues, FirstValue, ListValue,
         ListComma, ListEnd, CloseValues, ExactValue, Build, Separate, ReadingPoints
<1>2. /\ Len(items) \in Nat /\ position \in 1..Len(items) /\ Token \in Strings
      /\ Token # End => position + 1 \in 1..Len(items) /\ Following \in Strings
      /\ Token # End /\ Following # End => position + 2 \in 1..Len(items)
  BY <1>1, TokensRemain
<1>3. /\ NoDraft \in Draft
      /\ [NoDraft EXCEPT !.operator = "!"] \in Draft
      /\ Insert(Token) \in Draft /\ Insert(Blank) \in Draft /\ draft \in Draft
      /\ [draft EXCEPT !.key = Token] \in Draft
      /\ [[draft EXCEPT !.key = Token] EXCEPT !.operator = "exists"] \in Draft
      /\ Token \in Operators => [draft EXCEPT !.operator = Token] \in Draft
  <2>1. Blank \in Strings
    BY LabelAssumption
  <2> QED
    BY <1>2, <2>1, DraftsTyped DEF ParserTypeOK
<1>4. position + 0 = position
  BY <1>2
<1>5. Reject => BasicInv' /\ point' # "idle"
  BY <1>1, RejectKeeps DEF Reject
<1>6. ASSUME NEW p \in ParserPoints \ {"idle"}, NEW n \in {0, 1, 2}, NEW d \in Draft, Go(p, n, d),
             point \in ReadingPoints,
             p \in ReadingPoints \cup {"build"} => position + n \in 1..Len(items)
      PROVE  BasicInv' /\ point' # "idle"
  BY <1>6, GoOn DEF Go
<1>7. (\A t : Literal(t) => t # End) /\ Comma # End
  BY TokensDiffer
<1> USE DEF ReadingPoints, ParserPoints
<1>8. CASE BeginRequirement
  BY <1>8, <1>2, <1>3, <1>4, <1>5, <1>6, <1>7 DEF BeginRequirement, End
<1>9. CASE ParseKey
  BY <1>9, <1>2, <1>3, <1>5, <1>6, <1>7 DEF ParseKey
<1>10. CASE ParseOperator
  BY <1>10, <1>2, <1>3, <1>5, <1>6 DEF ParseOperator, Operators, SetOperators, GlobOperators, CompareOperators, End
<1>11. CASE OpenValues
  BY <1>11, <1>2, <1>3, <1>5, <1>6 DEF OpenValues, End
<1>12. CASE FirstValue
  BY <1>12, <1>2, <1>3, <1>4, <1>5, <1>6, <1>7 DEF FirstValue, End
<1>13. CASE ListValue
  BY <1>13, <1>2, <1>3, <1>5, <1>6, <1>7 DEF ListValue
<1>14. CASE ListComma
  BY <1>14, <1>2, <1>3, <1>5, <1>6, <1>7 DEF ListComma
<1>15. CASE ListEnd
  BY <1>15, <1>5 DEF ListEnd
<1>16. CASE CloseValues
  BY <1>16, <1>2, <1>3, <1>5, <1>6 DEF CloseValues, End
<1>17. CASE ExactValue
  BY <1>17, <1>2, <1>3, <1>4, <1>5, <1>6, <1>7 DEF ExactValue, End
<1>18. CASE Build
  <2>1. CASE ~ValidRequirement(draft)
    BY <1>18, <2>1, <1>5 DEF Build
  <2>2. CASE ValidRequirement(draft)
    <3>1. /\ requirements' = Append(requirements, draft) /\ point' = "separator"
          /\ UNCHANGED <<items, position, draft>>
      BY <1>18, <2>2 DEF Build
    <3>2. /\ requirements' \in Seq(Draft) /\ Len(requirements') = Len(requirements) + 1
          /\ requirements'[Len(requirements) + 1] = draft
          /\ \A i \in 1..Len(requirements) : requirements'[i] = requirements[i]
      BY <3>1, AppendProperties DEF ParserTypeOK
    <3>3. RequirementsValid'
      <4> SUFFICES ASSUME NEW i \in 1..Len(requirements') PROVE ValidRequirement(requirements'[i])
        BY DEF RequirementsValid, ValidRequirement
      <4>1. CASE i = Len(requirements) + 1
        BY <4>1, <3>2, <2>2
      <4>2. CASE i \in 1..Len(requirements)
        BY <4>2, <3>2 DEF RequirementsValid
      <4>3. Len(requirements) \in Nat
        BY DEF ParserTypeOK
      <4> QED
        BY <4>1, <4>2, <4>3, <3>2
    <3>4. ParserTypeOK' /\ EndAhead' /\ point' # "idle"
      BY <3>1, <3>2, <1>18, <1>2 DEF ParserTypeOK, EndAhead, Build
    <3> QED
      BY <3>3, <3>4
  <2> QED
    BY <2>1, <2>2
<1>19. CASE Separate
  BY <1>19, <1>2, <1>3, <1>5, <1>6, <1>7 DEF Separate
<1> QED
  BY <1>8, <1>9, <1>10, <1>11, <1>12, <1>13, <1>14, <1>15, <1>16, <1>17, <1>18, <1>19 DEF ParserStep

-----------------------------------------------------------------------------
(* Going on *)

\* No action but ParseSelector changes the text.
LEMMA SameText ==
  ASSUME UNCHANGED items, NEW a
  PROVE  /\ Given' = Given /\ Outer' = Outer /\ Taken(a)' = Taken(a)
         /\ Text' <=> Text
BY DEF Given, Outer, Taken, Text

\* What the invariant says while the parser reads.
LEMMA ReadingIs ==
  ASSUME ParserInv, point \in ReadingPoints \cup {"build"}
  PROVE  /\ BasicInv /\ Text /\ position \in Nat /\ Len(items) \in Nat /\ position \in 1..Len(items)
         /\ \E a \in Outer : a \in Nat /\ Reads(a)
         /\ Balance(position - 1, IF point \in Inside THEN 1 ELSE 0)
         /\ \A to \in 1..position - 1 : items[to] = ")" => ~EvenBefore(items, to)
<1>1. BasicInv /\ point # "idle"
  BY DEF ParserInv, BasicInv, ReadingPoints
<1>2. Text /\ position \in Nat /\ Len(items) \in Nat /\ position \in 1..Len(items)
  BY <1>1, TextIs DEF BasicInv, EndAhead, ParserTypeOK, Text
<1>3. \A a \in Outer : a \in Nat
  BY <1>2, OuterIs
<1> QED BY <1>1, <1>2, <1>3 DEF ParserInv, ReadingInv, Balance

\* The parser has gone on to q in the same stretch.
LEMMA GoKeeps ==
  ASSUME ParserInv, point \in ReadingPoints \ {"separator"},
         NEW p \in ReadingPoints \cup {"build"}, p # "separator",
         NEW n \in {0, 1, 2}, NEW d \in Draft, Go(p, n, d),
         NEW q \in 1..Len(items), q = position + n,
         NEW a \in Outer, Reads(a), Place(a)',
         \A i \in position..q - 1 : i \notin OuterCommas(Given),
         Balance(q - 1, IF p \in Inside THEN 1 ELSE 0),
         \A to \in position..q - 1 : items[to] = ")" => ~EvenBefore(items, to)
  PROVE  ParserInv'
<1>1. /\ BasicInv /\ Text /\ position \in Nat /\ Len(items) \in Nat /\ a \in Nat
      /\ \A to \in 1..position - 1 : items[to] = ")" => ~EvenBefore(items, to)
  BY ReadingIs, OuterIs
<1>2. point' = p /\ position' = q /\ UNCHANGED <<items, requirements>>
  BY DEF Go
<1>3. p \in ParserPoints \ {"idle"} /\ p \notin {"parsed", "rejected"}
  BY DEF ReadingPoints, ParserPoints
<1>4. BasicInv'
  BY <1>1, <1>3, GoOn
<1>5. Given' = Given /\ Outer' = Outer /\ Taken(a)' = Taken(a)
  BY <1>2, SameText
<1>6. Reads(a)'
  <2>1. a < position /\ \A i \in a + 1..position - 1 : i \notin OuterCommas(Given)
    BY DEF Reads
  <2>2. a < q /\ \A i \in a + 1..q - 1 : i \notin OuterCommas(Given)
    BY <1>1, <2>1
  <2>3. Elements(requirements) = Taken(a)
    BY DEF Reads
  <2>4. Elements(requirements)' = Taken(a)' \cup (IF point' = "separator" THEN {draft'} ELSE {})
    BY <1>2, <1>5, <2>3
  <2> QED BY <1>2, <1>5, <2>2, <2>4 DEF Reads
<1>7. \A to \in 1..q - 1 : items[to] = ")" => ~EvenBefore(items, to)
  BY <1>1
<1>8. ReadingInv'
  <2>1. (\E x \in Outer : Reads(x))'
    BY <1>5, <1>6
  <2>2. Before(Given, "(", q - 1) = Before(Given, ")", q - 1) + (IF p \in Inside THEN 1 ELSE 0)
    BY DEF Balance
  <2> QED BY <1>2, <1>5, <1>7, <2>1, <2>2 DEF ReadingInv
<1>9. ParsedAsDocumented'
  BY <1>2, <1>3 DEF ParsedAsDocumented
<1> QED BY <1>2, <1>3, <1>4, <1>8, <1>9 DEF ParserInv, BasicInv

\* The parser has gone on to another point without a token,
LEMMA StandStill ==
  ASSUME ParserInv, point \in ReadingPoints \ {"separator"},
         NEW p \in ReadingPoints \cup {"build"}, p # "separator", p \in Inside <=> point \in Inside,
         NEW d \in Draft, Go(p, 0, d), NEW a \in Outer, Reads(a), Place(a)'
  PROVE  ParserInv'
<1>1. /\ position \in 1..Len(items) /\ position = position + 0
      /\ \A i \in position..position - 1 : FALSE
      /\ Balance(position - 1, IF point \in Inside THEN 1 ELSE 0)
  BY ReadingIs
<1>2. PICK q \in 1..Len(items) : q = position
  BY <1>1
<1>3. q = position + 0 /\ Balance(q - 1, IF p \in Inside THEN 1 ELSE 0) /\ \A i \in position..q - 1 : FALSE
  BY <1>1, <1>2
<1> QED BY <1>3, GoKeeps

\* or with one; a comma is then inside a list, and no even run ends before a ")".
LEMMA MoveOn ==
  ASSUME ParserInv, point \in ReadingPoints \ {"separator"},
         NEW p \in ReadingPoints \cup {"build"}, p # "separator",
         NEW d \in Draft, Go(p, 1, d), NEW a \in Outer, Reads(a), Place(a)',
         Token # End,
         \/ Token \notin {"(", ")"} /\ (p \in Inside <=> point \in Inside)
         \/ Token = "(" /\ point \notin Inside /\ p \in Inside
         \/ Token = ")" /\ point \in Inside /\ p \notin Inside,
         Token = Comma => point \in Inside,
         Token = ")" => ~EvenBefore(items, position)
  PROVE  ParserInv'
<1>1. /\ Text /\ position \in Nat /\ position \in 1..Len(items) /\ Len(items) \in Nat
      /\ Balance(position - 1, IF point \in Inside THEN 1 ELSE 0)
  BY ReadingIs
<1>2. position \in 1..Len(items) - 1
  BY <1>1 DEF Text, Token
<1>3. PICK q \in 1..Len(items) : q = position + 1 /\ q - 1 = position /\ \A i \in position..q - 1 : i = position
  BY <1>1, <1>2
<1>4. position \notin OuterCommas(Given)
  BY <1>1, <1>2, BalanceNext, TokensDiffer DEF Token
<1>5. Balance(position, IF p \in Inside THEN 1 ELSE 0)
  BY <1>1, <1>2, BalanceNext DEF Token
<1>6. \A to \in position..q - 1 : items[to] = ")" => ~EvenBefore(items, to)
  BY <1>3 DEF Token
<1>7. Balance(q - 1, IF p \in Inside THEN 1 ELSE 0) /\ \A i \in position..q - 1 : i \notin OuterCommas(Given)
  BY <1>3, <1>4, <1>5
<1> QED BY <1>3, <1>6, <1>7, GoKeeps

-----------------------------------------------------------------------------
(* Lists of values *)

\* The values listed, one token further.
LEMMA ListedNext ==
  ASSUME NEW i \in Nat, NEW k \in Nat, i <= k, NEW q \in Nat, q = k + 1
  PROVE  /\ Listed(i, i) = {}
         /\ Listed(i, q) = Listed(i, k)
              \cup ((IF Literal(items[k]) THEN {items[k]} ELSE {})
                      \cup (IF items[k] = Comma /\ (k = i \/ items[k - 1] = Comma) THEN {Blank} ELSE {}))
<1>1. Listed(i, i) = {}
  BY DEF Listed
<1>2. \A j : j \in i..(k + 1) - 1 <=> j \in i..k - 1 \/ j = k
  OBVIOUS
<1> DEFINE L(m) == {items[j] : j \in {l \in i..m : Literal(items[l])}}
           B(m) == {v \in {Blank} : \E j \in i..m : items[j] = Comma /\ (j = i \/ items[j - 1] = Comma)}
<1>3. L((k + 1) - 1) = L(k - 1) \cup (IF Literal(items[k]) THEN {items[k]} ELSE {})
  BY <1>2
<1>4. B((k + 1) - 1) = B(k - 1) \cup (IF items[k] = Comma /\ (k = i \/ items[k - 1] = Comma) THEN {Blank} ELSE {})
  BY <1>2
<1>5. Listed(i, k + 1) = L((k + 1) - 1) \cup B((k + 1) - 1) /\ Listed(i, k) = L(k - 1) \cup B(k - 1)
  BY DEF Listed
<1> HIDE DEF L, B
<1> QED BY <1>1, <1>3, <1>4, <1>5

\* A list that goes on with a value or a comma is one.
LEMMA ListReadNext ==
  ASSUME NEW i \in Nat, NEW k \in Nat, i <= k, ListRead(i, k),
         Literal(items[k]) \/ items[k] = Comma, k = i \/ items[k - 1] = Comma \/ items[k] = Comma
  PROVE  ListRead(i, k + 1)
BY DEF ListRead

LEMMA ListReadFirst == \A i \in Nat : ListRead(i, i)
BY DEF ListRead

\* The commas before k are an even number, and one more is not.
LEMMA OddRun ==
  ASSUME NEW i \in Nat, NEW k \in Nat, 1 < i, i <= k, EvenRun(i, k), items[k] = Comma
  PROVE  ~EvenBefore(items, k + 1)
<1>1. PICK f \in i..k : /\ (k - f) % 2 = 0 /\ items[f - 1] # Comma
                        /\ \A j \in f..k - 1 : items[j] = Comma
  BY DEF EvenRun
<1>2. SUFFICES ASSUME NEW g \in 1..(k + 1) - 1, ((k + 1) - g) % 2 = 0, g > 1 => items[g - 1] # Comma,
                      \A j \in g..(k + 1) - 1 : items[j] = Comma
               PROVE  FALSE
  BY DEF EvenBefore
<1>3. ~(g < f)
  <2>1. g < f => f - 1 \in g..(k + 1) - 1
    OBVIOUS
  <2> QED BY <1>1, <1>2, <2>1
<1>4. ~(f < g)
  <2>1. f < g => g - 1 \in f..k - 1 /\ g > 1
    OBVIOUS
  <2> QED BY <1>1, <1>2, <2>1
<1>5. f = g
  BY <1>3, <1>4
<1> QED BY <1>1, <1>2, <1>5

\* No even run ends behind a token that is no comma,
LEMMA NoRun ==
  ASSUME NEW k \in Nat, k > 0, items[k] # Comma
  PROVE  ~EvenBefore(items, k + 1)
BY DEF EvenBefore

\* a run of none is even,
LEMMA EvenRunFirst ==
  ASSUME NEW i \in Nat, NEW k \in Nat, i <= k, items[k - 1] # Comma
  PROVE  EvenRun(i, k)
<1>1. k \in i..k /\ (k - k) % 2 = 0 /\ \A j \in k..k - 1 : FALSE
  OBVIOUS
<1> QED BY <1>1 DEF EvenRun

\* and two commas more keep it even.
LEMMA EvenRunNext ==
  ASSUME NEW i \in Nat, NEW k \in Nat, i <= k, EvenRun(i, k), items[k] = Comma, items[k + 1] = Comma
  PROVE  EvenRun(i, k + 2)
<1>1. PICK f \in i..k : /\ (k - f) % 2 = 0 /\ items[f - 1] # Comma
                        /\ \A j \in f..k - 1 : items[j] = Comma
  BY DEF EvenRun
<1>2. f \in i..k + 2 /\ ((k + 2) - f) % 2 = 0 /\ \A j \in f..(k + 2) - 1 : j \in f..k - 1 \/ j = k \/ j = k + 1
  BY <1>1
<1> QED BY <1>1, <1>2 DEF EvenRun

\* Before a comma, an empty value has been listed if the last token is a comma too;
\* and something has been listed, but at the start.
LEMMA ListedBefore ==
  ASSUME NEW i \in Nat, NEW k \in Nat, i <= k, ListRead(i, k), EvenRun(i, k)
  PROVE  /\ k # i => Listed(i, k) # {}
         /\ k # i /\ items[k - 1] = Comma => Blank \in Listed(i, k)
<1>1. ASSUME k # i PROVE Listed(i, k) # {}
  <2>1. i \in i..k - 1
    BY <1>1
  <2>2. CASE Literal(items[i])
    BY <2>1, <2>2 DEF Listed
  <2>3. CASE items[i] = Comma
    <3>1. \E j \in i..k - 1 : items[j] = Comma /\ (j = i \/ items[j - 1] = Comma)
      BY <2>1, <2>3
    <3> QED BY <3>1 DEF Listed
  <2> QED BY <2>1, <2>2, <2>3 DEF ListRead
<1>2. ASSUME k # i, items[k - 1] = Comma PROVE Blank \in Listed(i, k)
  <2>1. PICK f \in i..k : /\ (k - f) % 2 = 0 /\ items[f - 1] # Comma
                          /\ \A j \in f..k - 1 : items[j] = Comma
    BY DEF EvenRun
  <2>2. f # k
    BY <1>2, <2>1
  <2>3. f \in f..k - 1 /\ f + 1 \in f..k - 1 /\ f + 1 \in i..k - 1 /\ (f + 1) - 1 = f
    BY <2>1, <2>2
  <2>4. \E j \in i..k - 1 : items[j] = Comma /\ (j = i \/ items[j - 1] = Comma)
    BY <2>1, <2>3
  <2> QED BY <2>4 DEF Listed
<1> QED BY <1>1, <1>2

\* The places in a list, after a step.
LEMMA PlaceInList ==
  ASSUME UNCHANGED items, NEW a, NEW q, position' = q, Named(a), items[a + 2] \in SetOperators,
         items[a + 3] = "(", NEW values, draft' = [key |-> items[a + 1], operator |-> items[a + 2], values |-> values],
         ListRead(a + 4, q)
  PROVE  /\ (/\ point' = "list" /\ q >= a + 4 /\ values = Listed(a + 4, q)
             /\ Literal(items[q]) /\ q > a + 4 => items[q - 1] = Comma
             /\ items[q] \in {Comma, ")"} => EvenRun(a + 4, q)
             /\ items[q] = ")" => items[q - 1] = Comma) => Place(a)'
         /\ (/\ point' = "close" /\ q > a + 4 /\ items[q] = ")"
             /\ values = Listed(a + 4, q) \cup (IF items[q - 1] = Comma THEN {Blank} ELSE {})
             /\ ~EvenBefore(items, q)) => Place(a)'
<1>1. Listed(a + 4, q)' = Listed(a + 4, q)
  BY DEF Listed
<1>2. ListRead(a + 4, q)'
  BY DEF ListRead
<1>3. EvenRun(a + 4, q)' <=> EvenRun(a + 4, q)
  BY DEF EvenRun
<1>4. Named(a)'
  BY DEF Named
<1>5. ASSUME point' = "list", q >= a + 4, values = Listed(a + 4, q),
             Literal(items[q]) /\ q > a + 4 => items[q - 1] = Comma,
             items[q] \in {Comma, ")"} => EvenRun(a + 4, q),
             items[q] = ")" => items[q - 1] = Comma
      PROVE  Place(a)'
  <2>1. ReadsList(a)'
    BY <1>1, <1>2, <1>3, <1>5 DEF ReadsList, Requires, Token, Listed, ListRead, EvenRun
  <2> QED BY <1>4, <1>5, <2>1 DEF Place, ReadsValues
<1>6. ASSUME point' = "close", q > a + 4, items[q] = ")",
             values = Listed(a + 4, q) \cup (IF items[q - 1] = Comma THEN {Blank} ELSE {}),
             ~EvenBefore(items, q)
      PROVE  Place(a)'
  <2>1. ReadsClose(a)'
    BY <1>1, <1>2, <1>6 DEF ReadsClose, Requires, Token, Listed, ListRead
  <2> QED BY <1>4, <1>6, <2>1 DEF Place, ReadsValues
<1> QED BY <1>5, <1>6

-----------------------------------------------------------------------------
(* Each action reads on as the grammar has it, or is right to reject *)

\* The draft that goes to NewRequirement is what has been read denotes.
LEMMA BuiltDenotes ==
  ASSUME ParserInv, point \in ReadingPoints, NEW a \in Nat, NEW q \in 1..Len(items), a < q, UNCHANGED items,
         position' = q, point' = "build", draft' = Denotes(Between(Given, <<a, q>>)),
         \/ q = a + 2 /\ items[q] \in {End, Comma}
         \/ q = a + 3 /\ items[a + 1] = "!"
         \/ /\ q \in {a + 3, a + 4} /\ Named(a) /\ items[a + 2] \in GlobOperators \cup CompareOperators
            /\ q = a + 3 => items[q] \in {End, Comma}
         \/ q > a + 4 /\ Named(a) /\ items[a + 2] \in SetOperators /\ items[q - 1] = ")"
  PROVE  Place(a)'
<1>1. Given' = Given
  BY SameText
<1>2. Denotes(Between(Given, <<a, position>>))' = Denotes(Between(Given, <<a, q>>))
  BY <1>1
<1>3. HasRead(a)'
  BY <1>2 DEF HasRead, Token, Named
<1> QED BY <1>3 DEF Place

\* A rejection is right.
LEMMA RejectReads ==
  ASSUME ParserInv, ParserStep, Reject
  PROVE  ParserInv'
<1>1. BasicInv' /\ BasicInv
  BY ParserStepKeeps DEF ParserInv, BasicInv
<1>2. ~Sentence(Given) \/ EvenCommas(Given)
  BY RejectIsRight DEF ParserInv
<1>3. point' = "rejected" /\ UNCHANGED items
  BY DEF Reject
<1>4. Given' = Given
  BY <1>3, SameText
<1>5. ParsedAsDocumented'
  BY <1>2, <1>3, <1>4 DEF ParsedAsDocumented
<1>6. ReadingInv'
  BY <1>3 DEF ReadingInv, ReadingPoints
<1> QED BY <1>1, <1>3, <1>5, <1>6 DEF ParserInv, BasicInv

\* Then the actions, one by one.
LEMMA BeginRequirementReads ==
  ASSUME ParserInv, BeginRequirement, ~Reject
  PROVE  ParserInv'
<1>1. point = "requirement" /\ point \in ReadingPoints \ {"separator"} /\ point \notin Inside
  BY DEF BeginRequirement, ReadingPoints, Inside
<1>2. PICK a \in Outer : a \in Nat /\ Reads(a)
  BY <1>1, ReadingIs
<1>3. position = a + 1 /\ (a # 0 => Literal(Token) \/ Token = "!")
  BY <1>1, <1>2, AtPoint
<1>4. /\ Text /\ position \in Nat /\ Len(items) \in Nat /\ position \in 1..Len(items) /\ BasicInv
      /\ NoDraft \in Draft /\ [NoDraft EXCEPT !.operator = "!"] \in Draft
  <2>1. Blank \in Strings
    BY LabelAssumption
  <2> QED BY <1>1, <2>1, ReadingIs, DraftsTyped DEF BasicInv
<1>5. /\ "key" \in ReadingPoints \cup {"build"} /\ "key" \notin Inside /\ "key" # "separator"
  BY DEF ReadingPoints, Inside
<1>6. CASE Literal(Token) /\ Go("key", 0, NoDraft)
  <2>1. Place(a)'
    BY <1>3, <1>4, <1>6 DEF Place, ReadsKey, Go, Token
  <2> QED BY <1>1, <1>2, <1>4, <1>5, <1>6, <2>1, StandStill
<1>7. CASE Token = "!" /\ Go("key", 1, [NoDraft EXCEPT !.operator = "!"])
  <2>1. Place(a)'
    <3>1. position' = a + 2 /\ items' = items /\ items[a + 1] = "!" /\ point' = "key"
      BY <1>2, <1>3, <1>4, <1>7 DEF Go, Token
    <3>2. draft' = [NoDraft EXCEPT !.operator = "!"]
      BY <1>7 DEF Go
    <3> QED BY <3>1, <3>2 DEF Place, ReadsKey
  <2>2. Token \notin {"(", ")", End, Comma}
    BY <1>7, TokensDiffer
  <2> QED BY <1>1, <1>2, <1>4, <1>5, <1>7, <2>1, <2>2, MoveOn
<1>8. CASE Token = End /\ Go("parsed", 0, NoDraft)
  <2>1. a = 0
    BY <1>3, <1>8, TokensDiffer
  <2>2. Len(items) = 1
    <3>1. position = 1 /\ items[1] = End
      BY <1>3, <1>8, <2>1 DEF Token
    <3>2. PICK n \in Nat : n = Len(items) /\ n >= 1
      BY <1>4
    <3>3. n # 1 => 1 \in 1..n - 1
      BY <3>2
    <3> QED BY <1>4, <3>1, <3>2, <3>3 DEF Text
  <2>3. Given = <<>>
    <3>1. Len(Given) = 0 /\ Given \in Seq(Strings)
      BY <1>4, <2>2, GivenIs DEF Text
    <3> QED BY <3>1
  <2>4. Taken(0) = {}
    <3>1. \A p \in Adjacent(Outer) : ~(p[2] <= 0)
      BY <1>4, OuterIs DEF Adjacent
    <3> QED BY <3>1 DEF Taken
  <2>5. Elements(requirements) = {}
    BY <1>1, <1>2, <2>1, <2>4 DEF Reads
  <2>6. /\ point' = "parsed" /\ UNCHANGED <<items, requirements>>
    BY <1>8 DEF Go
  <2>7. Given' = <<>> /\ Elements(requirements)' = {}
    BY <2>3, <2>5, <2>6, SameText
  <2>8. BasicInv'
    BY <1>4, ParserStepKeeps DEF ParserStep
  <2>9. ~EvenCommas(Given')
    BY <2>7 DEF EvenCommas
  <2>10. ParsedAsDocumented'
    BY <2>6, <2>7 DEF ParsedAsDocumented, Sentence
  <2> QED BY <2>6, <2>8, <2>9, <2>10 DEF ParserInv, BasicInv, ReadingInv, ReadingPoints
<1> QED BY <1>6, <1>7, <1>8 DEF BeginRequirement

LEMMA ParseKeyReads ==
  ASSUME ParserInv, ParseKey, ~Reject
  PROVE  ParserInv'
<1>1. point = "key" /\ point \in ReadingPoints \ {"separator"} /\ point \notin Inside
  BY DEF ParseKey, ReadingPoints, Inside
<1>2. PICK a \in Outer : a \in Nat /\ Reads(a)
  BY <1>1, ReadingIs
<1>3. /\ Text /\ position \in Nat /\ Len(items) \in Nat /\ position \in 1..Len(items) /\ BasicInv
      /\ Token \in Strings /\ Literal(Token) /\ Token \in Keys /\ Token \notin {"(", ")", End, Comma}
      /\ position + 1 \in 1..Len(items)
  <2>1. Literal(Token) /\ Token \in Keys
    BY DEF ParseKey
  <2> QED BY <1>1, <2>1, ReadingIs, TokensRemain, TokensDiffer DEF BasicInv
<1>4. /\ "operator" \in ReadingPoints \cup {"build"} /\ "operator" \notin Inside
      /\ "build" \in ReadingPoints \cup {"build"} /\ "build" \notin Inside
  BY DEF ReadingPoints, Inside
<1>5. /\ [draft EXCEPT !.key = Token] \in Draft
      /\ [[draft EXCEPT !.key = Token] EXCEPT !.operator = "exists"] \in Draft
  BY <1>3, DraftsTyped DEF BasicInv
<1>6. PICK q \in 1..Len(items) : q = position + 1
  BY <1>3
<1>7. a < q /\ q - a - 1 \in Nat
  BY <1>2, <1>3, <1>6 DEF Reads
<1> DEFINE f == Between(Given, <<a, q>>)
<1>8. f \in Seq(Strings) /\ Len(f) = q - a - 1 /\ \A i \in 1..q - a - 1 : f[i] = items[a + i]
  BY <1>2, <1>3, <1>7, StretchIs DEF Text
<1> HIDE DEF f
<1>9. CASE position = a + 1 /\ draft = NoDraft /\ Literal(Token)
  <2>1. draft.operator # "!" /\ draft = [key |-> Blank, operator |-> Blank, values |-> {}]
    <3>1. Blank # "!"
      BY TokensDiffer DEF Operators, KeyOperators
    <3> QED BY <1>9, <3>1 DEF NoDraft
  <2>2. CASE Following \in {End, Comma} /\ Go("build", 1, [[draft EXCEPT !.key = Token] EXCEPT !.operator = "exists"])
    <3>1. Len(f) = 1 /\ f[1] = items[a + 1]
      BY <1>6, <1>8, <1>9, <1>2
    <3>2. Denotes(f) = [key |-> items[a + 1], operator |-> "exists", values |-> {}]
      BY <1>8, <3>1, KeyDenotes
    <3>3. draft' = Denotes(f)
      <4>1. draft' = [key |-> Token, operator |-> "exists", values |-> {}]
        BY <2>1, <2>2 DEF Go
      <4> QED BY <1>9, <3>2, <4>1 DEF Token
    <3>4. Place(a)'
      <4>1. q = a + 2 /\ items[q] \in {End, Comma}
        BY <1>2, <1>6, <1>9, <2>2 DEF Following
      <4>2. /\ UNCHANGED items /\ position' = q /\ point' = "build"
            /\ draft' = Denotes(Between(Given, <<a, q>>))
        BY <1>6, <2>2, <3>3 DEF Go, f
      <4> QED BY <1>1, <1>2, <1>7, <4>1, <4>2, BuiltDenotes
    <3> QED BY <1>1, <1>2, <1>3, <1>4, <1>5, <2>2, <3>4, MoveOn
  <2>3. CASE Following \notin {End, Comma} /\ Go("operator", 1, [draft EXCEPT !.key = Token])
    <3>1. Place(a)'
      BY <1>2, <1>3, <1>9, <2>3 DEF Place, ReadsKey, Go, Following, Named, Token
    <3> QED BY <1>1, <1>2, <1>3, <1>4, <1>5, <2>3, <3>1, MoveOn
  <2> QED BY <2>1, <2>2, <2>3, <1>3 DEF ParseKey
<1>10. CASE position = a + 2 /\ draft = [NoDraft EXCEPT !.operator = "!"] /\ items[a + 1] = "!"
  <2>1. draft.operator = "!" /\ draft = [key |-> Blank, operator |-> "!", values |-> {}]
    BY <1>10 DEF NoDraft
  <2>2. Go("build", 1, [draft EXCEPT !.key = Token])
    BY <1>3, <2>1 DEF ParseKey
  <2>3. Len(f) = 2 /\ f[1] = items[a + 1] /\ f[2] = items[a + 2]
    BY <1>6, <1>8, <1>10, <1>2
  <2>4. Denotes(f) = [key |-> items[a + 2], operator |-> "!", values |-> {}]
    BY <1>8, <1>10, <2>3, KeyDenotes
  <2>5. draft' = Denotes(f)
    <3>1. draft' = [key |-> Token, operator |-> "!", values |-> {}]
      BY <2>1, <2>2 DEF Go
    <3> QED BY <1>10, <2>4, <3>1 DEF Token
  <2>6. Place(a)'
    <3>1. q = a + 3
      BY <1>2, <1>6, <1>10
    <3> QED BY <1>1, <1>2, <1>6, <1>7, <1>10, <2>2, <2>5, <3>1, BuiltDenotes DEF Go, f
  <2> QED BY <1>1, <1>2, <1>3, <1>4, <1>5, <2>2, <2>6, MoveOn
<1> QED BY <1>1, <1>2, <1>9, <1>10, AtPoint

LEMMA ParseOperatorReads ==
  ASSUME ParserInv, ParseOperator, ~Reject
  PROVE  ParserInv'
<1>1. point = "operator" /\ point \in ReadingPoints \ {"separator"} /\ point \notin Inside
  BY DEF ParseOperator, ReadingPoints, Inside
<1>2. PICK a \in Outer : a \in Nat /\ Reads(a)
  BY <1>1, ReadingIs
<1>3. /\ position = a + 2 /\ Named(a) /\ draft = [NoDraft EXCEPT !.key = items[a + 1]]
  BY <1>1, <1>2, AtPoint
<1>4. Token \in Strings /\ BasicInv
  BY <1>1, ReadingIs, TokensRemain DEF BasicInv
<1>5. /\ "open" \in ReadingPoints \cup {"build"} /\ "open" \notin Inside
      /\ "exact" \in ReadingPoints \cup {"build"} /\ "exact" \notin Inside
  BY DEF ReadingPoints, Inside
<1>6. /\ SetOperators \cup GlobOperators \cup CompareOperators \subseteq Operators
      /\ \A t \in Operators : t \notin {"(", ")", End, Comma}
  BY TokensDiffer DEF Operators
<1>7. Token \in Operators => [draft EXCEPT !.operator = Token] \in Draft
  BY <1>4, DraftsTyped DEF BasicInv
<1>8. ASSUME NEW p, Go(p, 1, [draft EXCEPT !.operator = Token])
      PROVE  /\ position' = a + 3 /\ point' = p /\ UNCHANGED items /\ Named(a)'
             /\ items[a + 2] = Token /\ Requires(a, {})'
  <2>1. position' = a + 3 /\ point' = p /\ UNCHANGED items /\ items[a + 2] = Token
    BY <1>2, <1>3, <1>8 DEF Go, Token
  <2>2. draft' = [key |-> items[a + 1], operator |-> Token, values |-> {}]
    BY <1>3, <1>8 DEF Go, NoDraft
  <2> QED BY <1>3, <2>1, <2>2 DEF Named, Requires
<1>9. CASE Token \in SetOperators /\ Go("open", 1, [draft EXCEPT !.operator = Token])
  <2>1. Place(a)'
    BY <1>8, <1>9 DEF Place, ReadsValues
  <2> QED BY <1>1, <1>2, <1>5, <1>6, <1>7, <1>9, <2>1, MoveOn
<1>10. CASE /\ Token \in GlobOperators \cup CompareOperators
            /\ Go("exact", 1, [draft EXCEPT !.operator = Token])
  <2>1. Place(a)'
    BY <1>8, <1>10 DEF Place, ReadsExact
  <2> QED BY <1>1, <1>2, <1>5, <1>6, <1>7, <1>10, <2>1, MoveOn
<1> QED BY <1>9, <1>10 DEF ParseOperator

LEMMA OpenValuesReads ==
  ASSUME ParserInv, OpenValues, ~Reject
  PROVE  ParserInv'
<1>1. point = "open" /\ point \in ReadingPoints \ {"separator"} /\ point \notin Inside
  BY DEF OpenValues, ReadingPoints, Inside
<1>2. PICK a \in Outer : a \in Nat /\ Reads(a)
  BY <1>1, ReadingIs
<1>3. position = a + 3 /\ Named(a) /\ items[a + 2] \in SetOperators /\ Requires(a, {})
  BY <1>1, <1>2, AtPoint
<1>4. Token = "(" /\ Go("first", 1, draft) /\ draft \in Draft /\ Token # End /\ Token # Comma /\ Token # ")"
  BY <1>1, ReadingIs, TokensDiffer DEF OpenValues, BasicInv, ParserTypeOK
<1>5. "first" \in ReadingPoints \cup {"build"} /\ "first" \in Inside
  BY DEF ReadingPoints, Inside
<1>6. Place(a)'
  <2>1. position' = a + 4 /\ point' = "first" /\ UNCHANGED <<items, draft>> /\ items[a + 3] = "("
    BY <1>2, <1>3, <1>4 DEF Go, Token
  <2> QED BY <1>3, <2>1 DEF Place, ReadsValues, Named, Requires
<1> QED BY <1>1, <1>2, <1>4, <1>5, <1>6, MoveOn

LEMMA FirstValueReads ==
  ASSUME ParserInv, FirstValue, ~Reject
  PROVE  ParserInv'
<1>1. point = "first" /\ point \in ReadingPoints \ {"separator"} /\ point \in Inside
  BY DEF FirstValue, ReadingPoints, Inside
<1>2. PICK a \in Outer : a \in Nat /\ Reads(a)
  BY <1>1, ReadingIs
<1>3. /\ position = a + 4 /\ Named(a) /\ items[a + 2] \in SetOperators /\ items[a + 3] = "("
      /\ draft = [key |-> items[a + 1], operator |-> items[a + 2], values |-> {}]
  BY <1>1, <1>2, AtPoint DEF Requires
<1>4. /\ Text /\ position \in Nat /\ Len(items) \in Nat /\ position \in 1..Len(items) /\ BasicInv
      /\ draft \in Draft /\ Insert(Blank) \in Draft
  <2>1. Blank \in Strings
    BY LabelAssumption
  <2> QED BY <1>1, <2>1, ReadingIs, DraftsTyped DEF BasicInv, ParserTypeOK
<1>5. /\ "list" \in ReadingPoints \cup {"build"} /\ "list" \in Inside /\ "build" \notin Inside
      /\ "build" # "separator" /\ "list" # "separator"
  BY DEF ReadingPoints, Inside
<1>6. CASE (Literal(Token) \/ Token = Comma) /\ Go("list", 0, draft)
  <2>1. position' = a + 4 /\ point' = "list" /\ UNCHANGED <<items, draft>>
    BY <1>2, <1>3, <1>6 DEF Go
  <2>2. PICK k \in Nat : k = a + 4 /\ k - 1 = a + 3
    BY <1>2
  <2>3. Listed(k, k) = {} /\ ListRead(k, k) /\ EvenRun(k, k)
    BY <1>3, <2>2, ListedNext, ListReadFirst, EvenRunFirst, TokensDiffer
  <2>4. items[k] # ")"
    BY <1>3, <1>6, <2>2, TokensDiffer DEF Token
  <2>5. Place(a)'
    <3>1. /\ position' = k /\ k >= a + 4 /\ ~(k > a + 4)
          /\ draft' = [key |-> items[a + 1], operator |-> items[a + 2], values |-> {}]
      BY <1>2, <1>3, <2>1, <2>2
    <3>2. {} = Listed(a + 4, k) /\ ListRead(a + 4, k) /\ EvenRun(a + 4, k)
      BY <2>2, <2>3
    <3> QED BY <1>3, <2>1, <2>4, <3>1, <3>2, PlaceInList
  <2> QED BY <1>1, <1>2, <1>4, <1>5, <1>6, <2>5, StandStill
<1>7. CASE Token = ")" /\ Go("build", 1, Insert(Blank))
  <2>1. Token \notin {"(", End, Comma}
    BY <1>7, TokensDiffer
  <2>2. PICK k \in Nat : k = a + 4 /\ k = position /\ k < Len(items) /\ items[k] = ")" /\ k - 1 = a + 3
    BY <1>2, <1>3, <1>4, <1>7, <2>1 DEF Text, Token
  <2>3. Listed(k, k) = {} /\ ListRead(k, k)
    BY <2>2, ListedNext, ListReadFirst
  <2>4. Denotes(Between(Given, <<a, k + 1>>)) =
          [key |-> items[a + 1], operator |-> items[a + 2], values |-> {} \cup {Blank}]
    BY <1>2, <1>3, <1>4, <2>2, <2>3, ClosedList DEF Text
  <2>5. draft' = [key |-> items[a + 1], operator |-> items[a + 2], values |-> {} \cup {Blank}]
    BY <1>3, <1>7 DEF Go, Insert
  <2>6. PICK q \in 1..Len(items) : q = k + 1 /\ q = position + 1 /\ q - 1 = k /\ q > a + 4 /\ a < q
    BY <1>2, <1>4, <2>2
  <2>7. draft' = Denotes(Between(Given, <<a, q>>))
    BY <2>4, <2>5, <2>6
  <2>8. Place(a)'
    <3>1. UNCHANGED items /\ position' = q /\ point' = "build" /\ items[q - 1] = ")"
      BY <1>7, <2>2, <2>6 DEF Go
    <3> QED BY <1>1, <1>2, <1>3, <2>6, <2>7, <3>1, BuiltDenotes
  <2>9. ~EvenBefore(items, position)
    <3>1. PICK m \in Nat : m = a + 3 /\ m > 0 /\ m + 1 = position
      BY <1>2, <1>3
    <3> QED BY <1>3, <3>1, NoRun, TokensDiffer
  <2> QED BY <1>1, <1>2, <1>4, <1>5, <1>7, <2>1, <2>8, <2>9, MoveOn
<1> QED BY <1>6, <1>7 DEF FirstValue

LEMMA CloseValuesReads ==
  ASSUME ParserInv, CloseValues, ~Reject
  PROVE  ParserInv'
<1>1. point = "close" /\ point \in ReadingPoints \ {"separator"} /\ point \in Inside
  BY DEF CloseValues, ReadingPoints, Inside
<1>2. PICK a \in Outer : a \in Nat /\ Reads(a)
  BY <1>1, ReadingIs
<1>3. Named(a) /\ items[a + 2] \in SetOperators /\ items[a + 3] = "(" /\ ReadsClose(a)
  BY <1>1, <1>2, AtPoint
<1>4. /\ Text /\ position \in Nat /\ Len(items) \in Nat /\ position \in 1..Len(items) /\ draft \in Draft
  BY <1>1, ReadingIs DEF BasicInv, ParserTypeOK
<1>5. "build" \notin Inside
  BY DEF Inside
<1>6. Token = ")" /\ Go("build", 1, draft) /\ Token \notin {"(", End, Comma}
  BY TokensDiffer DEF CloseValues
<1>7. PICK k \in Nat : /\ k = position /\ k > a + 4 /\ k < Len(items) /\ items[k] = ")" /\ ListRead(a + 4, k)
                       /\ ~EvenBefore(items, k)
                       /\ Requires(a, Listed(a + 4, k) \cup (IF items[k - 1] = Comma THEN {Blank} ELSE {}))
  <2>1. PICK k \in Nat : k = position
    BY <1>4
  <2>2. /\ k > a + 4 /\ items[k] = ")" /\ ListRead(a + 4, k) /\ ~EvenBefore(items, k)
        /\ Requires(a, Listed(a + 4, k) \cup (IF items[k - 1] = Comma THEN {Blank} ELSE {}))
    BY <1>3, <2>1 DEF ReadsClose, Token
  <2>3. k < Len(items)
    BY <1>4, <1>6, <2>1 DEF Text, Token
  <2> QED BY <2>1, <2>2, <2>3
<1>8. Denotes(Between(Given, <<a, k + 1>>)) = draft
  <2>1. (k = a + 4 \/ items[k - 1] = Comma) <=> items[k - 1] = Comma
    BY <1>2, <1>7
  <2>2. a + 4 <= k
    BY <1>2, <1>7
  <2>3. Denotes(Between(Given, <<a, k + 1>>)) =
          [key |-> items[a + 1], operator |-> items[a + 2],
           values |-> Listed(a + 4, k) \cup (IF k = a + 4 \/ items[k - 1] = Comma THEN {Blank} ELSE {})]
    BY <1>2, <1>3, <1>4, <1>7, <2>2, ClosedList DEF Text
  <2> QED BY <1>7, <2>1, <2>3 DEF Requires
<1>9. PICK q \in 1..Len(items) : q = k + 1 /\ q = position + 1 /\ q - 1 = k /\ q > a + 4 /\ a < q
  BY <1>2, <1>4, <1>7
<1>10. Place(a)'
  <2>1. /\ UNCHANGED items /\ position' = q /\ point' = "build" /\ items[q - 1] = ")"
        /\ draft' = Denotes(Between(Given, <<a, q>>))
    BY <1>6, <1>7, <1>8, <1>9 DEF Go
  <2> QED BY <1>1, <1>2, <1>3, <1>9, <2>1, BuiltDenotes
<1> QED BY <1>1, <1>2, <1>4, <1>5, <1>6, <1>7, <1>10, MoveOn

LEMMA ExactValueReads ==
  ASSUME ParserInv, ExactValue, ~Reject
  PROVE  ParserInv'
<1>1. point = "exact" /\ point \in ReadingPoints \ {"separator"} /\ point \notin Inside
  BY DEF ExactValue, ReadingPoints, Inside
<1>2. PICK a \in Outer : a \in Nat /\ Reads(a)
  BY <1>1, ReadingIs
<1>3. /\ position = a + 3 /\ Named(a) /\ items[a + 2] \in GlobOperators \cup CompareOperators
      /\ draft = [key |-> items[a + 1], operator |-> items[a + 2], values |-> {}]
      /\ items[a + 1] # "!"
  <2>1. ReadsExact(a)
    BY <1>1, <1>2, AtPoint
  <2> QED BY <2>1, TokensDiffer DEF ReadsExact, Requires, Named
<1>4. /\ Text /\ position \in Nat /\ Len(items) \in Nat /\ position \in 1..Len(items)
      /\ Insert(Token) \in Draft /\ Insert(Blank) \in Draft
  <2>1. Blank \in Strings /\ Token \in Strings
    BY <1>1, LabelAssumption, ReadingIs, TokensRemain DEF BasicInv
  <2> QED BY <1>1, <2>1, ReadingIs, DraftsTyped DEF BasicInv
<1>5. "build" \notin Inside
  BY DEF Inside
<1>6. CASE Token \in {End, Comma} /\ Go("build", 0, Insert(Blank))
  <2> DEFINE f == Between(Given, <<a, position>>)
  <2>1. f \in Seq(Strings) /\ Len(f) = position - a - 1 /\ \A i \in 1..position - a - 1 : f[i] = items[a + i]
    <3>1. a < position
      BY <1>2 DEF Reads
    <3> QED BY <1>2, <1>4, <3>1, StretchIs DEF Text
  <2> HIDE DEF f
  <2>2. Len(f) = 2 /\ f[1] = items[a + 1] /\ f[2] = items[a + 2]
    <3>1. position - a - 1 = 2
      BY <1>2, <1>3
    <3> QED BY <2>1, <3>1
  <2>3. Denotes(f) = [key |-> items[a + 1], operator |-> items[a + 2], values |-> {Blank}]
    BY <1>3, <2>1, <2>2, ExactDenotes
  <2>4. draft' = Denotes(f)
    <3>1. draft' = [key |-> items[a + 1], operator |-> items[a + 2], values |-> {Blank}]
      BY <1>3, <1>6 DEF Go, Insert
    <3> QED BY <2>3, <3>1
  <2>5. Place(a)'
    <3>1. PICK q \in 1..Len(items) : q = position /\ q = a + 3 /\ a < q
      BY <1>2, <1>3, <1>4
    <3>2. /\ UNCHANGED items /\ position' = q /\ point' = "build" /\ items[q] \in {End, Comma}
          /\ draft' = Denotes(Between(Given, <<a, q>>))
      BY <1>4, <1>6, <2>4, <3>1 DEF Go, f, Token
    <3> QED BY <1>1, <1>2, <1>3, <3>1, <3>2, BuiltDenotes
  <2> QED BY <1>1, <1>2, <1>4, <1>5, <1>6, <2>5, StandStill
<1>7. CASE Literal(Token) /\ Go("build", 1, Insert(Token))
  <2>1. Token \notin {"(", ")", End, Comma}
    BY <1>7, TokensDiffer
  <2>2. PICK q \in 1..Len(items) : q = position + 1 /\ q = a + 4 /\ a < q /\ q - a - 1 = 3
    BY <1>2, <1>3, <1>4, <2>1 DEF Text, Token
  <2> DEFINE f == Between(Given, <<a, q>>)
  <2>3. f \in Seq(Strings) /\ Len(f) = q - a - 1 /\ \A i \in 1..q - a - 1 : f[i] = items[a + i]
    BY <1>2, <1>4, <2>2, StretchIs DEF Text
  <2> HIDE DEF f
  <2>4. Len(f) = 3 /\ f[1] = items[a + 1] /\ f[2] = items[a + 2] /\ f[3] = items[a + 3] /\ items[a + 3] = Token
    BY <1>3, <2>2, <2>3 DEF Token
  <2>5. Denotes(f) = [key |-> items[a + 1], operator |-> items[a + 2], values |-> {Token}]
    BY <1>3, <1>7, <2>3, <2>4, ExactDenotes
  <2>6. draft' = Denotes(f)
    <3>1. draft' = [key |-> items[a + 1], operator |-> items[a + 2], values |-> {Token}]
      BY <1>3, <1>7 DEF Go, Insert
    <3> QED BY <2>5, <3>1
  <2>7. Place(a)'
    <3>1. /\ UNCHANGED items /\ position' = q /\ point' = "build"
          /\ draft' = Denotes(Between(Given, <<a, q>>)) /\ q # a + 3
      BY <1>2, <1>7, <2>2, <2>6 DEF Go, f
    <3> QED BY <1>1, <1>2, <1>3, <2>2, <3>1, BuiltDenotes
  <2> QED BY <1>1, <1>2, <1>4, <1>5, <1>7, <2>1, <2>7, MoveOn
<1> QED BY <1>6, <1>7 DEF ExactValue

\* In the list at k.
LEMMA ListIs ==
  ASSUME ParserInv, point = "list"
  PROVE  /\ point \in ReadingPoints \ {"separator"} /\ point \in Inside /\ draft \in Draft
         /\ "list" \in Inside /\ "close" \in Inside /\ "close" \in ReadingPoints /\ "close" # "separator"
         /\ \A t \in Strings : Insert(t) \in Draft
         /\ \E a \in Outer, k \in Nat :
              /\ a \in Nat /\ Reads(a) /\ k = position /\ k \in 1..Len(items) /\ Len(items) \in Nat
              /\ Named(a) /\ items[a + 2] \in SetOperators /\ items[a + 3] = "("
              /\ k >= a + 4 /\ ListRead(a + 4, k)
              /\ draft = [key |-> items[a + 1], operator |-> items[a + 2], values |-> Listed(a + 4, k)]
              /\ Literal(items[k]) /\ k > a + 4 => items[k - 1] = Comma
              /\ items[k] \in {Comma, ")"} => EvenRun(a + 4, k)
<1>1. point \in ReadingPoints \ {"separator"} /\ point \in Inside
  BY DEF ReadingPoints, Inside
<1>2. PICK a \in Outer : a \in Nat /\ Reads(a)
  BY <1>1, ReadingIs
<1>3. Named(a) /\ items[a + 2] \in SetOperators /\ items[a + 3] = "(" /\ ReadsList(a)
  BY <1>2, AtPoint
<1>4. position \in Nat /\ Len(items) \in Nat /\ position \in 1..Len(items)
  BY <1>1, ReadingIs
<1>5. draft \in Draft /\ \A t \in Strings : Insert(t) \in Draft
  BY <1>1, ReadingIs, DraftsTyped DEF BasicInv, ParserTypeOK
<1>6. PICK k \in Nat : k = position
  BY <1>4
<1>7. /\ k >= a + 4 /\ ListRead(a + 4, k) /\ Requires(a, Listed(a + 4, k))
      /\ Literal(items[k]) /\ k > a + 4 => items[k - 1] = Comma
      /\ items[k] \in {Comma, ")"} => EvenRun(a + 4, k)
  BY <1>3, <1>6 DEF ReadsList, Token
<1>8. draft = [key |-> items[a + 1], operator |-> items[a + 2], values |-> Listed(a + 4, k)]
  BY <1>7 DEF Requires
<1>9. /\ "list" \in Inside /\ "close" \in Inside /\ "close" \in ReadingPoints /\ "close" # "separator"
  BY DEF Inside, ReadingPoints
<1>10. k \in 1..Len(items)
  BY <1>4, <1>6
<1>11. \E x \in Outer, y \in Nat :
              /\ x \in Nat /\ Reads(x) /\ y = position /\ y \in 1..Len(items) /\ Len(items) \in Nat
              /\ Named(x) /\ items[x + 2] \in SetOperators /\ items[x + 3] = "("
              /\ y >= x + 4 /\ ListRead(x + 4, y)
              /\ draft = [key |-> items[x + 1], operator |-> items[x + 2], values |-> Listed(x + 4, y)]
              /\ Literal(items[y]) /\ y > x + 4 => items[y - 1] = Comma
              /\ items[y] \in {Comma, ")"} => EvenRun(x + 4, y)
  BY <1>2, <1>3, <1>4, <1>6, <1>7, <1>8, <1>10
<1> QED BY <1>1, <1>5, <1>9, <1>11

LEMMA ListValueReads ==
  ASSUME ParserInv, ListValue, ~Reject
  PROVE  ParserInv'
<1>1. point = "list" /\ Literal(Token) /\ Token \notin {"(", ")", End, Comma}
  BY TokensDiffer DEF ListValue
<1>2. PICK a \in Outer, k \in Nat :
              /\ a \in Nat /\ Reads(a) /\ k = position /\ k \in 1..Len(items) /\ Len(items) \in Nat
              /\ Named(a) /\ items[a + 2] \in SetOperators /\ items[a + 3] = "("
              /\ k >= a + 4 /\ ListRead(a + 4, k)
              /\ draft = [key |-> items[a + 1], operator |-> items[a + 2], values |-> Listed(a + 4, k)]
              /\ Literal(items[k]) /\ k > a + 4 => items[k - 1] = Comma
              /\ items[k] \in {Comma, ")"} => EvenRun(a + 4, k)
  BY <1>1, ListIs
<1>3. Token \in Strings /\ Insert(Token) \in Draft
  BY <1>1, ListIs, ReadingIs, TokensRemain DEF BasicInv
<1>4. PICK q \in Nat : q = k + 1 /\ q > a + 4 /\ q >= a + 4 /\ q - 1 = k
  BY <1>2
<1>5. ListRead(a + 4, q)
  <2>1. a + 4 \in Nat /\ a + 4 <= k /\ Literal(items[k]) /\ (k = a + 4 \/ items[k - 1] = Comma)
    BY <1>1, <1>2 DEF Token
  <2> QED BY <1>2, <1>4, <2>1, ListReadNext
<1>6. Listed(a + 4, q) = Listed(a + 4, k) \cup {Token}
  <2>1. PICK i \in Nat : i = a + 4 /\ i <= k /\ items[k] = Token
    BY <1>2 DEF Token
  <2>2. Listed(i, q) = Listed(i, k)
              \cup ((IF Literal(items[k]) THEN {items[k]} ELSE {})
                      \cup (IF items[k] = Comma /\ (k = i \/ items[k - 1] = Comma) THEN {Blank} ELSE {}))
    BY <1>4, <2>1, ListedNext
  <2> QED BY <1>1, <2>1, <2>2
<1>7. Following = items[q] /\ items[q - 1] = Token /\ items[q - 1] # Comma
  BY <1>1, <1>2, <1>4 DEF Following, Token
<1>8. ASSUME NEW p, Go(p, 1, Insert(Token))
      PROVE  /\ position' = q /\ point' = p /\ UNCHANGED items
             /\ draft' = [key |-> items[a + 1], operator |-> items[a + 2], values |-> Listed(a + 4, q)]
  BY <1>2, <1>4, <1>6, <1>8 DEF Go, Insert
<1>9. CASE Following = Comma /\ Go("list", 1, Insert(Token))
  <2>1. EvenRun(a + 4, q)
    BY <1>2, <1>4, <1>7, EvenRunFirst
  <2>2. ~Literal(items[q]) /\ items[q] # ")"
    BY <1>7, <1>9, TokensDiffer
  <2>3. Place(a)'
    BY <1>2, <1>4, <1>5, <1>8, <1>9, <2>1, <2>2, PlaceInList
  <2> QED BY <1>1, <1>2, <1>3, <1>9, <2>3, ListIs, MoveOn
<1>10. CASE Following = ")" /\ Go("close", 1, Insert(Token))
  <2>1. ~EvenBefore(items, q)
    <3>1. k > 0 /\ items[k] # Comma
      BY <1>2, <1>4, <1>7
    <3> QED BY <1>2, <1>4, <3>1, NoRun
  <2>2. Listed(a + 4, q) = Listed(a + 4, q) \cup (IF items[q - 1] = Comma THEN {Blank} ELSE {})
    BY <1>7
  <2>3. Place(a)'
    BY <1>2, <1>4, <1>5, <1>7, <1>8, <1>10, <2>1, <2>2, PlaceInList
  <2> QED BY <1>1, <1>2, <1>3, <1>10, <2>3, ListIs, MoveOn
<1> QED BY <1>9, <1>10 DEF ListValue

LEMMA ListCommaReads ==
  ASSUME ParserInv, ListComma
  PROVE  ParserInv'
<1>1. point = "list" /\ Token = Comma /\ Token \notin {"(", ")", End}
  BY TokensDiffer DEF ListComma
<1>2. PICK a \in Outer, k \in Nat :
              /\ a \in Nat /\ Reads(a) /\ k = position /\ k \in 1..Len(items) /\ Len(items) \in Nat
              /\ Named(a) /\ items[a + 2] \in SetOperators /\ items[a + 3] = "("
              /\ k >= a + 4 /\ ListRead(a + 4, k)
              /\ draft = [key |-> items[a + 1], operator |-> items[a + 2], values |-> Listed(a + 4, k)]
              /\ Literal(items[k]) /\ k > a + 4 => items[k - 1] = Comma
              /\ items[k] \in {Comma, ")"} => EvenRun(a + 4, k)
  BY <1>1, ListIs
<1>3. Insert(Blank) \in Draft /\ draft \in Draft
  <2>1. Blank \in Strings
    BY LabelAssumption
  <2> QED BY <1>1, <2>1, ListIs
<1>4. PICK i \in Nat : i = a + 4 /\ i <= k /\ 1 < i
  BY <1>2
<1>5. EvenRun(i, k) /\ items[k] = Comma /\ ~Literal(items[k])
  BY <1>1, <1>2, <1>4, TokensDiffer DEF Token
<1>6. PICK q \in Nat : q = k + 1 /\ q > a + 4 /\ q >= a + 4 /\ q - 1 = k /\ i <= q
  BY <1>2, <1>4
<1>7. ListRead(i, q)
  BY <1>2, <1>4, <1>5, <1>6, ListReadNext
<1>8. Listed(i, q) = Listed(i, k) \cup (IF k = i \/ items[k - 1] = Comma THEN {Blank} ELSE {})
  <2>1. Listed(i, q) = Listed(i, k)
              \cup ((IF Literal(items[k]) THEN {items[k]} ELSE {})
                      \cup (IF items[k] = Comma /\ (k = i \/ items[k - 1] = Comma) THEN {Blank} ELSE {}))
    BY <1>4, <1>6, ListedNext
  <2> QED BY <1>5, <2>1
<1>9. Following = items[q] /\ items[q - 1] = Comma
  BY <1>2, <1>5, <1>6 DEF Following
<1>10. ASSUME NEW p, NEW n, NEW values, Go(p, n, [draft EXCEPT !.values = values])
       PROVE  /\ position' = k + n /\ point' = p /\ UNCHANGED items
              /\ draft' = [key |-> items[a + 1], operator |-> items[a + 2], values |-> values]
  BY <1>2, <1>10 DEF Go
<1>11. Insert(Blank) = [draft EXCEPT !.values = Listed(i, k) \cup {Blank}]
  BY <1>2, <1>4 DEF Insert
<1>12. CASE Following = ")" /\ Go("close", 1, Insert(Blank))
  <2>1. ~EvenBefore(items, q)
    BY <1>4, <1>5, <1>6, OddRun
  <2>2. Listed(i, k) \cup {Blank} = Listed(i, q) \cup (IF items[q - 1] = Comma THEN {Blank} ELSE {})
    BY <1>8, <1>9
  <2>3. Go("close", 1, [draft EXCEPT !.values = Listed(i, k) \cup {Blank}])
    BY <1>11, <1>12
  <2>4. /\ position' = q /\ point' = "close" /\ UNCHANGED items
        /\ draft' = [key |-> items[a + 1], operator |-> items[a + 2], values |-> Listed(i, k) \cup {Blank}]
    BY <1>6, <1>10, <2>3
  <2>5. Place(a)'
    BY <1>2, <1>4, <1>6, <1>7, <1>9, <1>12, <2>1, <2>2, <2>4, PlaceInList
  <2> QED BY <1>1, <1>2, <1>3, <1>12, <2>5, ListIs, MoveOn
<1>13. CASE Following = Comma /\ Go("list", 2, Insert(Blank))
  <2>1. PICK r \in Nat : r = q + 1 /\ r = k + 2 /\ r >= a + 4 /\ r - 1 = q
    BY <1>2, <1>6
  <2>2. items[q] = Comma /\ ~Literal(items[q])
    BY <1>9, <1>13, TokensDiffer
  <2>3. ListRead(i, r)
    BY <1>6, <1>7, <1>4, <2>1, <2>2, ListReadNext
  <2>4. Listed(i, r) = Listed(i, k) \cup {Blank}
    <3>1. Listed(i, r) = Listed(i, q)
              \cup ((IF Literal(items[q]) THEN {items[q]} ELSE {})
                      \cup (IF items[q] = Comma /\ (q = i \/ items[q - 1] = Comma) THEN {Blank} ELSE {}))
      BY <1>4, <1>6, <2>1, ListedNext
    <3> QED BY <1>8, <1>9, <2>2, <3>1
  <2>5. EvenRun(i, r)
    BY <1>4, <1>5, <1>6, <2>1, <2>2, EvenRunNext
  <2>6. Go("list", 2, [draft EXCEPT !.values = Listed(i, k) \cup {Blank}])
    BY <1>11, <1>13
  <2>7. /\ position' = r /\ point' = "list" /\ UNCHANGED items
        /\ draft' = [key |-> items[a + 1], operator |-> items[a + 2], values |-> Listed(i, k) \cup {Blank}]
    BY <1>10, <2>1, <2>6
  <2>8. Place(a)'
    BY <1>2, <1>4, <2>1, <2>2, <2>3, <2>4, <2>5, <2>7, PlaceInList
  <2>9. /\ Text /\ q \in 1..Len(items) - 1 /\ k \in 1..Len(items) - 1 /\ r \in 1..Len(items)
    <3>1. Text /\ items[Len(items)] = End /\ Comma # End
      BY <1>1, ListIs, ReadingIs, TokensDiffer DEF Text
    <3>2. k # Len(items)
      BY <1>5, <3>1
    <3>3. q # Len(items)
      BY <2>2, <3>1
    <3> QED BY <1>2, <1>6, <2>1, <3>1, <3>2, <3>3
  <2>10. Balance(k - 1, 1)
    BY <1>1, <1>2, ListIs, ReadingIs
  <2>11. Balance(k, 1) /\ k \notin OuterCommas(Given)
    BY <1>5, <2>9, <2>10, BalanceNext, TokensDiffer
  <2>12. Balance(q, 1) /\ q \notin OuterCommas(Given)
    <3>1. Balance(q - 1, 1)
      BY <1>6, <2>11
    <3> QED BY <2>2, <2>9, <3>1, BalanceNext, TokensDiffer
  <2>13. \A j \in position..r - 1 : j = k \/ j = q
    BY <1>2, <1>6, <2>1
  <2>14. /\ \A j \in position..r - 1 : j \notin OuterCommas(Given)
         /\ \A to \in position..r - 1 : items[to] = ")" => ~EvenBefore(items, to)
         /\ Balance(r - 1, IF "list" \in Inside THEN 1 ELSE 0)
    <3>1. Comma # ")" /\ "list" \in Inside
      BY <1>1, ListIs, TokensDiffer
    <3> QED BY <1>5, <2>1, <2>2, <2>11, <2>12, <2>13, <3>1
  <2>15. r = position + 2
    BY <1>2, <2>1
  <2> QED BY <1>1, <1>2, <1>3, <1>13, <2>8, <2>9, <2>14, <2>15, ListIs, GoKeeps
<1>14. CASE /\ Following \notin {Comma, ")"}
            /\ Go("list", 1, IF draft.values = {} THEN Insert(Blank) ELSE draft)
  <2>1. /\ k # i => Listed(i, k) # {}
        /\ k # i /\ items[k - 1] = Comma => Blank \in Listed(i, k)
    BY <1>2, <1>4, <1>5, ListedBefore
  <2>2. Listed(i, i) = {}
    BY ListedNext, <1>4
  <2>3. Listed(i, q) = IF Listed(i, k) = {} THEN Listed(i, k) \cup {Blank} ELSE Listed(i, k)
    BY <1>8, <2>1, <2>2
  <2>4. (IF draft.values = {} THEN Insert(Blank) ELSE draft) = [draft EXCEPT !.values = Listed(i, q)]
    <3>1. draft.values = Listed(i, k) /\ draft = [draft EXCEPT !.values = Listed(i, k)]
      BY <1>2, <1>4
    <3>2. CASE Listed(i, k) = {}
      BY <1>11, <2>3, <3>1, <3>2
    <3>3. CASE Listed(i, k) # {}
      <4>1. Listed(i, q) = Listed(i, k)
        BY <2>3, <3>3
      <4> QED BY <3>1, <3>3, <4>1
    <3> QED BY <3>2, <3>3
  <2>5. Go("list", 1, [draft EXCEPT !.values = Listed(i, q)])
    BY <1>14, <2>4
  <2>6. /\ position' = q /\ point' = "list" /\ UNCHANGED items
        /\ draft' = [key |-> items[a + 1], operator |-> items[a + 2], values |-> Listed(i, q)]
    BY <1>6, <1>10, <2>5
  <2>7. items[q] \notin {Comma, ")"} /\ items[q - 1] = Comma
    BY <1>9, <1>14
  <2>8. Place(a)'
    BY <1>2, <1>4, <1>6, <1>7, <2>6, <2>7, PlaceInList
  <2>9. [draft EXCEPT !.values = Listed(i, q)] \in Draft
    BY <1>3, <2>4
  <2> QED BY <1>1, <1>2, <2>5, <2>8, <2>9, ListIs, MoveOn
<1> QED BY <1>12, <1>13, <1>14 DEF ListComma

\* No stretch ends at 0.
LEMMA NothingFirst ==
  ASSUME NEW S \in SUBSET Nat
  PROVE  {p \in Adjacent(S) : p[2] <= 0} = {}
<1>1. ASSUME NEW p \in Adjacent(S) PROVE ~(p[2] <= 0)
  <2>1. p \in S \X S /\ p[1] < p[2]
    BY DEF Adjacent
  <2>2. p[1] \in Nat /\ p[2] \in Nat
    BY <2>1
  <2> QED BY <2>1, <2>2
<1> QED BY <1>1

\* From one end to the next.
LEMMA TakenNext ==
  ASSUME Text, NEW a \in Outer, NEW b \in Outer, a < b,
         \A i \in a + 1..b - 1 : i \notin OuterCommas(Given)
  PROVE  Taken(b) = Taken(a) \cup {Denotes(Between(Given, <<a, b>>))}
<1>1. /\ Outer \in SUBSET Nat /\ Len(items) \in Nat
      /\ \A x \in Outer : x <= Len(items)
  BY OuterIs DEF Text
<1>2. ASSUME NEW x \in Outer, a < x, x < b PROVE FALSE
  <2>1. x \in a + 1..b - 1 /\ x \in 1..Len(items) - 1
    BY <1>1, <1>2
  <2> QED BY <1>2, <2>1, OuterIs
<1>3. <<a, b>> \in Adjacent(Outer)
  BY <1>2 DEF Adjacent
<1>4. ASSUME NEW p \in Adjacent(Outer), p[2] <= b PROVE p[2] <= a \/ p = <<a, b>>
  <2>1. PICK x \in Outer, y \in Outer : p = <<x, y>> /\ x < y /\ \A c \in Outer : ~(x < c /\ c < y)
    BY DEF Adjacent
  <2>2. CASE y <= a
    BY <2>1, <2>2
  <2>3. CASE ~(y <= a)
    <3>1. y = b
      BY <1>1, <1>2, <1>4, <2>1, <2>3
    <3>2. x = a
      BY <1>1, <1>2, <2>1, <3>1
    <3> QED BY <2>1, <3>1, <3>2
  <2> QED BY <2>2, <2>3
<1>5. ASSUME NEW p \in Adjacent(Outer), p[2] <= a PROVE p[2] <= b
  <2>1. p[2] \in Nat /\ a \in Nat /\ b \in Nat
    BY <1>1 DEF Adjacent
  <2> QED BY <1>5, <2>1
<1>6. \A p \in Adjacent(Outer) : p[2] <= b <=> (p[2] <= a \/ p = <<a, b>>)
  <2>1. <<a, b>>[2] <= b
    BY <1>1
  <2> QED BY <1>4, <1>5, <2>1
<1>7. {p \in Adjacent(Outer) : p[2] <= b} = {p \in Adjacent(Outer) : p[2] <= a} \cup {<<a, b>>}
  BY <1>3, <1>6
<1> QED BY <1>7 DEF Taken

\* At the end all stretches have been taken.
LEMMA TakenAll ==
  ASSUME Text
  PROVE  Taken(Len(items)) = Meaning(Given)
<1>1. \A p \in Adjacent(Outer) : p[2] <= Len(items)
  BY OuterIs DEF Adjacent
<1>2. {q \in Adjacent(Outer) : q[2] <= Len(items)} = Adjacent(Outer)
  BY <1>1
<1>3. Taken(Len(items)) = {Denotes(Between(Given, p)) : p \in Adjacent(Outer)}
  BY <1>2 DEF Taken
<1>4. Fields(Given, OuterCommas(Given)) = {Between(Given, p) : p \in Adjacent(Outer)}
  BY DEF Fields, Outer
<1>5. Meaning(Given) = {Denotes(f) : f \in {Between(Given, p) : p \in Adjacent(Outer)}}
  BY <1>4 DEF Meaning
<1> QED BY <1>3, <1>5

LEMMA BuildReads ==
  ASSUME ParserInv, Build, ~Reject
  PROVE  ParserInv'
<1>1. point = "build" /\ point \notin Inside /\ "separator" \notin Inside
  BY DEF Build, Inside
<1>2. PICK a \in Outer : a \in Nat /\ Reads(a)
  BY <1>1, ReadingIs
<1>3. HasRead(a)
  BY <1>1, <1>2, AtPoint
<1>4. /\ requirements' = Append(requirements, draft) /\ point' = "separator"
      /\ UNCHANGED <<items, position, draft>>
  BY DEF Build
<1>5. BasicInv /\ BasicInv'
  BY ParserStepKeeps DEF ParserInv, BasicInv, ParserStep
<1>6. Given' = Given /\ Outer' = Outer /\ Taken(a)' = Taken(a)
  BY <1>4, SameText
<1>7. Elements(requirements') = Elements(requirements) \cup {draft}
  <2>1. /\ Len(requirements) \in Nat /\ Len(requirements') = Len(requirements) + 1
        /\ requirements'[Len(requirements) + 1] = draft
        /\ \A i \in 1..Len(requirements) : requirements'[i] = requirements[i]
    BY <1>4, <1>5, AppendProperties DEF BasicInv, ParserTypeOK
  <2>2. PICK n \in Nat : n = Len(requirements)
    BY <2>1
  <2>3. \A i : i \in 1..n + 1 <=> i \in 1..n \/ i = n + 1
    OBVIOUS
  <2> QED BY <2>1, <2>2, <2>3 DEF Elements
<1>8. Reads(a)'
  <2>1. HasRead(a)'
    <3>1. draft = Denotes(Between(Given, <<a, position>>))
      BY <1>3 DEF HasRead
    <3>2. Denotes(Between(Given, <<a, position>>))' = Denotes(Between(Given, <<a, position>>))
      BY <1>4, <1>6
    <3> QED BY <1>3, <1>4, <3>1, <3>2 DEF HasRead, Token, Named
  <2>2. Elements(requirements) = Taken(a)
    BY <1>1, <1>2 DEF Reads
  <2>3. Elements(requirements)' = Taken(a)' \cup (IF point' = "separator" THEN {draft'} ELSE {})
    BY <1>4, <1>6, <1>7, <2>2
  <2>4. a < position' /\ \A i \in a + 1..position' - 1 : i \notin OuterCommas(Given')
    BY <1>2, <1>4, <1>6 DEF Reads
  <2> QED BY <2>1, <2>3, <2>4 DEF Reads, Place
<1>9. ReadingInv'
  <2>1. (\E x \in Outer : Reads(x))'
    BY <1>2, <1>6, <1>8
  <2>2. /\ Before(Given, "(", position - 1) = Before(Given, ")", position - 1) + 0
        /\ \A to \in 1..position - 1 : items[to] = ")" => ~EvenBefore(items, to)
    BY <1>1 DEF ParserInv, ReadingInv
  <2> QED BY <1>1, <1>4, <1>6, <2>1, <2>2 DEF ReadingInv
<1>10. ParsedAsDocumented'
  BY <1>4 DEF ParsedAsDocumented
<1> QED BY <1>4, <1>5, <1>9, <1>10 DEF ParserInv, BasicInv

LEMMA SeparateReads ==
  ASSUME ParserInv, Separate, ~Reject
  PROVE  ParserInv'
<1>1. point = "separator" /\ point \in ReadingPoints /\ point \notin Inside /\ "requirement" \notin Inside
  BY DEF Separate, Inside, ReadingPoints
<1>2. PICK a \in Outer : a \in Nat /\ Reads(a)
  BY <1>1, ReadingIs
<1>3. HasRead(a)
  BY <1>1, <1>2, AtPoint
<1>4. /\ Text /\ position \in Nat /\ Len(items) \in Nat /\ position \in 1..Len(items)
      /\ Balance(position - 1, 0)
      /\ \A to \in 1..position - 1 : items[to] = ")" => ~EvenBefore(items, to)
  BY <1>1, ReadingIs
<1>5. BasicInv /\ BasicInv'
  BY ParserStepKeeps DEF ParserInv, BasicInv, ParserStep
<1>6. position > a + 1 /\ a < position /\ \A i \in a + 1..position - 1 : i \notin OuterCommas(Given)
  BY <1>2, <1>3, <1>4 DEF HasRead, Reads
<1>7. ASSUME position \in Outer
      PROVE  Elements(requirements) = Taken(position)
  <2>1. Elements(requirements) = Taken(a) \cup {draft}
    BY <1>1, <1>2 DEF Reads
  <2>2. draft = Denotes(Between(Given, <<a, position>>))
    BY <1>3 DEF HasRead
  <2>3. PICK b \in Outer : b = position
    BY <1>7
  <2>4. Taken(b) = Taken(a) \cup {Denotes(Between(Given, <<a, b>>))}
    BY <1>4, <1>6, <2>3, TakenNext
  <2> QED BY <2>1, <2>2, <2>3, <2>4
<1>8. CASE Token = End /\ Go("parsed", 1, draft)
  <2>1. position = Len(items)
    BY <1>4, <1>8 DEF Text, Token
  <2>2. Elements(requirements) = Meaning(Given)
    BY <1>4, <1>7, <2>1, OuterIs, TakenAll
  <2>3. /\ Given \in Seq(Strings) /\ Len(Given) = Len(items) - 1
        /\ \A i \in 1..Len(items) - 1 : Given[i] = items[i]
    BY <1>4, GivenIs DEF Text
  <2>4. Given # <<>>
    <3>1. Len(Given) # 0
      BY <1>2, <1>4, <1>6, <2>1, <2>3
    <3> QED BY <3>1
  <2>5. Sentence(Given)
    <3>1. \A r \in Elements(requirements) : ValidRequirement(r)
      BY <1>5 DEF BasicInv, RequirementsValid, Elements
    <3> QED BY <2>2, <3>1 DEF Sentence
  <2>6. ~EvenCommas(Given)
    <3> SUFFICES ASSUME NEW to \in 1..Len(Given), Given[to] = ")", EvenBefore(Given, to) PROVE FALSE
      BY DEF EvenCommas
    <3>1. PICK from \in 1..to - 1 :
            /\ (to - from) % 2 = 0
            /\ from > 1 => Given[from - 1] # Comma
            /\ \A i \in from..to - 1 : Given[i] = Comma
      BY DEF EvenBefore
    <3>2. to \in 1..position - 1 /\ \A i \in from..to - 1 : i \in 1..Len(items) - 1
      BY <1>4, <2>1, <2>3
    <3>3. from > 1 => from - 1 \in 1..Len(items) - 1
      BY <1>4, <2>1, <3>2
    <3>4. EvenBefore(items, to)
      BY <2>3, <3>1, <3>2, <3>3 DEF EvenBefore
    <3>5. items[to] = ")"
      BY <2>1, <2>3, <3>2
    <3> QED BY <1>4, <3>2, <3>4, <3>5
  <2>7. point' = "parsed" /\ UNCHANGED <<items, requirements>>
    BY <1>8 DEF Go
  <2>8. Given' = Given
    BY <2>7, SameText
  <2>9. ParsedAsDocumented'
    BY <2>2, <2>4, <2>5, <2>7, <2>8 DEF ParsedAsDocumented
  <2>10. ReadingInv'
    BY <2>7 DEF ReadingInv, ReadingPoints
  <2>11. ~EvenCommas(Given')
    BY <2>6, <2>8
  <2> QED BY <1>5, <2>9, <2>10, <2>11 DEF ParserInv, BasicInv
<1>9. CASE Token = Comma /\ (Literal(Following) \/ Following = "!") /\ Go("requirement", 1, draft)
  <2>1. items[position] = Comma /\ position \in 1..Len(items) - 1
    <3>1. items[position] = Comma /\ position # Len(items)
      BY <1>4, <1>9, TokensDiffer DEF Text, Token
    <3> QED BY <1>4, <3>1
  <2>2. position \in Outer
    BY <1>4, <2>1, BalanceNext, OuterIs
  <2>3. Balance(position, 0)
    BY <1>4, <2>1, BalanceNext, TokensDiffer
  <2>4. PICK b \in Outer : b = position /\ b \in Nat
    BY <1>4, <2>2
  <2>5. point' = "requirement" /\ position' = b + 1 /\ UNCHANGED <<items, requirements>>
    BY <1>9, <2>4 DEF Go
  <2>6. Given' = Given /\ Outer' = Outer /\ Taken(b)' = Taken(b)
    BY <2>5, SameText
  <2>7. Reads(b)'
    <3>1. items'[position'] = Following
      BY <2>4, <2>5 DEF Following
    <3>2. ReadsKey(b)'
      BY <1>9, <2>5, <3>1 DEF ReadsKey, Token
    <3>3. Elements(requirements) = Taken(b)
      BY <1>7, <2>4
    <3>4. Elements(requirements)' = Taken(b)' \cup (IF point' = "separator" THEN {draft'} ELSE {})
      BY <2>5, <2>6, <3>3
    <3>5. b < position' /\ \A i \in b + 1..position' - 1 : FALSE
      BY <2>4, <2>5
    <3> QED BY <3>2, <3>4, <3>5 DEF Reads, Place
  <2>8. (\E x \in Outer : Reads(x))'
    BY <2>6, <2>7
  <2>9. /\ position' - 1 = position /\ \A to \in 1..position : to \in 1..position - 1 \/ to = position
    BY <1>4, <2>4, <2>5
  <2>10. \A to \in 1..position : items[to] = ")" => ~EvenBefore(items, to)
    BY <1>4, <2>1, <2>9, TokensDiffer
  <2>11. ReadingInv'
    <3>1. Before(Given, "(", position) = Before(Given, ")", position) + 0
      BY <2>3 DEF Balance
    <3> QED BY <1>1, <2>5, <2>6, <2>8, <2>9, <2>10, <3>1 DEF ReadingInv
  <2>12. ParsedAsDocumented'
    BY <2>5 DEF ParsedAsDocumented
  <2> QED BY <1>5, <2>5, <2>11, <2>12 DEF ParserInv, BasicInv
<1> QED BY <1>8, <1>9 DEF Separate

\* The invariant of the parser is inductive.
LEMMA ParserReads ==
  ASSUME ParserInv, ParserStep
  PROVE  ParserInv' /\ point' # "idle"
<1>1. point' # "idle"
  BY ParserStepKeeps DEF ParserInv, BasicInv
<1>2. CASE Reject
  BY <1>1, <1>2, RejectReads
<1>3. CASE ~Reject
  <2>1. ListEnd => Reject
    BY DEF ListEnd
  <2> QED
    BY <1>1, <1>3, <2>1, BeginRequirementReads, ParseKeyReads, ParseOperatorReads, OpenValuesReads,
       FirstValueReads, ListValueReads, ListCommaReads, CloseValuesReads, ExactValueReads, BuildReads,
       SeparateReads DEF ParserStep
<1> QED BY <1>2, <1>3

\* What the parser is given is a text that ends with End.
LEMMA ParseSelectorReads ==
  ASSUME NEW text \in Seq(Tokens), ParseSelector(text)
  PROVE  ParserInv' /\ point' = "requirement" /\ Given' = Scan(text)
<1>1. Scan(text) \in Seq(Tokens) /\ Scan(text) \in Seq(Strings) /\ End \in Strings
  <2>1. End \in Strings /\ Tokens \subseteq Strings
    BY SymbolAssumption DEF Tokens
  <2>2. <<>> \in Seq(Tokens) /\ <<>> \in Seq(Strings) /\ text \in Seq(Strings)
    BY <2>1
  <2>3. CASE text = <<" ">>
    BY <2>1, <2>2, <2>3 DEF Scan
  <2>4. CASE text # <<" ">>
    BY <2>1, <2>2, <2>4 DEF Scan
  <2> QED BY <2>1, <2>3, <2>4
<1>2. /\ items' \in Seq(Strings) /\ Len(items') = Len(Scan(text)) + 1
      /\ Len(Scan(text)) \in Nat /\ items'[Len(Scan(text)) + 1] = End
      /\ \A i \in 1..Len(Scan(text)) : items'[i] = Scan(text)[i]
  BY <1>1, AppendProperties DEF ParseSelector
<1>3. PICK n \in Nat : n = Len(Scan(text)) /\ Len(items') = n + 1 /\ (n + 1) - 1 = n
  BY <1>2
<1>4. items' # <<>> /\ items'[Len(items')] = End /\ \A i \in 1..Len(items') - 1 : items'[i] # End
  <2>1. \A i \in 1..n : Scan(text)[i] \in Tokens
    BY <1>1, <1>3
  <2> QED BY <1>2, <1>3, <2>1 DEF Tokens
<1>5. /\ position' = 1 /\ point' = "requirement" /\ draft' = NoDraft /\ requirements' = <<>>
  BY DEF ParseSelector
<1>6. Text'
  BY <1>2, <1>4 DEF Text
<1>7. ParserTypeOK'
  <2>1. NoDraft \in Draft
    BY LabelAssumption DEF NoDraft, Draft
  <2> QED BY <1>2, <1>5, <2>1 DEF ParserTypeOK, ParserPoints, ReadingPoints
<1>8. EndAhead'
  BY <1>2, <1>4, <1>5 DEF EndAhead
<1>9. RequirementsValid'
  BY <1>5 DEF RequirementsValid
<1>10. Given' = Scan(text)
  <2>1. \A i \in 1..n : items'[i] \in Strings
    BY <1>2, <1>3
  <2>2. /\ SubSeq(items', 1, n) \in Seq(Strings)
        /\ Len(SubSeq(items', 1, n)) = IF 1 <= n THEN n - 1 + 1 ELSE 0
        /\ \A i \in 1..n - 1 + 1 : SubSeq(items', 1, n)[i] = items'[1 + i - 1]
    BY <1>2, <2>1, SubSeqProperties
  <2>3. Len(SubSeq(items', 1, n)) = n /\ \A i \in 1..n : SubSeq(items', 1, n)[i] = Scan(text)[i]
    <3>1. n - 1 + 1 = n /\ (~(1 <= n) => n = 0) /\ \A i \in 1..n : 1 + i - 1 = i
      OBVIOUS
    <3> QED BY <1>2, <1>3, <2>2, <3>1
  <2>4. SubSeq(items', 1, n) = Scan(text)
    BY <1>1, <1>3, <2>2, <2>3, SeqEqual
  <2> QED BY <1>3, <2>4 DEF Given
<1>11. Reads(0)' /\ 0 \in Outer'
  <2>1. 0 \in Outer' /\ Taken(0)' = {}
    <3>1. Len(Given') \in Nat /\ OuterCommas(Given') \subseteq Nat
      BY <1>1, <1>10 DEF OuterCommas, Commas
    <3>2. 0 \in Outer' /\ Outer' \in SUBSET Nat
      BY <3>1 DEF Outer, Ends
    <3>3. {p \in Adjacent(Outer') : p[2] <= 0} = {}
      BY <3>2, NothingFirst
    <3> QED BY <3>2, <3>3 DEF Taken
  <2>2. ReadsKey(0)'
    BY <1>5 DEF ReadsKey
  <2>3. Elements(requirements)' = Taken(0)' \cup (IF point' = "separator" THEN {draft'} ELSE {})
    BY <1>5, <2>1 DEF Elements
  <2>4. 0 < position' /\ \A i \in 0 + 1..position' - 1 : FALSE
    BY <1>5
  <2> QED BY <2>1, <2>2, <2>3, <2>4 DEF Reads, Place
<1>12. ReadingInv'
  <2>1. \A t : Before(Given', t, 0) = 0
    BY BeforeNext
  <2>2. position' - 1 = 0 /\ point' \notin Inside
    BY <1>5 DEF Inside
  <2>3. (\E x \in Outer : Reads(x))'
    BY <1>11
  <2>4. /\ Before(Given, "(", position - 1)' = 0 /\ Before(Given, ")", position - 1)' = 0
    BY <2>1, <2>2
  <2>5. \A to \in 1..position' - 1 : FALSE
    BY <2>2
  <2> QED BY <2>1, <2>2, <2>3, <2>4, <2>5 DEF ReadingInv
<1>13. ParsedAsDocumented'
  BY <1>5 DEF ParsedAsDocumented
<1> QED BY <1>5, <1>7, <1>8, <1>9, <1>10, <1>12, <1>13 DEF ParserInv

-----------------------------------------------------------------------------
(* The set-up of rules *)

\* The namespace selectors that are kept compile, whatever was configured.
LEMMA NamespacesCompile == \A ns : CompiledNamespaces(ns) \subseteq DOMAIN Regex
  BY DEF CompiledNamespaces

\* The conversion gives rules.
LEMMA ConvertedTyped ==
  ASSUME NEW entry \in Legacy
  PROVE  Converted(entry) \in Seq(Rule \cup {Null})
<1> DEFINE namespaces == entry.namespaces \ {Blank}
           labels == entry.labels \ {<<>>}
<1>1. namespaces \subseteq Strings /\ labels \subseteq Seq(Tokens) /\ {".*"} \subseteq Strings
  BY RulesAssumption DEF Legacy
<1>2. /\ [namespaces |-> namespaces, labels |-> labels] \in Rule
      /\ [namespaces |-> {".*"}, labels |-> {}] \in Rule
  BY <1>1 DEF Rule
<1>3. \A r \in Rule : <<r>> \in Seq(Rule \cup {Null})
  OBVIOUS
<1>4. <<>> \in Seq(Rule \cup {Null})
  OBVIOUS
<1> QED
  BY <1>2, <1>3, <1>4 DEF Converted

\* Nothing is compiled at first.
LEMMA Initially == Init => Inv
<1> SUFFICES ASSUME Init PROVE Inv
  OBVIOUS
<1>1. /\ \A S : <<>> \in Seq(S)
      /\ Len(<<>>) = 0
  OBVIOUS
<1>2. ParserTypeOK
  BY <1>1, LabelAssumption DEF Init, ParserInit, ParserTypeOK, ParserPoints, Draft, NoDraft
<1>3. config \in Config /\ rules \in Seq(Rule \cup {Null})
  BY RulesAssumption DEF Init, Config
<1>4. TypeOK
  BY <1>1, <1>2, <1>3 DEF Init, TypeOK, Phases
<1>5. SelectorsRestrict
  BY <1>1 DEF Init, SelectorsRestrict
<1>6. ParserInv
  BY <1>1, <1>2 DEF Init, ParserInit, ParserInv, EndAhead, RequirementsValid, ReadingInv,
                    ParsedAsDocumented, ReadingPoints
<1>7. InForce /\ CompiledInv /\ CurrentInv
  BY <1>1, <1>3 DEF Init, InForce, CompiledInv, CurrentInv
<1> QED
  BY <1>4, <1>5, <1>6, <1>7 DEF Inv, Init, ParserInit

\* Setting up another rule appends to what is compiled.
LEMMA AppendRule ==
  ASSUME Inv, NEW ns \in SUBSET DOMAIN Regex,
         compiled' = Append(compiled, [namespaces |-> ns, labels |-> {}])
  PROVE  /\ compiled' \in Seq(Compiled) /\ compiled' # <<>> /\ SelectorsRestrict'
         /\ Len(compiled) \in Nat /\ Len(compiled') = Len(compiled) + 1
         /\ compiled'[Len(compiled) + 1] = [namespaces |-> ns, labels |-> {}]
         /\ \A i \in 1..Len(compiled) : compiled'[i] = compiled[i]
<1> DEFINE new == [namespaces |-> ns, labels |-> {}]
<1>1. new \in Compiled /\ compiled \in Seq(Compiled)
  BY DEF Compiled, Inv, TypeOK
<1>2. /\ compiled' \in Seq(Compiled) /\ Len(compiled') = Len(compiled) + 1
      /\ Len(compiled) \in Nat
      /\ compiled'[Len(compiled) + 1] = new
      /\ \A i \in 1..Len(compiled) : compiled'[i] = compiled[i]
  BY <1>1, AppendProperties
<1>3. SelectorsRestrict'
  <2> SUFFICES ASSUME NEW i \in 1..Len(compiled'), NEW s \in compiled'[i].labels
               PROVE  s # <<>> /\ \A k \in 1..Len(s) : ValidRequirement(s[k])
    BY DEF SelectorsRestrict, ValidRequirement
  <2>1. i \in 1..Len(compiled)
    BY <1>2
  <2> QED
    BY <2>1, <1>2 DEF Inv, SelectorsRestrict
<1> QED
  BY <1>2, <1>3

\* Whether a text that has been parsed restricts something.
LEMMA WhatIsKept ==
  ASSUME ParserInv
  PROVE  /\ point = "parsed" /\ requirements # <<>> =>
              Restricts(Given) /\ Elements(requirements) = Meaning(Given)
         /\ point = "parsed" /\ requirements = <<>> => ~Restricts(Given)
         /\ point = "rejected" => ~Restricts(Given)
<1>1. ASSUME point = "rejected" PROVE ~Restricts(Given)
  BY <1>1 DEF ParserInv, ParsedAsDocumented, Restricts
<1>2. ASSUME point = "parsed"
      PROVE  /\ Sentence(Given) /\ ~EvenCommas(Given)
             /\ Elements(requirements) = IF Given = <<>> THEN {} ELSE Meaning(Given)
  BY <1>2 DEF ParserInv, ParsedAsDocumented
<1>3. ASSUME point = "parsed", requirements # <<>> PROVE Given # <<>>
  <2>1. 1 \in 1..Len(requirements)
    BY <1>3 DEF ParserInv, ParserTypeOK
  <2>2. Elements(requirements) # {}
    BY <2>1 DEF Elements
  <2> QED BY <1>2, <1>3, <2>2
<1>4. ASSUME point = "parsed", requirements = <<>> PROVE Given = <<>>
  <2>1. Elements(requirements) = {}
    BY <1>4 DEF Elements
  <2>2. Text
    BY <1>4, TextIs DEF ParserInv
  <2>3. ASSUME Given # <<>> PROVE Meaning(Given) # {}
    <3>1. 0 \in Outer /\ Len(items) \in Outer /\ Outer \in SUBSET Nat
      BY <2>2, OuterIs
    <3>2. 0 < Len(items)
      BY <2>2 DEF Text
    <3>3. PICK b \in Outer : <<0, b>> \in Adjacent(Outer)
      BY <3>1, <3>2, NextEnd
    <3>4. Between(Given, <<0, b>>) \in Fields(Given, OuterCommas(Given))
      BY <3>3 DEF Fields, Outer
    <3> QED BY <3>4 DEF Meaning
  <2> QED BY <1>2, <1>4, <2>1, <2>3
<1>5. ASSUME point = "parsed", requirements # <<>>
      PROVE  Restricts(Given) /\ Elements(requirements) = Meaning(Given)
  BY <1>2, <1>3, <1>5 DEF Restricts
<1>6. ASSUME point = "parsed", requirements = <<>> PROVE ~Restricts(Given)
  BY <1>4, <1>6 DEF Restricts
<1> QED BY <1>1, <1>5, <1>6

\* A selector is only kept with requirements, and then means what its text says.
LEMMA KeepLabelKeeps ==
  ASSUME Inv, KeepLabel
  PROVE  /\ compiled' \in Seq(Compiled) /\ SelectorsRestrict' /\ Len(compiled') = Len(compiled)
         /\ \A i \in 1..Len(compiled) : compiled'[i].namespaces = compiled[i].namespaces
         /\ \A i \in 1..Len(compiled) : i # Last => compiled'[i] = compiled[i]
         /\ IF point = "parsed" /\ requirements # <<>>
            THEN compiled'[Last].labels = compiled[Last].labels \cup {requirements}
            ELSE compiled' = compiled
<1>0. phase = "labels" /\ compiled # <<>> /\ compiled \in Seq(Compiled)
  BY DEF KeepLabel, Inv, CurrentInv, TypeOK
<1>1. CASE ~(point = "parsed" /\ requirements # <<>>)
  BY <1>0, <1>1 DEF KeepLabel, Inv, SelectorsRestrict, ValidRequirement
<1>2. CASE point = "parsed" /\ requirements # <<>>
  <2> DEFINE new == [compiled[Last] EXCEPT !.labels = @ \cup {requirements}]
  <2>1. compiled' = [compiled EXCEPT ![Last] = new]
    BY <1>2 DEF KeepLabel
  <2>2. compiled \in Seq(Compiled) /\ requirements \in Seq(Draft) /\ compiled # <<>>
    BY <1>0 DEF Inv, TypeOK, ParserTypeOK
  <2>3. Last \in 1..Len(compiled) /\ compiled[Last] \in Compiled
    BY <2>2 DEF Last
  <2>4. /\ new \in Compiled
        /\ new.labels = compiled[Last].labels \cup {requirements}
        /\ new.namespaces = compiled[Last].namespaces
    BY <2>2, <2>3 DEF Compiled
  <2>5. /\ compiled' \in Seq(Compiled) /\ Len(compiled') = Len(compiled)
        /\ \A i \in 1..Len(compiled) : compiled'[i] = IF i = Last THEN new ELSE compiled[i]
    BY <2>1, <2>2, <2>3, <2>4, ExceptSeq
  <2>6. SelectorsRestrict'
    <3> SUFFICES ASSUME NEW i \in 1..Len(compiled'), NEW s \in compiled'[i].labels
                 PROVE  s # <<>> /\ \A k \in 1..Len(s) : ValidRequirement(s[k])
      BY DEF SelectorsRestrict, ValidRequirement
    <3>1. CASE s = requirements
      BY <3>1, <1>2 DEF Inv, ParserInv, RequirementsValid
    <3>2. CASE s # requirements
      <4>1. i \in 1..Len(compiled) /\ s \in compiled[i].labels
        BY <3>2, <2>4, <2>5
      <4> QED
        BY <4>1 DEF Inv, SelectorsRestrict
    <3> QED
      BY <3>1, <3>2
  <2> HIDE DEF new
  <2> QED
    BY <1>2, <2>3, <2>4, <2>5, <2>6
<1> QED
  BY <1>1, <1>2

\* What the selectors kept mean, with one more
LEMMA KeptMore ==
  ASSUME NEW selectors, NEW texts, NEW s, NEW text, Kept(selectors, texts),
         Restricts(Scan(text)), Elements(s) = Meaning(Scan(text))
  PROVE  Kept(selectors \cup {s}, texts \cup {text})
BY DEF Kept

\* or with a text that is dropped.
LEMMA KeptSame ==
  ASSUME NEW selectors, NEW texts, NEW text, Kept(selectors, texts), ~Restricts(Scan(text))
  PROVE  Kept(selectors, texts \cup {text})
BY DEF Kept

\* Between two selectors the parser rests.
LEMMA ParserUnchanged ==
  ASSUME ParserInv, UNCHANGED parserVars
  PROVE  ParserInv' /\ point' = point /\ Given' = Given
<1>1. UNCHANGED <<items, position, point, draft, requirements>>
  BY DEF parserVars
<1>2. Given' = Given /\ Outer' = Outer
  BY <1>1 DEF Given, Outer
<1>3. /\ ParserTypeOK' /\ EndAhead' /\ RequirementsValid'
  BY <1>1 DEF ParserInv, ParserTypeOK, EndAhead, RequirementsValid
<1>4. ParsedAsDocumented' /\ (point' = "parsed" => ~EvenCommas(Given'))
  BY <1>1, <1>2 DEF ParserInv, ParsedAsDocumented
<1>5. ASSUME NEW a, Reads(a) PROVE Reads(a)'
  <2>1. (ReadsKey(a) => ReadsKey(a)') /\ (ReadsExact(a) => ReadsExact(a)')
    BY <1>1 DEF ReadsKey, ReadsExact, Named, Requires, Token
  <2>2. HasRead(a) => HasRead(a)'
    BY <1>1, <1>2 DEF HasRead, Named, Token
  <2>3. ReadsValues(a) => ReadsValues(a)'
    BY <1>1 DEF ReadsValues, ReadsList, ReadsClose, Named, Requires, Token, Listed, ListRead, EvenRun
  <2>4. Taken(a)' = Taken(a) /\ Elements(requirements)' = Elements(requirements)
    BY <1>1, SameText
  <2> QED BY <1>1, <1>2, <1>5, <2>1, <2>2, <2>3, <2>4 DEF Reads, Place
<1>6. ReadingInv'
  <2>1. (\E a \in Outer : Reads(a)) => (\E a \in Outer : Reads(a))'
    BY <1>2, <1>5
  <2> QED BY <1>1, <1>2, <2>1 DEF ParserInv, ReadingInv
<1> QED BY <1>1, <1>2, <1>3, <1>4, <1>6 DEF ParserInv

\* So does what has been compiled, while a text is parsed.
LEMMA CompiledUnchanged ==
  ASSUME Inv, compiled' = compiled
  PROVE  compiled' \in Seq(Compiled) /\ SelectorsRestrict'
  BY DEF Inv, TypeOK, SelectorsRestrict

\* Every step keeps the invariant.
LEMMA Inductive == Inv /\ [Next]_vars => Inv'
<1> SUFFICES ASSUME Inv, [Next]_vars PROVE Inv'
  OBVIOUS
<1>1. /\ TypeOK /\ ParserInv /\ SelectorsRestrict
      /\ point # "idle" => phase = "labels"
      /\ InForce /\ CompiledInv /\ CurrentInv
  BY DEF Inv
<1>2. compiled \in Seq(Compiled) /\ Len(compiled) \in Nat /\ rules \in Seq(Rule \cup {Null}) /\ Len(rules) \in Nat
  BY <1>1 DEF TypeOK
<1>3. ASSUME UNCHANGED parserVars PROVE ParserTypeOK' /\ ParserInv' /\ point' = point /\ Given' = Given
  BY <1>1, <1>3, ParserUnchanged DEF ParserInv
<1> USE DEF Phases
<1>4. CASE Convert
  <2>1. rules' \in Seq(Rule \cup {Null})
    <3>1. CASE ValidLegacy(config.legacy)
      <4>1. config.legacy \in Legacy
        BY <3>1, <1>1 DEF TypeOK, Config, ValidLegacy
      <4> QED
        BY <3>1, <4>1, <1>4, ConvertedTyped DEF Convert
    <3>2. CASE ~ValidLegacy(config.legacy)
      BY <3>2, <1>1, <1>4 DEF Convert, TypeOK
    <3> QED
      BY <3>1, <3>2
  <2>2. ParserTypeOK' /\ ParserInv' /\ point' = "idle"
    BY <1>1, <1>3, <1>4 DEF Convert
  <2>3. TypeOK' /\ SelectorsRestrict'
    BY <2>1, <2>2, <1>1, <1>4, CompiledUnchanged DEF Convert, TypeOK, Inv
  <2>4. compiled = <<>> /\ Len(compiled) = 0 /\ rules = config.rules
    BY <1>1, <1>4 DEF Convert, InForce
  <2>5. InForce' /\ CompiledInv' /\ CurrentInv'
    BY <2>1, <2>4, <1>4 DEF Convert, InForce, CompiledInv, CurrentInv, ValidLegacy, Converted
  <2> QED
    BY <2>2, <2>3, <2>5 DEF Inv
<1>5. CASE SkipNull
  <2>1. /\ compiled' \in Seq(Compiled) /\ SelectorsRestrict'
        /\ Len(compiled') = Len(compiled) + 1
        /\ compiled'[Len(compiled) + 1] = [namespaces |-> {}, labels |-> {}]
        /\ \A i \in 1..Len(compiled) : compiled'[i] = compiled[i]
    BY <1>5, AppendRule DEF SkipNull
  <2>2. ParserTypeOK' /\ ParserInv' /\ point' = "idle"
    BY <1>1, <1>3, <1>5 DEF SkipNull
  <2>3. TypeOK'
    BY <2>1, <2>2, <1>1, <1>5 DEF SkipNull, TypeOK
  <2>4. InForce' /\ CurrentInv'
    BY <2>1, <1>1, <1>2, <1>5 DEF SkipNull, InForce, CurrentInv, Current, ValidLegacy, Converted
  <2>5. CompiledInv'
    <3> SUFFICES ASSUME NEW i \in 1..Len(compiled')
                 PROVE  IF rules[i] = Null THEN compiled'[i] = [namespaces |-> {}, labels |-> {}]
                        ELSE /\ compiled'[i].namespaces = CompiledNamespaces(rules[i].namespaces)
                             /\ Kept(compiled'[i].labels, rules[i].labels)
      BY <1>5 DEF SkipNull, CompiledInv
    <3>1. CASE i = Len(compiled) + 1
      BY <2>1, <3>1, <1>5 DEF SkipNull, Current
    <3>2. CASE i \in 1..Len(compiled)
      BY <2>1, <3>2, <1>1, <1>5 DEF SkipNull, CompiledInv
    <3> QED BY <2>1, <1>2, <3>1, <3>2
  <2> QED
    BY <2>1, <2>2, <2>3, <2>4, <2>5 DEF Inv
<1>6. CASE SetupNamespaces
  <2> DEFINE ns == CompiledNamespaces(rules[Current].namespaces)
  <2>1. /\ compiled' \in Seq(Compiled) /\ SelectorsRestrict' /\ compiled' # <<>>
        /\ Len(compiled') = Len(compiled) + 1
        /\ compiled'[Len(compiled) + 1] = [namespaces |-> ns, labels |-> {}]
        /\ \A i \in 1..Len(compiled) : compiled'[i] = compiled[i]
    <3>1. ns \in SUBSET DOMAIN Regex /\ compiled' = Append(compiled, [namespaces |-> ns, labels |-> {}])
      BY <1>6, NamespacesCompile DEF SetupNamespaces
    <3> HIDE DEF ns
    <3> QED BY <3>1, AppendRule
  <2>2. ParserTypeOK' /\ ParserInv' /\ point' = "idle"
    BY <1>1, <1>3, <1>6 DEF SetupNamespaces
  <2>3. Current \in 1..Len(rules) /\ rules[Current] # Null /\ Current = Len(compiled) + 1 /\ Current = Last'
    BY <1>2, <1>6, <2>1 DEF SetupNamespaces, Current, Last
  <2>4. todo' \in SUBSET Seq(Tokens) /\ todo' = rules[Current].labels
    <3>1. rules[Current] \in Rule
      BY <2>3, <1>2
    <3> QED
      BY <3>1, <1>6 DEF SetupNamespaces, Rule
  <2>5. TypeOK'
    BY <2>1, <2>2, <2>4, <1>1, <1>6 DEF SetupNamespaces, TypeOK
  <2>6. InForce'
    BY <2>1, <2>3, <1>1, <1>2, <1>6 DEF SetupNamespaces, InForce, ValidLegacy, Converted
  <2>7. CompiledInv'
    <3> SUFFICES ASSUME NEW i \in 1..Len(compiled')
                 PROVE  IF rules[i] = Null THEN compiled'[i] = [namespaces |-> {}, labels |-> {}]
                        ELSE /\ compiled'[i].namespaces = CompiledNamespaces(rules[i].namespaces)
                             /\ i # Last' => Kept(compiled'[i].labels, rules[i].labels)
      BY <1>6 DEF SetupNamespaces, CompiledInv
    <3>1. CASE i = Len(compiled) + 1
      BY <2>1, <2>3, <3>1
    <3>2. CASE i \in 1..Len(compiled)
      BY <2>1, <3>2, <1>1, <1>6 DEF SetupNamespaces, CompiledInv
    <3> QED BY <2>1, <1>2, <3>1, <3>2
  <2>8. CurrentInv'
    <3>1. /\ rules' = rules /\ compiled'[Last'].labels = {}
      BY <2>1, <2>3, <1>6 DEF SetupNamespaces
    <3>2. rules[Current].labels \ todo' = {}
      BY <2>4
    <3>3. Kept({}, {})
      BY DEF Kept
    <3>4. /\ compiled' # <<>> /\ rules'[Last'] # Null /\ todo' \subseteq rules'[Last'].labels
          /\ Kept(compiled'[Last'].labels, rules'[Last'].labels \ todo')
      BY <2>1, <2>3, <2>4, <3>1, <3>2, <3>3
    <3> QED BY <2>2, <3>4 DEF CurrentInv
  <2> QED
    BY <2>1, <2>2, <2>5, <2>6, <2>7, <2>8, <1>6 DEF SetupNamespaces, Inv
<1>7. CASE SetupLabel
  <2>1. PICK text \in todo : ParseSelector(text) /\ todo' = todo \ {text}
    BY <1>7 DEF SetupLabel
  <2>2. text \in Seq(Tokens) /\ todo' \in SUBSET Seq(Tokens)
    BY <2>1, <1>1 DEF TypeOK
  <2>3. ParserInv' /\ point' = "requirement" /\ Given' = Scan(text)
    BY <2>1, <2>2, ParseSelectorReads
  <2>4. TypeOK' /\ SelectorsRestrict'
    BY <2>2, <2>3, <1>1, <1>7, CompiledUnchanged DEF SetupLabel, TypeOK, ParserInv
  <2>5. InForce' /\ CompiledInv' /\ Last' = Last
    BY <1>1, <1>7 DEF SetupLabel, InForce, CompiledInv, Last, Kept, ValidLegacy, Converted
  <2>6. CurrentInv'
    <3>1. /\ compiled # <<>> /\ rules[Last] # Null /\ todo \subseteq rules[Last].labels
          /\ Kept(compiled[Last].labels, rules[Last].labels \ todo)
      BY <1>1, <1>7 DEF SetupLabel, CurrentInv
    <3>2. text \in rules[Last].labels \ todo' /\ todo' \cup {text} = todo /\ todo' \subseteq rules[Last].labels
      BY <2>1, <3>1
    <3>3. Kept(compiled[Last].labels, rules[Last].labels \ (todo' \cup {text}))
      BY <3>1, <3>2
    <3>4. UNCHANGED <<compiled, rules>>
      BY <1>7 DEF SetupLabel
    <3>5. /\ Given' = Scan(text) /\ text \in rules'[Last'].labels \ todo'
          /\ Kept(compiled'[Last'].labels, rules'[Last'].labels \ (todo' \cup {text}))
          /\ compiled' # <<>> /\ rules'[Last'] # Null /\ todo' \subseteq rules'[Last'].labels
      BY <2>3, <2>5, <3>1, <3>2, <3>3, <3>4
    <3> QED BY <2>3, <3>5 DEF CurrentInv
  <2> QED
    BY <2>3, <2>4, <2>5, <2>6, <1>7 DEF SetupLabel, Inv
<1>8. CASE Parse
  <2>1. ParserInv' /\ point' # "idle"
    BY <1>8, <1>1, ParserReads DEF Parse
  <2>2. point # "idle" /\ UNCHANGED items
    BY <1>8 DEF Parse, ParserStep, BeginRequirement, ParseKey, ParseOperator, OpenValues, FirstValue,
                ListValue, ListComma, ListEnd, CloseValues, ExactValue, Build, Separate, Go, Reject
  <2>3. Given' = Given
    BY <2>2, SameText
  <2>4. UNCHANGED <<config, phase, rules, todo, compiled>> /\ phase = "labels"
    BY <1>1, <1>8, <2>2 DEF Parse, rulesVars
  <2>5. TypeOK' /\ SelectorsRestrict'
    BY <2>1, <2>4, <1>1, CompiledUnchanged DEF TypeOK, ParserInv
  <2>6. InForce' /\ CompiledInv'
    BY <1>1, <2>4 DEF InForce, CompiledInv, Last, Kept, ValidLegacy, Converted
  <2>7. CurrentInv'
    BY <1>1, <2>1, <2>2, <2>3, <2>4 DEF CurrentInv, Last, Kept
  <2> QED
    BY <2>1, <2>4, <2>5, <2>6, <2>7 DEF Inv
<1>9. CASE KeepLabel
  <2>1. /\ phase = "labels" /\ point' = "idle" /\ point # "idle" /\ Last' = Last
        /\ UNCHANGED <<items, position, draft, requirements, config, phase, rules, todo>>
    <3>1. Len(compiled') = Len(compiled)
      BY <1>9, KeepLabelKeeps
    <3> QED BY <1>1, <1>9, <3>1 DEF KeepLabel, Last
  <2>2. PICK text \in rules[Last].labels \ todo :
          /\ Given = Scan(text)
          /\ Kept(compiled[Last].labels, rules[Last].labels \ (todo \cup {text}))
    BY <1>1, <2>1 DEF CurrentInv
  <2>3. Last \in 1..Len(compiled) /\ compiled # <<>> /\ rules[Last] # Null /\ todo \subseteq rules[Last].labels
    BY <1>1, <1>2, <2>1 DEF CurrentInv, Last
  <2>4. rules[Last].labels \ todo = (rules[Last].labels \ (todo \cup {text})) \cup {text}
    BY <2>2
  <2>5. Kept(compiled'[Last].labels, rules[Last].labels \ todo)
    <3>1. CASE point = "parsed" /\ requirements # <<>>
      <4>1. Restricts(Scan(text)) /\ Elements(requirements) = Meaning(Scan(text))
        BY <1>1, <2>2, <3>1, WhatIsKept
      <4>2. compiled'[Last].labels = compiled[Last].labels \cup {requirements}
        BY <1>9, <3>1, KeepLabelKeeps
      <4>3. Kept(compiled[Last].labels \cup {requirements}, (rules[Last].labels \ (todo \cup {text})) \cup {text})
        BY <2>2, <4>1, KeptMore
      <4> QED BY <2>4, <4>2, <4>3
    <3>2. CASE ~(point = "parsed" /\ requirements # <<>>)
      <4>1. ~Restricts(Scan(text))
        BY <1>1, <1>9, <2>2, <3>2, WhatIsKept DEF KeepLabel
      <4>2. compiled' = compiled
        BY <1>9, <3>2 DEF KeepLabel
      <4>3. Kept(compiled[Last].labels, (rules[Last].labels \ (todo \cup {text})) \cup {text})
        BY <2>2, <4>1, KeptSame
      <4> QED BY <2>4, <4>2, <4>3
    <3> QED BY <3>1, <3>2
  <2>6. ParserInv'
    BY <1>1, <2>1 DEF ParserInv, ParserTypeOK, ParserPoints, EndAhead, RequirementsValid, ReadingInv,
       ParsedAsDocumented, ReadingPoints
  <2>7. /\ compiled' \in Seq(Compiled) /\ SelectorsRestrict' /\ Len(compiled') = Len(compiled)
        /\ \A i \in 1..Len(compiled) : compiled'[i].namespaces = compiled[i].namespaces
        /\ \A i \in 1..Len(compiled) : i # Last => compiled'[i] = compiled[i]
    BY <1>9, KeepLabelKeeps
  <2>8. TypeOK'
    BY <2>1, <2>6, <2>7, <1>1 DEF TypeOK, ParserInv
  <2>9. InForce'
    BY <1>1, <2>1, <2>7 DEF InForce, ValidLegacy, Converted
  <2>10. CompiledInv'
    <3> SUFFICES ASSUME NEW i \in 1..Len(compiled)
                 PROVE  IF rules[i] = Null THEN compiled'[i] = [namespaces |-> {}, labels |-> {}]
                        ELSE /\ compiled'[i].namespaces = CompiledNamespaces(rules[i].namespaces)
                             /\ i # Last => Kept(compiled'[i].labels, rules[i].labels)
      BY <2>1, <2>7 DEF CompiledInv
    <3>1. CASE i = Last
      BY <1>1, <2>3, <2>7, <3>1 DEF CompiledInv
    <3>2. CASE i # Last
      BY <1>1, <2>1, <2>7, <3>2 DEF CompiledInv
    <3> QED BY <3>1, <3>2
  <2>11. CurrentInv'
    <3>1. compiled' # <<>>
      BY <1>2, <2>3, <2>7
    <3>2. /\ compiled' # <<>> /\ rules'[Last'] # Null /\ todo' \subseteq rules'[Last'].labels
          /\ Kept(compiled'[Last'].labels, rules'[Last'].labels \ todo')
      BY <2>1, <2>3, <2>5, <3>1
    <3> QED BY <2>1, <3>2 DEF CurrentInv
  <2> QED
    BY <2>1, <2>6, <2>7, <2>8, <2>9, <2>10, <2>11 DEF Inv
<1>10. CASE RuleDone
  <2>1. ParserTypeOK' /\ ParserInv' /\ point' = "idle" /\ point = "idle" /\ phase = "labels" /\ todo = {}
    BY <1>3, <1>10 DEF RuleDone
  <2>2. UNCHANGED <<config, rules, todo, compiled>> /\ phase' = "rules"
    BY <1>10 DEF RuleDone
  <2>3. TypeOK' /\ SelectorsRestrict'
    BY <2>1, <2>2, <1>1, CompiledUnchanged DEF TypeOK
  <2>4. InForce' /\ CurrentInv'
    BY <1>1, <2>1, <2>2 DEF InForce, CurrentInv, ValidLegacy, Converted
  <2>5. CompiledInv'
    <3>1. Kept(compiled[Last].labels, rules[Last].labels)
      <4>1. Kept(compiled[Last].labels, rules[Last].labels \ todo)
        BY <1>1, <2>1 DEF CurrentInv
      <4>2. rules[Last].labels \ todo = rules[Last].labels
        BY <2>1
      <4> QED BY <4>1, <4>2
    <3>2. ASSUME NEW i \in 1..Len(compiled)
          PROVE  IF rules[i] = Null THEN compiled[i] = [namespaces |-> {}, labels |-> {}]
                 ELSE /\ compiled[i].namespaces = CompiledNamespaces(rules[i].namespaces)
                      /\ Kept(compiled[i].labels, rules[i].labels)
      <4>1. CASE i = Last
        BY <1>1, <3>1, <4>1 DEF CompiledInv
      <4>2. CASE i # Last
        BY <1>1, <4>2 DEF CompiledInv
      <4> QED BY <4>1, <4>2
    <3> QED BY <2>2, <3>2 DEF CompiledInv
  <2> QED
    BY <2>1, <2>2, <2>3, <2>4, <2>5 DEF Inv
<1>11. CASE Serve
  <2>1. ParserTypeOK' /\ ParserInv' /\ point' = "idle" /\ phase = "rules"
    BY <1>1, <1>3, <1>11 DEF Serve
  <2>2. UNCHANGED <<config, rules, todo, compiled>> /\ phase' = "serving" /\ Current > Len(rules)
    BY <1>11 DEF Serve
  <2>3. TypeOK' /\ SelectorsRestrict'
    BY <2>1, <2>2, <1>1, CompiledUnchanged DEF TypeOK
  <2>4. Len(compiled) = Len(rules)
    BY <1>1, <1>2, <2>2 DEF InForce, Current
  <2>5. InForce' /\ CurrentInv'
    BY <1>1, <2>1, <2>2, <2>4 DEF InForce, CurrentInv, ValidLegacy, Converted
  <2>6. CompiledInv'
    BY <1>1, <2>1, <2>2 DEF CompiledInv, Kept
  <2> QED
    BY <2>1, <2>2, <2>3, <2>5, <2>6 DEF Inv
<1>12. CASE UNCHANGED vars
  <2>1. UNCHANGED parserVars /\ UNCHANGED <<config, phase, rules, todo, compiled>>
    BY <1>12 DEF vars, parserVars
  <2>2. ParserTypeOK' /\ ParserInv' /\ point' = point /\ Given' = Given
    BY <1>3, <2>1
  <2>3. TypeOK' /\ SelectorsRestrict'
    BY <2>1, <2>2, <1>1, CompiledUnchanged DEF TypeOK
  <2>4. InForce' /\ CompiledInv'
    BY <1>1, <2>1 DEF InForce, CompiledInv, Last, Kept, ValidLegacy, Converted
  <2>5. CurrentInv'
    BY <1>1, <2>1, <2>2 DEF CurrentInv, Last, Kept
  <2> QED
    BY <1>1, <2>1, <2>2, <2>3, <2>4, <2>5 DEF Inv
<1> QED
  BY <1>4, <1>5, <1>6, <1>7, <1>8, <1>9, <1>10, <1>11, <1>12 DEF Next

-----------------------------------------------------------------------------

\* The invariant of Setup (Selector.setup and Parse), for every configuration; it
\* contains that no selector without a valid requirement is used.
THEOREM SetupInvariance == Spec => []Inv
  BY Initially, Inductive, PTL DEF Spec

\* lookahead and consume never index past scannedItems, whatever the selector's
\* text is: the process cannot panic on its configuration there.
THEOREM ParserStaysInside == Spec => []NoOverrun
<1>1. Inv => NoOverrun
  <2> SUFFICES ASSUME Inv PROVE NoOverrun
    OBVIOUS
  <2>1. ParserTypeOK /\ EndAhead
    BY DEF Inv, ParserInv
  <2>2. CASE point \in ReadingPoints
    BY <2>1, <2>2, TokensRemain DEF NoOverrun
  <2>3. CASE point \notin ReadingPoints
    BY <2>3 DEF NoOverrun, ReadingPoints
  <2> QED
    BY <2>2, <2>3
<1> QED
  BY <1>1, SetupInvariance, PTL

\* Parse, whatever text it is given: what it takes is a sentence of its grammar and
\* the requirements are those that the sentence denotes; what it rejects is no
\* sentence, or has the even number of commas before a ")" that parseIdentifiersList
\* does not get past.
THEOREM TextsParsedAsDocumented == Spec => []ParsedAsDocumented
<1>1. Inv => ParsedAsDocumented
  BY DEF Inv, ParserInv
<1> QED
  BY <1>1, SetupInvariance, PTL

-----------------------------------------------------------------------------
(* Reviews *)

\* matchNamespace finds a namespace of the rule as it is written.
LEMMA NamespaceMatches ==
  ASSUME Inv, NEW i \in 1..Len(compiled), rules[i] # Null, NEW pod \in Pods
  PROVE  /\ MatchNamespace(i, pod) <=> SomeNamespace(rules[i], pod)
         /\ rules[i].namespaces = {} => compiled[i].namespaces = {}
         /\ MatchNamespace(i, pod) => compiled[i].namespaces # {}
<1> DEFINE ns == rules[i].namespaces
<1>1. compiled[i].namespaces = CompiledNamespaces(ns)
  BY DEF Inv, CompiledInv
<1>2. /\ "*" \notin DOMAIN Regex /\ ".*" \in DOMAIN Regex /\ pod.namespace \in Regex[".*"]
      /\ \A n \in DOMAIN Regex : n \notin Whitespace \cup {Blank} /\ n # "*"
  BY RulesAssumption
<1>3. ASSUME NEW n \in ns, NamespaceSelects(n, pod) PROVE MatchNamespace(i, pod)
  <2>1. Sugar(n) \in CompiledNamespaces(ns) /\ pod.namespace \in Regex[Sugar(n)]
    BY <1>2, <1>3 DEF NamespaceSelects, Sugar, CompiledNamespaces
  <2> QED BY <1>1, <2>1 DEF MatchNamespace
<1>4. ASSUME NEW re \in CompiledNamespaces(ns), pod.namespace \in Regex[re]
      PROVE  SomeNamespace(rules[i], pod)
  <2>1. PICK n \in ns \ (Whitespace \cup {Blank}) : re = Sugar(n) /\ re \in DOMAIN Regex
    BY DEF CompiledNamespaces
  <2>2. NamespaceSelects(n, pod)
    BY <1>4, <2>1 DEF NamespaceSelects, Sugar
  <2> QED BY <2>1, <2>2 DEF SomeNamespace
<1>5. MatchNamespace(i, pod) <=> SomeNamespace(rules[i], pod)
  BY <1>1, <1>3, <1>4 DEF MatchNamespace, SomeNamespace
<1>6. ns = {} => compiled[i].namespaces = {}
  BY <1>1 DEF CompiledNamespaces
<1> QED BY <1>5, <1>6 DEF MatchNamespace

\* A selector accepts the labels that each of its requirements accepts.
LEMMA SelectorMeans ==
  ASSUME NEW s, NEW labels
  PROVE  SelectorMatches(s, labels) <=> \A r \in Elements(s) : Matches(r, labels)
BY DEF SelectorMatches, Elements

\* matchLabels finds a label selector of the rule as it is written.
LEMMA LabelMatches ==
  ASSUME Inv, phase = "serving", NEW i \in 1..Len(compiled), rules[i] # Null, NEW pod
  PROVE  /\ MatchLabels(i, pod) <=> SomeLabel(rules[i], pod)
         /\ rules[i].labels = {} => compiled[i].labels = {}
         /\ MatchLabels(i, pod) => compiled[i].labels # {}
<1>1. {Elements(s) : s \in compiled[i].labels}
        = {Meaning(Scan(t)) : t \in {u \in rules[i].labels : Restricts(Scan(u))}}
  BY DEF Inv, CompiledInv, Kept
<1>2. ASSUME NEW t \in rules[i].labels, LabelSelects(t, pod) PROVE MatchLabels(i, pod)
  <2>1. Restricts(Scan(t)) /\ \A r \in Meaning(Scan(t)) : Matches(r, pod.labels)
    BY <1>2 DEF LabelSelects
  <2>2. PICK s \in compiled[i].labels : Elements(s) = Meaning(Scan(t))
    BY <1>1, <2>1
  <2>3. SelectorMatches(s, pod.labels)
    BY <2>1, <2>2, SelectorMeans
  <2> QED BY <2>3 DEF MatchLabels
<1>3. ASSUME NEW s \in compiled[i].labels, SelectorMatches(s, pod.labels) PROVE SomeLabel(rules[i], pod)
  <2>1. PICK t \in rules[i].labels : Restricts(Scan(t)) /\ Elements(s) = Meaning(Scan(t))
    BY <1>1
  <2>2. \A r \in Meaning(Scan(t)) : Matches(r, pod.labels)
    BY <1>3, <2>1, SelectorMeans
  <2> QED BY <2>1, <2>2 DEF SomeLabel, LabelSelects
<1>4. rules[i].labels = {} => compiled[i].labels = {}
  <2> SUFFICES ASSUME rules[i].labels = {}, NEW s \in compiled[i].labels PROVE FALSE
    OBVIOUS
  <2> QED BY <1>1
<1> QED BY <1>2, <1>3, <1>4 DEF MatchLabels, SomeLabel

\* What TypeOK and the rest of the invariant say of the rules when they serve.
LEMMA AppliesAsWritten == Inv => RulesApplyAsWritten
<1> SUFFICES ASSUME Inv, phase = "serving", NEW pod \in Pods
             PROVE  /\ MatchAll(pod) = {i \in 1..Len(rules) : rules[i] # Null /\ Covers(rules[i], pod)}
                    /\ MutateAll(pod) = {i \in 1..Len(rules) : /\ rules[i] # Null
                                                              /\ SomeNamespace(rules[i], pod)
                                                              /\ SomeLabel(rules[i], pod)}
  BY DEF RulesApplyAsWritten
<1>1. Len(compiled) = Len(rules)
  BY DEF Inv, InForce
<1>2. ASSUME NEW i \in 1..Len(rules), rules[i] # Null
      PROVE  /\ MatchNamespace(i, pod) <=> SomeNamespace(rules[i], pod)
             /\ rules[i].namespaces = {} => compiled[i].namespaces = {}
             /\ MatchNamespace(i, pod) => compiled[i].namespaces # {}
             /\ MatchLabels(i, pod) <=> SomeLabel(rules[i], pod)
             /\ rules[i].labels = {} => compiled[i].labels = {}
             /\ MatchLabels(i, pod) => compiled[i].labels # {}
  BY <1>1, <1>2, NamespaceMatches, LabelMatches
<1>3. ASSUME NEW i \in 1..Len(rules), rules[i] # Null
      PROVE  InjectRuleMatches(i, pod) <=> Covers(rules[i], pod)
  BY <1>2, <1>3 DEF InjectRuleMatches, Covers
<1>4. MatchAll(pod) = {i \in 1..Len(rules) : rules[i] # Null /\ Covers(rules[i], pod)}
  BY <1>3 DEF MatchAll
<1>5. MutateAll(pod) = {i \in 1..Len(rules) : /\ rules[i] # Null
                                              /\ SomeNamespace(rules[i], pod)
                                              /\ SomeLabel(rules[i], pod)}
  BY <1>2 DEF MutateAll
<1> QED BY <1>4, <1>5

\* matchAllInjectRules and MutateRules.Matches, for every configuration: the rules
\* that a review finds are exactly those that apply to the pod by their text.
THEOREM ReviewsFindRules == Spec => []RulesApplyAsWritten
  BY AppliesAsWritten, SetupInvariance, PTL

\* And of a legacy entry.
LEMMA EntryDecides == Inv => LegacyDecides
<1> DEFINE entry == config.legacy
           named == [namespaces |-> entry.namespaces \ {Blank}, labels |-> entry.labels \ {<<>>}]
           every == [namespaces |-> {".*"}, labels |-> {}]
           empty == named = [namespaces |-> {}, labels |-> {}]
           own == entry.image = "own" \/ entry.envs
           covers(pod) == IF empty THEN own ELSE Covers(named, pod)
<1> SUFFICES ASSUME Inv, phase = "serving"
             PROVE  IF ValidLegacy(entry) THEN \A pod \in Pods : MatchAll(pod) # {} <=> covers(pod)
                                          ELSE rules = config.rules
  BY DEF LegacyDecides
<1>1. rules = IF ValidLegacy(entry) THEN Converted(entry) ELSE config.rules
  BY DEF Inv, InForce
<1>2. CASE ~ValidLegacy(entry)
  BY <1>1, <1>2
<1>3. CASE ValidLegacy(entry)
  <2> SUFFICES ASSUME NEW pod \in Pods PROVE MatchAll(pod) # {} <=> covers(pod)
    BY <1>3
  <2>1. MatchAll(pod) = {i \in 1..Len(rules) : rules[i] # Null /\ Covers(rules[i], pod)}
    BY AppliesAsWritten DEF RulesApplyAsWritten
  <2>2. named \in Rule /\ every \in Rule /\ named # Null /\ every # Null
    <3>1. entry \in Legacy /\ ".*" \in Strings /\ \A r \in Rule : r # Null
      BY <1>3, RulesAssumption DEF Inv, TypeOK, Config, ValidLegacy
    <3>2. entry.namespaces \ {Blank} \in SUBSET Strings /\ entry.labels \ {<<>>} \in SUBSET Seq(Tokens)
      BY <3>1 DEF Legacy
    <3>3. named \in Rule /\ every \in Rule
      BY <3>1, <3>2 DEF Rule
    <3> QED BY <3>1, <3>3
  <2>3. empty <=> entry.namespaces \ {Blank} = {} /\ entry.labels \ {<<>>} = {}
    OBVIOUS
  <2> HIDE DEF empty
  <2>4. rules = IF ~empty THEN <<named>> ELSE IF own THEN <<every>> ELSE <<>>
    BY <1>1, <1>3, <2>3 DEF Converted
  <2>5. Covers(every, pod)
    <3>1. NamespaceSelects(".*", pod)
      BY RulesAssumption DEF NamespaceSelects
    <3> QED BY <3>1 DEF Covers, SomeNamespace
  <2> HIDE DEF named, every, own
  <2>6. ASSUME NEW r, rules = <<r>>, r # Null PROVE MatchAll(pod) # {} <=> Covers(r, pod)
    <3>1. 1..Len(rules) = {1} /\ rules[1] = r
      BY <2>6
    <3>2. MatchAll(pod) = {i \in {1} : Covers(r, pod)}
      BY <2>1, <2>6, <3>1
    <3> QED BY <3>2
  <2>7. CASE ~empty
    BY <2>2, <2>4, <2>6, <2>7
  <2>8. CASE empty /\ own
    BY <2>2, <2>4, <2>5, <2>6, <2>8
  <2>9. CASE empty /\ ~own
    <3>1. rules = <<>> /\ 1..Len(rules) = {}
      BY <2>4, <2>9
    <3> QED BY <2>1, <2>9, <3>1
  <2> QED BY <2>7, <2>8, <2>9
<1> QED BY <1>2, <1>3

\* Configuration.Setup, for every configuration: a valid legacy entry decides alone
\* which pods a feature covers, and without one the rules are those that were loaded.
THEOREM LegacyEntryDecides == Spec => []LegacyDecides
  BY EntryDecides, SetupInvariance, PTL
=============================================================================
