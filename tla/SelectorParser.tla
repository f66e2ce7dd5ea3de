--------------------------- MODULE SelectorParser ---------------------------
(***************************************************************************)
(* The parser of src/pkg/labels/selector.go, one action per call that      *)
(* consumes a token or decides on one.  The lexer's output is a sequence   *)
(* of tokens: a symbol is its own token, and every other string is a       *)
(* literal.  "in" and "notin" are literals as well: lookahead(Values) says *)
(* so, and only parseOperator reads them as operators.                     *)
(***************************************************************************)
EXTENDS LabelSelectors, FiniteSets

End == "<end>"   \* EndOfStringToken

Comma == ","     \* CommaToken

Symbols == {Comma, "(", ")", "!", "=", "==", "!=", ">", "<"}

Literal(t) == t \notin Symbols \cup {End}

\* What the lexer may return before the end; no symbol can be in a label key.
Tokens == Strings \ {End}

ASSUME SymbolAssumption ==
  /\ Symbols \cup {End} \subseteq Strings
  /\ (Symbols \cup {End}) \cap Keys = {}

VARIABLES
  items,         \* scannedItems: tokens, the last is End
  position,      \* the next token to read
  point,         \* where the parser is
  draft,         \* [key, operator, values] of the requirement being parsed
  requirements   \* those parsed so far

parserVars == <<items, position, point, draft, requirements>>

\* idle: no selector given.  requirement: the head of parse's loop.  key: in
\* parseKeyAndInferOperator.  operator: parseOperator.  open, first, close:
\* parseValues.  list: parseIdentifiersList.  exact: parseExactValue.  build:
\* NewRequirement.  separator: after a requirement.
ReadingPoints ==
  {"requirement", "key", "operator", "open", "first", "list", "close", "exact", "separator"}
ParserPoints == ReadingPoints \cup {"build", "idle", "parsed", "rejected"}

Operators == SetOperators \cup GlobOperators \cup CompareOperators \cup KeyOperators

\* A draft has its operator from the moment it is known.
Draft == [key: Strings, operator: Operators \cup {Blank}, values: SUBSET Strings]
NoDraft == [key |-> Blank, operator |-> Blank, values |-> {}]

ParserTypeOK ==
  /\ items \in Seq(Strings)
  /\ position \in Nat
  /\ point \in ParserPoints
  /\ draft \in Draft
  /\ requirements \in Seq(Draft)

ParserInit ==
  /\ items = <<>>
  /\ position = 0
  /\ point = "idle"
  /\ draft = NoDraft
  /\ requirements = <<>>

Token == items[position]
Following == items[position + 1]

\* Consume n tokens and go on at p.
Go(p, n, d) ==
  /\ point' = p
  /\ position' = position + n
  /\ draft' = d
  /\ UNCHANGED <<items, requirements>>

Reject ==
  /\ point' = "rejected"
  /\ UNCHANGED <<items, position, draft, requirements>>

Insert(value) == [draft EXCEPT !.values = @ \cup {value}]

-----------------------------------------------------------------------------
(* parse and parseKeyAndInferOperator *)

\* scan: white space only separates tokens.  A text that is nothing else is <<" ">>.
Scan(text) == IF text = <<" ">> THEN <<>> ELSE text

\* Parse is called with a selector.
ParseSelector(text) ==
  /\ items' = Append(Scan(text), End)
  /\ position' = 1
  /\ point' = "requirement"
  /\ draft' = NoDraft
  /\ requirements' = <<>>

\* The head of the loop; parseRequirement then consumes a "!".
BeginRequirement ==
  /\ point = "requirement"
  /\ \/ Literal(Token) /\ Go("key", 0, NoDraft)
     \/ Token = "!" /\ Go("key", 1, [NoDraft EXCEPT !.operator = "!"])
     \/ Token = End /\ Go("parsed", 0, NoDraft)
     \/ ~Literal(Token) /\ Token \notin {"!", End} /\ Reject

\* A key alone must exist; after "!" no operator is looked for.
ParseKey ==
  /\ point = "key"
  /\ LET named == [draft EXCEPT !.key = Token]
     IN  \/ /\ ~(Literal(Token) /\ Token \in Keys)
            /\ Reject
         \/ /\ Literal(Token) /\ Token \in Keys
            /\ \/ draft.operator = "!" /\ Go("build", 1, named)
               \/ /\ draft.operator # "!" /\ Following \in {End, Comma}
                  /\ Go("build", 1, [named EXCEPT !.operator = "exists"])
               \/ /\ draft.operator # "!" /\ Following \notin {End, Comma}
                  /\ Go("operator", 1, named)

ParseOperator ==
  /\ point = "operator"
  /\ LET known == [draft EXCEPT !.operator = Token]
     IN  \/ Token \in SetOperators /\ Go("open", 1, known)
         \/ Token \in GlobOperators \cup CompareOperators /\ Go("exact", 1, known)
         \/ Token \notin SetOperators \cup GlobOperators \cup CompareOperators /\ Reject

-----------------------------------------------------------------------------
(* parseValues and parseIdentifiersList *)

OpenValues ==
  /\ point = "open"
  /\ IF Token = "(" THEN Go("first", 1, draft) ELSE Reject

FirstValue ==
  /\ point = "first"
  /\ \/ (Literal(Token) \/ Token = Comma) /\ Go("list", 0, draft)
     \/ Token = ")" /\ Go("build", 1, Insert(Blank))
     \/ ~Literal(Token) /\ Token \notin {Comma, ")"} /\ Reject

\* Mutant of ListValue: the value is looked at and not consumed.
ListValueUnread ==
  /\ point = "list"
  /\ Literal(Token)
  /\ \/ Following \in {Comma, ")"} /\ Go("list", 0, Insert(Token))
     \/ Following \notin {Comma, ")"} /\ Reject

\* A value, after which only a comma or the end of the list may come.
ListValue ==
  /\ point = "list"
  /\ Literal(Token)
  /\ \/ Following = Comma /\ Go("list", 1, Insert(Token))
     \/ Following = ")" /\ Go("close", 1, Insert(Token))
     \/ Following \notin {Comma, ")"} /\ Reject

\* Mutant of ListComma: the second of two commas is left for the next turn.
ListCommaOneByOne ==
  /\ point = "list"
  /\ Token = Comma
  /\ LET leading == IF draft.values = {} THEN Insert(Blank) ELSE draft
     IN  \/ Following = ")" /\ Go("close", 1, Insert(Blank))
         \/ Following = Comma /\ Go("list", 2, leading)
         \/ Following \notin {Comma, ")"} /\ Go("list", 1, leading)

\* A comma next to the start, the end or another comma stands for an empty value.
\* The second of two commas is consumed with the first.
ListComma ==
  /\ point = "list"
  /\ Token = Comma
  /\ LET leading == IF draft.values = {} THEN Insert(Blank) ELSE draft
     IN  \/ Following = ")" /\ Go("close", 1, Insert(Blank))
         \/ Following = Comma /\ Go("list", 2, Insert(Blank))
         \/ Following \notin {Comma, ")"} /\ Go("list", 1, leading)

\* Mutant of ListEnd: the end of the string is skipped like a value.
ListEndSkipped ==
  /\ point = "list"
  /\ ~Literal(Token) /\ Token # Comma
  /\ IF Token = End THEN Go("close", 1, draft) ELSE Reject

ListEnd ==
  /\ point = "list"
  /\ ~Literal(Token) /\ Token # Comma
  /\ Reject

CloseValues ==
  /\ point = "close"
  /\ IF Token = ")" THEN Go("build", 1, draft) ELSE Reject

\* parseExactValue: a value may be left out before a comma or the end.
ExactValue ==
  /\ point = "exact"
  /\ \/ Token \in {End, Comma} /\ Go("build", 0, Insert(Blank))
     \/ Literal(Token) /\ Go("build", 1, Insert(Token))
     \/ ~Literal(Token) /\ Token \notin {End, Comma} /\ Reject

-----------------------------------------------------------------------------
(* NewRequirement, and what may follow it *)

Build ==
  /\ point = "build"
  /\ IF ValidRequirement(draft)
     THEN /\ requirements' = Append(requirements, draft)
          /\ point' = "separator"
          /\ UNCHANGED <<items, position, draft>>
     ELSE Reject

\* A comma is only consumed for another requirement.
Separate ==
  /\ point = "separator"
  /\ \/ Token = End /\ Go("parsed", 1, draft)
     \/ Token = Comma /\ IF Literal(Following) \/ Following = "!"
                       THEN Go("requirement", 1, draft) ELSE Reject
     \/ Token \notin {End, Comma} /\ Reject

ParserStep ==
  \/ BeginRequirement \/ ParseKey \/ ParseOperator
  \/ OpenValues \/ FirstValue \/ ListValue \/ ListComma \/ ListEnd \/ CloseValues
  \/ ExactValue \/ Build \/ Separate

-----------------------------------------------------------------------------
(* Safety *)

\* The parser never reads past the tokens: lookahead and consume index scannedItems
\* without a check, and only the End that scan() appended stops them.
NoOverrun ==
  /\ point \in ReadingPoints => position \in 1..Len(items)
  /\ point \in {"key", "list", "separator"} /\ Token # End => position + 1 \in 1..Len(items)

-----------------------------------------------------------------------------
(* What a selector means, by the grammar in the comment of Parse *)

\* The stretches of s between the commas at cuts.
Ends(s, cuts) == cuts \cup {0, Len(s) + 1}
Adjacent(S) == {p \in S \X S : p[1] < p[2] /\ \A c \in S : ~(p[1] < c /\ c < p[2])}
Between(s, p) == SubSeq(s, p[1] + 1, p[2] - 1)
Fields(s, cuts) == {Between(s, p) : p \in Adjacent(Ends(s, cuts))}

Commas(s) == {i \in 1..Len(s) : s[i] = Comma}

\* Those that are in no parentheses.
Before(s, t, i) == Cardinality({j \in 1..i : s[j] = t})
OuterCommas(s) == {i \in Commas(s) : Before(s, "(", i) = Before(s, ")", i)}

\* A VALUE may be empty.
IsValue(field) == field = <<>> \/ (Len(field) = 1 /\ Literal(field[1]))
ValueOf(field) == IF field = <<>> THEN Blank ELSE field[1]

Nonsense == [NoDraft EXCEPT !.values = {Blank}]

\* The requirement that a stretch between commas denotes; "!" takes no restriction,
\* as note (5) there has it.
Denotes(s) ==
  LET n == Len(s)
      body == Fields(SubSeq(s, 4, n - 1), Commas(SubSeq(s, 4, n - 1)))
      rest == SubSeq(s, 3, n)
  IN  CASE n = 1 -> [key |-> s[1], operator |-> "exists", values |-> {}]
        [] n = 2 /\ s[1] = "!" -> [key |-> s[2], operator |-> "!", values |-> {}]
        [] n \in {2, 3} /\ s[1] # "!" /\ s[2] \in GlobOperators \cup CompareOperators /\ IsValue(rest) ->
             [key |-> s[1], operator |-> s[2], values |-> {ValueOf(rest)}]
        [] n >= 4 /\ s[2] \in SetOperators /\ s[3] = "(" /\ s[n] = ")"
             /\ \A f \in body : IsValue(f) ->
             [key |-> s[1], operator |-> s[2], values |-> {ValueOf(f) : f \in body}]
        [] OTHER -> Nonsense

Meaning(s) == {Denotes(f) : f \in Fields(s, OuterCommas(s))}

\* Every stretch denotes a requirement that NewRequirement accepts.
Sentence(s) == s = <<>> \/ \A r \in Meaning(s) : ValidRequirement(r)

\* An even number of commas before a ")": the second of each two is consumed with
\* the first, and the parser then expects a value.
EvenBefore(s, to) ==
  \E from \in 1..to - 1 :
    /\ (to - from) % 2 = 0
    /\ from > 1 => s[from - 1] # Comma
    /\ \A i \in from..to - 1 : s[i] = Comma

EvenCommas(s) == \E to \in 1..Len(s) : s[to] = ")" /\ EvenBefore(s, to)

Given == SubSeq(items, 1, Len(items) - 1)

Elements(s) == {s[i] : i \in 1..Len(s)}

\* What the parser returns is what its grammar says: a selector that it takes means
\* what it says, and one that it does not take says nothing, or has the one form
\* of the grammar that parseIdentifiersList rejects.
ParsedAsDocumented ==
  /\ point = "parsed" =>
       /\ Sentence(Given)
       /\ Elements(requirements) = IF Given = <<>> THEN {} ELSE Meaning(Given)
  /\ point = "rejected" => ~Sentence(Given) \/ EvenCommas(Given)

-----------------------------------------------------------------------------
(* The inductive invariant of the parser *)

\* Between ParseSelector and the end the tokens end with End, and the parser has
\* not consumed it unless it is done.
EndAhead ==
  point # "idle" =>
    /\ items # <<>> /\ items[Len(items)] = End
    /\ \A i \in 1..Len(items) - 1 : items[i] # End
    /\ point \in ReadingPoints \cup {"build"} => position \in 1..Len(items)

RequirementsValid == \A i \in 1..Len(requirements) : ValidRequirement(requirements[i])

Outer == Ends(Given, OuterCommas(Given))

\* What the stretches up to the end a denote.
Taken(a) == {Denotes(Between(Given, p)) : p \in {q \in Adjacent(Outer) : q[2] <= a}}

Named(a) == Literal(items[a + 1]) /\ items[a + 1] \in Keys

Requires(a, values) == draft = [key |-> items[a + 1], operator |-> items[a + 2], values |-> values]

\* The values of the list that begins at i and has been read up to k: a comma that
\* follows another, or the "(" before the list, closes an empty one.
Listed(i, k) ==
  {items[j] : j \in {l \in i..k - 1 : Literal(items[l])}}
    \cup {v \in {Blank} : \E j \in i..k - 1 : items[j] = Comma /\ (j = i \/ items[j - 1] = Comma)}

\* Values and commas, no two values side by side.
ListRead(i, k) ==
  /\ \A j \in i..k - 1 : Literal(items[j]) \/ items[j] = Comma
  /\ \A j \in i + 1..k - 1 : items[j - 1] = Comma \/ items[j] = Comma

\* The commas just before k are even in number, or there are none.
EvenRun(i, k) ==
  \E from \in i..k :
    /\ (k - from) % 2 = 0
    /\ items[from - 1] # Comma
    /\ \A j \in from..k - 1 : items[j] = Comma

\* In a list a value follows the start or a comma; a comma, an even number of them.
ReadsList(a) ==
  /\ point = "list" /\ position >= a + 4
  /\ Requires(a, Listed(a + 4, position))
  /\ ListRead(a + 4, position)
  /\ Literal(Token) /\ position > a + 4 => items[position - 1] = Comma
  /\ Token \in {Comma, ")"} => EvenRun(a + 4, position)
  /\ Token = ")" => items[position - 1] = Comma

ReadsClose(a) ==
  /\ point = "close" /\ position > a + 4 /\ Token = ")"
  /\ Requires(a, Listed(a + 4, position) \cup (IF items[position - 1] = Comma THEN {Blank} ELSE {}))
  /\ ListRead(a + 4, position)
  /\ ~EvenBefore(items, position)

ReadsValues(a) ==
  /\ Named(a) /\ items[a + 2] \in SetOperators
  /\ point # "open" => items[a + 3] = "("
  /\ \/ point = "open" /\ position = a + 3 /\ Requires(a, {})
     \/ point = "first" /\ position = a + 4 /\ Requires(a, {})
     \/ ReadsList(a)
     \/ ReadsClose(a)

ReadsKey(a) ==
  \/ /\ point = "requirement" /\ position = a + 1
     /\ a # 0 => Literal(Token) \/ Token = "!"
  \/ point = "key" /\ position = a + 1 /\ draft = NoDraft /\ Literal(Token)
  \/ point = "key" /\ position = a + 2 /\ draft = [NoDraft EXCEPT !.operator = "!"] /\ items[a + 1] = "!"
  \/ /\ point = "operator" /\ position = a + 2 /\ Named(a)
     /\ draft = [NoDraft EXCEPT !.key = items[a + 1]] /\ Token \notin {End, Comma}

ReadsExact(a) ==
  /\ point = "exact" /\ position = a + 3 /\ Named(a)
  /\ items[a + 2] \in GlobOperators \cup CompareOperators /\ Requires(a, {})

\* What has been read denotes the draft, and nothing longer denotes a requirement.
HasRead(a) ==
  /\ point \in {"build", "separator"} /\ draft = Denotes(Between(Given, <<a, position>>))
  /\ \/ position = a + 2 /\ Token \in {End, Comma}
     \/ position = a + 3 /\ items[a + 1] = "!"
     \/ /\ position \in {a + 3, a + 4} /\ Named(a) /\ items[a + 2] \in GlobOperators \cup CompareOperators
        /\ position = a + 3 => Token \in {End, Comma}
     \/ position > a + 4 /\ Named(a) /\ items[a + 2] \in SetOperators /\ items[position - 1] = ")"

Inside == {"first", "list", "close"}

Place(a) == ReadsKey(a) \/ ReadsValues(a) \/ ReadsExact(a) \/ HasRead(a)

\* The requirements are those of the stretches before a.
Reads(a) ==
  /\ a < position
  /\ Place(a)
  /\ \A i \in a + 1..position - 1 : i \notin OuterCommas(Given)
  /\ Elements(requirements) = Taken(a) \cup (IF point = "separator" THEN {draft} ELSE {})

ReadingInv ==
  point \in ReadingPoints \cup {"build"} =>
    /\ \E a \in Outer : Reads(a)
    /\ Before(Given, "(", position - 1) =
         Before(Given, ")", position - 1) + (IF point \in Inside THEN 1 ELSE 0)
    /\ \A to \in 1..position - 1 : items[to] = ")" => ~EvenBefore(items, to)

ParserInv ==
  /\ ParserTypeOK
  /\ EndAhead
  /\ RequirementsValid
  /\ ReadingInv
  /\ ParsedAsDocumented
  /\ point = "parsed" => ~EvenCommas(Given)
=============================================================================
