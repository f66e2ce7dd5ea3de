--------------------------- MODULE LabelSelectors ---------------------------
(***************************************************************************)
(* The label selectors of src/pkg/labels: what a requirement may be and    *)
(* which labels it accepts.  Equality operators match globs, which         *)
(* Kubernetes' own selectors do not.                                       *)
(***************************************************************************)
EXTENDS Integers, Sequences

CONSTANTS
  Strings,  \* the strings of a configuration
  Keys,     \* the literals that are label keys
  Values,   \* the literals that are label values
  Glob,     \* literals that compile as a glob -> the values they match
  Number    \* literals that are a 64-bit integer -> the integer

Blank == ""

ASSUME LabelAssumption ==
  /\ Keys \cup Values \subseteq Strings
  /\ Blank \in Values
  /\ Blank \notin Keys
  /\ \A g \in DOMAIN Glob : Glob[g] \subseteq Values
  /\ \A n \in DOMAIN Number : Number[n] \in Int

SetOperators     == {"in", "notin"}
GlobOperators    == {"=", "==", "!="}
CompareOperators == {">", "<"}
KeyOperators     == {"exists", "!"}

\* NewRequirement returns no error.
ValidRequirement(r) ==
  /\ r.key \in Keys
  /\ \/ r.operator \in SetOperators /\ r.values # {} /\ r.values \subseteq Values
     \/ r.operator \in GlobOperators /\ \E v \in DOMAIN Glob : r.values = {v}
     \/ r.operator \in CompareOperators /\ \E v \in DOMAIN Number \cap Values : r.values = {v}
     \/ r.operator \in KeyOperators /\ r.values = {}

\* Requirement.Matches, for labels that are a function from keys to values.
Matches(r, labels) ==
  LET has       == r.key \in DOMAIN labels
      listed    == has /\ labels[r.key] \in r.values
      globbed   == has /\ \E v \in r.values : labels[r.key] \in Glob[v]
      number    == has /\ labels[r.key] \in DOMAIN Number
  IN  \/ r.operator = "in" /\ listed
      \/ r.operator = "notin" /\ ~listed
      \/ r.operator \in {"=", "=="} /\ globbed
      \/ r.operator = "!=" /\ ~globbed
      \/ r.operator = "exists" /\ has
      \/ r.operator = "!" /\ ~has
      \/ r.operator = ">" /\ number /\ \A v \in r.values : Number[labels[r.key]] > Number[v]
      \/ r.operator = "<" /\ number /\ \A v \in r.values : Number[labels[r.key]] < Number[v]

\* internalSelector.Matches: a selector is a sequence of requirements.
SelectorMatches(selector, labels) ==
  \A i \in 1..Len(selector) : Matches(selector[i], labels)
=============================================================================
