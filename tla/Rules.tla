------------------------------- MODULE Rules -------------------------------
(***************************************************************************)
(* The rules of one feature in src/config: Configuration.Setup at the      *)
(* start of the process, where a legacy entry may replace them and their   *)
(* selectors are compiled one by one (label selectors by SelectorParser),  *)
(* and then the rule that a review finds for a pod.                        *)
(***************************************************************************)
EXTENDS SelectorParser

CONSTANTS
  Regex,      \* namespace selectors that compile -> the namespaces they match
  Whitespace, \* namespace selectors of white space only
  Pods,       \* what reviews ask about: [namespace, labels]
  Configs,    \* the configurations: [rules, legacy]
  Null        \* a rule that is null in the JSON, and no legacy entry

Rule == [namespaces: SUBSET Strings, labels: SUBSET Seq(Tokens)]

Legacy == [namespaces: SUBSET Strings, labels: SUBSET Seq(Tokens),
           image: {"none", "other", "own"}, envs: BOOLEAN]

Config == [rules: Seq(Rule \cup {Null}), legacy: Legacy \cup {Null}]

ASSUME RulesAssumption ==
  /\ DOMAIN Regex \subseteq Strings
  /\ ".*" \in DOMAIN Regex
  /\ ({Blank, "*"} \cup Whitespace) \cap DOMAIN Regex = {}
  /\ Configs \subseteq Config
  /\ Null \notin Rule \cup Legacy
  /\ \A pod \in Pods : pod.namespace \in Regex[".*"]

VARIABLES
  config,      \* what was loaded
  phase,       \* of Setup
  rules,       \* the rules in force: Null or [namespaces, labels]
  todo,        \* the label selectors of the current rule that are still to be parsed
  compiled     \* for each rule set up, what was kept of its selectors

rulesVars == <<config, phase, rules, todo, compiled>>
vars == <<items, position, point, draft, requirements, config, phase, rules, todo, compiled>>

\* loaded: before the legacy conversion.  rules: between two rules.  labels: in the
\* loop over a rule's label selectors.  serving: Setup has returned.
Phases == {"loaded", "rules", "labels", "serving"}

\* The selectors of one rule that are used.
Compiled == [namespaces: SUBSET DOMAIN Regex, labels: SUBSET Seq(Draft)]

TypeOK ==
  /\ ParserTypeOK
  /\ config \in Config
  /\ phase \in Phases
  /\ rules \in Seq(Rule \cup {Null})
  /\ todo \in SUBSET Seq(Tokens)
  /\ compiled \in Seq(Compiled)

Init ==
  /\ ParserInit
  /\ config \in Configs
  /\ phase = "loaded"
  /\ rules = config.rules
  /\ todo = {}
  /\ compiled = <<>>

\* The rule to set up next, or being set up.
Current == Len(compiled) + 1
Last == Len(compiled)

-----------------------------------------------------------------------------
(* The legacy entry.  Its image is "none", "other" (only under keys that this *)
(* feature does not read) or "own"; a profiler reads no key at all.           *)

\* isValidDeprecatedRule
ValidLegacy(entry) == entry # Null /\ (entry.image # "none" \/ entry.envs)

\* Mutant of Converted: selectors that are empty are kept.
ConvertedAsGiven(entry) ==
  IF entry.namespaces = {} /\ entry.labels = {}
  THEN IF entry.image = "own" \/ entry.envs THEN <<[namespaces |-> {".*"}, labels |-> {}]>> ELSE <<>>
  ELSE <<[namespaces |-> entry.namespaces, labels |-> entry.labels]>>

\* convertDeprecatedInjectRule: one rule, or none.
Converted(entry) ==
  LET namespaces == entry.namespaces \ {Blank}
      labels     == entry.labels \ {<<>>}
      selects    == namespaces # {} \/ labels # {}
  IN  CASE selects -> <<[namespaces |-> namespaces, labels |-> labels]>>
        [] ~selects /\ (entry.image = "own" \/ entry.envs) ->
             <<[namespaces |-> {".*"}, labels |-> {}]>>
        [] OTHER -> <<>>

\* A valid legacy entry replaces the rules, by none if it converts to none.
Convert ==
  /\ phase = "loaded"
  /\ phase' = "rules"
  /\ rules' = IF ValidLegacy(config.legacy) THEN Converted(config.legacy) ELSE rules
  /\ UNCHANGED <<config, todo, compiled>> /\ UNCHANGED parserVars

-----------------------------------------------------------------------------
(* setupInjectRules, MutateRules.Setup and Selector.setup.  The selectors of a *)
(* rule do not depend on each other: they are sets, taken in any order.        *)

\* replaceAsteriskWithDotAsterisk
Sugar(n) == IF n = "*" THEN ".*" ELSE n

\* A namespace selector that is blank or does not compile is dropped.
CompiledNamespaces(ns) == {Sugar(n) : n \in ns \ (Whitespace \cup {Blank})} \cap DOMAIN Regex

SkipNull ==
  /\ phase = "rules"
  /\ Current <= Len(rules) /\ rules[Current] = Null
  /\ compiled' = Append(compiled, [namespaces |-> {}, labels |-> {}])
  /\ UNCHANGED <<config, phase, rules, todo>> /\ UNCHANGED parserVars

SetupNamespaces ==
  /\ phase = "rules"
  /\ Current <= Len(rules) /\ rules[Current] # Null
  /\ compiled' = Append(compiled,
       [namespaces |-> CompiledNamespaces(rules[Current].namespaces), labels |-> {}])
  /\ todo' = rules[Current].labels
  /\ phase' = "labels"
  /\ UNCHANGED <<config, rules>> /\ UNCHANGED parserVars

SetupLabel ==
  /\ phase = "labels" /\ point = "idle"
  /\ \E text \in todo : ParseSelector(text) /\ todo' = todo \ {text}
  /\ UNCHANGED <<config, phase, rules, compiled>>

Parse == ParserStep /\ UNCHANGED rulesVars

\* Mutant of KeepLabel: a selector without requirements is kept.
KeepLabelEmpty ==
  /\ point \in {"parsed", "rejected"}
  /\ compiled' = IF point = "parsed"
                 THEN [compiled EXCEPT ![Last].labels = @ \cup {requirements}] ELSE compiled
  /\ point' = "idle"
  /\ UNCHANGED <<items, position, draft, requirements, config, phase, rules, todo>>

\* One that does not parse, or has no requirements, is dropped.
KeepLabel ==
  /\ point \in {"parsed", "rejected"}
  /\ compiled' = IF point = "parsed" /\ requirements # <<>>
                 THEN [compiled EXCEPT ![Last].labels = @ \cup {requirements}] ELSE compiled
  /\ point' = "idle"
  /\ UNCHANGED <<items, position, draft, requirements, config, phase, rules, todo>>

RuleDone ==
  /\ phase = "labels" /\ point = "idle"
  /\ todo = {}
  /\ phase' = "rules"
  /\ UNCHANGED <<config, rules, todo, compiled>> /\ UNCHANGED parserVars

Serve ==
  /\ phase = "rules"
  /\ Current > Len(rules)
  /\ phase' = "serving"
  /\ UNCHANGED <<config, rules, todo, compiled>> /\ UNCHANGED parserVars

Next ==
  \/ Convert
  \/ SkipNull \/ SetupNamespaces \/ SetupLabel \/ Parse \/ KeepLabel \/ RuleDone
  \/ Serve

Spec == Init /\ [][Next]_vars /\ WF_vars(Next)

-----------------------------------------------------------------------------
(* Reviews *)

MatchNamespace(i, pod) == \E re \in compiled[i].namespaces : pod.namespace \in Regex[re]

MatchLabels(i, pod) == \E s \in compiled[i].labels : SelectorMatches(s, pod.labels)

\* Mutant of InjectRuleMatches: a dimension none of whose entries is valid is
\* taken for one that is not configured.
InjectRuleMatchesOpen(i, pod) ==
  /\ rules[i].namespaces # {} \/ rules[i].labels # {}
  /\ compiled[i].namespaces # {} => MatchNamespace(i, pod)
  /\ compiled[i].labels # {} => MatchLabels(i, pod)

\* injectRuleMatches: a dimension counts if it is configured, and then needs an
\* entry that is valid and one that matches.
InjectRuleMatches(i, pod) ==
  /\ rules[i].namespaces # {} \/ rules[i].labels # {}
  /\ rules[i].namespaces # {} => compiled[i].namespaces # {}
  /\ rules[i].labels # {} => compiled[i].labels # {}
  /\ compiled[i].namespaces # {} => MatchNamespace(i, pod)
  /\ compiled[i].labels # {} => MatchLabels(i, pod)

\* matchAllInjectRules; matchInjectRule returns the first of them.
MatchAll(pod) == {i \in 1..Len(rules) : rules[i] # Null /\ InjectRuleMatches(i, pod)}

\* MutateRules.Matches returns the first of these.
MutateAll(pod) == {i \in 1..Len(rules) : rules[i] # Null /\ MatchNamespace(i, pod) /\ MatchLabels(i, pod)}

-----------------------------------------------------------------------------
(* Safety *)

\* A selector that is used restricts something: it has requirements, and all of
\* them passed NewRequirement.  An empty one would accept every pod.
SelectorsRestrict ==
  \A i \in 1..Len(compiled) : \A s \in compiled[i].labels :
    s # <<>> /\ \A k \in 1..Len(s) : ValidRequirement(s[k])

\* The documented meaning of a selector of each kind, by the text that was given:
\* what is invalid or empty selects nothing.
NamespaceSelects(n, pod) ==
  n \notin Whitespace \cup {Blank} /\ (n = "*" \/ (n \in DOMAIN Regex /\ pod.namespace \in Regex[n]))

Restricts(s) == s # <<>> /\ Sentence(s) /\ ~EvenCommas(s)

LabelSelects(text, pod) ==
  Restricts(Scan(text)) /\ \A r \in Meaning(Scan(text)) : Matches(r, pod.labels)

SomeNamespace(rule, pod) == \E n \in rule.namespaces : NamespaceSelects(n, pod)
SomeLabel(rule, pod) == \E s \in rule.labels : LabelSelects(s, pod)

\* "Multiple selectors in the same array are matched with OR ... both dimensions
\* must match ... If neither dimension is configured, the current rule is
\* disabled ... If a configured dimension has no valid entries left, the current
\* rule is disabled" (export/en/datakit-operator.md).
Covers(rule, pod) ==
  /\ rule.namespaces # {} \/ rule.labels # {}
  /\ rule.namespaces # {} => SomeNamespace(rule, pod)
  /\ rule.labels # {} => SomeLabel(rule, pod)

\* The rules that a review finds are those that apply by their text: whatever was
\* dropped on the way, no rule opens, closes or hides another.  "Logging mutation
\* rules require both dimensions."
RulesApplyAsWritten ==
  phase = "serving" => \A pod \in Pods :
    /\ MatchAll(pod) = {i \in 1..Len(rules) : rules[i] # Null /\ Covers(rules[i], pod)}
    /\ MutateAll(pod) = {i \in 1..Len(rules) : /\ rules[i] # Null
                                               /\ SomeNamespace(rules[i], pod)
                                               /\ SomeLabel(rules[i], pod)}

\* "A valid ... entry in the legacy configuration overrides the corresponding v2
\* rules": one of the two decides alone.  The entry covers every pod only if all the
\* selectors it names are empty and it configures something the feature reads.
LegacyDecides ==
  LET entry == config.legacy
      named == [namespaces |-> entry.namespaces \ {Blank}, labels |-> entry.labels \ {<<>>}]
      covers(pod) == IF named = [namespaces |-> {}, labels |-> {}]
                     THEN entry.image = "own" \/ entry.envs ELSE Covers(named, pod)
  IN  phase = "serving" =>
        IF ValidLegacy(entry) THEN \A pod \in Pods : MatchAll(pod) # {} <=> covers(pod)
                              ELSE rules = config.rules

(* The inductive invariant *)

\* The rules in force, and how many of them have been set up.
InForce ==
  /\ rules = IF phase # "loaded" /\ ValidLegacy(config.legacy)
             THEN Converted(config.legacy) ELSE config.rules
  /\ Len(compiled) <= Len(rules)
  /\ phase = "loaded" => compiled = <<>>
  /\ phase = "serving" => Len(compiled) = Len(rules)

\* A label selector that is kept means what one of the texts says.
Kept(selectors, texts) ==
  {Elements(s) : s \in selectors} = {Meaning(Scan(t)) : t \in {u \in texts : Restricts(Scan(u))}}

\* The selectors of the rules set up so far are those of their texts; of the
\* current one, those that have been parsed.
CompiledInv ==
  \A i \in 1..Len(compiled) :
    IF rules[i] = Null THEN compiled[i] = [namespaces |-> {}, labels |-> {}]
    ELSE /\ compiled[i].namespaces = CompiledNamespaces(rules[i].namespaces)
         /\ phase # "labels" \/ i # Last => Kept(compiled[i].labels, rules[i].labels)

CurrentInv ==
  phase = "labels" =>
    /\ compiled # <<>> /\ rules[Last] # Null /\ todo \subseteq rules[Last].labels
    /\ point = "idle" => Kept(compiled[Last].labels, rules[Last].labels \ todo)
    /\ point # "idle" => \E text \in rules[Last].labels \ todo :
                           /\ Given = Scan(text)
                           /\ Kept(compiled[Last].labels, rules[Last].labels \ (todo \cup {text}))

Inv ==
  /\ TypeOK
  /\ ParserInv
  /\ SelectorsRestrict
  /\ point # "idle" => phase = "labels"
  /\ InForce
  /\ CompiledInv
  /\ CurrentInv

(* Liveness *)

\* Setup ends, whatever the selectors are: the parser never turns in place.
SetupEnds == <>(phase = "serving")
=============================================================================
