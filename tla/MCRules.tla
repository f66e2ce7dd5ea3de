------------------------------- MODULE MCRules -------------------------------
(* Instances of Rules for TLC. *)
EXTENDS Rules

CONSTANTS MaxTokens, MaxTail

MCStrings == STRING
MCKeys == {"app", "in", "7"}
MCValues == {"", "app", "in", "7", "9"}
MCGlob == [g \in MCValues \cup {"*"} |-> IF g = "*" THEN MCValues ELSE {g}]
MCNumber == [n \in {"7", "9"} |-> IF n = "7" THEN 7 ELSE 9]

MCWhitespace == {" "}
MCRegex == [re \in {".*", "prod"} |-> IF re = "prod" THEN {"prod"} ELSE {"prod", "test"}]

MCPods ==
  [namespace: {"prod", "test"},
   labels: {<<>>} \cup [{"app"} -> {"", "app", "7", "9"}] \cup [{"app", "7"} -> {"9"}]]

TokensUpTo(n, S) == UNION {[1..k -> S] : k \in 0..n}

\* Short texts of all kinds, and longer lists and comparisons.
Short == TokensUpTo(MaxTokens, {"app", "7", "*", "in", ",", "(", ")", "!", "="})
Lists == {<<"app", op, "(">> \o t : op \in {"in", "notin"}, t \in TokensUpTo(MaxTail, {"app", "*", ",", ")"})}
Comparisons == {<<"app", op>> \o t : op \in GlobOperators \cup CompareOperators,
                                    t \in TokensUpTo(MaxTail - 2, {"app", "7", "*", ",", "!"})}
Texts == Short \cup Lists \cup Comparisons \cup {<<" ">>}

One(ns, ls) == [namespaces |-> ns, labels |-> ls]

\* One rule with one label selector of any text.
Selecting == {[rules |-> <<One({}, {t})>>, legacy |-> Null] : t \in Texts}

SomeTexts == {<<>>, <<" ">>, <<"app", ">", "7">>, <<"app", "in", "(">>}
SomeNamespaces == {{}, {""}, {" "}, {"*"}, {"prod"}, {"[", "prod"}, {"["}}
SomeRules == {Null} \cup {One(ns, ls) : ns \in SomeNamespaces, ls \in {s \in SUBSET SomeTexts : s = {} \/ \E t \in SomeTexts : s \in {{t}, {t, <<"app", ">", "7">>}}}}

\* Two rules, without a legacy entry, and one with any entry.
Lists2 == {[rules |-> <<r, s>>, legacy |-> Null] : r \in SomeRules, s \in SomeRules}
Entries == [namespaces: SomeNamespaces \cup {{"", "prod"}}, labels: {{}, {<<>>}, {<<" ">>}, {<<>>, <<"app", ">", "7">>}},
            image: {"none", "other", "own"}, envs: BOOLEAN]
Replacing == {[rules |-> <<One({"prod"}, {})>>, legacy |-> e] : e \in Entries}

MCConfigs == Selecting \cup Lists2 \cup Replacing
=============================================================================
