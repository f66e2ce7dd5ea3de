-------------------------- MODULE MCLoggingConfig --------------------------
(* Instances of LoggingConfig for TLC. *)
EXTENDS LoggingConfig

CONSTANTS x, y, web, db, front   \* namespaces, pod names, labels

\* One spec with a selector, and one whose expressions do not compile.
Selective == [namespaces |-> {x}, pods |-> {web}, labels |-> {front}]
Broken    == [namespaces |-> {x, y}, pods |-> {web, db}, labels |-> {front}]

MCSpecs == {Selective, Broken}
MCPods  == [namespace: {x, y}, name: {web, db}, labels: {front, NoLabels}]
=============================================================================
