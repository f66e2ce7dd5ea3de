----------------------------- MODULE LeaseCache -----------------------------
(***************************************************************************)
(* What a coordinator is promised about its cache of one Lease: it shows   *)
(* some version the API server has stored, never goes back to an older one *)
(* and says when it may be used.  Election's Informer(c) is this.          *)
(***************************************************************************)
EXTENDS Integers

VARIABLES
  stored,   \* the newest version at the API server
  shown,    \* the version the cache shows
  ready     \* Ready()

vars == <<stored, shown, ready>>

Init == stored = 0 /\ shown = 0 /\ ready = FALSE

Store == stored' = stored + 1 /\ UNCHANGED <<shown, ready>>

\* The version shown and the readiness may move in one step.
Move ==
  /\ shown' \in shown..stored
  /\ ready' \in BOOLEAN
  /\ UNCHANGED stored

Next == Store \/ Move

Spec == Init /\ [][Next]_vars
=============================================================================
