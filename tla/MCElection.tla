----------------------------- MODULE MCElection -----------------------------
(* Instances of Election for TLC. *)
EXTENDS Election, TLC

\* DataKits, and the slots of their requests, are interchangeable.
Symmetry == Permutations(Ids) \cup Permutations(Requests)

\* So are the coordinators of an instance where they all crash or none does.
ReplicaSymmetry == Symmetry \cup Permutations(Coordinators)
=============================================================================
