----------------------------- MODULE MCResources -----------------------------
(* A small instance of Resources for TLC. *)
EXTENDS Resources, TLC

\* Owners and callers are interchangeable.
Symmetry == Permutations(Owners) \cup Permutations(Callers)
=============================================================================
