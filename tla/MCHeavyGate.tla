----------------------------- MODULE MCHeavyGate ----------------------------
(* Instances of HeavyGate for TLC: processes and scopes are interchangeable. *)
EXTENDS HeavyGate, TLC

Symmetry == Permutations(Procs) \cup Permutations(Scopes)
=============================================================================
