------------------------------- MODULE MCReaper ------------------------------
(* Instances of Reaper for TLC.                                              *)
EXTENDS Reaper, TLC

Symmetry == Permutations(Pids) \cup Permutations(Profiles)
=============================================================================
