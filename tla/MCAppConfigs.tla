----------------------------- MODULE MCAppConfigs -----------------------------
(* Instances of AppConfigs for TLC.                                          *)
EXTENDS AppConfigs, TLC

Symmetry == Permutations(Texts)
=============================================================================
