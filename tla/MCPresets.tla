----------------------------- MODULE MCPresets -----------------------------
(* A document with two presets and an alias for the one that is not the     *)
(* default.                                                                 *)
EXTENDS Presets

MCAliases == [alias |-> "q"]

=============================================================================
