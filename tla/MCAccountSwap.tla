---------------------------- MODULE MCAccountSwap ---------------------------
(* Instances of AccountSwap for TLC: invocations, labels and accounts are    *)
(* interchangeable.                                                          *)
EXTENDS AccountSwap, TLC

Symmetry == Permutations(Procs) \cup Permutations(Labels) \cup Permutations(Accounts)

(* A constraint: nothing is said of the states after an account slip, so     *)
(* they are not explored.                                                    *)
BeforeAccountSlip == "account" \notin slips
=============================================================================
