------------------------------- MODULE MCResume ------------------------------
(* Instances of Resume for TLC. *)
EXTENDS Resume

CONSTANTS u1, s1

OneUnit == [s \in Sessions |-> u1]
=============================================================================
