---------------------------- MODULE MCMountBridge ----------------------------
(* Instances of MountBridge for TLC. *)
EXTENDS MountBridge
=============================================================================
