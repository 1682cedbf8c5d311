---------------------------- MODULE MCLogRotation ----------------------------
(* Instances of LogRotation for TLC: the configuration gives every constant. *)
EXTENDS LogRotation
=============================================================================
