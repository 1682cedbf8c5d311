------------------------------ MODULE MCTeardown ------------------------------
(* Instances of Teardown, and of the ThreadPool it extends, for TLC.        *)
EXTENDS Teardown
=============================================================================
