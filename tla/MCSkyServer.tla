----------------------------- MODULE MCSkyServer -----------------------------
(* Instances of SkyServer for TLC.                                          *)
EXTENDS SkyServer, TLC

\* Where only safety is checked and no client is malformed, clients, workers and
\* descriptors are interchangeable.
ServerSymmetry == Permutations(Clients) \cup Permutations(Workers) \cup Permutations(Fds)
=============================================================================
