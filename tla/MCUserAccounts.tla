---------------------------- MODULE MCUserAccounts ----------------------------
(* Instances of UserAccounts for TLC.                                       *)
EXTENDS UserAccounts

CONSTANT g

\* The empty name, which the code accepts, and one of a single group, of which the
\* empty name is an ending.
TwoUsers == {<<>>, <<g>>}

\* Passwords, session ids and workers are interchangeable.
AccountSymmetry == Permutations(Workers) \cup Permutations(SessionIds)
                   \cup Permutations(Passwords)
=============================================================================
