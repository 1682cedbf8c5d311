----------------------------- MODULE MCDriveFiles -----------------------------
(* Instances of DriveFiles for TLC.                                         *)
EXTENDS DriveFiles, TLC

\* Workers and what is written are interchangeable.
FileSymmetry == Permutations(Workers) \cup Permutations(Data)
=============================================================================
