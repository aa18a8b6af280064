------------------------------ MODULE MCSecrets ------------------------------
(***************************************************************************)
(* A small instance of Secrets for TLC.                                    *)
(***************************************************************************)
EXTENDS Secrets, TLC

CONSTANTS p1, p2, b1, b2, b3, j1, j2

Symmetry == Permutations(Procs) \cup Permutations(Blobs) \cup Permutations(JobIds)
==============================================================================
