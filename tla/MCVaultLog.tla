------------------------------ MODULE MCVaultLog ------------------------------
(***************************************************************************)
(* A small instance of VaultLog for TLC.                                   *)
(***************************************************************************)
EXTENDS VaultLog, TLC

CONSTANTS p1, p2, r1, r2, r3, w1, w2

Symmetry == Permutations(Procs) \cup Permutations(Passphrases)
            \cup Permutations(Roots \ {Foreign})
===============================================================================
