------------------------------- MODULE MCBackup -------------------------------
(***************************************************************************)
(* A small instance of Backup for TLC.                                     *)
(***************************************************************************)
EXTENDS Backup, TLC

CONSTANTS p1, p2

Symmetry == Permutations(Procs)
===============================================================================
