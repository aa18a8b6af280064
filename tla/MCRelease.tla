------------------------------ MODULE MCRelease ------------------------------
(***************************************************************************)
(* A small instance of Release for TLC: of the documents, one that is      *)
(* written before artifact.sig and the two copied after it.                *)
(***************************************************************************)
EXTENDS Release, TLC

CONSTANTS p1, p2, k1, k2, a1

MCEarly == <<"sbom.json">>
MCLate  == <<"openapi.json", "hbse.proto">>
MCDocOrder == <<"sbom.json", "openapi.json", "hbse.proto">>

Symmetry == Permutations(Procs) \cup Permutations(Keys)
===============================================================================
