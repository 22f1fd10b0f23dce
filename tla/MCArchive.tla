------------------------------ MODULE MCArchive ------------------------------
(***************************************************************************)
(* Archive for TLC: runs are interchangeable.                              *)
(***************************************************************************)
EXTENDS Archive, TLC

RunSymmetry == Permutations(Runs)
=============================================================================
