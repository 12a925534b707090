---------------------------- MODULE MCTopOfBook ----------------------------
(***************************************************************************)
(* TopOfBook for TLC: the contracts are alike.                             *)
(***************************************************************************)
EXTENDS TopOfBook

AlikeContracts == Permutations(Contracts)
=============================================================================
