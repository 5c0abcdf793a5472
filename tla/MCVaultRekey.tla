---------------------------- MODULE MCVaultRekey ----------------------------
(***************************************************************************)
(* Instances of VaultRekey for TLC.  The users are interchangeable: the    *)
(* initial predicate chooses the creator.                                  *)
(***************************************************************************)
EXTENDS VaultRekey, TLC

Symmetry == Permutations(Users) \cup Permutations(Items)
=============================================================================
