---------------------------- MODULE MCTwoFactor ----------------------------
(***************************************************************************)
(* Instance of TwoFactor for TLC.  The request slots are alike.            *)
(***************************************************************************)
EXTENDS TwoFactor, TLC

RequestSymmetry == Permutations(Requests)
=============================================================================
