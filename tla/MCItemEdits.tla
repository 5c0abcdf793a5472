---------------------------- MODULE MCItemEdits ----------------------------
(***************************************************************************)
(* Instance of ItemEdits for TLC.  The tabs are alike.                     *)
(***************************************************************************)
EXTENDS ItemEdits, TLC

TabSymmetry == Permutations(Tabs)
=============================================================================
