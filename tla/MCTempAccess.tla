---------------------------- MODULE MCTempAccess ----------------------------
(***************************************************************************)
(* Instance of TempAccess for TLC.  There is no symmetry: the run checks   *)
(* liveness as well.                                                       *)
(***************************************************************************)
EXTENDS TempAccess
=============================================================================
