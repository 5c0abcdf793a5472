------------------------------ MODULE MCSends ------------------------------
(***************************************************************************)
(* Instance of Sends for TLC.  There is no symmetry: the run checks        *)
(* liveness as well.                                                       *)
(***************************************************************************)
EXTENDS Sends
=============================================================================
