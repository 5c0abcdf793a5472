---------------------------- MODULE MCItemAccess ----------------------------
(***************************************************************************)
(* Instance of ItemAccess for TLC: an editor-level crowd under one manager.*)
(***************************************************************************)
EXTENDS ItemAccess
=============================================================================
