--------------------------- MODULE MCAttachments ---------------------------
(***************************************************************************)
(* Instances of Attachments for TLC.  There is no symmetry: one of the     *)
(* uploads is deleted again, and one of the runs checks liveness.          *)
(***************************************************************************)
EXTENDS Attachments
=============================================================================
