---------------------------- MODULE MCWorkspace ----------------------------
(* The core on small sets of model values. *)
EXTENDS Workspace
=============================================================================
