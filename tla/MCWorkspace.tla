---------------------------- MODULE MCWorkspace ----------------------------
(* Values of the constants of Workspace for TLC. *)
EXTENDS Workspace

TwoRoots == {"ws", "other"}
=============================================================================
