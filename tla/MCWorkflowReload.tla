-------------------------- MODULE MCWorkflowReload --------------------------
(* Values of the constants of WorkflowReload for TLC: contents that can be  *)
(* used, and a file that is gone, cut short or refused.                     *)
EXTENDS WorkflowReload

Usable == {"first", "second"}
Unusable == {"absent", "invalid"}
=============================================================================
