------------------------ MODULE MCWorkflowCommands -------------------------
(***************************************************************************)
(* TLC instances of WorkflowCommands.                                      *)
(***************************************************************************)
EXTENDS WorkflowCommands, TLC

Symmetry == Permutations(Callers) \cup Permutations(Keys)
=============================================================================
