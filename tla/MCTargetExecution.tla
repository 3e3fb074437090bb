------------------------- MODULE MCTargetExecution -------------------------
(***************************************************************************)
(* TLC instances of TargetExecution.                                       *)
(***************************************************************************)
EXTENDS TargetExecution, TLC

Symmetry == Permutations(Callers) \cup Permutations(Keys) \cup Permutations(Attempts)
=============================================================================
