--------------------------- MODULE MCValidationRun ---------------------------
(***************************************************************************)
(* TLC instances of ValidationRun.                                         *)
(***************************************************************************)
EXTENDS ValidationRun, TLC

Symmetry == Permutations(Callers) \cup Permutations(Keys) \cup Permutations(Runs)
=============================================================================
