-------------------------- MODULE MCMigrationJobs --------------------------
(***************************************************************************)
(* TLC instances of MigrationJobs.                                         *)
(***************************************************************************)
EXTENDS MigrationJobs, TLC

Symmetry == Permutations(Workers) \cup Permutations(Jobs)
=============================================================================
