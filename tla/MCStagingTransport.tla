------------------------ MODULE MCStagingTransport ------------------------
(***************************************************************************)
(* TLC instances of StagingTransport.                                      *)
(***************************************************************************)
EXTENDS StagingTransport, TLC

Symmetry == Permutations(Callers) \cup Permutations(Keys) \cup Permutations(Attempts)
=============================================================================
