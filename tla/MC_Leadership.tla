--------------------------- MODULE MC_Leadership ----------------------------
(* The election among two replicas.                                         *)
EXTENDS LeaderElection, TLC

\* The replicas run the same code with the same settings.
Symmetry == Permutations(Proc)
=============================================================================
