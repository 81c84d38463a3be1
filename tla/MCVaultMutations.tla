-------------------------- MODULE MCVaultMutations --------------------------
\* Small instances of VaultMutations.
EXTENDS VaultMutations, TLC

CONSTANTS f1, f2, c1, c2, w1, w2, t1, t2

MCRank == f1 :> 1 @@ f2 :> 2
MCInitial == f1 :> c1 @@ f2 :> Absent
Symmetry == Permutations(Workers) \cup Permutations(Tasks)
=============================================================================
