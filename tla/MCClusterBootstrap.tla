------------------------- MODULE MCClusterBootstrap -------------------------
EXTENDS ClusterBootstrap, TLC

Symmetric == Permutations(Site)
=============================================================================
