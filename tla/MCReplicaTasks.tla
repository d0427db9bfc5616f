---------------------------- MODULE MCReplicaTasks ----------------------------
EXTENDS ReplicaTasks, TLC

\* Nothing names a node.
Symmetry == Permutations(Nodes)
=============================================================================
