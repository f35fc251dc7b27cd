---------------------------- MODULE MCRaftClient ----------------------------
EXTENDS RaftClient, TLC

Symmetry == Permutations(Peers) \cup Permutations(Clients)
=============================================================================
