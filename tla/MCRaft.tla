------------------------------- MODULE MCRaft -------------------------------
EXTENDS RaftElection, TLC

Symmetry == Permutations(Peers) \cup Permutations(Slots)
=============================================================================
