---------------------------- MODULE MCMuxWindows ----------------------------
EXTENDS MuxWindows, TLC

Symm == Permutations(Windows) \cup Permutations(Tabs) \cup Permutations(Panes)
=============================================================================
