-------------------------- MODULE MCRemoteSession --------------------------
EXTENDS RemoteSession, TLC

Symm == Permutations(Chats) \cup Permutations(Convs)
=============================================================================
