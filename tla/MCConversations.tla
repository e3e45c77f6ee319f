-------------------------- MODULE MCConversations --------------------------
EXTENDS Conversations

Symm == Permutations(Ids) \cup Permutations(Overlays) \cup Permutations(Clis)
=============================================================================
