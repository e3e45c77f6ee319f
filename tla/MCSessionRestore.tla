-------------------------- MODULE MCSessionRestore --------------------------
(* An instance of SessionRestore for TLC. *)
EXTENDS SessionRestore, TLC

Names == Permutations(Dirs) \cup Permutations(Windows)
=============================================================================
