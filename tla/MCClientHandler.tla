-------------------------- MODULE MCClientHandler --------------------------
(* Instances of ClientHandler for TLC.                                     *)
EXTENDS ClientHandler, TLC

Symmetry == Permutations(Session) \cup Permutations(User)
=============================================================================
