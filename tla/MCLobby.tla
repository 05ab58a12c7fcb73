------------------------------ MODULE MCLobby ------------------------------
(***************************************************************************)
(* Lobby for TLC: the descriptors of connections are interchangeable.      *)
(***************************************************************************)
EXTENDS Lobby, TLC

Symmetry == Permutations(Sockets)
=============================================================================
