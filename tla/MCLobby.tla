------------------------------ MODULE MCLobby -------------------------------
(* Checking Lobby with TLC: the constants are given in the cfg.             *)
EXTENDS Lobby
=============================================================================
