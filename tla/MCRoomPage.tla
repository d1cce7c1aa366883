----------------------------- MODULE MCRoomPage -----------------------------
(* Checking RoomPage with TLC.                                             *)
EXTENDS RoomPage
=============================================================================
