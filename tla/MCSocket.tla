------------------------------ MODULE MCSocket ------------------------------
(* Model values and bounds for checking Socket.                            *)
EXTENDS Socket, TLC
=============================================================================
