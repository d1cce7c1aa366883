---------------------------- MODULE MCRoundTimer ----------------------------
(* Checking RoundTimer with TLC.                                           *)
EXTENDS RoundTimer
=============================================================================
