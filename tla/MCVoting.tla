------------------------------ MODULE MCVoting ------------------------------
(* Model values for checking Voting with TLC.                              *)
EXTENDS Voting, TLC
=============================================================================
