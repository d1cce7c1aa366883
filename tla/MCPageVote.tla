----------------------------- MODULE MCPageVote -----------------------------
(* Checking PageVote with TLC.                                             *)
EXTENDS PageVote
=============================================================================
