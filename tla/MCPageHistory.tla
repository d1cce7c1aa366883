--------------------------- MODULE MCPageHistory ---------------------------
(* Checking PageHistory with TLC.                                          *)
EXTENDS PageHistory
=============================================================================
