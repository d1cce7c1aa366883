----------------------------- MODULE MCExchange -----------------------------
(* Model values for checking Exchange with TLC.                            *)
EXTENDS Exchange, TLC
=============================================================================
