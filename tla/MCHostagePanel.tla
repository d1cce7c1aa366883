--------------------------- MODULE MCHostagePanel ---------------------------
(* Checking HostagePanel with TLC.  Two of the three others start here.     *)
EXTENDS HostagePanel

CONSTANTS a, b, c

MCOthers == {a, b, c}
MCHome   == {a, b}
=============================================================================
