------------------------------- MODULE MCPage -------------------------------
(* A small instance of Page: two networks, one shown with an example.       *)
EXTENDS Page

CONSTANTS signet, bitcoin, x

MCDemo(n) == IF n = signet THEN {x} ELSE {}
=============================================================================
