------------------------------- MODULE MCBrowser -------------------------------
(* Instances of Browser for TLC. *)
EXTENDS Browser

CONSTANTS w1, w2

Two == {w1, w2}
===============================================================================
