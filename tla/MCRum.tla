--------------------------------- MODULE MCRum ---------------------------------
(* Instances of Rum for TLC. *)
EXTENDS Rum

CONSTANTS r1, r2

Two == {r1, r2}
===============================================================================
