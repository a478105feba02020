-------------------------------- MODULE MCVitals --------------------------------
(* Instances of Vitals for TLC. *)
EXTENDS Vitals

Scores == {1, 2}
Durations == {2, 3}
===============================================================================
