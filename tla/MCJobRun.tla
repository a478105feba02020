------------------------------- MODULE MCJobRun -------------------------------
(* Instances of JobRun for TLC. *)
EXTENDS JobRun

CONSTANTS network, vitals
===============================================================================
