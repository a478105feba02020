------------------------------ MODULE MCScheduler ------------------------------
(* Three schedules for TLC, one more than a tick takes. *)
EXTENDS Scheduler

CONSTANTS s1, s2, s3

Three == {s1, s2, s3}
===============================================================================
