---------------------------- MODULE MCJobManager ----------------------------
(* Instances of JobManager for TLC: the scheduler submits one of the jobs. *)
EXTENDS JobManager

CONSTANTS j1, j2, j3, w1, w2, h1

MCJobs2 == {j1, j2}
MCJobs3 == {j1, j2, j3}
MCScheduled == {j1}
=============================================================================
