----------------------------- MODULE MCMigrations ------------------------------
(* Three processes that start together, on a file of any earlier release. *)
EXTENDS Migrations

CONSTANTS p1, p2, p3

Three == {p1, p2, p3}
===============================================================================
