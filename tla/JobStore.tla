------------------------------- MODULE JobStore -------------------------------
(***************************************************************************)
(* The jobs table of the SQLite store (internal/store/store.go), reduced   *)
(* to what the rest of the daemon decides on: which rows exist and the     *)
(* status each one holds.  The operators are the statements of the store   *)
(* that write the table, as functions from one table to the next; a module *)
(* that uses them says which actor executes them, under which context, and *)
(* whether the statement may fail.  An SQL statement is atomic.            *)
(***************************************************************************)

\* No row with this id.
Absent == "absent"

Outcome == {"COMPLETED", "PARTIAL", "FAILED"}

Active == {"PENDING", "RUNNING"}

RowState == {Absent} \cup Active \cup Outcome

\* INSERT INTO jobs: SubmitJob always inserts a PENDING row under a fresh id.
Inserted(row, j) == [row EXCEPT ![j] = "PENDING"]

\* UPDATE jobs SET status = s WHERE id = j: without a row it changes nothing,
\* and reports no error.
WithStatus(row, j, s) ==
    [row EXCEPT ![j] = IF @ = Absent THEN Absent ELSE s]

\* DELETE FROM jobs WHERE id = j.
Without(row, j) == [row EXCEPT ![j] = Absent]

\* Faulty variant: only RUNNING rows are recovered at startup.
RecoveredRunningOnly(row) ==
    [j \in DOMAIN row |-> IF row[j] = "RUNNING" THEN "FAILED" ELSE row[j]]

\* Faulty variant: every row is recovered, also one that had its outcome.
RecoveredAll(row) ==
    [j \in DOMAIN row |-> IF row[j] # Absent THEN "FAILED" ELSE row[j]]

\* UPDATE jobs SET status = FAILED WHERE status IN (RUNNING, PENDING).
Recovered(row) ==
    [j \in DOMAIN row |-> IF row[j] \in Active THEN "FAILED" ELSE row[j]]

\* DELETE FROM jobs WHERE completed_at IS NOT NULL AND completed_at < cutoff:
\* completed_at is set with the outcome, so the candidates have one.
Purgeable(row) == {j \in DOMAIN row : row[j] \in Outcome}

Purged(row, old) == [j \in DOMAIN row |-> IF j \in old THEN Absent ELSE row[j]]
===============================================================================
