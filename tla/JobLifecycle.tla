----------------------------- MODULE JobLifecycle -----------------------------
(***************************************************************************)
(* What the daemon promises a client about the life of a job, whatever its *)
(* goroutines do: a job id is used once, a stored job goes forward from    *)
(* PENDING through RUNNING to one outcome, an outcome is final, and what   *)
(* is removed does not come back.  A restart of the daemon fails every job *)
(* that has no outcome yet, all in one step.                               *)
(***************************************************************************)
CONSTANT Job

VARIABLE status

Outcome == {"COMPLETED", "PARTIAL", "FAILED"}
Unfinished == {"PENDING", "RUNNING"}
Stored == Unfinished \cup Outcome
Status == {"none", "removed"} \cup Stored

Init == status = [j \in Job |-> "none"]

Move(j, from, to) ==
    /\ status[j] \in from
    /\ status' = [status EXCEPT ![j] = to]

Submit(j) == Move(j, {"none"}, "PENDING")
Refuse(j) == Move(j, {"none"}, "removed")
Start(j) == Move(j, {"PENDING"}, "RUNNING")
Finish(j) == \E s \in Outcome : Move(j, {"RUNNING"}, s)
Remove(j) == Move(j, Stored, "removed")

\* Finished jobs past their retention are removed together.
Expire ==
    \E old \in SUBSET {j \in Job : status[j] \in Outcome} :
        status' = [j \in Job |-> IF j \in old THEN "removed" ELSE status[j]]

Interrupt ==
    status' = [j \in Job |-> IF status[j] \in Unfinished THEN "FAILED"
                                                         ELSE status[j]]

Next ==
    \/ \E j \in Job : Submit(j) \/ Refuse(j) \/ Start(j) \/ Finish(j) \/ Remove(j)
    \/ Expire
    \/ Interrupt

Spec == Init /\ [][Next]_status
===============================================================================
