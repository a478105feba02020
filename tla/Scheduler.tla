------------------------------- MODULE Scheduler -------------------------------
(***************************************************************************)
(* The scheduler (internal/job/scheduler.go): one goroutine that reads the *)
(* due schedules at every tick and goes through them, with the requests    *)
(* that create, toggle and delete schedules meanwhile                      *)
(* (internal/api/schedules.go), the ends of the jobs it has submitted, and *)
(* stops, crashes and restarts.  What SubmitJob and the workers do with a  *)
(* job is in JobManager; here a job is a row that is active or not.        *)
(*                                                                         *)
(* Time is the passing of next_run_at, one event per schedule; overdue are *)
(* the schedules it has passed for, and before orders them by it.  A tick  *)
(* takes less than an interval, which is a minute at least.                *)
(***************************************************************************)
EXTENDS Naturals, Sequences, FiniteSets

CONSTANTS
    Schedule,
    BatchSize,  \* schedulerBatchSize
    Failing,    \* the calls that may fail
    MaxFaults   \* bound: failed calls, stops and crashes in a behaviour

ASSUME ScheduleAssumption == IsFiniteSet(Schedule)

ASSUME SchedulerLimits ==
    /\ BatchSize \in Nat \ {0}
    /\ MaxFaults \in Nat
    /\ Failing \subseteq {"due", "count", "submit", "mark", "recover"}

VARIABLES
    table,     \* schedules.enabled: "on", "off", or no row ("none", "gone")
    overdue,   \* the schedules whose next_run_at has passed
    before,    \* the pairs of them, the one with the earlier next_run_at first
    active,    \* the PENDING and RUNNING rows of each schedule
    stuck,     \* schedules with such a row that no worker will move on
    todo,      \* what is left of the due schedules of this tick
    step,      \* what the loop does next with the first of them
    ctxLive,   \* m.ctx
    elapsed,   \* history: next_run_at has passed since the last job
    unmarked,  \* history: the last visit could not be marked
    faults     \* history: the faults so far

dueVars == <<overdue, before>>
tableVars == <<table, dueVars>>
jobVars == <<active, stuck>>
loopVars == <<todo, step>>
vars == <<tableVars, jobVars, loopVars, ctxLive, elapsed, unmarked, faults>>

TypeOK ==
    /\ table \in [Schedule -> {"none", "on", "off", "gone"}]
    /\ overdue \in SUBSET Schedule
    /\ before \in SUBSET (overdue \X overdue)
    /\ active \in [Schedule -> Nat]
    /\ stuck \in SUBSET Schedule
    /\ todo \in Seq(Schedule) /\ Len(todo) <= BatchSize
    /\ \A m, n \in DOMAIN todo : todo[m] = todo[n] => m = n
    /\ step \in {"tick", "count", "submit", "mark", "exited"}
    /\ ctxLive \in BOOLEAN
    /\ elapsed \in SUBSET Schedule
    /\ unmarked \in SUBSET Schedule
    /\ faults \in 0 .. MaxFaults

Init ==
    /\ table = [s \in Schedule |-> "none"]
    /\ overdue = {} /\ before = {}
    /\ active = [s \in Schedule |-> 0]
    /\ stuck = {}
    /\ todo = <<>>
    /\ step = "tick"
    /\ ctxLive = TRUE
    /\ elapsed = {}
    /\ unmarked = {}
    /\ faults = 0

Fault == faults < MaxFaults /\ faults' = faults + 1

CallWorks == ctxLive /\ UNCHANGED faults

\* A call under m.ctx fails once it is cancelled, or by a fault of the store.
CallFails(what) == \/ ~ctxLive /\ UNCHANGED faults
                   \/ ctxLive /\ what \in Failing /\ Fault

\* next_run_at of s passes, later than that of the others.
AddOverdue(s) ==
    /\ overdue' = overdue \cup {s}
    /\ before' = before \cup (overdue \X {s})

\* Its row goes, or next_run_at moves on.
DropOverdue(s) ==
    /\ overdue' = overdue \ {s}
    /\ before' = {p \in before : s \notin {p[1], p[2]}}

-------------------------------------------------------------------------------
(* Requests and the clock                                                    *)

\* handleCreateSchedule: "First run fires on the next scheduler tick".
CreateSchedule(s) ==
    /\ table[s] = "none"
    /\ table' = [table EXCEPT ![s] = "on"]
    /\ AddOverdue(s)
    /\ elapsed' = elapsed \cup {s}
    /\ UNCHANGED <<jobVars, loopVars, ctxLive, unmarked, faults>>

\* handleUpdateSchedule: the UPDATE leaves next_run_at alone, and it changes
\* nothing when the row went after the handler looked.
SetScheduleEnabled(s) ==
    /\ table[s] \in {"on", "off"}
    /\ table' = [table EXCEPT ![s] = IF @ = "on" THEN "off" ELSE "on"]
    /\ UNCHANGED <<dueVars, jobVars, loopVars, ctxLive, elapsed, unmarked, faults>>

\* handleDeleteSchedule: its jobs stay.
DeleteSchedule(s) ==
    /\ table[s] \in {"on", "off"}
    /\ table' = [table EXCEPT ![s] = "gone"]
    /\ DropOverdue(s)
    /\ UNCHANGED <<jobVars, loopVars, ctxLive, elapsed, unmarked, faults>>

Requests ==
    \E s \in Schedule : CreateSchedule(s) \/ SetScheduleEnabled(s) \/ DeleteSchedule(s)

\* next_run_at passes.
BecomeDue(s) ==
    /\ table[s] \in {"on", "off"}
    /\ s \notin overdue
    /\ AddOverdue(s)
    /\ elapsed' = elapsed \cup {s}
    /\ UNCHANGED <<table, jobVars, loopVars, ctxLive, unmarked, faults>>

-------------------------------------------------------------------------------
(* Jobs                                                                      *)

\* A job of the schedule gets its outcome, or is deleted.
FinishJob(s) ==
    /\ active[s] > (IF s \in stuck THEN 1 ELSE 0)
    /\ active' = [active EXCEPT ![s] = @ - 1]
    /\ UNCHANGED <<tableVars, stuck, loopVars, ctxLive, elapsed, unmarked, faults>>

\* Its last UPDATE fails: the row stays active until the next start.
LoseOutcome(s) ==
    /\ active[s] > 0
    /\ s \notin stuck
    /\ Fault
    /\ stuck' = stuck \cup {s}
    /\ UNCHANGED <<tableVars, active, loopVars, ctxLive, elapsed, unmarked>>

-------------------------------------------------------------------------------
(* The loop                                                                  *)

\* WHERE enabled = 1 AND next_run_at <= ?
Due == {s \in overdue : table[s] = "on"}

\* How many of the due schedules come before s.
Rank(s) == Cardinality({t \in Due : <<t, s>> \in before})

\* Faulty variant: the schedule that became due last comes first.
DueNewestFirst ==
    [n \in {k \in 1 .. Cardinality(Due) : k <= BatchSize} |->
        CHOOSE s \in Due : Rank(s) = Cardinality(Due) - n]

\* Faulty variant: no LIMIT.
DueUnlimited ==
    [n \in 1 .. Cardinality(Due) |-> CHOOSE s \in Due : Rank(s) = n - 1]

\* GetDueSchedules: ORDER BY next_run_at ASC LIMIT BatchSize
DueSchedules ==
    [n \in {k \in 1 .. Cardinality(Due) : k <= BatchSize} |->
        CHOOSE s \in Due : Rank(s) = n - 1]

\* The ticker: runDueSchedules reads what is due now.
Tick ==
    /\ step = "tick"
    /\ \/ /\ CallWorks
          /\ todo' = DueSchedules
          /\ step' = IF DueSchedules = <<>> THEN "tick" ELSE "count"
       \/ CallFails("due") /\ UNCHANGED loopVars
    /\ UNCHANGED <<tableVars, jobVars, ctxLive, elapsed, unmarked>>

\* The next turn of the loop.
NextSchedule ==
    /\ todo' = Tail(todo)
    /\ step' = IF Len(todo) = 1 THEN "tick" ELSE "count"

\* Faulty variant: jobs that wait in the queue are not counted.
BusyWhenStuck(s) == s \in stuck

\* CountActiveJobsForSchedule > 0
Busy(s) == active[s] > 0

\* "Don't pile a new job onto a schedule whose previous job is still queued or
\* running"; when the count fails, the loop goes on with the next schedule.
Count ==
    /\ step = "count"
    /\ \/ /\ CallWorks
          /\ step' = IF Busy(Head(todo)) THEN "mark" ELSE "submit"
          /\ UNCHANGED todo
       \/ CallFails("count") /\ NextSchedule
    /\ UNCHANGED <<tableVars, jobVars, ctxLive, elapsed, unmarked>>

\* SubmitJob, for the schedule as the tick has read it: toggled or deleted
\* meanwhile, it is submitted all the same.  A submission that fails leaves no
\* row, or, when the store fails or m.ctx is cancelled in its middle, one that
\* could not be removed.
Submit ==
    LET s == Head(todo) IN
    /\ step = "submit"
    /\ \/ /\ CallWorks
          /\ active' = [active EXCEPT ![s] = @ + 1]
          /\ elapsed' = elapsed \ {s}
          /\ UNCHANGED stuck
       \/ UNCHANGED <<faults, jobVars, elapsed>>
       \/ /\ CallFails("submit")
          /\ active' = [active EXCEPT ![s] = @ + 1]
          /\ stuck' = stuck \cup {s}
          /\ UNCHANGED elapsed
    /\ step' = "mark"
    /\ UNCHANGED <<tableVars, todo, ctxLive, unmarked>>

\* Faulty variant: only the schedule of an idle target is advanced.
AdvancedIfIdle(s) == IF Busy(s) THEN UNCHANGED dueVars ELSE DropOverdue(s)

\* next_run_at = now + interval
Advanced(s) == DropOverdue(s)

\* MarkScheduleRun, whose error is only logged.
Mark ==
    LET s == Head(todo) IN
    /\ step = "mark"
    /\ \/ CallWorks /\ Advanced(s) /\ unmarked' = unmarked \ {s}
       \/ CallFails("mark") /\ UNCHANGED dueVars /\ unmarked' = unmarked \cup {s}
    /\ NextSchedule
    /\ UNCHANGED <<table, jobVars, ctxLive, elapsed>>

Exit ==
    /\ step = "tick"
    /\ ~ctxLive
    /\ step' = "exited"
    /\ UNCHANGED <<tableVars, jobVars, todo, ctxLive, elapsed, unmarked, faults>>

Loop == Tick \/ Count \/ Submit \/ Mark \/ Exit

-------------------------------------------------------------------------------
(* The process                                                               *)

\* Stop
CancelContext ==
    /\ ctxLive
    /\ Fault
    /\ ctxLive' = FALSE
    /\ UNCHANGED <<tableVars, jobVars, loopVars, elapsed, unmarked>>

\* RecoverInterruptedJobs
NoneActive == [s \in Schedule |-> 0]

\* The next process: serve recovers the rows before it starts the scheduler, and
\* goes on if that fails.  A schedule between its job and its mark is due again.
StartProcess ==
    /\ \/ active' = NoneActive /\ stuck' = {}
       \/ /\ "recover" \in Failing
          /\ stuck' = {s \in Schedule : active[s] > 0}
          /\ UNCHANGED active
    /\ todo' = <<>>
    /\ step' = "tick"
    /\ ctxLive' = TRUE
    /\ unmarked' = IF step = "mark" THEN unmarked \cup {Head(todo)} ELSE unmarked
    /\ UNCHANGED <<tableVars, elapsed>>

Crash == Fault /\ StartProcess

Reboot == step = "exited" /\ UNCHANGED faults /\ StartProcess

Next ==
    \/ Requests
    \/ \E s \in Schedule : BecomeDue(s) \/ FinishJob(s) \/ LoseOutcome(s)
    \/ Loop
    \/ CancelContext \/ Crash \/ Reboot

Spec == Init /\ [][Next]_vars

\* The ticker ticks, the calls of the loop return, and a stopped daemon is
\* started again.  No job has to end, and no fault is due.
Fairness ==
    /\ WF_vars(Tick /\ UNCHANGED faults)
    /\ WF_vars(Count) /\ WF_vars(Submit) /\ WF_vars(Mark)
    /\ WF_vars(Exit) /\ WF_vars(Reboot)

FairSpec == Spec /\ Fairness

-------------------------------------------------------------------------------
(* Properties                                                                *)

\* "If the previous scheduled job is still running when the next interval
\* arrives, that interval is skipped (no pileup)" (README.md): the count and
\* the insertion are two calls, and still a schedule has one active row at most.
NoPileup == \A s \in Schedule : active[s] <= 1

\* "A schedule can never hot-loop on every tick": between two jobs of a schedule
\* an interval passes, unless the tick of the first could not be marked.
JobsAreSpaced ==
    [][\A s \in Schedule :
          active'[s] > active[s] => s \in elapsed \/ s \in unmarked]_vars

\* Due schedules are served, however many wait for a small batch: the interval
\* is used, by a job or by skipping it, while the schedule is on.
DueIsServed ==
    \A s \in Schedule : s \in overdue /\ table[s] = "on"
                        ~> s \notin overdue \/ table[s] # "on"
===============================================================================
