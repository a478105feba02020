-------------------------------- MODULE CliRun ---------------------------------
(***************************************************************************)
(* "loadstar run" (cmd/loadstar/run.go): one invocation from its flags to  *)
(* its exit code, which a CI job takes for the answer.  It measures, keeps *)
(* a row of each run in a store that a daemon may serve meanwhile, judges  *)
(* the budget and reports.  Budget models the verdict.                     *)
(***************************************************************************)
EXTENDS Budget

CONSTANTS
    BudgetFile,  \* the budgets that a file may hold
    MaxFaults    \* bound on the store calls that fail and on the removed rows

ASSUME BudgetFileAssumption == BudgetFile \subseteq Budgets /\ BudgetFile # {}
\* tier.Valid lets a name through that stands for a tier at least.
ASSUME TierAssumption == IsFiniteSet(Tier) /\ Tier # {}

ASSUME FaultsAssumption == MaxFaults \in Nat

VARIABLES
    pc,           \* where runCmd stands
    flaws,        \* what is wrong with the flags
    withStore,    \* s # nil
    withBudget,   \* budg # nil
    tiersFailed,
    jobs,         \* the runs whose row is in the jobs table
    saved,        \* those with a row in the results table
    judged,       \* those whose row has a budget_result
    noted,        \* how many of cliJobIDs were told the verdict
    warned,       \* history: the runs for which a warning was logged
    removed,      \* history: the runs whose row was deleted through the API
    faults,       \* counts the failures and the removals
    exitCode      \* NoCode before the end

flagVars == <<flaws, withStore, withBudget>>
tableVars == <<jobs, saved, judged>>
noteVars == <<noted, warned, removed, faults>>
cliVars == <<vars, pc, flagVars, tiersFailed, tableVars, noteVars, exitCode>>

\* No exit code yet.
NoCode == -1

\* The runs so far; each has an id in cliJobIDs if there is a store.
Measured == DOMAIN runMetrics

CliTypeOK ==
    /\ TypeOK
    /\ pc \in {"invoked", "opening", "making", "measuring", "creating", "saving",
               "evaluating", "noting", "reporting", "exited"}
    /\ flaws \subseteq {"help", "unknown flag", "no url", "tier", "profile",
                        "refused url", "budget file", "runs"}
    /\ withStore \in BOOLEAN /\ withBudget \in BOOLEAN
    /\ tiersFailed \in Nat
    /\ saved \subseteq jobs /\ judged \subseteq jobs /\ jobs \subseteq Measured
    /\ noted \in 0 .. Len(runMetrics)
    /\ warned \subseteq Measured /\ removed \subseteq Measured
    /\ faults \in 0 .. MaxFaults
    /\ exitCode \in 0 .. 3 \cup {NoCode}

CliInit ==
    /\ Init
    /\ assertions \in BudgetFile
    /\ pc = "invoked"
    /\ flaws = {}
    /\ withStore \in BOOLEAN
    /\ withBudget \in BOOLEAN
    /\ ~withBudget => assertions = CHOOSE b \in BudgetFile : TRUE
    /\ tiersFailed = 0
    /\ jobs = {} /\ saved = {} /\ judged = {}
    /\ noted = 0 /\ warned = {} /\ removed = {} /\ faults = 0
    /\ exitCode = NoCode

Exit(code) == pc' = "exited" /\ exitCode' = code
Goto(place) == pc' = place /\ UNCHANGED exitCode

MayFail == faults < MaxFaults
Fault == faults' = faults + 1

-------------------------------------------------------------------------------
(* The flags                                                                 *)

\* The checks in their order, each with its exit code. The first two are of
\* fs.Parse, which stops at the first flag that it does not know or cannot read
\* and at -h.
Checks == <<[flaw |-> "help", code |-> 0], [flaw |-> "unknown flag", code |-> 2],
            [flaw |-> "no url", code |-> 1], [flaw |-> "tier", code |-> 2],
            [flaw |-> "profile", code |-> 2], [flaw |-> "refused url", code |-> 1],
            [flaw |-> "budget file", code |-> 2]>>

\* The code of the first check that fails.
CodeOf(F) ==
    LET failing == {n \in 1 .. Len(Checks) : Checks[n].flaw \in F}
        first == CHOOSE n \in failing : \A k \in failing : n <= k
    IN Checks[first].code

\* No check looks at the number of runs.
CheckFlags ==
    /\ pc = "invoked"
    /\ flaws' \in SUBSET ({Checks[n].flaw : n \in 1 .. Len(Checks)} \cup {"runs"})
    /\ ~({"help", "unknown flag"} \subseteq flaws')
    /\ IF flaws' \subseteq {"runs"}
       THEN Goto(IF withStore THEN "opening" ELSE "making")
       ELSE Exit(CodeOf(flaws'))
    /\ UNCHANGED <<vars, withStore, withBudget, tiersFailed, tableVars, noteVars>>

\* NewStore (Migrations), whose failure ends the invocation.
OpenStore ==
    /\ pc = "opening"
    /\ \/ Goto("making") /\ UNCHANGED faults
       \/ MayFail /\ Fault /\ Exit(1)
    /\ UNCHANGED <<vars, flagVars, tiersFailed, tableVars, noted, warned, removed>>

\* The list of the summaries has room for all the runs from the start: a negative
\* number of them panics.
MakeSummaries ==
    /\ pc = "making"
    /\ IF "runs" \in flaws THEN Exit(2) ELSE Goto("measuring")
    /\ UNCHANGED <<vars, flagVars, tiersFailed, tableVars, noteVars>>

-------------------------------------------------------------------------------
(* The runs                                                                  *)

\* The tiers that have a result in a run.
Collected(run) == {t \in Tier : Keys[t] \subseteq DOMAIN run}

\* One turn of the loop: a tier without a result has failed, and the network
\* tier has if the server answered with an error, which it timed all the same.
MeasureRun ==
    /\ pc = "measuring"
    /\ CollectRun
    /\ \E failed \in SUBSET Tier :
          LET got == Collected(runMetrics'[Len(runMetrics')])
          IN /\ Tier \ failed \subseteq got
             /\ got \cap failed \subseteq {"network"}
             /\ tiersFailed' = tiersFailed + Cardinality(failed)
    /\ Goto(IF withStore THEN "creating" ELSE "measuring")
    /\ UNCHANGED <<flagVars, tableVars, noteVars>>

\* Nothing recovers a panic of a collector: the process ends with Go's own code.
CollectorPanics ==
    /\ pc = "measuring" /\ runsLeft > 0
    /\ Exit(2)
    /\ UNCHANGED <<vars, flagVars, tiersFailed, tableVars, noteVars>>

\* CreateJob, for a job that is COMPLETED; a failure is a warning only.
CreateJob ==
    /\ pc = "creating"
    /\ \/ jobs' = jobs \cup {Len(runMetrics)} /\ UNCHANGED <<warned, faults>>
       \/ /\ MayFail /\ Fault
          /\ warned' = warned \cup {Len(runMetrics)}
          /\ UNCHANGED jobs
    /\ Goto("saving")
    /\ UNCHANGED <<vars, flagVars, tiersFailed, saved, judged, noted, removed>>

\* Faulty variant: a result that could not be saved is passed over.
SaveResultSilently ==
    /\ pc = "saving"
    /\ IF Len(runMetrics) \in jobs
       THEN saved' \in {saved, saved \cup {Len(runMetrics)}}
       ELSE UNCHANGED saved
    /\ Goto("measuring")
    /\ UNCHANGED <<vars, flagVars, tiersFailed, jobs, judged, noteVars>>

\* SaveResult, which the foreign key refuses without the row.
SaveResult ==
    /\ pc = "saving"
    /\ LET n == Len(runMetrics)
       IN \/ /\ n \in jobs
             /\ saved' = saved \cup {n}
             /\ UNCHANGED <<warned, faults>>
          \/ /\ n \notin jobs
             /\ warned' = warned \cup {n}
             /\ UNCHANGED <<saved, faults>>
          \/ /\ n \in jobs /\ MayFail /\ Fault
             /\ warned' = warned \cup {n}
             /\ UNCHANGED saved
    /\ Goto("measuring")
    /\ UNCHANGED <<vars, flagVars, tiersFailed, jobs, judged, noted, removed>>

\* A daemon on the same file serves DELETE: the row goes, with its results.
RemoveRow(n) ==
    /\ n \in jobs
    /\ MayFail /\ Fault
    /\ jobs' = jobs \ {n} /\ saved' = saved \ {n} /\ judged' = judged \ {n}
    /\ removed' = removed \cup {n}
    /\ UNCHANGED <<vars, pc, flagVars, tiersFailed, noted, warned, exitCode>>

-------------------------------------------------------------------------------
(* The verdict and the report                                                *)

\* evaluateBudget: Aggregate and Evaluate,
StartEvaluate ==
    /\ pc = "measuring"
    /\ withBudget
    /\ BeginEvaluate
    /\ Goto("evaluating")
    /\ UNCHANGED <<flagVars, tiersFailed, tableVars, noteVars>>

\* or nil without a budget.
SkipEvaluate ==
    /\ pc = "measuring" /\ runsLeft = 0
    /\ ~withBudget
    /\ Goto("reporting")
    /\ UNCHANGED <<vars, flagVars, tiersFailed, tableVars, noteVars>>

EvaluateAssertion(k) ==
    /\ pc = "evaluating"
    /\ VisitAssertion(k)
    /\ UNCHANGED <<pc, flagVars, tiersFailed, tableVars, noteVars, exitCode>>

FinishEvaluate ==
    /\ pc = "evaluating" /\ unvisited = {}
    /\ Goto(IF withStore THEN "noting" ELSE "reporting")
    /\ UNCHANGED <<vars, flagVars, tiersFailed, tableVars, noteVars>>

\* SetJobBudgetResult for the next of cliJobIDs; without its row it does nothing.
NoteVerdict ==
    /\ pc = "noting" /\ noted < Len(runMetrics)
    /\ noted' = noted + 1
    /\ \/ judged' = judged \cup ({noted'} \cap jobs) /\ UNCHANGED <<warned, faults>>
       \/ /\ MayFail /\ Fault
          /\ warned' = warned \cup {noted'}
          /\ UNCHANGED judged
    /\ UNCHANGED <<vars, pc, flagVars, tiersFailed, jobs, saved, removed, exitCode>>

FinishNoting ==
    /\ pc = "noting" /\ noted = Len(runMetrics)
    /\ Goto("reporting")
    /\ UNCHANGED <<vars, flagVars, tiersFailed, tableVars, noteVars>>

TiersAttempted == Cardinality(Tier) * Len(runMetrics)

AllFailed == TiersAttempted > 0 /\ tiersFailed = TiersAttempted

\* Faulty variant: the failures are looked at after the verdict.
CodeByVerdict ==
    IF withBudget /\ status = "fail" THEN 3 ELSE IF AllFailed THEN 1 ELSE 0

\* What the end of runCmd makes of it.
FinalCode ==
    IF AllFailed THEN 1
    ELSE IF withBudget /\ status = "fail" THEN 3 ELSE 0

\* A report that is seen to be unwritten ends the invocation at once; the text
\* report does not look.
Report ==
    /\ pc = "reporting"
    /\ \E code \in {1, FinalCode} : Exit(code)
    /\ UNCHANGED <<vars, flagVars, tiersFailed, tableVars, noteVars>>

CliNext ==
    \/ CheckFlags \/ OpenStore \/ MakeSummaries
    \/ MeasureRun \/ CollectorPanics \/ CreateJob \/ SaveResult
    \/ \E n \in Measured : RemoveRow(n)
    \/ StartEvaluate \/ SkipEvaluate \/ \E k \in Metric : EvaluateAssertion(k)
    \/ FinishEvaluate \/ NoteVerdict \/ FinishNoting \/ Report

CliSpec == CliInit /\ [][CliNext]_cliVars

-------------------------------------------------------------------------------
(* Properties                                                                *)

Exited == pc = "exited"

\* The metrics that a run failed to collect or collected above its bounds do
\* not get through a CI gate (README.md: "missing data cannot silently pass a CI
\* gate"): the invocation exits with 0 only if the medians of all its runs
\* respect every assertion that does not only warn, and with 3 only if they do
\* not; and a gate is not closed by the store, whatever becomes of its rows. An
\* invocation with -h, which asks for nothing, exits with 0.
GateHolds ==
    LET respected == \A k \in DOMAIN assertions :
                        assertions[k].level # "warn" => Respected(k)
    IN Exited /\ withBudget =>
         /\ exitCode = 0 => respected \/ "help" \in flaws
         /\ exitCode = 3 => ~respected

NothingDone == Measured = {} /\ jobs = {}

\* The table of exit codes (README.md). Unless -h was given, 0 and 3 say that the
\* flags were right, that all the runs were made and that one attempt succeeded,
\* if any was asked for. 2 says that a flag was wrong and nothing was measured or
\* stored, or that a collector panicked: then the runs that it was to make are
\* not all made, and none that was stored has a verdict.
ExitTellsOutcome ==
    Exited =>
         /\ exitCode \in {0, 3} =>
              \/ exitCode = 0 /\ "help" \in flaws /\ NothingDone
              \/ /\ flaws = {} /\ runsLeft = 0
                 /\ Measured # {} => tiersFailed < Cardinality(Tier) * Len(runMetrics)
         /\ exitCode = 2 =>
              \/ /\ flaws \cap {"unknown flag", "tier", "profile", "budget file", "runs"} # {}
                 /\ NothingDone
              \/ flaws = {} /\ runsLeft > 0 /\ judged = {}

\* "Silence would let a bad -db path masquerade as saved data" (run.go): at the
\* end each run has its row, its result and its verdict in the store, or a
\* warning said that it lacks one, or somebody has deleted it. Only a panic, which
\* the code 2 tells of, leaves runs without the verdict that was still to come.
StoredOrWarned ==
    Exited /\ withStore =>
        \A n \in Measured \ (warned \cup removed) :
            n \in saved /\ (withBudget /\ exitCode # 2 => n \in judged)
===============================================================================
