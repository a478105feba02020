-------------------------------- MODULE JobRun --------------------------------
(***************************************************************************)
(* One job in the hands of one worker: processJob and sendWebhook          *)
(* (internal/job/manager.go), with the requests that read or delete the    *)
(* job meanwhile (internal/api/server.go), a graceful stop, and a crash    *)
(* with the recovery of the next process.  JobManager shows how the worker *)
(* got the job; here its row exists and the worker has claimed it.         *)
(*                                                                         *)
(* Every store call is a step.  The tiers of a run are collected in one    *)
(* step that picks the tiers which fail: they have no effect on one        *)
(* another and nothing outside sees a run that is half collected.          *)
(***************************************************************************)
EXTENDS Naturals, FiniteSets, JobStore

CONSTANTS
    Tier,          \* the tiers of the job (hasTier), never none
    Runs,          \* job.Runs
    HasBudget,     \* job.Budget != nil
    HasWebhook,    \* job.WebhookURL != ""
    StoreMayFail   \* a store call may fail under a live context

\* validateTiers refuses unknown names, and no name at all means "network".
ASSUME TierAssumption == Tier # {} /\ IsFiniteSet(Tier)

\* testSpec.validate puts the number of runs in 1..maxRuns.
ASSUME RunsAssumption == Runs \in Nat \ {0}

ASSUME FlagAssumption ==
    /\ HasBudget \in BOOLEAN
    /\ HasWebhook \in BOOLEAN
    /\ StoreMayFail \in BOOLEAN

VARIABLES
    row,         \* jobs.status
    verdict,     \* jobs.budget_result IS NOT NULL
    results,     \* the run indexes in the results table
    deliveries,  \* the payloads in webhook_deliveries
    pc,          \* where the worker stands
    i,           \* the loop variable of processJob
    cleanRuns, failedRuns, failedTiers,
    decided,     \* the result of deriveStatus
    payload,     \* what sendWebhook has read so far
    ctxLive,     \* m.ctx
    reader,      \* GET /jobs/{id}: the job it has read
    response,    \* and what it answered last
    deleter,     \* DELETE /jobs/{id}
    failedIn,    \* history: the tiers that failed in each run
    unsaved,     \* history: the runs whose result was not stored
    lost         \* history: the other calls that failed

runVars == <<i, cleanRuns, failedRuns, failedTiers, decided, failedIn, unsaved>>
tableVars == <<row, verdict, results, deliveries>>
requestVars == <<reader, response, deleter>>
vars == <<row, verdict, results, deliveries, pc, i, cleanRuns, failedRuns,
          failedTiers, decided, payload, ctxLive, reader, response, deleter,
          failedIn, unsaved, lost>>

Run == 1 .. Runs

None == "none"

Payload == [status : RowState, verdict : BOOLEAN, results : SUBSET Run]

WorkerState == {"starting", "collecting", "saving", "deciding", "judging",
                "reading", "listing", "enqueueing", "panicked", "done", "dead"}

Losable == {"status", "verdict", "results", "notice"}

TypeOK ==
    /\ row \in RowState
    /\ verdict \in BOOLEAN
    /\ results \in SUBSET Run
    /\ deliveries \in SUBSET Payload
    /\ pc \in WorkerState
    /\ i \in 1 .. Runs + 1
    /\ cleanRuns \in 0 .. Runs
    /\ failedRuns \in 0 .. Runs
    /\ failedTiers \in SUBSET Tier
    /\ decided \in Outcome \cup {None}
    /\ payload \in Payload
    /\ ctxLive \in BOOLEAN
    /\ reader \in RowState \cup {None}
    /\ response \in [status : RowState \cup {None}, results : SUBSET Run, read : BOOLEAN]
    /\ deleter \in {"idle", "deliveries", "row"}
    /\ failedIn \in [Run -> SUBSET Tier]
    /\ unsaved \in SUBSET Run
    /\ lost \in SUBSET Losable

NoPayload == [status |-> Absent, verdict |-> FALSE, results |-> {}]

Init ==
    /\ row = "PENDING"
    /\ verdict = FALSE
    /\ results = {}
    /\ deliveries = {}
    /\ pc = "starting"
    /\ i = 1
    /\ cleanRuns = 0
    /\ failedRuns = 0
    /\ failedTiers = {}
    /\ decided = None
    /\ payload = NoPayload
    /\ ctxLive = TRUE
    /\ reader = None
    /\ response = [status |-> None, results |-> {}, read |-> FALSE]
    /\ deleter = "idle"
    /\ failedIn = [r \in Run |-> {}]
    /\ unsaved = {}
    /\ lost = {}

-------------------------------------------------------------------------------
(* The worker                                                                *)

CallWorks == ctxLive
CallFails == ~ctxLive \/ StoreMayFail

Lose(what) == lost' = lost \cup {what}

\* UPDATE jobs SET status: without a row it changes nothing.
Written(s) == IF row = Absent THEN Absent ELSE s

\* UpdateJobStatus(RUNNING); without it processJob returns.
StartJob ==
    /\ pc = "starting"
    /\ \/ /\ CallWorks
          /\ row' = Written("RUNNING")
          /\ pc' = "collecting"
          /\ UNCHANGED lost
       \/ /\ CallFails
          /\ pc' = "done"
          /\ Lose("status")
          /\ UNCHANGED row
    /\ UNCHANGED <<verdict, results, deliveries, runVars, payload, ctxLive,
                   requestVars>>

\* case tiersFailed == tiersRun, after the case of a clean run.
RunFailed(bad) == bad # {} /\ bad = Tier

RunClean(bad) == bad = {}

\* for i := 1; i <= job.Runs; i++
RunsLeft == i <= Runs

\* One turn of the loop over the runs, up to the result it will save.  Every
\* attempted tier ends, at the latest when the run's timeout ends its context.
CollectRun ==
    /\ pc = "collecting"
    /\ RunsLeft
    /\ \E bad \in SUBSET Tier :
          /\ failedIn' = [failedIn EXCEPT ![i] = bad]
          /\ failedTiers' = failedTiers \cup bad
          /\ cleanRuns' = cleanRuns + (IF RunClean(bad) THEN 1 ELSE 0)
          /\ failedRuns' = failedRuns + (IF RunFailed(bad) THEN 1 ELSE 0)
    /\ pc' = "saving"
    /\ UNCHANGED <<tableVars, i, decided, payload, ctxLive, requestVars, unsaved,
                   lost>>

\* SaveResult: the foreign key needs the row of the job; an error is logged.
SaveResult ==
    /\ pc = "saving"
    /\ \/ /\ CallWorks /\ row # Absent
          /\ results' = results \cup {i}
          /\ UNCHANGED unsaved
       \/ /\ CallFails \/ row = Absent
          /\ unsaved' = unsaved \cup {i}
          /\ UNCHANGED results
    /\ i' = i + 1
    /\ pc' = "collecting"
    /\ UNCHANGED <<row, verdict, deliveries, cleanRuns, failedRuns, failedTiers,
                   decided, failedIn, payload, ctxLive, requestVars, lost>>

\* Faulty variant: any failed run fails the job.
deriveStatusByAny(clean, failed) ==
    IF failed > 0 THEN "FAILED"
    ELSE IF clean < Runs THEN "PARTIAL" ELSE "COMPLETED"

deriveStatus(clean, failed) ==
    IF failed = Runs THEN "FAILED"
    ELSE IF clean < Runs THEN "PARTIAL" ELSE "COMPLETED"

\* Faulty variant: the loop ends one run early.
DecideEarly ==
    /\ pc = "collecting"
    /\ i >= Runs
    /\ decided' = deriveStatus(cleanRuns, failedRuns)
    /\ pc' = "deciding"
    /\ UNCHANGED <<tableVars, i, cleanRuns, failedRuns, failedTiers, failedIn,
                   unsaved, payload, ctxLive, requestVars, lost>>

\* The runs are over: deriveStatus.
Decide ==
    /\ pc = "collecting"
    /\ ~RunsLeft
    /\ decided' = deriveStatus(cleanRuns, failedRuns)
    /\ pc' = "deciding"
    /\ UNCHANGED <<tableVars, i, cleanRuns, failedRuns, failedTiers, failedIn,
                   unsaved, payload, ctxLive, requestVars, lost>>

\* Faulty variant: the notice is enqueued before the verdict is in.
NextAfterNoticeFirst(stage) == IF HasWebhook THEN "reading" ELSE "done"

\* Faulty variant: the verdict ends the processing of a job with a budget.
NextAfterVerdictLast(stage) ==
    IF HasBudget THEN IF stage = "deciding" THEN "judging" ELSE "done"
    ELSE IF HasWebhook THEN "reading" ELSE "done"

\* What is left of processJob after the outcome.
NextAfter(stage) ==
    IF stage = "deciding" /\ HasBudget THEN "judging"
    ELSE IF HasWebhook THEN "reading" ELSE "done"

\* UpdateJobStatus(decided), whose error is only logged.
WriteOutcome ==
    /\ pc = "deciding"
    /\ \/ CallWorks /\ row' = Written(decided) /\ UNCHANGED lost
       \/ CallFails /\ UNCHANGED row /\ Lose("status")
    /\ pc' = NextAfter("deciding")
    /\ UNCHANGED <<verdict, results, deliveries, runVars, payload, ctxLive,
                   requestVars>>

\* SetJobBudgetResult, for the median of the metrics of all the runs.
WriteVerdict ==
    /\ pc = "judging"
    /\ \/ CallWorks /\ verdict' = (row # Absent) /\ UNCHANGED lost
       \/ CallFails /\ UNCHANGED verdict /\ Lose("verdict")
    /\ pc' = NextAfter("judging")
    /\ UNCHANGED <<row, results, deliveries, runVars, payload, ctxLive,
                   requestVars>>

\* sendWebhook reads the job again; without it there is no notice.
ReadJob ==
    /\ pc = "reading"
    /\ \/ /\ CallWorks /\ row # Absent
          /\ payload' = [payload EXCEPT !.status = row, !.verdict = verdict]
          /\ pc' = "listing"
          /\ UNCHANGED lost
       \/ /\ CallWorks /\ row = Absent
          /\ pc' = "done"
          /\ UNCHANGED <<payload, lost>>
       \/ /\ CallFails
          /\ pc' = "done"
          /\ Lose("notice")
          /\ UNCHANGED payload
    /\ UNCHANGED <<tableVars, runVars, ctxLive, requestVars>>

\* results, _ := GetResultsByJobID: a failed read is an empty list.
ListResults ==
    /\ pc = "listing"
    /\ \/ CallWorks /\ payload' = [payload EXCEPT !.results = results] /\ UNCHANGED lost
       \/ CallFails /\ UNCHANGED payload /\ Lose("results")
    /\ pc' = "enqueueing"
    /\ UNCHANGED <<tableVars, runVars, ctxLive, requestVars>>

\* EnqueueWebhook: webhook_deliveries has no foreign key.
EnqueueWebhook ==
    /\ pc = "enqueueing"
    /\ \/ CallWorks /\ deliveries' = deliveries \cup {payload} /\ UNCHANGED lost
       \/ CallFails /\ UNCHANGED deliveries /\ Lose("notice")
    /\ pc' = "done"
    /\ UNCHANGED <<row, verdict, results, runVars, payload, ctxLive, requestVars>>

\* A collector panics; the deferred recover of the worker fails the job.
Panic ==
    /\ pc = "collecting"
    /\ RunsLeft
    /\ pc' = "panicked"
    /\ UNCHANGED <<tableVars, runVars, payload, ctxLive, requestVars, lost>>

RecoverPanic ==
    /\ pc = "panicked"
    /\ \/ CallWorks /\ row' = Written("FAILED") /\ UNCHANGED lost
       \/ CallFails /\ UNCHANGED row /\ Lose("status")
    /\ pc' = "done"
    /\ UNCHANGED <<verdict, results, deliveries, runVars, payload, ctxLive,
                   requestVars>>

Worker ==
    \/ StartJob \/ CollectRun \/ SaveResult \/ Decide \/ WriteOutcome
    \/ WriteVerdict \/ ReadJob \/ ListResults \/ EnqueueWebhook
    \/ Panic \/ RecoverPanic

-------------------------------------------------------------------------------
(* Requests                                                                  *)

\* handleGetJob reads the job, and answers 404 without one,
GetJob ==
    /\ reader = None
    /\ row # Absent
    /\ reader' = row
    /\ UNCHANGED <<tableVars, pc, runVars, payload, ctxLive, response, deleter,
                   lost>>

\* then its results, in a read of its own: if it fails the answer has none.
GetResults ==
    /\ reader # None
    /\ \/ response' = [status |-> reader, results |-> results, read |-> TRUE]
       \/ /\ StoreMayFail
          /\ response' = [status |-> reader, results |-> {}, read |-> FALSE]
    /\ reader' = None
    /\ UNCHANGED <<tableVars, pc, runVars, payload, ctxLive, deleter, lost>>

\* DELETE, of a job that is not running when the handler looks, or that it
\* could not look at.
DeleteRequest ==
    /\ deleter = "idle"
    /\ row # "RUNNING" \/ StoreMayFail
    /\ deleter' = "deliveries"
    /\ UNCHANGED <<tableVars, pc, runVars, payload, ctxLive, reader, response,
                   lost>>

\* Faulty variant: an error of the first statement is not looked at.
DeleteDeliveriesLoosely ==
    /\ deleter = "deliveries"
    /\ deliveries' = {} \/ (StoreMayFail /\ UNCHANGED deliveries)
    /\ deleter' = "row"
    /\ UNCHANGED <<row, verdict, results, pc, runVars, payload, ctxLive, reader,
                   response, lost>>

\* The two statements of store.DeleteJob, in no transaction: first the
\* deliveries, which no foreign key ties to the job,
DeleteDeliveries ==
    /\ deleter = "deliveries"
    /\ \/ deliveries' = {} /\ deleter' = "row"
       \/ StoreMayFail /\ deleter' = "idle" /\ UNCHANGED deliveries
    /\ UNCHANGED <<row, verdict, results, pc, runVars, payload, ctxLive, reader,
                   response, lost>>

\* then the row, and by cascade its results.  If this one fails, the notice is
\* lost though the job stays.
DeleteRow ==
    /\ deleter = "row"
    /\ \/ row' = Absent /\ verdict' = FALSE /\ results' = {} /\ UNCHANGED lost
       \/ StoreMayFail /\ Lose("notice") /\ UNCHANGED <<row, verdict, results>>
    /\ deleter' = "idle"
    /\ UNCHANGED <<deliveries, pc, runVars, payload, ctxLive, reader, response>>

Request ==
    \/ GetJob \/ GetResults
    \/ DeleteRequest \/ DeleteDeliveries \/ DeleteRow

-------------------------------------------------------------------------------
(* The process                                                               *)

\* Stop cancels m.ctx; the worker goes on to the end of processJob.
CancelContext ==
    /\ ctxLive
    /\ pc # "dead"
    /\ ctxLive' = FALSE
    /\ UNCHANGED <<tableVars, pc, runVars, payload, requestVars, lost>>

\* The process ends, by a crash or after Stop, and the next one recovers the
\* rows before it serves anything; a failure to recover them is only logged.
\* Nobody has the job in hand any more.
Restart ==
    /\ pc # "dead"
    /\ pc' = "dead"
    /\ \/ row' = IF row \in Active THEN "FAILED" ELSE row
       \/ StoreMayFail /\ UNCHANGED row
    /\ ctxLive' = TRUE
    /\ reader' = None
    /\ deleter' = "idle"
    /\ UNCHANGED <<verdict, results, deliveries, runVars, payload, response, lost>>

Next == Worker \/ Request \/ CancelContext \/ Restart

Spec == Init /\ [][Next]_vars

-------------------------------------------------------------------------------
(* Properties                                                                *)

\* What the status of the job should say of its runs (the comment above the
\* counters of processJob): COMPLETED when every attempted tier of every run
\* succeeded, FAILED when none did, PARTIAL otherwise.
StatusOfRuns ==
    IF \A r \in Run : failedIn[r] = {} THEN "COMPLETED"
    ELSE IF \A r \in Run : failedIn[r] = Tier THEN "FAILED"
    ELSE "PARTIAL"

\* The status that is stored is the one the runs deserve, all of them counted:
\* the two counters decide it as the record of every run would.
StatusMatchesRuns ==
    /\ decided # None => decided = StatusOfRuns
    /\ row \in {"COMPLETED", "PARTIAL"} => decided = row /\ i = Runs + 1

\* The results are stored before the outcome, and a reader asks for the job
\* first: an answer that says the job is over lists every result, though the
\* two reads are not one, as long as the second did not fail.
ReadersSeeResults ==
    response.status \in {"COMPLETED", "PARTIAL"} /\ response.read /\ row # Absent =>
        Run \ unsaved \subseteq response.results

\* The payload of a notice is what the worker stored: it tells the outcome, it
\* carries the verdict of a job with a budget, and it lists every result.
NoticeIsFaithful ==
    \A p \in deliveries :
        /\ "status" \notin lost => p.status = decided
        /\ HasBudget /\ "verdict" \notin lost => p.verdict
        /\ row # Absent /\ "results" \notin lost => Run \ unsaved \subseteq p.results

\* A worker that is through with a job has told about it once: there is one
\* delivery, unless the job was deleted, a collector panicked or a call failed.
NoticeIsEnqueued ==
    /\ Cardinality(deliveries) <= 1
    /\ /\ pc = "done" /\ decided # None /\ HasWebhook
       /\ row # Absent /\ deleter # "row" /\ "notice" \notin lost
       => deliveries # {}

\* A deletion takes the job with all that the foreign key ties to it, also when
\* the worker has it in hand: no result and no verdict is stored afterwards. And
\* one that begins when the worker is through takes the notice with it, for good,
\* whatever fails and is asked for again.
DeletionIsComplete ==
    /\ [](row = Absent => results = {} /\ ~verdict)
    /\ [](pc \in {"done", "dead"} /\ deleter = "idle" /\ row # Absent
         => [](row = Absent => deliveries = {}))
===============================================================================
