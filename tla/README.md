# Loadstar: a TLA+ verification development

Loadstar (Go) measures web pages. A daemon takes jobs over HTTP, runs them on a
pool of workers, stores the results in SQLite, judges them against a budget,
notifies a webhook and submits jobs of its own on a schedule; a command-line
tool runs the same measurements once. This directory holds TLA+ models of what
in it is concurrent, persistent or easy to get subtly wrong, the TLC
configurations that check them, and TLAPS proofs of their main properties.

    tlc -workers 2 -config JobManager.cfg MCJobManager.tla    # a run
    tlapm JobManagerProofs.tla                                # a proof

`PROJECT.json` lists the components, the runs, one mutant for each property
(a plausible bug under which TLC finds the property violated), the lines each
definition models, the hazards and the theorems.

## 1. Inventory

| Component | State | Operations | Correct when | Model |
|---|---|---|---|---|
| Job table (`internal/store/store.go`, `schedules.go`) | rows of `jobs` | CreateJob, UpdateJobStatus, DeleteJob, PurgeOldJobs, RecoverInterruptedJobs | an outcome is final; nothing removed returns | `JobStore`, `JobLifecycle` |
| Job manager (`internal/job/manager.go`) | `jobQueue`, `pendingJobs`, `mu`, `ctx`, the pool | SubmitJob, worker loop, CancelJob, Stop | no row is stranded; cancelled jobs never run; accepted jobs end; Stop returns | `JobManager` |
| Job execution (`processJob`, `sendWebhook`) | counters of runs and tiers, results, verdict | runs, SaveResult, deriveStatus, verdict, notice | the status tells the runs; readers and the notice see everything | `JobRun` |
| Webhook delivery (`webhookWorker`) | `webhook_deliveries`, `webhookChan`, the copies in hand | announce, sweep, post, record | every notice is decided; none is sent twice but for an answer that was not recorded | `Webhooks`, `NoticeLifecycle` |
| Scheduler (`scheduler.go`, `api/schedules.go`) | `schedules`, the due list of a tick | tick, count, submit, mark; create, toggle, delete | no pileup, no hot loop, no starvation | `Scheduler` |
| Retention (`retention.go`) | - | PurgeOldJobs, PurgeOldRUMEvents | only finished jobs and old events go | `JobManager` (jobs), `Rum` (events) |
| RUM (`api/rum.go`, `store/rum.go`) | the token bucket, `rum_events` | limiter, validation, insertion, summary, purge | the rate bounds what is admitted and written; a summary misses nothing recent | `RumIngest`, `Rum` |
| Budgets, statistics (`budget.go`, `stats.go`) | - (pure, over unordered maps) | Flatten, Aggregate, Evaluate, Percentile | the verdict is the worst of the assertions against the median | `Budget`, `Stats` |
| Migrations (`store/migrations`) | `schema_migrations`, the schema | Run | what took effect is what is recorded; a store opens complete | `Migrations` |
| API handlers (`api/server.go`) | - | POST, GET, DELETE of jobs; listing, history, auth, health | deletes spare running jobs; reads are consistent | `JobManager`, `JobRun` (partly) |
| Daemon (`cmd/loadstar/serve.go`) | the phase of the process | recover, start, drain, stop | what a restart finds is recovered | in each model |
| Command line (`cmd/loadstar/run.go`) | counters of tiers, the ids of its rows | flags, runs, persistence, verdict, report, exit code | the exit code and the warnings tell the outcome | `CliRun`, `Budget` |
| Chrome (`internal/chrome`, `browserManager`, `profile.Apply`) | the Once, the launch error, the process, tabs | lazy start, tab, profile, close | one Chrome, none left; no worker hangs in it; runs are measured as asked | `Browser` |
| Vitals collector (`collector/vitals`) | `window.__loadstar`, the open session | four observers, the read-out | CLS, TBT, LCP and FCP are what their comments say | `Vitals` |
| Network, waterfall and Lighthouse collectors, history, metrics, validator, config, reports, UI | | | | not modelled (section 8) |

How they interact. An HTTP handler or the scheduler calls `SubmitJob`, which
inserts a PENDING row, marks the id in `pendingJobs` and sends the job on a
bounded channel. A worker takes it, claims it under the mutex, and writes
RUNNING, one result per run, the outcome, the verdict and a webhook delivery, in
this order and each in a statement of its own. The webhook goroutine hears of a
delivery on a channel or finds it in its sweep. The scheduler learns from the
table alone whether a job of a schedule is still active. `DELETE` reads, cancels
and deletes without holding anything across the three. Stop cancels one context
that all of them share; the next process recovers the rows.

What is hard here: the goroutines share rows without transactions across calls;
every store error but that of the first insertion is logged and passed over; one
context is both the signal to stop and the context of the writes that must
follow; the request contexts end when a client leaves; two ways lead to the same
webhook row; state is in memory and in the table at once, and a crash keeps one
of them; a browser outlives the runs it serves; page events are heard late and out
of order. The 40 hazards in `PROJECT.json` name the lines.

## 2. Modules

**`JobStore`** has the statements on the status of a job as operators on the
function from ids to `PENDING`, ..., `absent`. One SQL statement is one step.

**`JobManager`** composes the callers of SubmitJob, the workers, the handlers of
DELETE, the purge and the process. `row` is the table; `pending` and `queue` are
`m.pendingJobs` and `m.jobQueue`; `sub`, `wpc`/`wjob` and `hpc`/`hjob` say where
each goroutine stands. Every store call, section under `m.mu` and channel
operation is an action named after it:

| code | actions |
|---|---|
| SubmitJob, enqueueFailed | `CreateJob` `MarkPending` `CheckContext` `Enqueue` `Unmark` `CleanUp` |
| worker | `Dequeue` `Claim` `ExitWorker`; `Panic` `RecoverPanic` |
| processJob, folded | `StartJob` `FinishJob` `Report` |
| handleDeleteJob, CancelJob | `DeleteRequest` `ReadJob` `CancelJob` `DeletePendingRow` `DeleteRow` |
| retention | `PurgeJobs` |
| serve | `Signal` `CancelContext` `FinishShutdown` `Crash` `Restart` |

Only `CancelJob` holds the mutex over a store call, so the lock is a predicate
(`LockFree`) on that handler. A call under `m.ctx` fails once `Stop` has cancelled
it; a call under a request context may fail when the client leaves. A history
variable, `faulted`, has the jobs for which a write that had to happen failed:
the code logs those errors and goes on, so no invariant survives them, and every
property says which of them excuse it.

**`JobLifecycle`** is what a client may count on: a job is submitted once, runs
after it was pending, gets one outcome, which is final, and is removed for good.
`JobManager` implements it under the mapping `Status`.

**`JobRun`** opens what `JobManager` folds into two steps: one worker with one
job of several runs over several tiers, statement by statement to the insertion
of the notice, beside one reader (`GetJob`, `GetResults`), one DELETE (its two
statements), Stop and a restart.

**`Webhooks`** models the deliveries from their insertion on. Time is relative
(`wait[d]` is what is left until `next_attempt`), so no clock is bounded. The
worker's copies of the rows, taken at the head of a sweep, are in `batch` and
`seen`.

**`Scheduler`** models the loop over the due schedules call by call. `overdue`
has the schedules whose `next_run_at` has passed and `before` orders them by it;
`Due`, the answer of DueSchedules, is the schedules whose `Rank` is within the LIMIT;
a job is a row that is active, or `stuck` when nothing will move it before
the next start, which is how the stranded rows of `JobManager` come in.

**`NoticeLifecycle`** is what the owner of a job and the recipient may count on: a
notice is asked for while it is pending, once more at most when its row is being
removed, is tried a bounded number of times, and gets one outcome that was earned.
`Webhooks` implements it under the mapping `NoticeState`.

**`RumIngest`** counts tokens in parts, `Grain` to a token, and time in the units
that refill one part. `ahead` and `savedAhead` are the classic bound on a leaky
bucket: the largest excess over the rate of all spans that end now. **`Rum`** puts
the table behind it, as the number of events of each metric and age, with the
purge; `GetRUMValues` is the set of selections that ORDER BY and LIMIT allow. An
event has its time before the INSERT, so a slow insertion brings in an old event.
`Stored(ages)` is the set of the events of some ages, so that to sum is to count.

**`Stats`** is Percentile, in hundredths; `Sorted` has at place n the value that n
values come up to (`UpTo`), which is sorting without a recursion. **`Budget`** is the path from the
metrics of the runs to the verdict; the assertions are visited in any order, as
Go visits a map. **`CliRun`** extends it to an invocation of `loadstar run`: the
checks of the flags with their codes, the store, the tiers of each run, its row and
its result, the verdict on each row, the report and the exit code, on a file where
a daemon may delete rows. The codes that are not in `runCmd` itself are there too:
`flag.ExitOnError` exits at an unknown flag and at `-h` (the first two of `Checks`),
and a panic has the code 2 of the Go runtime (`MakeSummaries` of a negative `-n`,
`CollectorPanics` at any run, which nothing in the command recovers).

**`Browser`** composes the workers with the one Chrome they share. `once`,
`startErr` and `running` are the launch; `at`, `left` and `runCtx` the run of a
worker, `tab` and `throttled` its tab, `stray` the tab of a run that panicked and
`jar` whose cookies and cache are in the browser. Chrome may fail to start, hang in
any call (no fairness obliges a call to return before its tab is cancelled), and
die, after which nobody starts it again.

**`Vitals`** composes a page (it paints, shifts, computes) with the four observers,
which hear of the entries of their type in order but at any time, and the read-out
with its fallbacks. A task takes time from `BeginTask` to `EndTask`: callbacks and the
read-out wait for its end, but a frame may be presented within it, so FCP may fall
into a task. The properties count what the code adds up: a session is a set of
shifts between two places of a cut, its score the number of the points in it, and
`TotalBlocking` the number of moments that some task blocks.

**`Migrations`** is NewStore by several processes on one file: the version is
read outside of the transactions. SQLite's single writer, its rollback and the
busy timeout are the assumptions on the database.

The modules share `JobStore` and meet at the interfaces named above; each takes
the rest of the daemon as the weakest environment its neighbour's model allows
(`Scheduler` any end of a job, `Webhooks` any insertion and deletion).

## 3. Runs

| Run | Instance | Shows |
|---|---|---|
| `jobmanager` | 2 jobs (1 scheduled), 2 workers, 1 DELETE handler, queue of 1; clients leave, calls fail; fair | `PendingRowHasOwner`, `RunningRowHasWorker`, `CancelledNeverRuns`, `PendingIsAccounted`, `ImplementsLifecycle`, `AcceptedIsDecided`, `ShutdownEnds` |
| `jobrun` | 1 job, 2 runs, 2 tiers, budget, webhook; calls fail | `StatusMatchesRuns`, `ReadersSeeResults`, `NoticeIsFaithful`, `NoticeIsEnqueued`, `DeletionIsComplete` |
| `webhooks` | 2 deliveries, channel of 1, sweeps of 1, 2 attempts, 1 fault, fair | `AttemptsAreCounted`, `NoDuplicate`, `ImplementsNoticeLifecycle`, `DeliveryIsDecided`, `TypeOK` |
| `scheduler` | 3 schedules, ticks of 2, 1 fault, fair | `NoPileup`, `JobsAreSpaced`, `DueIsServed`, `TypeOK` |
| `rum` | 2 requests, burst of 1, 2 parts to a token, 2 metrics, limit of 4, fair | `RateIsBounded`, `WritePressureIsBounded`, `SummaryIsOfAll`, `OpensAgain` |
| `cli` | 2 tiers of 1 metric, 2 values around one threshold, up to 3 runs, 1 fault | `VerdictIsWorst`, `TwoRunsOutvoteOne`, `GateHolds`, `ExitTellsOutcome`, `StoredOrWarned` |
| `vitals` | 5 units of time, 4 entries, sessions of 2 with gaps of 1 | `ClsIsWorstSession`, `TbtIsOfWholeTasks`, `ResultIsConsistent` |
| `browser` | 2 workers, up to 2 browser tiers a run, fair | `ChromeIsClosed`, `ThrottlingIsHonest`, `NoTabWithoutChrome`, `TiersEnd` |
| `migrations` | 3 processes, 4 versions, 2 faults, fair | `PrefixIsApplied`, `OpenIsComplete`, `StoreOpens` |

Type invariants that a theorem states for every instance are left out of the runs,
but for the two that have the limits of a channel, a sweep and a tick.
Three more runs find what does not hold (section 4).

Why the bounds are enough to be interesting. Two jobs, two workers and a queue of
one make a full queue, a rejected submission, a cancelled job that still holds its
slot, and two workers that race for what is queued; the handler races with each of
them. Two runs over two tiers are the least on which COMPLETED, PARTIAL and FAILED
differ for a reason other than the last run. A wrong flag, a negative number of runs and
a panic before, between and at the last run are all among the invocations of `cli`. Two deliveries through a channel of
one and a sweep of one make both limits bite, and two attempts make a retry and a
give-up; that the copies of a larger batch are not stale either is a theorem for
every batch (section 5). A tick smaller than
the number of schedules makes its limit bite. Three runs are the least on which
the median ignores one. Two requests on a bucket of two parts make a refused one
keep its half, and a limit of four over what two handlers and the bucket let through
leaves ages that the limit covers (`Covered` is 2 of the 3) and ages that it cuts.
Four entries in five units of time make a session end by its gap and by its length,
with an input in between, and a task that ends before FCP, one that FCP falls into and
one that begins after it. Two workers race
for the launch, and two tiers are the least in which one tab follows another of the
same run. Versions with and without repeatable SQL, and a file of any
earlier release, cover what a racing process can find. Faults are bounded where
they would otherwise never end (`MaxFaults`, `Faults`); in `JobManager` and
`JobRun` any call may fail at any time, and in `Browser` any call in a tab. The theorems of section 5 drop the bounds.
The tiers of `JobRun` are interchangeable and its run uses their symmetry; the
others check liveness, or order their elements, and use none.

Deadlock is checked everywhere but in `JobRun`, `CliRun` and `Vitals`, where the one
job, invocation or page load is over in the end.

## 4. What does not hold

Three runs check one statement each that a comment or a document makes and the
code does not keep. The counterexamples are short and need no exotic fault.

| Run | The statement | What happens |
|---|---|---|
| `jobmanager_delete_running` | "Refuse to delete a job that is actively running" (`server.go`) | a worker starts the job between the handler's read and its deletion |
| `browser_isolation` | "keeping the data (cookies/cache) separate for each run" (`GETTING_STARTED.md`) | every tab is opened in the default browser context, which keeps what earlier runs left |
| `vitals_tbt` | "long tasks after FCP" (`vitals/collector.go`) | a task before FCP is heard before FCP is known, and counted |

Smaller disagreements met while modelling, each visible in a few actions and so
without a run of its own:

- "a rejected submission leaves no orphaned PENDING row" (`manager.go`): `CleanUp`
  runs under the context of a client that may have left, and then fails.
- "a restart does not lose a notification" (`architecture.md`): the outcome is stored
  first (`WriteOutcome`), the notice last (`EnqueueWebhook`), and recovery looks at
  unfinished jobs only.
- "avoid orphaned deliveries" (`store.go`): with `DeleteDeliveries`, `EnqueueWebhook`,
  `DeleteRow` in this order, or the notice inserted last, a delivery outlives its job,
  without any failed call; the retention selects what it removes by the rows of jobs
  and never finds it. `DeletionIsComplete` is what holds: it speaks of a deletion that
  begins when the worker is through.
- "long-task time beyond 50ms per task, counted after FCP" (`vitals/collector.go`): a
  task that FCP falls into is judged by its beginning (`BeforeFcp`), and so dropped
  whole, with what it blocks after FCP, when FCP was heard before it (`BeginTask`,
  `Paint`, `EndTask`, `HearPaint`, `HearTask`). `TbtIsOfWholeTasks` is what holds: what
  is missed after FCP is of this one task.
- "Code 3: budget violated" (`README.md`): when all the tier attempts fail the missing
  metrics violate the budget, and the code is 1 (`FinalCode`). "Code 2: bad
  invocation": a missing or refused URL exits with 1 (`Checks`), and a collector that
  panics exits with 2, after runs were measured and stored (`CollectorPanics`): their
  rows say COMPLETED, without the verdict that was to come. "Code 0: success": `-h`
  exits with 0, and so does `-n 0`, which measures nothing.
- "A report we couldn't write is a failed invocation" (`run.go`): so for JSON and CSV;
  the text report's errors are not looked at (`Report`).
- The rows of `loadstar run` are COMPLETED whatever its tiers came to, and have no
  `completed_at`, so that the retention never purges them.
- A metric that floods the summary of a page pushes the others out of its LIMIT
  beyond the age `Covered`; "capped at rumValuesLimit rows" (`rum.go`) says as much.
- "draining in-flight jobs" (`README.md`): `Stop` cancels the context before it
  waits, so the run in flight is aborted and its `FinishJob` fails; the row is
  RUNNING until the next start fails it.
- "with exponential backoff" (`architecture.md`): `Receive` does not ask for
  `next_attempt`, so an announcement still queued after a failed attempt of a sweep
  leads to the next attempt at once.
- "next_run_at always advances" (`scheduler.go`): not when the count fails (`Count`
  goes on without `Mark`).
- "one noisy run doesn't decide the outcome" (`README.md`): with two runs the median
  is their mean and it does; `TwoRunsOutvoteOne` is what holds.

## 5. Proofs

| Theorem | Module | For every |
|---|---|---|
| `TypeCorrect`, `PendingAccounted`, `CancelledJobsNeverRun`, `PendingRowsHaveOwners`, `RunningRowsHaveWorkers`, `RefinesLifecycle` | `JobManagerProofs` | set of jobs, workers and handlers, and queue depth |
| `TypeCorrect`, `StatusIsOfRuns`, `AnswersAreWhole`, `NoticesAreFaithful`, `NoticesAreEnqueued`, `DeletionsAreComplete` | `JobRunProofs` | number of runs, set of tiers |
| `TypeCorrect`, `AttemptsCounted`, `NoticeIsTakenOnce`, `OutcomesAreEarned`, `OutcomesAreFinal`, `RefinesNoticeLifecycle` | `WebhooksProofs` | deliveries, retries, batch, channel, number of faults |
| `TypeCorrect`, `NoPileupEver`, `JobsSpaced` | `SchedulerProofs` | schedules, batch, faults |
| `TypeCorrect`, `AdmissionsAreBounded`, `InsertionsAreBounded`, `RumImplementsIngest`, `RumIsBounded`, `RumTypeCorrect`, `WindowsArePaidFor`, `SummariesAreOfAll` | `RumIngestProofs` | rate, burst, number of requests, limit, retention |
| `TypeCorrect`, `ExitCodeIsTrue`, `NothingIsLostUnsaid`, `VerdictsAreWorst`, `GateIsTrue`, `NoiseIsOutvoted` | `CliRunProofs` | tiers, metrics, integer values and thresholds, budgets, number of runs and faults |
| `TypeCorrect`, `OneChromeAndNoneLeft`, `MeasuredAsAsked`, `FailedStartIsNotUsed` | `CollectorsProofs` | set of workers, number of tiers |
| `VitalsTypeCorrect`, `ClsIsWorst`, `TbtCountsWholeTasks`, `ResultsAreConsistent` | `CollectorsProofs` | gap and length of a session, allowance of a task, scores, length of a page load |
| `TypeCorrect`, `PrefixAlways`, `CompleteWhenOpen` | `MigrationsProofs` | processes, versions, faults |

They assume the ASSUMEs of the modules and nothing else; TLC evaluates each of
those in the runs. Every safety property and action property of the passing runs is
stated by one of these theorems.

*JobManager.* None of the properties is inductive. The invariant is built in
layers, each proved from those before it. `Typed` is the type invariant with the
link between a goroutine's phase and the job in its hands. `Ownership` says who
holds a job in memory: it is in the queue once, only after SubmitJob accepted it,
and not while a worker has it; a cancelled job is inert. Without it a second copy
in the queue could revive a job that was cancelled. It gives `PendingAccounted`
and `CancelledJobsNeverRun`. `RowFollowsOwner` says what a row can hold meanwhile:
PENDING or nothing until a worker starts the job, RUNNING or nothing while one
runs it. The refinement of `JobLifecycle` needs it: an update of a row that has its
outcome would be a step the lifecycle does not have. `NotStranded` is the converse,
from the row to its owner, with the excuse of a failed write, and gives the last
two theorems. The lemmas on sequences (elements and distinctness of Append and
Tail) are what the queue needs of them.

*JobRun.* The counters are those of the runs counted so far: `cleanRuns` is `i-1`
exactly if none of them had a failing tier, and so for `failedRuns`; with that the
two comparisons of `deriveStatus` at the end of the loop say the same as the
quantifiers of `StatusOfRuns`. That no tier set is empty (`TierAssumption`, from
validateTiers) is what keeps COMPLETED and FAILED apart. What is told of the job is a
second invariant over the first: a run behind the loop has its result or was not
saved (`ResultsKept`), who has read that the job is over knows that the loop is
(`OverIsOver`), so a list that is read later is whole; the row holds what was written
to it, in the order of `NextAfter`, while the payload is made of it (`RowIsTold`), and
the delivery is the payload and comes last (`DeliveryIsPayload`). `DeletionIsComplete`
speaks of what happens after the worker is through: what it asks of that moment
(`Through`) is kept by every step, so the box inside of the other is `Through` for
ever, and the rest is temporal logic. That a job without a row has no result and no
verdict needs none of this and holds at any step of the worker: the foreign key
refuses the one and the update finds no row for the other (`RowHoldsAll`). A deletion
that the insertion of the notice overtakes is outside of the theorem, and leaves a
delivery (section 4).

*Webhooks.* The invariant says what the worker's copy of a row is worth: while a
delivery is in the batch nobody else writes its row, so the copy tells the attempts
as the row does, unless the row is gone. So the requests are those in the row, plus
those not recorded, plus the one in flight; and a delivery that may be posted again
was taken only by requests that were not recorded. With it every step is one of
`NoticeLifecycle` or a stutter: the removal of a row in hand is `Remove` to "leaving",
its last request the one `Ask` that leaves, and a crash is `Lose`. `OutcomesAreEarned`
and `OutcomesAreFinal` say of the rows themselves what the lifecycle says abstractly.
The types need the limits as well (`WithinLimits`): a sweep takes `BatchSize` rows at
most, and the wait of a retry is a step of the backoff.

*Scheduler.* Nothing is active for the schedule the loop is about to submit for:
the count has seen so, and nobody but the loop adds a job. That jobs are spaced is of
another invariant: `before` is a strict total order of the overdue schedules
(`Ordered`), so that their ranks are distinct and a tick takes no more than its LIMIT;
the list of a tick is of distinct schedules (`ListInOrder`); and whatever is overdue or
on the list has waited its interval since its last job, or could not be marked, or is
the one about to be marked (`OverdueHaveWaited`).

*RumIngest.* `ahead` and what is in the bucket, refilled up to now, are a full
bucket at most: an admission moves a token from the second to the first, and time
moves them against each other. For the insertions the same sum takes in the
requests that hold a token and have yet to insert. `Rum` implements `RumIngest`, so
both bounds are inherited. A summary misses nothing recent because a window of the
table is paid for like a span of time (`WindowPays`): `Load(a)`, the events of an age
of `a` at most and the requests whose event may still get one, counted in parts, and
what is in the bucket are a full bucket, `a` and a token for every request at most.
An admission or an insertion moves within that sum, and a unit of time, which makes the
window of `a` what that of `a - 1` was, adds one part. So up to the age `Covered` the
events are no more than the LIMIT, which therefore cuts none of them.

*CliRun.* The invariant keeps the order of an invocation (no run before the flags are
through, none left at the verdict), the failures within the attempts, and for each run
what each step of the persistence has left: a row, or an excuse; a result, but for the
run at hand; a verdict up to the one that is being noted. That the checks exit with
the code of a wrong flag rests on the lemma `FirstCheck`; that an invocation that ends
with 2 later was ended by a panic, with runs left and nothing judged, on the order of
its places. The verdict is of the results of the assertions visited so
far, whatever their order (`VerdictFollows`), and the exit code of the verdict
(`GateFollows`). What remains is that the median of the code, an index of a sorted copy,
is the middle by counting (`OrderStatistic`): `UpTo` is a chain of sets, so their
numbers of members are distinct, so sorting is a bijection of the runs to places
(`SortedRuns`), and place n is the n-th by counting (`NthIsOrderStatistic`). No step
of it is an induction over a sequence. When all the runs but one of three or more are
within a bound, both middle values are.

*Browser.* The worker that launches is alone with `once = "started"`, and nobody is
past the Once before it is through, so the second Chrome of an unguarded launch cannot
be. A tab is held only past a launch that succeeded; its throttling is set by the call
that precedes the collection and ends with the tab; and Stop has every worker behind
it, whose tabs are closed by then.

*Vitals.* The observer keeps one session and one maximum of all that it was told;
`SessionsFollow` says that there is a cut of the shifts heard so far whose last session
is the open one and whose worst is the maximum. A shift that joins adds its points to
the last session, one that does not begins a new one, and input leaves the cut alone
(`ShiftsInOrder` is why the new one is the last). The tasks of a page do not overlap
(`TasksRunAlone`), so the moments blocked by the next one
are new, and their number is added (`BlockingStep`); and of tasks that do not overlap
one at most began before FCP and ended after it, the only one that can be missed
(`TbtFollows`). `HeardIsOfPage` says that no observer knows what
the page did not do, which gives the read-out its FCP and LCP.

*Migrations.* `schema` and `versions` are one prefix, everything before the next
migration of a process is applied, and a row about to be committed is new, since the
lock is held from the SQL on and the version is a key. So a version read before the
commit of another process is stale but skips nothing.

## 6. Only model-checked

Liveness, everything under fairness: `AcceptedIsDecided`, `ShutdownEnds`,
`DeliveryIsDecided`, `DueIsServed`, `OpensAgain`, `TiersEnd`, `StoreOpens`. TLAPS has
no rules for ENABLED and fairness. The invariants that the arguments for them would
start from are proved (a PENDING row has an owner, the overdue schedules are ordered,
nobody is past the Once before the launch is).

What the code computes by a loop over data - a sort, a sum - is proved because the
modules state it as a choice or a number of members, about which the provers need no
induction. That `Sorted` is what Go's `sort` computes is therefore the model's, and no
theorem; that it is a sorted copy is one (`SortedRuns`).

## 7. Fairness and assumptions

- `JobManager`: every goroutine that can take a step takes one in the end (Go's
  scheduler), every store call returns, a run ends by its timeout, and the HTTP
  shutdown by its 20 seconds. Nothing makes a client call, a signal arrive or a
  crash stop. `AcceptedIsDecided` therefore excuses a daemon that goes down.
- `Webhooks`: weak fairness for the goroutine's calls and for time. Receiving
  from the channel and leaving at a cancelled context have strong fairness, since
  `select` draws among the ready cases at random and none loses for ever. Only the
  calls that do not fail are fair: the store is not assumed to fail for ever.
- `Scheduler`: the ticker ticks, calls return, a stopped daemon is started again;
  no job has to end.
- `Rum`: time passes, handlers end, and clients keep sending, which is the very case
  the property is about.
- `Browser`: goroutines run; a launch and the closing of a tab return; deadlines pass,
  and the AfterFunc of a tab runs. A call in a tab returns once its tab is cancelled,
  and no sooner for sure. Leaving the loop at a cancelled context has strong fairness,
  since `select` draws at random among what is ready.
- `Migrations`: a process that fails is started again until it succeeds.

Assumptions of the models: a store call whose context is cancelled fails without
effect; one SQL statement is atomic; a call that fails has no effect (a commit
whose answer is lost is not modelled); only collectors panic, in a worker, which
recovers, and in the command line, which does not, but for a negative `-n`; a kill by a
signal leaves no exit code to speak of and is not in `CliRun`; `next_run_at` and the
clock are compared as times, where SQLite compares texts with an offset, which differ
across a change of the clock; an id is fresh; a
tick of the scheduler takes less than the shortest interval, a minute; numbers
of metrics and tokens are exact (hundredths, parts) where the code has floats.

## 8. Not modelled, and why

- `internal/collector/network`, `lighthouse`, and the waterfall of `browser`: network and
  browser I/O in single calls. A tier has any outcome, a panic included.
- `GetHistory` in `store.go`: one read-only query in one statement, and a fold over its
  rows with the percentiles that `Stats` has.
- `internal/metrics`: counters behind one mutex, only printed.
- `internal/validator`, `internal/config`, `internal/tier`, the table of
  `internal/profile`: stateless checks and tables; the bounds they enforce are ASSUMEs where a model
  depends on them.
- `internal/report`, the UI, the documents, the scripts: formatting.
- Authentication, listing and history in `api/server.go`: they only read.

## 9. Plan

Done: job manager, job run, webhooks, scheduler, RUM, budget, migrations, the command
line, Chrome, the vitals observers; their runs and the proofs of section 5.

Next, in this order:

1. The HTTP shutdown with handlers that outlive it and a store that closes under
   them, apart from the failed calls that `JobManager` has for it.
2. Compositions: `Scheduler` over the submissions of `JobManager` (a schedule whose
   job was deleted while it ran), and `JobRun` over `Webhooks` (from the outcome to
   the recipient), and that each implements its parts.
