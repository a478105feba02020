------------------------------ MODULE JobManager ------------------------------
(***************************************************************************)
(* The job manager of the daemon (internal/job/manager.go) with the        *)
(* goroutines that touch a job: the callers of SubmitJob (an HTTP handler, *)
(* or the scheduler), the pool of workers, the handlers of                 *)
(* DELETE /jobs/{id} (internal/api/server.go), the retention purge, and    *)
(* the process itself: start with recovery, graceful shutdown, crash       *)
(* (cmd/loadstar/serve.go).                                                *)
(*                                                                         *)
(* Every call to the store, every section under m.mu and every channel     *)
(* operation is a step of its own; what happens between two of them is     *)
(* local to the goroutine.  The collection of the runs is one step here    *)
(* (module JobRun opens it) and so is the reporting after the final status.*)
(***************************************************************************)
EXTENDS Naturals, Sequences, JobStore

CONSTANTS
    Job,            \* job ids: each is a fresh UUID, so submitted at most once
    ScheduledJob,   \* the jobs that the scheduler submits, under m.ctx
    NoJob,          \* the job of a goroutine that has none
    Worker,         \* the pool, cfg.Workers goroutines
    Handler,        \* goroutines that serve DELETE /jobs/{id}
    QueueDepth,     \* cfg.QueueDepth, the capacity of m.jobQueue
    ClientMayLeave, \* an HTTP client may disconnect, which ends r.Context()
    StoreMayFail    \* a store call may fail under a live context

ASSUME JobAssumption ==
    /\ ScheduledJob \subseteq Job
    /\ NoJob \notin Job

\* config.Validate refuses a queue depth below one.
ASSUME QueueAssumption == QueueDepth \in Nat \ {0}

ASSUME FaultAssumption ==
    /\ ClientMayLeave \in BOOLEAN
    /\ StoreMayFail \in BOOLEAN

VARIABLES
    row,        \* the jobs table
    sub,        \* where the call of SubmitJob for a job stands
    pending,    \* m.pendingJobs
    queue,      \* m.jobQueue
    wpc, wjob,  \* where a worker stands, and the job in its hands
    hpc, hjob,  \* where a DELETE handler stands, and the job it was asked for
    daemon,     \* the phase of the process
    faulted,    \* history: jobs for which a write that had to happen failed
    cancelled   \* history: jobs that CancelJob took out of m.pendingJobs

submitVars == <<sub>>
workerVars == <<wpc, wjob>>
handlerVars == <<hpc, hjob>>
historyVars == <<faulted, cancelled>>
vars == <<row, sub, pending, queue, wpc, wjob, hpc, hjob, daemon, faulted,
          cancelled>>

-------------------------------------------------------------------------------
(* Types and initial state                                                   *)

SubmitPhase == {"created", "marked", "sending", "failing", "cleaning"}
SubmitState == {"new", "accepted", "rejected", "aborted"} \cup SubmitPhase

WorkerState == {"idle", "taken", "claimed", "running", "panicked", "reporting",
                "exited"}

HandlerState == {"idle", "reading", "cancelling", "deletingPending", "deleting"}

AlivePhase == {"up", "draining", "stopping"}
DaemonState == AlivePhase \cup {"stopped", "crashed"}

TypeOK ==
    /\ row \in [Job -> RowState]
    /\ sub \in [Job -> SubmitState]
    /\ pending \in SUBSET Job
    /\ queue \in Seq(Job)
    /\ Len(queue) <= QueueDepth
    /\ wpc \in [Worker -> WorkerState]
    /\ wjob \in [Worker -> Job \cup {NoJob}]
    /\ hpc \in [Handler -> HandlerState]
    /\ hjob \in [Handler -> Job \cup {NoJob}]
    /\ daemon \in DaemonState
    /\ faulted \in SUBSET Job
    /\ cancelled \in SUBSET Job

\* The daemon starts on an empty database.
Init ==
    /\ row = [j \in Job |-> Absent]
    /\ sub = [j \in Job |-> "new"]
    /\ pending = {}
    /\ queue = <<>>
    /\ wpc = [w \in Worker |-> "idle"]
    /\ wjob = [w \in Worker |-> NoJob]
    /\ hpc = [h \in Handler |-> "idle"]
    /\ hjob = [h \in Handler |-> NoJob]
    /\ daemon = "up"
    /\ faulted = {}
    /\ cancelled = {}

-------------------------------------------------------------------------------
(* Contexts, the mutex and the queue                                         *)

Alive == daemon \in AlivePhase

\* m.ctx is live until Stop cancels it.
CtxLive == daemon \in {"up", "draining"}

\* A store call under m.ctx cannot succeed once m.ctx is cancelled.
ManagerCallWorks == CtxLive
ManagerCallFails == ~CtxLive \/ StoreMayFail

\* A store call under the context of an HTTP request.
RequestCallFails == ClientMayLeave \/ StoreMayFail

\* SubmitJob runs under the context of its caller.
SubmitCallWorks(j) == j \in ScheduledJob => ManagerCallWorks
SubmitCallFails(j) ==
    IF j \in ScheduledJob THEN ManagerCallFails ELSE RequestCallFails

\* Only CancelJob holds m.mu across a store call; every other section under
\* the mutex is one step.
LockFree == \A h \in Handler : hpc[h] # "deletingPending"

Queued == {queue[i] : i \in 1 .. Len(queue)}

QueueHasRoom == Len(queue) < QueueDepth

Fault(j) == faulted' = faulted \cup {j}

-------------------------------------------------------------------------------
(* SubmitJob                                                                 *)

SubmitStep(j, s) == sub' = [sub EXCEPT ![j] = s]

\* The scheduler is one goroutine: it submits one job at a time.
SchedulerBusy == \E k \in ScheduledJob : sub[k] \in SubmitPhase

\* m.store.CreateJob.  A request that reached its handler before the listener
\* closed may get here at any time before the process ends.
CreateJob(j) ==
    /\ Alive
    /\ sub[j] = "new"
    /\ j \in ScheduledJob => ~SchedulerBusy
    /\ \/ /\ SubmitCallWorks(j)
          /\ row' = Inserted(row, j)
          /\ SubmitStep(j, "created")
       \/ /\ SubmitCallFails(j)
          /\ SubmitStep(j, "rejected")
          /\ UNCHANGED row
    /\ UNCHANGED <<pending, queue, workerVars, handlerVars, daemon, historyVars>>

\* m.pendingJobs[job.ID] = struct{}{}, before the job is sent to the queue.
MarkPending(j) ==
    /\ sub[j] = "created"
    /\ LockFree
    /\ pending' = pending \cup {j}
    /\ SubmitStep(j, "marked")
    /\ UNCHANGED <<row, queue, workerVars, handlerVars, daemon, historyVars>>

\* if m.ctx.Err() != nil
CheckContext(j) ==
    /\ sub[j] = "marked"
    /\ SubmitStep(j, IF CtxLive THEN "sending" ELSE "failing")
    /\ UNCHANGED <<row, pending, queue, workerVars, handlerVars, daemon,
                   historyVars>>

\* Faulty variant: a full queue drops the job, and SubmitJob does not tell.
EnqueueDropping(j) ==
    /\ sub[j] = "sending"
    /\ queue' = IF QueueHasRoom THEN Append(queue, j) ELSE queue
    /\ SubmitStep(j, "accepted")
    /\ UNCHANGED <<row, pending, workerVars, handlerVars, daemon, historyVars>>

\* select { case m.jobQueue <- job: default: }, the job stays marked.
Enqueue(j) ==
    /\ sub[j] = "sending"
    /\ IF QueueHasRoom
         THEN queue' = Append(queue, j) /\ SubmitStep(j, "accepted")
         ELSE UNCHANGED queue /\ SubmitStep(j, "failing")
    /\ UNCHANGED <<row, pending, workerVars, handlerVars, daemon, historyVars>>

\* Faulty variant: a rejected submission stays in m.pendingJobs.
UnmarkForgotten(j) ==
    /\ sub[j] = "failing"
    /\ SubmitStep(j, "cleaning")
    /\ UNCHANGED <<row, pending, queue, workerVars, handlerVars, daemon,
                   historyVars>>

\* enqueueFailed, its section under the mutex.
Unmark(j) ==
    /\ sub[j] = "failing"
    /\ LockFree
    /\ pending' = pending \ {j}
    /\ SubmitStep(j, "cleaning")
    /\ UNCHANGED <<row, queue, workerVars, handlerVars, daemon, historyVars>>

\* enqueueFailed, m.store.DeleteJob: an error is only logged.
CleanUp(j) ==
    /\ sub[j] = "cleaning"
    /\ SubmitStep(j, "rejected")
    /\ \/ /\ SubmitCallWorks(j)
          /\ row' = Without(row, j)
          /\ UNCHANGED faulted
       \/ /\ SubmitCallFails(j)
          /\ Fault(j)
          /\ UNCHANGED row
    /\ UNCHANGED <<pending, queue, workerVars, handlerVars, daemon, cancelled>>

Submission(j) ==
    \/ CreateJob(j)
    \/ MarkPending(j)
    \/ CheckContext(j)
    \/ Enqueue(j)
    \/ Unmark(j)
    \/ CleanUp(j)

-------------------------------------------------------------------------------
(* The workers                                                               *)

WorkerStep(w, s) == wpc' = [wpc EXCEPT ![w] = s] /\ UNCHANGED wjob

\* Back to the select at the head of the worker's loop.
WorkerRests(w) ==
    /\ wpc' = [wpc EXCEPT ![w] = "idle"]
    /\ wjob' = [wjob EXCEPT ![w] = NoJob]

\* case job := <-m.jobQueue.  Go's select picks any ready case, so a worker
\* may still take a job after m.ctx is cancelled.
Dequeue(w) ==
    /\ wpc[w] = "idle"
    /\ Alive
    /\ queue # <<>>
    /\ queue' = Tail(queue)
    /\ wpc' = [wpc EXCEPT ![w] = "taken"]
    /\ wjob' = [wjob EXCEPT ![w] = Head(queue)]
    /\ UNCHANGED <<row, submitVars, pending, handlerVars, daemon, historyVars>>

\* Faulty variant: a worker leaves only when the queue is closed; Stop does
\* not close it.
ExitWorkerAtClose(w) == FALSE /\ wpc[w] = "idle" /\ UNCHANGED vars

\* case <-m.ctx.Done()
ExitWorker(w) ==
    /\ wpc[w] = "idle"
    /\ daemon = "stopping"
    /\ WorkerStep(w, "exited")
    /\ UNCHANGED <<row, submitVars, pending, queue, handlerVars, daemon,
                   historyVars>>

\* Faulty variant: the job that comes out of the queue is run unchecked.
ClaimUnchecked(w) ==
    /\ wpc[w] = "taken"
    /\ LockFree
    /\ pending' = pending \ {wjob[w]}
    /\ WorkerStep(w, "claimed")
    /\ UNCHANGED <<row, submitVars, queue, handlerVars, daemon, historyVars>>

\* The section under m.mu that decides whether the job was cancelled.
Claim(w) ==
    LET j == wjob[w] IN
    /\ wpc[w] = "taken"
    /\ LockFree
    /\ pending' = pending \ {j}
    /\ IF j \in pending THEN WorkerStep(w, "claimed") ELSE WorkerRests(w)
    /\ UNCHANGED <<row, submitVars, queue, handlerVars, daemon, historyVars>>

\* A status update by the worker, under m.ctx.
Update(j, s) ==
    \/ /\ ManagerCallWorks
       /\ row' = WithStatus(row, j, s)
       /\ UNCHANGED faulted
    \/ /\ ManagerCallFails
       /\ Fault(j)
       /\ UNCHANGED row

\* UpdateJobStatus(RUNNING): processJob returns when it fails.
StartJob(w) ==
    /\ wpc[w] = "claimed"
    /\ \/ /\ ManagerCallWorks
          /\ row' = WithStatus(row, wjob[w], "RUNNING")
          /\ WorkerStep(w, "running")
          /\ UNCHANGED faulted
       \/ /\ ManagerCallFails
          /\ Fault(wjob[w])
          /\ WorkerRests(w)
          /\ UNCHANGED row
    /\ UNCHANGED <<submitVars, pending, queue, handlerVars, daemon, cancelled>>

\* The runs are over: the update to the derived status, whose error is only
\* logged.
FinishJob(w) ==
    /\ wpc[w] = "running"
    /\ \E s \in Outcome : Update(wjob[w], s)
    /\ WorkerStep(w, "reporting")
    /\ UNCHANGED <<submitVars, pending, queue, handlerVars, daemon, cancelled>>

\* A collector panics.
Panic(w) ==
    /\ wpc[w] = "running"
    /\ WorkerStep(w, "panicked")
    /\ UNCHANGED <<row, submitVars, pending, queue, handlerVars, daemon,
                   historyVars>>

\* Faulty variant: the panic is swallowed and the row keeps its status.
RecoverPanicSilently(w) ==
    /\ wpc[w] = "panicked"
    /\ WorkerRests(w)
    /\ UNCHANGED <<row, submitVars, pending, queue, handlerVars, daemon,
                   historyVars>>

\* The deferred recover fails the job; the worker goes on with the next one.
RecoverPanic(w) ==
    /\ wpc[w] = "panicked"
    /\ Update(wjob[w], "FAILED")
    /\ WorkerRests(w)
    /\ UNCHANGED <<submitVars, pending, queue, handlerVars, daemon, cancelled>>

\* Metrics, the budget verdict and the webhook, none of which is a status.
Report(w) ==
    /\ wpc[w] = "reporting"
    /\ WorkerRests(w)
    /\ UNCHANGED <<row, submitVars, pending, queue, handlerVars, daemon,
                   historyVars>>

Work(w) ==
    \/ Dequeue(w)
    \/ ExitWorker(w)
    \/ Claim(w)
    \/ StartJob(w)
    \/ FinishJob(w)
    \/ Panic(w)
    \/ RecoverPanic(w)
    \/ Report(w)

-------------------------------------------------------------------------------
(* DELETE /jobs/{id}                                                         *)

HandlerStep(h, s) == hpc' = [hpc EXCEPT ![h] = s] /\ UNCHANGED hjob

HandlerReturns(h) ==
    /\ hpc' = [hpc EXCEPT ![h] = "idle"]
    /\ hjob' = [hjob EXCEPT ![h] = NoJob]

\* A request arrives.  A client learns an id from the response to its POST or
\* from GET /jobs, which lists a job as soon as its row exists.
DeleteRequest(h, j) ==
    /\ hpc[h] = "idle"
    /\ daemon = "up"
    /\ sub[j] # "new"
    /\ hpc' = [hpc EXCEPT ![h] = "reading"]
    /\ hjob' = [hjob EXCEPT ![h] = j]
    /\ UNCHANGED <<row, submitVars, pending, queue, workerVars, daemon,
                   historyVars>>

\* s.store.GetJob: a running job is refused with 409.  A failing read is
\* ignored, and the handler goes on.
ReadJob(h) ==
    /\ hpc[h] = "reading"
    /\ \/ row[hjob[h]] = "RUNNING" /\ HandlerReturns(h)
       \/ row[hjob[h]] # "RUNNING" /\ HandlerStep(h, "cancelling")
       \/ RequestCallFails /\ HandlerStep(h, "cancelling")
    /\ UNCHANGED <<row, submitVars, pending, queue, workerVars, daemon,
                   historyVars>>

\* CancelJob takes m.mu.  Only for a pending job does it keep the lock, for
\* the row; the handler ignores the error it returns otherwise.
CancelJob(h) ==
    LET j == hjob[h] IN
    /\ hpc[h] = "cancelling"
    /\ LockFree
    /\ \/ /\ j \in pending
          /\ pending' = pending \ {j}
          /\ cancelled' = cancelled \cup {j}
          /\ HandlerStep(h, "deletingPending")
       \/ /\ j \notin pending
          /\ HandlerStep(h, "deleting")
          /\ UNCHANGED <<pending, cancelled>>
    /\ UNCHANGED <<row, submitVars, queue, workerVars, daemon, faulted>>

\* CancelJob deletes the row and unlocks; the handler ignores its error.
DeletePendingRow(h) ==
    /\ hpc[h] = "deletingPending"
    /\ HandlerStep(h, "deleting")
    /\ \/ /\ row' = Without(row, hjob[h])
          /\ UNCHANGED faulted
       \/ /\ RequestCallFails
          /\ Fault(hjob[h])
          /\ UNCHANGED row
    /\ UNCHANGED <<submitVars, pending, queue, workerVars, daemon, cancelled>>

\* s.store.DeleteJob, for whatever the row holds by now; 204 or 500.
DeleteRow(h) ==
    /\ hpc[h] = "deleting"
    /\ HandlerReturns(h)
    /\ \/ row' = Without(row, hjob[h])
       \/ RequestCallFails /\ UNCHANGED row
    /\ UNCHANGED <<submitVars, pending, queue, workerVars, daemon, historyVars>>

Deletion(h) ==
    \/ ReadJob(h)
    \/ CancelJob(h)
    \/ DeletePendingRow(h)
    \/ DeleteRow(h)

-------------------------------------------------------------------------------
(* Retention and the process                                                 *)

\* store.PurgeOldJobs: which of the finished jobs are old enough is left open.
PurgeJobs ==
    /\ CtxLive
    /\ \E old \in SUBSET Purgeable(row) :
          /\ old # {}
          /\ row' = Purged(row, old)
    /\ UNCHANGED <<submitVars, pending, queue, workerVars, handlerVars, daemon,
                   historyVars>>

\* SIGINT or SIGTERM: httpServer.Shutdown closes the listener.
Signal ==
    /\ daemon = "up"
    /\ daemon' = "draining"
    /\ UNCHANGED <<row, submitVars, pending, queue, workerVars, handlerVars,
                   historyVars>>

\* Shutdown returned, its handlers done or its 20 s over: Stop cancels m.ctx.
CancelContext ==
    /\ daemon = "draining"
    /\ daemon' = "stopping"
    /\ UNCHANGED <<row, submitVars, pending, queue, workerVars, handlerVars,
                   historyVars>>

\* The process ends and what it held in memory with it.
LoseMemory ==
    /\ pending' = {}
    /\ queue' = <<>>
    /\ wpc' = [w \in Worker |-> "idle"]
    /\ wjob' = [w \in Worker |-> NoJob]
    /\ hpc' = [h \in Handler |-> "idle"]
    /\ hjob' = [h \in Handler |-> NoJob]
    /\ sub' = [j \in Job |-> IF sub[j] \in SubmitPhase THEN "aborted" ELSE sub[j]]
    /\ cancelled' = {}
    /\ UNCHANGED <<row, faulted>>

\* m.wg.Wait: the workers and the scheduler have returned.
GoroutinesDone == (\A w \in Worker : wpc[w] = "exited") /\ ~SchedulerBusy

\* Stop returns, the store is closed and main returns.
FinishShutdown ==
    /\ daemon = "stopping"
    /\ GoroutinesDone
    /\ daemon' = "stopped"
    /\ LoseMemory

Crash ==
    /\ Alive
    /\ daemon' = "crashed"
    /\ LoseMemory

\* A new process opens the store and recovers it, before anything else runs.
\* A failing recovery is only logged.
Restart ==
    /\ ~Alive
    /\ daemon' = "up"
    /\ \/ /\ row' = Recovered(row)
          /\ faulted' = {}
       \/ /\ StoreMayFail
          /\ faulted' = faulted \cup {j \in Job : row[j] \in Active}
          /\ UNCHANGED row
    /\ UNCHANGED <<submitVars, pending, queue, workerVars, handlerVars, cancelled>>

Process ==
    \/ PurgeJobs
    \/ Signal
    \/ CancelContext
    \/ FinishShutdown
    \/ Crash
    \/ Restart

Next ==
    \/ \E j \in Job : Submission(j)
    \/ \E w \in Worker : Work(w)
    \/ \E h \in Handler : Deletion(h) \/ \E j \in Job : DeleteRequest(h, j)
    \/ Process

Spec == Init /\ [][Next]_vars

\* Go schedules every goroutine that can run; every store call returns, and a
\* run is bounded by its timeout.  Shutdown waits 20 s at most.  Nothing makes
\* a client call, a signal arrive or a process start.
Fairness ==
    /\ \A j \in Job : WF_vars(sub[j] # "new" /\ Submission(j))
    /\ \A w \in Worker : WF_vars(Work(w))
    /\ \A h \in Handler : WF_vars(Deletion(h))
    /\ WF_vars(CancelContext)
    /\ WF_vars(FinishShutdown)

FairSpec == Spec /\ Fairness

-------------------------------------------------------------------------------
(* Properties                                                                *)

\* The jobs that some worker holds in one of these states.
HeldIn(states) ==
    {j \in Job : \E w \in Worker : wjob[w] = j /\ wpc[w] \in states}

\* The jobs that a cancellation is about to delete.
BeingCancelled == {j \in Job : \E h \in Handler :
                                  hjob[h] = j /\ hpc[h] = "deletingPending"}

\* A PENDING row is always somebody's: SubmitJob is still at work on it, or it
\* waits for a worker that will find it in m.pendingJobs, or a worker claimed
\* it, or a cancellation is deleting it.  Nothing else would ever move it, and
\* it would block its schedule.  Only a failed write may break this.
PendingRowHasOwner ==
    Alive => \A j \in Job \ faulted :
        row[j] = "PENDING" =>
            \/ sub[j] \in SubmitPhase
            \/ j \in pending /\ j \in Queued \cup HeldIn({"taken"})
            \/ j \in HeldIn({"claimed"})
            \/ j \in BeingCancelled

\* A RUNNING row has a worker that runs it: DELETE refuses such a row, so with
\* no worker it would stay until the daemon restarts.  Only a failed write may
\* break this.
RunningRowHasWorker ==
    Alive => \A j \in Job \ faulted :
        row[j] = "RUNNING" => j \in HeldIn({"running", "panicked"})

\* A job that CancelJob took out of m.pendingJobs is never run, however the
\* cancellation interleaves with its submission and with the worker that
\* takes it from the queue.
CancelledNeverRuns ==
    cancelled \cap HeldIn({"claimed", "running", "panicked", "reporting"}) = {}

\* m.pendingJobs does not leak: an entry belongs to a submission in progress or
\* to a job that a worker has still to claim, so every entry is removed again.
PendingIsAccounted ==
    \A j \in pending :
        \/ sub[j] \in {"marked", "sending", "failing"}
        \/ sub[j] = "accepted" /\ j \in Queued \cup HeldIn({"taken"})

\* The table of jobs as a client may know it: an id whose row is gone, or was
\* refused, is removed for good.
Status == [j \in Job |-> IF row[j] # Absent THEN row[j]
                         ELSE IF sub[j] = "new" THEN "none" ELSE "removed"]

Lifecycle == INSTANCE JobLifecycle WITH status <- Status

\* Every step of the goroutines is a step of the life of a job, or leaves the
\* rows as they are: no goroutine overwrites an outcome, starts a job twice or
\* brings a removed one back.
ImplementsLifecycle == Lifecycle!Spec

\* An accepted job gets its outcome, or is deleted, as long as the daemon stays
\* up and no write fails.
AcceptedIsDecided ==
    \A j \in Job :
        sub[j] = "accepted" ~> \/ row[j] \notin Active
                               \/ j \in faulted
                               \/ daemon # "up"

\* Stop returns: no worker, and no goroutine that holds m.mu, keeps the
\* process from ending after a signal.
ShutdownEnds == daemon = "draining" ~> daemon \in {"stopped", "crashed"}

\* "Refuse to delete a job that is actively running: deleting its row would
\* make the worker's in-flight SaveResult fail" (handleDeleteJob).
RunningRowIsNotDeleted ==
    [][\A j \in Job : row[j] = "RUNNING" => row'[j] # Absent]_vars
===============================================================================
