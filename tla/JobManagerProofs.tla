--------------------------- MODULE JobManagerProofs ---------------------------
(***************************************************************************)
(* Theorems about JobManager for every set of jobs, workers and handlers,  *)
(* every queue depth and every choice of faults.  The inductive invariant  *)
(* is built in layers, each proved from the ones before it:                *)
(*   TypeOK, then who holds a job in memory (Ownership), then what its row *)
(*   can hold meanwhile (RowFollowsOwner), and from these the refinement   *)
(*   of JobLifecycle.                                                      *)
(***************************************************************************)
EXTENDS JobManager, TLAPS

-------------------------------------------------------------------------------
(* Typing                                                                    *)

\* A worker or a handler that is at work has a job.
HoldsJob ==
    /\ \A w \in Worker : wpc[w] \notin {"idle", "exited"} => wjob[w] \in Job
    /\ \A w \in Worker : wpc[w] \in {"idle", "exited"} => wjob[w] = NoJob
    /\ \A h \in Handler : hpc[h] # "idle" => hjob[h] \in Job

Typed == TypeOK /\ HoldsJob

LEMMA InitTyped == Init => Typed
  BY JobAssumption, QueueAssumption
  DEF Init, Typed, TypeOK, HoldsJob, RowState, SubmitState, WorkerState,
      HandlerState, DaemonState, AlivePhase

\* The statements of the store keep the table a table.
LEMMA StoreTyping ==
  ASSUME row \in [Job -> RowState]
  PROVE  /\ \A j \in Job : Inserted(row, j) \in [Job -> RowState]
         /\ \A j \in Job : \A s \in RowState :
               WithStatus(row, j, s) \in [Job -> RowState]
         /\ \A j \in Job : Without(row, j) \in [Job -> RowState]
         /\ Recovered(row) \in [Job -> RowState]
         /\ \A old : Purged(row, old) \in [Job -> RowState]
  BY DEF Inserted, WithStatus, Without, Recovered, Purged, RowState, Active,
         Outcome

LEMMA StatusTyping == {"RUNNING", "FAILED"} \cup Outcome \subseteq RowState
  BY DEF RowState, Active, Outcome

LEMMA UpdateTyping ==
  ASSUME TypeOK, NEW j \in Job, NEW s \in RowState, Update(j, s)
  PROVE  row' \in [Job -> RowState] /\ faulted' \in SUBSET Job
  BY StoreTyping DEF TypeOK, Update, Fault

LEMMA SubmissionTyped ==
  ASSUME Typed, NEW j \in Job, Submission(j)
  PROVE  Typed'
  <1> USE DEF Typed, TypeOK, HoldsJob, SubmitStep, SubmitState, SubmitPhase,
              submitVars, workerVars, handlerVars, historyVars
  <1>1. CASE CreateJob(j)
    <2>1. row' \in [Job -> RowState]
      BY <1>1, StoreTyping DEF CreateJob
    <2>2. QED
      BY <1>1, <2>1 DEF CreateJob
  <1>2. CASE MarkPending(j)
    BY <1>2 DEF MarkPending
  <1>3. CASE CheckContext(j)
    BY <1>3 DEF CheckContext
  <1>4. CASE Enqueue(j)
    <2>1. /\ queue' \in Seq(Job)
          /\ Len(queue') <= QueueDepth
      <3>1. /\ queue \in Seq(Job) /\ Len(queue) \in Nat
            /\ Append(queue, j) \in Seq(Job)
            /\ Len(Append(queue, j)) = Len(queue) + 1
        OBVIOUS
      <3>2. Len(queue) <= QueueDepth /\ QueueDepth \in Nat
        BY QueueAssumption
      <3>3. CASE QueueHasRoom
        <4>1. queue' = Append(queue, j)
          BY <1>4, <3>3 DEF Enqueue
        <4>2. QED
          BY <3>1, <3>2, <3>3, <4>1 DEF QueueHasRoom
      <3>4. CASE ~QueueHasRoom
        BY <1>4, <3>1, <3>2, <3>4 DEF Enqueue
      <3>5. QED
        BY <3>3, <3>4
    <2>2. sub' \in [Job -> SubmitState]
      BY <1>4 DEF Enqueue
    <2>3. QED
      BY <1>4, <2>1, <2>2 DEF Enqueue
  <1>5. CASE Unmark(j)
    BY <1>5 DEF Unmark
  <1>6. CASE CleanUp(j)
    BY <1>6, StoreTyping DEF CleanUp, Fault
  <1>7. QED
    BY <1>1, <1>2, <1>3, <1>4, <1>5, <1>6 DEF Submission

LEMMA WorkTyped ==
  ASSUME Typed, NEW w \in Worker, Work(w)
  PROVE  Typed'
  <1> USE DEF Typed, TypeOK, HoldsJob, WorkerState,
              WorkerStep, WorkerRests, submitVars, workerVars, handlerVars,
              historyVars
  <1>1. CASE Dequeue(w)
    BY <1>1, QueueAssumption DEF Dequeue
  <1>2. CASE ExitWorker(w)
    BY <1>2 DEF ExitWorker
  <1>3. CASE Claim(w)
    BY <1>3 DEF Claim
  <1>4. CASE StartJob(w)
    <2>1. Update(wjob[w], "RUNNING") /\ wjob[w] \in Job
      BY <1>4 DEF StartJob, Update
    <2>2. row' \in [Job -> RowState] /\ faulted' \in SUBSET Job
      BY <2>1, UpdateTyping, StatusTyping
    <2>3. QED
      BY <1>4, <2>2 DEF StartJob
  <1>5. CASE FinishJob(w)
    <2>1. PICK s \in Outcome : Update(wjob[w], s) /\ wjob[w] \in Job
      BY <1>5 DEF FinishJob
    <2>2. row' \in [Job -> RowState] /\ faulted' \in SUBSET Job
      BY <2>1, UpdateTyping, StatusTyping
    <2>3. QED
      BY <1>5, <2>2 DEF FinishJob
  <1>6. CASE Panic(w)
    BY <1>6 DEF Panic
  <1>7. CASE RecoverPanic(w)
    <2>1. Update(wjob[w], "FAILED") /\ wjob[w] \in Job
      BY <1>7 DEF RecoverPanic
    <2>2. row' \in [Job -> RowState] /\ faulted' \in SUBSET Job
      BY <2>1, UpdateTyping, StatusTyping
    <2>3. QED
      BY <1>7, <2>2 DEF RecoverPanic
  <1>8. CASE Report(w)
    BY <1>8 DEF Report
  <1>9. QED
    BY <1>1, <1>2, <1>3, <1>4, <1>5, <1>6, <1>7, <1>8 DEF Work

LEMMA HandlerTyped ==
  ASSUME Typed, NEW h \in Handler,
         Deletion(h) \/ \E j \in Job : DeleteRequest(h, j)
  PROVE  Typed'
  <1> USE DEF Typed, TypeOK, HoldsJob, HandlerState,
              HandlerStep, HandlerReturns, submitVars, workerVars, handlerVars,
              historyVars
  <1>1. CASE \E j \in Job : DeleteRequest(h, j)
    BY <1>1 DEF DeleteRequest
  <1>2. CASE ReadJob(h)
    BY <1>2 DEF ReadJob
  <1>3. CASE CancelJob(h)
    BY <1>3 DEF CancelJob
  <1>4. CASE DeletePendingRow(h)
    BY <1>4, StoreTyping DEF DeletePendingRow, Fault
  <1>5. CASE DeleteRow(h)
    BY <1>5, StoreTyping DEF DeleteRow
  <1>6. QED
    BY <1>1, <1>2, <1>3, <1>4, <1>5 DEF Deletion

LEMMA ProcessTyped ==
  ASSUME Typed, Process
  PROVE  Typed'
  <1> USE DEF Typed, TypeOK, HoldsJob, submitVars, workerVars, handlerVars,
              historyVars, DaemonState, AlivePhase
  <1>1. CASE PurgeJobs
    BY <1>1, StoreTyping DEF PurgeJobs
  <1>2. CASE Signal
    BY <1>2 DEF Signal
  <1>3. CASE CancelContext
    BY <1>3 DEF CancelContext
  <1>4. CASE LoseMemory /\ daemon' \in {"stopped", "crashed"}
    BY <1>4, QueueAssumption
    DEF LoseMemory, WorkerState, HandlerState, SubmitState
  <1>5. CASE Restart
    BY <1>5, StoreTyping DEF Restart
  <1>6. QED
    BY <1>1, <1>2, <1>3, <1>4, <1>5 DEF Process, FinishShutdown, Crash

LEMMA NextTyped == Typed /\ [Next]_vars => Typed'
  <1> SUFFICES ASSUME Typed, [Next]_vars PROVE Typed'
    OBVIOUS
  <1>1. CASE Next
    BY <1>1, SubmissionTyped, WorkTyped, HandlerTyped, ProcessTyped DEF Next
  <1>2. CASE UNCHANGED vars
    BY <1>2 DEF vars, Typed, TypeOK, HoldsJob
  <1>3. QED
    BY <1>1, <1>2

\* Every variable keeps its type, and m.jobQueue its capacity, in every
\* execution.
THEOREM TypeCorrect == Spec => []TypeOK
  <1>1. Typed => TypeOK
    BY DEF Typed
  <1>2. QED
    BY <1>1, InitTyped, NextTyped, PTL DEF Spec

-------------------------------------------------------------------------------
(* The queue as the set of what is in it                                     *)

LEMMA AppendElements ==
  ASSUME NEW S, NEW q \in Seq(S), NEW x \in S
  PROVE  {Append(q, x)[i] : i \in 1 .. Len(Append(q, x))}
            = {q[i] : i \in 1 .. Len(q)} \cup {x}
  <1>1. /\ Len(Append(q, x)) = Len(q) + 1
        /\ Append(q, x)[Len(q) + 1] = x
        /\ \A i \in 1 .. Len(q) : Append(q, x)[i] = q[i]
    OBVIOUS
  <1>2. \A i \in 1 .. Len(Append(q, x)) : i \in 1 .. Len(q) \/ i = Len(q) + 1
    BY <1>1
  <1>3. Len(q) + 1 \in 1 .. Len(Append(q, x)) /\ 1 .. Len(q) \subseteq 1 .. Len(Append(q, x))
    BY <1>1
  <1>4. QED
    BY <1>1, <1>2, <1>3

LEMMA AppendDistinct ==
  ASSUME NEW S, NEW q \in Seq(S), NEW x \in S,
         \A i \in 1 .. Len(q) : q[i] # x,
         \A i, k \in 1 .. Len(q) : q[i] = q[k] => i = k
  PROVE  \A i, k \in 1 .. Len(Append(q, x)) :
            Append(q, x)[i] = Append(q, x)[k] => i = k
  OBVIOUS

LEMMA TailElements ==
  ASSUME NEW S, NEW q \in Seq(S), q # <<>>,
         \A i, k \in 1 .. Len(q) : q[i] = q[k] => i = k
  PROVE  /\ Head(q) \in {q[i] : i \in 1 .. Len(q)}
         /\ {Tail(q)[i] : i \in 1 .. Len(Tail(q))}
               = {q[i] : i \in 1 .. Len(q)} \ {Head(q)}
         /\ \A i, k \in 1 .. Len(Tail(q)) : Tail(q)[i] = Tail(q)[k] => i = k
  <1>1. Len(q) \in Nat /\ Len(q) > 0 /\ Head(q) = q[1]
    OBVIOUS
  <1>2. /\ Len(Tail(q)) = Len(q) - 1
        /\ \A i \in 1 .. Len(Tail(q)) : Tail(q)[i] = q[i + 1] /\ i + 1 \in 1 .. Len(q)
    BY <1>1
  <1>3. \A i \in 1 .. Len(q) :
           i # 1 => i - 1 \in 1 .. Len(Tail(q)) /\ q[i] = Tail(q)[i - 1]
    BY <1>1, <1>2
  <1>4. 1 \in 1 .. Len(q)
    BY <1>1
  <1>5. {q[i] : i \in 1 .. Len(q)} \ {Head(q)} \subseteq {Tail(q)[i] : i \in 1 .. Len(Tail(q))}
    BY <1>1, <1>3, <1>4
  <1>6. {Tail(q)[i] : i \in 1 .. Len(Tail(q))} \subseteq {q[i] : i \in 1 .. Len(q)} \ {Head(q)}
    <2> SUFFICES ASSUME NEW i \in 1 .. Len(Tail(q))
                 PROVE  Tail(q)[i] \in {q[k] : k \in 1 .. Len(q)} \ {Head(q)}
      OBVIOUS
    <2>1. Tail(q)[i] = q[i + 1] /\ i + 1 \in 1 .. Len(q) /\ i + 1 # 1
      BY <1>2
    <2>2. QED
      BY <2>1, <1>1, <1>4
  <1>7. \A i, k \in 1 .. Len(Tail(q)) : Tail(q)[i] = Tail(q)[k] => i = k
    <2> SUFFICES ASSUME NEW i \in 1 .. Len(Tail(q)), NEW k \in 1 .. Len(Tail(q)),
                        Tail(q)[i] = Tail(q)[k]
                 PROVE  i = k
      OBVIOUS
    <2>1. i + 1 \in 1 .. Len(q) /\ k + 1 \in 1 .. Len(q) /\ q[i + 1] = q[k + 1]
      BY <1>2
    <2>2. i + 1 = k + 1
      BY <2>1
    <2>3. QED
      BY <2>2
  <1>8. QED
    BY <1>1, <1>4, <1>5, <1>6, <1>7

-------------------------------------------------------------------------------
(* Ownership: who holds a job in memory                                      *)

\* A job is in the queue once, and only after SubmitJob accepted it.
QueueHoldsAccepted ==
    /\ \A i, k \in 1 .. Len(queue) : queue[i] = queue[k] => i = k
    /\ \A j \in Queued : sub[j] = "accepted"

\* The job of a worker left the queue for good, and no other worker has it.
WorkerOwnsJob ==
    /\ \A w \in Worker : wjob[w] # NoJob =>
          sub[wjob[w]] = "accepted" /\ wjob[w] \notin Queued
    /\ \A v, w \in Worker : wjob[v] = wjob[w] /\ wjob[v] # NoJob => v = w

\* A cancelled job is no longer pending, cannot become pending again, and a
\* worker that has it has not looked at m.pendingJobs yet.
CancelledIsInert ==
    \A j \in cancelled :
        /\ j \notin pending
        /\ sub[j] \notin {"new", "created"}
        /\ \A w \in Worker : wjob[w] = j => wpc[w] = "taken"

\* No memory outlives the process.
DeadIsEmpty ==
    ~Alive =>
        /\ queue = <<>> /\ pending = {} /\ cancelled = {}
        /\ \A w \in Worker : wpc[w] = "idle"
        /\ \A h \in Handler : hpc[h] = "idle"
        /\ \A j \in Job : sub[j] \notin SubmitPhase

Ownership ==
    /\ QueueHoldsAccepted
    /\ WorkerOwnsJob
    /\ PendingIsAccounted
    /\ CancelledIsInert
    /\ DeadIsEmpty

\* A step that leaves the queue alone and withdraws no acceptance.
LEMMA QueueKept ==
  ASSUME Typed, QueueHoldsAccepted, UNCHANGED queue,
         \A k \in Job : sub[k] = "accepted" => sub'[k] = "accepted"
  PROVE  QueueHoldsAccepted' /\ Queued' = Queued
  <1>1. Queued' = Queued /\ Queued \subseteq Job
    BY DEF Queued, Typed, TypeOK
  <1>2. QED
    BY <1>1 DEF QueueHoldsAccepted

LEMMA InitOwnership == Init => Ownership
  BY DEF Init, Ownership, QueueHoldsAccepted, WorkerOwnsJob, PendingIsAccounted,
         CancelledIsInert, DeadIsEmpty, Queued, Alive, AlivePhase

\* Only an accepted submission touches the queue, and only a marked one the
\* set of pending jobs.
LEMMA SubmissionOwnership ==
  ASSUME Typed, Ownership, NEW j \in Job, Submission(j)
  PROVE  Ownership'
  <1> USE DEF Typed, TypeOK, HoldsJob, Ownership, SubmitPhase, SubmitStep, submitVars,
              workerVars, handlerVars, historyVars, Alive, AlivePhase
  <1>1. CASE CreateJob(j)
    <2> USE <1>1 DEF CreateJob
    <2>1. QueueHoldsAccepted' /\ Queued' = Queued BY QueueKept
    <2>2. WorkerOwnsJob' BY <2>1 DEF WorkerOwnsJob
    <2>3. PendingIsAccounted' BY <2>1 DEF PendingIsAccounted, HeldIn
    <2>4. CancelledIsInert' BY DEF CancelledIsInert
    <2>5. DeadIsEmpty' BY DEF DeadIsEmpty
    <2>6. QED BY <2>1, <2>2, <2>3, <2>4, <2>5
  <1>2. CASE MarkPending(j)
    <2> USE <1>2 DEF MarkPending
    <2>1. QueueHoldsAccepted' /\ Queued' = Queued BY QueueKept
    <2>2. WorkerOwnsJob' BY <2>1 DEF WorkerOwnsJob
    <2>3. PendingIsAccounted' BY <2>1 DEF PendingIsAccounted, HeldIn
    <2>4. CancelledIsInert' BY DEF CancelledIsInert
    <2>5. DeadIsEmpty' BY DEF DeadIsEmpty
    <2>6. QED BY <2>1, <2>2, <2>3, <2>4, <2>5
  <1>3. CASE CheckContext(j)
    <2> USE <1>3 DEF CheckContext
    <2>1. QueueHoldsAccepted' /\ Queued' = Queued BY QueueKept
    <2>2. WorkerOwnsJob' BY <2>1 DEF WorkerOwnsJob
    <2>3. PendingIsAccounted' BY <2>1 DEF PendingIsAccounted, HeldIn
    <2>4. CancelledIsInert' BY DEF CancelledIsInert
    <2>5. DeadIsEmpty' BY DEF DeadIsEmpty
    <2>6. QED BY <2>1, <2>2, <2>3, <2>4, <2>5
  <1>4. CASE Enqueue(j) /\ QueueHasRoom
    <2> USE <1>4 DEF Enqueue
    <2>1. Queued' = Queued \cup {j} /\ Queued \subseteq Job
      <3>1. queue \in Seq(Job) /\ queue' = Append(queue, j)
        OBVIOUS
      <3>2. QED
        BY <3>1, AppendElements DEF Queued
    <2>2. j \notin Queued
      BY DEF QueueHoldsAccepted
    <2>3. \A i, k \in 1 .. Len(queue') : queue'[i] = queue'[k] => i = k
      <3>1. queue \in Seq(Job) /\ queue' = Append(queue, j)
        OBVIOUS
      <3>2. \A i \in 1 .. Len(queue) : queue[i] # j
        BY <2>2 DEF Queued
      <3>3. \A i, k \in 1 .. Len(queue) : queue[i] = queue[k] => i = k
        BY DEF QueueHoldsAccepted
      <3>4. QED
        BY <3>1, <3>2, <3>3, AppendDistinct
    <2>4. QueueHoldsAccepted' BY <2>1, <2>3 DEF QueueHoldsAccepted
    <2>5. WorkerOwnsJob' BY <2>1 DEF WorkerOwnsJob
    <2>6. PendingIsAccounted' BY <2>1 DEF PendingIsAccounted, HeldIn
    <2>7. CancelledIsInert' BY DEF CancelledIsInert
    <2>8. DeadIsEmpty' BY DEF DeadIsEmpty
    <2>9. QED BY <2>4, <2>5, <2>6, <2>7, <2>8
  <1>5. CASE Enqueue(j) /\ ~QueueHasRoom
    <2> USE <1>5 DEF Enqueue
    <2>1. QueueHoldsAccepted' /\ Queued' = Queued BY QueueKept
    <2>2. WorkerOwnsJob' BY <2>1 DEF WorkerOwnsJob
    <2>3. PendingIsAccounted' BY <2>1 DEF PendingIsAccounted, HeldIn
    <2>4. CancelledIsInert' BY DEF CancelledIsInert
    <2>5. DeadIsEmpty' BY DEF DeadIsEmpty
    <2>6. QED BY <2>1, <2>2, <2>3, <2>4, <2>5
  <1>6. CASE Unmark(j)
    <2> USE <1>6 DEF Unmark
    <2>1. QueueHoldsAccepted' /\ Queued' = Queued BY QueueKept
    <2>2. WorkerOwnsJob' BY <2>1 DEF WorkerOwnsJob
    <2>3. PendingIsAccounted' BY <2>1 DEF PendingIsAccounted, HeldIn
    <2>4. CancelledIsInert' BY DEF CancelledIsInert
    <2>5. DeadIsEmpty' BY DEF DeadIsEmpty
    <2>6. QED BY <2>1, <2>2, <2>3, <2>4, <2>5
  <1>7. CASE CleanUp(j)
    <2> USE <1>7 DEF CleanUp
    <2>1. QueueHoldsAccepted' /\ Queued' = Queued BY QueueKept
    <2>2. WorkerOwnsJob' BY <2>1 DEF WorkerOwnsJob
    <2>3. PendingIsAccounted' BY <2>1 DEF PendingIsAccounted, HeldIn
    <2>4. CancelledIsInert' BY DEF CancelledIsInert
    <2>5. DeadIsEmpty' BY DEF DeadIsEmpty
    <2>6. QED BY <2>1, <2>2, <2>3, <2>4, <2>5
  <1>8. QED
    BY <1>1, <1>2, <1>3, <1>4, <1>5, <1>6, <1>7 DEF Submission

LEMMA HeadLeavesQueue ==
  ASSUME queue \in Seq(Job), queue # <<>>, queue' = Tail(queue),
         \A i, k \in 1 .. Len(queue) : queue[i] = queue[k] => i = k
  PROVE  /\ Head(queue) \in Queued
         /\ Queued' = Queued \ {Head(queue)}
         /\ \A i, k \in 1 .. Len(queue') : queue'[i] = queue'[k] => i = k
  <1>1. /\ Head(queue) \in {queue[i] : i \in 1 .. Len(queue)}
        /\ {Tail(queue)[i] : i \in 1 .. Len(Tail(queue))}
              = {queue[i] : i \in 1 .. Len(queue)} \ {Head(queue)}
        /\ \A i, k \in 1 .. Len(Tail(queue)) :
              Tail(queue)[i] = Tail(queue)[k] => i = k
    BY TailElements
  <1>2. Queued' = {Tail(queue)[i] : i \in 1 .. Len(Tail(queue))}
    BY DEF Queued
  <1>3. QED
    BY <1>1, <1>2 DEF Queued

\* A job goes from the queue to one worker; its claim takes it out of
\* m.pendingJobs before anything is run.
LEMMA WorkOwnership ==
  ASSUME Typed, Ownership, NEW w \in Worker, Work(w)
  PROVE  Ownership'
  <1> USE JobAssumption
      DEF Typed, TypeOK, HoldsJob, Ownership, SubmitPhase, WorkerStep, WorkerRests,
          submitVars, workerVars, handlerVars, historyVars, Alive, AlivePhase
  <1>1. CASE Dequeue(w)
    <2> USE <1>1 DEF Dequeue
    <2> DEFINE j == Head(queue)
    <2>1. /\ j \in Queued
          /\ Queued' = Queued \ {j}
          /\ \A i, k \in 1 .. Len(queue') : queue'[i] = queue'[k] => i = k
      BY HeadLeavesQueue DEF QueueHoldsAccepted
    <2>2. Queued \subseteq Job /\ sub[j] = "accepted"
      BY <2>1 DEF Queued, QueueHoldsAccepted
    <2>3. QueueHoldsAccepted' BY <2>1 DEF QueueHoldsAccepted
    <2>4. WorkerOwnsJob' BY <2>1, <2>2 DEF WorkerOwnsJob
    <2>5. PendingIsAccounted' BY <2>1, <2>2 DEF PendingIsAccounted, HeldIn
    <2>6. CancelledIsInert' BY <2>2 DEF CancelledIsInert
    <2>7. DeadIsEmpty' BY DEF DeadIsEmpty
    <2>8. QED BY <2>3, <2>4, <2>5, <2>6, <2>7
  <1>2. CASE ExitWorker(w)
    <2> USE <1>2 DEF ExitWorker
    <2>1. QueueHoldsAccepted' /\ Queued' = Queued BY QueueKept
    <2>2. WorkerOwnsJob' BY <2>1 DEF WorkerOwnsJob
    <2>3. PendingIsAccounted' BY <2>1 DEF PendingIsAccounted, HeldIn
    <2>4. CancelledIsInert' BY <2>1 DEF CancelledIsInert
    <2>5. DeadIsEmpty' BY DEF DeadIsEmpty
    <2>6. QED BY <2>1, <2>2, <2>3, <2>4, <2>5
  <1>3. CASE Claim(w)
    <2> USE <1>3 DEF Claim
    <2>1. QueueHoldsAccepted' /\ Queued' = Queued BY QueueKept
    <2>2. WorkerOwnsJob' BY <2>1 DEF WorkerOwnsJob
    <2>3. PendingIsAccounted' BY <2>1 DEF PendingIsAccounted, HeldIn
    <2>4. CancelledIsInert' BY <2>1 DEF CancelledIsInert
    <2>5. DeadIsEmpty' BY DEF DeadIsEmpty
    <2>6. QED BY <2>1, <2>2, <2>3, <2>4, <2>5
  <1>4. CASE StartJob(w)
    <2> USE <1>4 DEF StartJob
    <2>1. QueueHoldsAccepted' /\ Queued' = Queued BY QueueKept
    <2>2. WorkerOwnsJob' BY <2>1 DEF WorkerOwnsJob
    <2>3. PendingIsAccounted' BY <2>1 DEF PendingIsAccounted, HeldIn
    <2>4. CancelledIsInert' BY <2>1 DEF CancelledIsInert
    <2>5. DeadIsEmpty' BY DEF DeadIsEmpty
    <2>6. QED BY <2>1, <2>2, <2>3, <2>4, <2>5
  <1>5. CASE FinishJob(w)
    <2> USE <1>5 DEF FinishJob
    <2>1. QueueHoldsAccepted' /\ Queued' = Queued BY QueueKept
    <2>2. WorkerOwnsJob' BY <2>1 DEF WorkerOwnsJob
    <2>3. PendingIsAccounted' BY <2>1 DEF PendingIsAccounted, HeldIn
    <2>4. CancelledIsInert' BY <2>1 DEF CancelledIsInert
    <2>5. DeadIsEmpty' BY DEF DeadIsEmpty
    <2>6. QED BY <2>1, <2>2, <2>3, <2>4, <2>5
  <1>6. CASE Panic(w)
    <2> USE <1>6 DEF Panic
    <2>1. QueueHoldsAccepted' /\ Queued' = Queued BY QueueKept
    <2>2. WorkerOwnsJob' BY <2>1 DEF WorkerOwnsJob
    <2>3. PendingIsAccounted' BY <2>1 DEF PendingIsAccounted, HeldIn
    <2>4. CancelledIsInert' BY <2>1 DEF CancelledIsInert
    <2>5. DeadIsEmpty' BY DEF DeadIsEmpty
    <2>6. QED BY <2>1, <2>2, <2>3, <2>4, <2>5
  <1>7. CASE RecoverPanic(w)
    <2> USE <1>7 DEF RecoverPanic
    <2>1. QueueHoldsAccepted' /\ Queued' = Queued BY QueueKept
    <2>2. WorkerOwnsJob' BY <2>1 DEF WorkerOwnsJob
    <2>3. PendingIsAccounted' BY <2>1 DEF PendingIsAccounted, HeldIn
    <2>4. CancelledIsInert' BY <2>1 DEF CancelledIsInert
    <2>5. DeadIsEmpty' BY DEF DeadIsEmpty
    <2>6. QED BY <2>1, <2>2, <2>3, <2>4, <2>5
  <1>8. CASE Report(w)
    <2> USE <1>8 DEF Report
    <2>1. QueueHoldsAccepted' /\ Queued' = Queued BY QueueKept
    <2>2. WorkerOwnsJob' BY <2>1 DEF WorkerOwnsJob
    <2>3. PendingIsAccounted' BY <2>1 DEF PendingIsAccounted, HeldIn
    <2>4. CancelledIsInert' BY <2>1 DEF CancelledIsInert
    <2>5. DeadIsEmpty' BY DEF DeadIsEmpty
    <2>6. QED BY <2>1, <2>2, <2>3, <2>4, <2>5
  <1>9. QED
    BY <1>1, <1>2, <1>3, <1>4, <1>5, <1>6, <1>7, <1>8 DEF Work

\* A cancellation takes from m.pendingJobs a job that is in submission, in the
\* queue, or in the hands of a worker that has still to look.
LEMMA HandlerOwnership ==
  ASSUME Typed, Ownership, NEW h \in Handler,
         Deletion(h) \/ \E j \in Job : DeleteRequest(h, j)
  PROVE  Ownership'
  <1> USE JobAssumption
      DEF Typed, TypeOK, HoldsJob, Ownership, SubmitPhase, HandlerStep, HandlerReturns,
          submitVars, workerVars, handlerVars, historyVars, Alive, AlivePhase
  <1>1. CASE \E j \in Job : DeleteRequest(h, j)
    <2> USE <1>1 DEF DeleteRequest
    <2>1. QueueHoldsAccepted' /\ Queued' = Queued BY QueueKept
    <2>2. WorkerOwnsJob' BY <2>1 DEF WorkerOwnsJob
    <2>3. PendingIsAccounted' BY <2>1 DEF PendingIsAccounted, HeldIn
    <2>4. CancelledIsInert' BY <2>1 DEF CancelledIsInert
    <2>5. DeadIsEmpty' BY DEF DeadIsEmpty
    <2>6. QED BY <2>1, <2>2, <2>3, <2>4, <2>5
  <1>2. CASE ReadJob(h)
    <2> USE <1>2 DEF ReadJob
    <2>1. QueueHoldsAccepted' /\ Queued' = Queued BY QueueKept
    <2>2. WorkerOwnsJob' BY <2>1 DEF WorkerOwnsJob
    <2>3. PendingIsAccounted' BY <2>1 DEF PendingIsAccounted, HeldIn
    <2>4. CancelledIsInert' BY <2>1 DEF CancelledIsInert
    <2>5. DeadIsEmpty' BY DEF DeadIsEmpty
    <2>6. QED BY <2>1, <2>2, <2>3, <2>4, <2>5
  <1>3. CASE CancelJob(h)
    <2> USE <1>3 DEF CancelJob
    <2>1. QueueHoldsAccepted' /\ Queued' = Queued BY QueueKept
    <2>2. WorkerOwnsJob' BY <2>1 DEF WorkerOwnsJob
    <2>3. PendingIsAccounted' BY <2>1 DEF PendingIsAccounted, HeldIn
    <2>4. CancelledIsInert' BY <2>1 DEF CancelledIsInert, PendingIsAccounted, WorkerOwnsJob, HeldIn
    <2>5. DeadIsEmpty' BY DEF DeadIsEmpty
    <2>6. QED BY <2>1, <2>2, <2>3, <2>4, <2>5
  <1>4. CASE DeletePendingRow(h)
    <2> USE <1>4 DEF DeletePendingRow
    <2>1. QueueHoldsAccepted' /\ Queued' = Queued BY QueueKept
    <2>2. WorkerOwnsJob' BY <2>1 DEF WorkerOwnsJob
    <2>3. PendingIsAccounted' BY <2>1 DEF PendingIsAccounted, HeldIn
    <2>4. CancelledIsInert' BY <2>1 DEF CancelledIsInert
    <2>5. DeadIsEmpty' BY DEF DeadIsEmpty
    <2>6. QED BY <2>1, <2>2, <2>3, <2>4, <2>5
  <1>5. CASE DeleteRow(h)
    <2> USE <1>5 DEF DeleteRow
    <2>1. QueueHoldsAccepted' /\ Queued' = Queued BY QueueKept
    <2>2. WorkerOwnsJob' BY <2>1 DEF WorkerOwnsJob
    <2>3. PendingIsAccounted' BY <2>1 DEF PendingIsAccounted, HeldIn
    <2>4. CancelledIsInert' BY <2>1 DEF CancelledIsInert
    <2>5. DeadIsEmpty' BY DEF DeadIsEmpty
    <2>6. QED BY <2>1, <2>2, <2>3, <2>4, <2>5
  <1>6. QED
    BY <1>1, <1>2, <1>3, <1>4, <1>5 DEF Deletion

LEMMA ProcessOwnership ==
  ASSUME Typed, Ownership, Process
  PROVE  Ownership'
  <1> USE DEF Typed, TypeOK, HoldsJob, Ownership, SubmitPhase,
              submitVars, workerVars, handlerVars, historyVars, Alive, AlivePhase
  <1>1. CASE LoseMemory /\ ~Alive'
    <2> USE <1>1 DEF LoseMemory
    <2>1. Queued' = {} BY DEF Queued
    <2>2. QueueHoldsAccepted' BY <2>1 DEF QueueHoldsAccepted
    <2>3. WorkerOwnsJob' BY DEF WorkerOwnsJob
    <2>4. PendingIsAccounted' BY DEF PendingIsAccounted
    <2>5. CancelledIsInert' BY DEF CancelledIsInert
    <2>6. DeadIsEmpty' BY DEF DeadIsEmpty
    <2>7. QED BY <2>2, <2>3, <2>4, <2>5, <2>6
  <1>2. CASE PurgeJobs \/ Signal \/ CancelContext \/ Restart
    <2> USE <1>2 DEF PurgeJobs, Signal, CancelContext, Restart
    <2>1. QueueHoldsAccepted' /\ Queued' = Queued BY QueueKept
    <2>2. WorkerOwnsJob' BY <2>1 DEF WorkerOwnsJob
    <2>3. PendingIsAccounted' BY <2>1 DEF PendingIsAccounted, HeldIn
    <2>4. CancelledIsInert' BY DEF CancelledIsInert
    <2>5. DeadIsEmpty' BY DEF DeadIsEmpty
    <2>6. QED BY <2>1, <2>2, <2>3, <2>4, <2>5
  <1>3. QED
    BY <1>1, <1>2 DEF Process, FinishShutdown, Crash

LEMMA NextOwnership == Typed /\ Ownership /\ [Next]_vars => Ownership'
  <1> SUFFICES ASSUME Typed, Ownership, [Next]_vars PROVE Ownership'
    OBVIOUS
  <1>1. CASE Next
    BY <1>1, SubmissionOwnership, WorkOwnership, HandlerOwnership,
       ProcessOwnership DEF Next
  <1>2. CASE UNCHANGED vars
    BY <1>2 DEF vars, Ownership, QueueHoldsAccepted, WorkerOwnsJob,
       PendingIsAccounted, CancelledIsInert, DeadIsEmpty, Queued, HeldIn, Alive
  <1>3. QED
    BY <1>1, <1>2

LEMMA OwnershipHolds == Spec => [](Typed /\ Ownership)
  BY InitTyped, NextTyped, InitOwnership, NextOwnership, PTL DEF Spec

\* No entry of m.pendingJobs is left over: each belongs to a submission in
\* progress or to a job that a worker has still to claim.
THEOREM PendingAccounted == Spec => []PendingIsAccounted
  <1>1. Ownership => PendingIsAccounted
    BY DEF Ownership
  <1>2. QED
    BY <1>1, OwnershipHolds, PTL

\* A job that CancelJob took out of m.pendingJobs is never run.
THEOREM CancelledJobsNeverRun == Spec => []CancelledNeverRuns
  <1>1. Ownership => CancelledNeverRuns
    BY DEF Ownership, CancelledIsInert, CancelledNeverRuns, HeldIn
  <1>2. QED
    BY <1>1, OwnershipHolds, PTL

-------------------------------------------------------------------------------
(* What a row can hold, given who holds its job                              *)

Waiting == {"PENDING", Absent}
Executing == {"RUNNING", Absent}

\* Until a worker starts it, the row of a submitted job is PENDING or deleted;
\* while a worker runs it, RUNNING or deleted.
RowFollowsOwner ==
    /\ \A j \in Job : sub[j] = "new" => row[j] = Absent
    /\ \A j \in Job : sub[j] \in SubmitPhase => row[j] \in Waiting
    /\ \A j \in Queued : row[j] \in Waiting
    /\ \A w \in Worker : wpc[w] \in {"taken", "claimed"} => row[wjob[w]] \in Waiting
    /\ \A w \in Worker : wpc[w] \in {"running", "panicked"} => row[wjob[w]] \in Executing

\* The rows of other jobs are not touched, and a row that is touched is deleted.
LEMMA RowsOnlyDeleted ==
  ASSUME Typed, RowFollowsOwner, Queued' = Queued, UNCHANGED <<sub, wpc, wjob>>,
         \A k \in Job : row'[k] \in {row[k], Absent}
  PROVE  RowFollowsOwner'
  <1>1. Queued \subseteq Job
    BY DEF Queued, Typed, TypeOK
  <1>2. QED
    BY <1>1 DEF Typed, TypeOK, HoldsJob, RowFollowsOwner, Waiting, Executing, SubmitPhase

LEMMA InitRow == Init => RowFollowsOwner
  BY DEF Init, RowFollowsOwner, Queued, SubmitPhase

LEMMA SubmissionRow ==
  ASSUME Typed, Ownership, RowFollowsOwner, NEW j \in Job, Submission(j)
  PROVE  RowFollowsOwner'
  <1> USE DEF Typed, TypeOK, HoldsJob, Ownership, QueueHoldsAccepted, WorkerOwnsJob,
              SubmitPhase, SubmitStep, Waiting, Executing, RowFollowsOwner,
              submitVars, workerVars, handlerVars, historyVars
  <1>0. Queued \subseteq Job
    BY DEF Queued
  <1>1. CASE CreateJob(j)
    <2>1. /\ Queued' = Queued
          /\ sub[j] = "new" /\ sub'[j] \in {"created", "rejected"}
          /\ \A k \in Job \ {j} : row'[k] = row[k] /\ sub'[k] = sub[k]
          /\ row'[j] \in Waiting
          /\ UNCHANGED <<wpc, wjob>>
      BY <1>1, QueueKept DEF CreateJob, Inserted
    <2>2. j \notin Queued /\ \A w \in Worker : wjob[w] # j
      BY <2>1, JobAssumption
    <2>3. QED
      BY <1>0, <2>1, <2>2
  <1>2. CASE MarkPending(j)
    BY <1>2, QueueKept DEF MarkPending
  <1>3. CASE CheckContext(j)
    BY <1>3, QueueKept DEF CheckContext
  <1>4. CASE Enqueue(j) /\ QueueHasRoom
    <2>1. queue \in Seq(Job) /\ queue' = Append(queue, j)
      BY <1>4 DEF Enqueue
    <2>2. Queued' = Queued \cup {j}
      BY <2>1, AppendElements DEF Queued
    <2>3. QED
      BY <1>4, <2>2 DEF Enqueue
  <1>5. CASE Enqueue(j) /\ ~QueueHasRoom
    BY <1>5, QueueKept DEF Enqueue
  <1>6. CASE Unmark(j)
    BY <1>6, QueueKept DEF Unmark
  <1>7. CASE CleanUp(j)
    BY <1>0, <1>7, QueueKept DEF CleanUp, Without
  <1>8. QED
    BY <1>1, <1>2, <1>3, <1>4, <1>5, <1>6, <1>7 DEF Submission

LEMMA WorkRow ==
  ASSUME Typed, Ownership, RowFollowsOwner, NEW w \in Worker, Work(w)
  PROVE  RowFollowsOwner'
  <1> USE JobAssumption
      DEF Typed, TypeOK, HoldsJob, Ownership, QueueHoldsAccepted, WorkerOwnsJob,
          SubmitPhase, WorkerStep, WorkerRests, Waiting, Executing, RowFollowsOwner,
          submitVars, workerVars, handlerVars, historyVars
  <1>0. Queued \subseteq Job
    BY DEF Queued
  <1>1. CASE Dequeue(w)
    <2>1. Head(queue) \in Queued /\ Queued' = Queued \ {Head(queue)}
      BY <1>1, HeadLeavesQueue DEF Dequeue
    <2>2. QED
      BY <1>0, <1>1, <2>1 DEF Dequeue
  <1>2. CASE ExitWorker(w)
    BY <1>0, <1>2, QueueKept DEF ExitWorker
  <1>3. CASE Claim(w)
    BY <1>0, <1>3, QueueKept DEF Claim
  <1>4. CASE StartJob(w)
    BY <1>0, <1>4, QueueKept DEF StartJob, WithStatus
  <1>5. CASE FinishJob(w)
    BY <1>0, <1>5, QueueKept DEF FinishJob, Update, WithStatus
  <1>6. CASE Panic(w)
    BY <1>0, <1>6, QueueKept DEF Panic
  <1>7. CASE RecoverPanic(w)
    BY <1>0, <1>7, QueueKept DEF RecoverPanic, Update, WithStatus
  <1>8. CASE Report(w)
    BY <1>0, <1>8, QueueKept DEF Report
  <1>9. QED
    BY <1>1, <1>2, <1>3, <1>4, <1>5, <1>6, <1>7, <1>8 DEF Work

LEMMA HandlerRow ==
  ASSUME Typed, Ownership, RowFollowsOwner, NEW h \in Handler,
         Deletion(h) \/ \E j \in Job : DeleteRequest(h, j)
  PROVE  RowFollowsOwner'
  <1>1. UNCHANGED <<sub, wpc, wjob, queue>>
    BY DEF Deletion, DeleteRequest, ReadJob, CancelJob, DeletePendingRow, DeleteRow,
           submitVars, workerVars
  <1>2. \A k \in Job : row'[k] \in {row[k], Absent}
    BY DEF Deletion, DeleteRequest, ReadJob, CancelJob, DeletePendingRow, DeleteRow,
           Without, Typed, TypeOK
  <1>3. Queued' = Queued
    BY <1>1 DEF Queued
  <1>4. QED
    BY <1>1, <1>2, <1>3, RowsOnlyDeleted

LEMMA ProcessRow ==
  ASSUME Typed, Ownership, RowFollowsOwner, Process
  PROVE  RowFollowsOwner'
  <1> USE DEF submitVars, workerVars, handlerVars, historyVars
  <1>1. CASE PurgeJobs \/ Signal \/ CancelContext
    <2>1. UNCHANGED <<sub, wpc, wjob, queue>>
      BY <1>1 DEF PurgeJobs, Signal, CancelContext
    <2>2. \A k \in Job : row'[k] \in {row[k], Absent}
      BY <1>1 DEF PurgeJobs, Signal, CancelContext, Purged, Typed, TypeOK
    <2>3. Queued' = Queued
      BY <2>1 DEF Queued
    <2>4. QED
      BY <2>1, <2>2, <2>3, RowsOnlyDeleted
  <1>2. CASE LoseMemory
    <2>1. Queued' = {}
      BY <1>2 DEF LoseMemory, Queued
    <2>2. QED
      BY <1>2, <2>1 DEF LoseMemory, RowFollowsOwner, Typed, TypeOK, SubmitState, SubmitPhase
  <1>3. CASE Restart
    <2>1. /\ Queued' = {}
          /\ \A w \in Worker : wpc'[w] = "idle"
          /\ \A j \in Job : sub'[j] \notin SubmitPhase /\ sub'[j] = sub[j]
      BY <1>3 DEF Restart, Ownership, DeadIsEmpty, Queued
    <2>2. \A j \in Job : row[j] = Absent => row'[j] = Absent
      BY <1>3 DEF Restart, Recovered, Active, Absent, Typed, TypeOK
    <2>3. QED
      BY <2>1, <2>2 DEF RowFollowsOwner
  <1>4. QED
    BY <1>1, <1>2, <1>3 DEF Process, FinishShutdown, Crash

LEMMA NextRow == Typed /\ Ownership /\ RowFollowsOwner /\ [Next]_vars => RowFollowsOwner'
  <1> SUFFICES ASSUME Typed, Ownership, RowFollowsOwner, [Next]_vars
               PROVE  RowFollowsOwner'
    OBVIOUS
  <1>1. CASE Next
    BY <1>1, SubmissionRow, WorkRow, HandlerRow, ProcessRow DEF Next
  <1>2. CASE UNCHANGED vars
    BY <1>2 DEF vars, RowFollowsOwner, Queued
  <1>3. QED
    BY <1>1, <1>2

LEMMA RowHolds == Spec => [](Typed /\ Ownership /\ RowFollowsOwner)
  BY InitTyped, NextTyped, InitOwnership, NextOwnership, InitRow, NextRow, PTL DEF Spec

-------------------------------------------------------------------------------
(* JobManager implements JobLifecycle                                        *)

Known == {j \in Job : sub[j] # "new"}

\* The abstract view of a step that writes one row.
LEMMA StatusMoves ==
  ASSUME Typed, NEW j \in Known, NEW s \in RowState, Known' = Known,
         row' = [row EXCEPT ![j] = s]
  PROVE  Status' = [Status EXCEPT ![j] = IF s = Absent THEN "removed" ELSE s]
  BY DEF Typed, TypeOK, Known, Status, Absent

LEMMA StatusStutters ==
  ASSUME Typed, Known' = Known, row' = row
  PROVE  Status' = Status
  BY DEF Typed, TypeOK, Known, Status

LEMMA InitRefines == Init => Lifecycle!Init
  BY DEF Init, Lifecycle!Init, Status

\* A deletion removes a stored job, or one that is already gone.
LEMMA DeletionRefines ==
  ASSUME Typed, NEW j \in Job, RowFollowsOwner, Known' = Known, row' = Without(row, j)
  PROVE  [Lifecycle!Next]_Status
  <1>1. CASE row[j] = Absent
    <2>1. row' = row
      BY <1>1 DEF Without, Typed, TypeOK
    <2>2. QED
      BY <2>1, StatusStutters
  <1>2. CASE row[j] # Absent
    <2>1. j \in Known
      BY <1>2 DEF Known, RowFollowsOwner
    <2>2. Status' = [Status EXCEPT ![j] = "removed"]
      BY <2>1, StatusMoves DEF Without, RowState
    <2>3. Status[j] \in Lifecycle!Stored
      BY <1>2 DEF Status, Lifecycle!Stored, Lifecycle!Unfinished, Lifecycle!Outcome,
                  Typed, TypeOK, RowState, Active, Outcome
    <2>4. QED
      BY <2>2, <2>3 DEF Lifecycle!Next, Lifecycle!Remove, Lifecycle!Move
  <1>3. QED
    BY <1>1, <1>2

LEMMA SubmissionRefines ==
  ASSUME Typed, RowFollowsOwner, NEW j \in Job, Submission(j)
  PROVE  [Lifecycle!Next]_Status
  <1> USE DEF Typed, TypeOK, SubmitStep
  <1>1. CASE CreateJob(j)
    <2>1. Status[j] = "none"
      BY <1>1 DEF CreateJob, RowFollowsOwner, Status
    <2>2. CASE row' = Inserted(row, j)
      <3>1. Status' = [Status EXCEPT ![j] = "PENDING"]
        BY <1>1, <2>2 DEF CreateJob, Inserted, Status, Absent
      <3>2. QED
        BY <2>1, <3>1 DEF Lifecycle!Next, Lifecycle!Submit, Lifecycle!Move
    <2>3. CASE row' = row /\ sub' = [sub EXCEPT ![j] = "rejected"]
      <3>1. Status' = [Status EXCEPT ![j] = "removed"]
        BY <1>1, <2>3 DEF CreateJob, Status, Absent, RowFollowsOwner
      <3>2. QED
        BY <2>1, <3>1 DEF Lifecycle!Next, Lifecycle!Refuse, Lifecycle!Move
    <2>4. QED
      BY <1>1, <2>2, <2>3 DEF CreateJob
  <1>2. CASE MarkPending(j) \/ CheckContext(j) \/ Enqueue(j) \/ Unmark(j)
    <2>1. Known' = Known /\ row' = row
      BY <1>2 DEF MarkPending, CheckContext, Enqueue, Unmark, Known
    <2>2. QED
      BY <2>1, StatusStutters
  <1>3. CASE CleanUp(j)
    <2>1. Known' = Known
      BY <1>3 DEF CleanUp, Known
    <2>2. QED
      BY <1>3, <2>1, StatusStutters, DeletionRefines DEF CleanUp
  <1>4. QED
    BY <1>1, <1>2, <1>3 DEF Submission

\* An update by the worker that runs the job is Start or Finish, or touches a
\* job that was deleted in the meantime.
LEMMA UpdateRefines ==
  ASSUME Typed, Ownership, RowFollowsOwner, NEW w \in Worker,
         NEW s \in Outcome \cup {"RUNNING"}, UNCHANGED sub,
         IF s = "RUNNING" THEN wpc[w] = "claimed" ELSE wpc[w] \in {"running", "panicked"},
         row' = WithStatus(row, wjob[w], s)
  PROVE  [Lifecycle!Next]_Status
  <1> DEFINE j == wjob[w]
  <1>1. j \in Job /\ j \in Known /\ Known' = Known
    BY JobAssumption DEF Typed, HoldsJob, Ownership, WorkerOwnsJob, Known
  <1>2. CASE row[j] = Absent
    BY <1>1, <1>2, StatusStutters DEF WithStatus, Typed, TypeOK
  <1>3. CASE row[j] # Absent
    <2>1. s \in RowState /\ s # Absent
      BY DEF RowState, Outcome, Active, Absent
    <2>2. row' = [row EXCEPT ![j] = s]
      BY <1>3 DEF WithStatus
    <2>3. Status' = [Status EXCEPT ![j] = s]
      BY <1>1, <2>1, <2>2, StatusMoves
    <2>4. Status[j] = IF s = "RUNNING" THEN "PENDING" ELSE "RUNNING"
      BY <1>1, <1>3 DEF RowFollowsOwner, Waiting, Executing, Status, Outcome, Absent
    <2>5. CASE s = "RUNNING"
      BY <1>1, <2>3, <2>4, <2>5 DEF Lifecycle!Next, Lifecycle!Start, Lifecycle!Move
    <2>6. CASE s # "RUNNING"
      BY <1>1, <2>3, <2>4, <2>6
      DEF Lifecycle!Next, Lifecycle!Finish, Lifecycle!Move, Lifecycle!Outcome, Outcome
    <2>7. QED
      BY <2>5, <2>6
  <1>4. QED
    BY <1>2, <1>3

LEMMA WorkRefines ==
  ASSUME Typed, Ownership, RowFollowsOwner, NEW w \in Worker, Work(w)
  PROVE  [Lifecycle!Next]_Status
  <1>1. UNCHANGED sub /\ Known' = Known
    BY DEF Work, Dequeue, ExitWorker, Claim, StartJob, FinishJob, Panic, RecoverPanic,
           Report, submitVars, Known
  <1>2. CASE row' = row
    BY <1>1, <1>2, StatusStutters
  <1>3. CASE StartJob(w) /\ row' # row
    BY <1>1, <1>3, UpdateRefines DEF StartJob
  <1>4. CASE FinishJob(w) /\ row' # row
    <2>1. PICK s \in Outcome : row' = WithStatus(row, wjob[w], s)
      BY <1>4 DEF FinishJob, Update
    <2>2. s # "RUNNING" /\ wpc[w] = "running"
      BY <1>4 DEF Outcome, FinishJob
    <2>3. QED
      BY <1>1, <2>1, <2>2, UpdateRefines
  <1>5. CASE RecoverPanic(w) /\ row' # row
    <2>1. row' = WithStatus(row, wjob[w], "FAILED") /\ wpc[w] = "panicked"
      BY <1>5 DEF RecoverPanic, Update
    <2>2. QED
      BY <1>1, <2>1, UpdateRefines DEF Outcome
  <1>6. QED
    BY <1>2, <1>3, <1>4, <1>5 DEF Work, Dequeue, ExitWorker, Claim, Panic, Report

LEMMA HandlerRefines ==
  ASSUME Typed, RowFollowsOwner, NEW h \in Handler,
         Deletion(h) \/ \E j \in Job : DeleteRequest(h, j)
  PROVE  [Lifecycle!Next]_Status
  <1>1. Known' = Known
    BY DEF Deletion, DeleteRequest, ReadJob, CancelJob, DeletePendingRow, DeleteRow,
           submitVars, Known
  <1>2. row' = row \/ (hjob[h] \in Job /\ row' = Without(row, hjob[h]))
    <2>1. CASE DeletePendingRow(h) \/ DeleteRow(h)
      BY <2>1 DEF DeletePendingRow, DeleteRow, Typed, HoldsJob
    <2>2. CASE ReadJob(h) \/ CancelJob(h) \/ \E j \in Job : DeleteRequest(h, j)
      BY <2>2 DEF ReadJob, CancelJob, DeleteRequest
    <2>3. QED
      BY <2>1, <2>2 DEF Deletion
  <1>3. QED
    BY <1>1, <1>2, StatusStutters, DeletionRefines

LEMMA ProcessRefines ==
  ASSUME Typed, Ownership, RowFollowsOwner, Process
  PROVE  [Lifecycle!Next]_Status
  <1> USE DEF Typed, TypeOK, submitVars
  <1>1. CASE PurgeJobs
    <2>1. PICK old \in SUBSET Purgeable(row) : row' = Purged(row, old)
      BY <1>1 DEF PurgeJobs
    <2>2. sub' = sub
      BY <1>1 DEF PurgeJobs
    <2>3. \A j \in old : j \in Job /\ row[j] \in Outcome /\ sub[j] # "new"
      BY <2>1 DEF Purgeable, RowFollowsOwner, Outcome, Absent
    <2>4. old \in SUBSET {j \in Job : Status[j] \in Lifecycle!Outcome}
      BY <2>3 DEF Status, Outcome, Lifecycle!Outcome, Absent
    <2>5. Status' = [j \in Job |-> IF j \in old THEN "removed" ELSE Status[j]]
      BY <2>1, <2>2, <2>3 DEF Status, Purged
    <2>6. QED
      BY <2>4, <2>5 DEF Lifecycle!Next, Lifecycle!Expire
  <1>2. CASE Signal \/ CancelContext \/ LoseMemory
    <2>1. Known' = Known /\ row' = row
      BY <1>2 DEF Signal, CancelContext, LoseMemory, Known, SubmitPhase
    <2>2. QED
      BY <2>1, StatusStutters
  <1>3. CASE Restart
    <2>1. CASE row' = Recovered(row)
      <3>1. sub' = sub
        BY <1>3 DEF Restart
      <3>2. Status' = [j \in Job |-> IF Status[j] \in Lifecycle!Unfinished
                                     THEN "FAILED" ELSE Status[j]]
        BY <2>1, <3>1 DEF Recovered, Status, Lifecycle!Unfinished, Active, Absent
      <3>3. QED
        BY <3>2 DEF Lifecycle!Next, Lifecycle!Interrupt
    <2>2. CASE row' = row
      BY <1>3, <2>2, StatusStutters DEF Restart, Known
    <2>3. QED
      BY <1>3, <2>1, <2>2 DEF Restart
  <1>4. QED
    BY <1>1, <1>2, <1>3 DEF Process, FinishShutdown, Crash

LEMMA NextRefines ==
  Typed /\ Ownership /\ RowFollowsOwner /\ [Next]_vars => [Lifecycle!Next]_Status
  <1> SUFFICES ASSUME Typed, Ownership, RowFollowsOwner, [Next]_vars
               PROVE  [Lifecycle!Next]_Status
    OBVIOUS
  <1>1. CASE Next
    BY <1>1, SubmissionRefines, WorkRefines, HandlerRefines, ProcessRefines DEF Next
  <1>2. CASE UNCHANGED vars
    BY <1>2, StatusStutters DEF vars, Known
  <1>3. QED
    BY <1>1, <1>2

\* However its goroutines, its faults and its restarts interleave, the daemon
\* moves every job as JobLifecycle says.
THEOREM RefinesLifecycle == Spec => ImplementsLifecycle
  BY InitRefines, RowHolds, NextRefines, PTL
  DEF Spec, ImplementsLifecycle, Lifecycle!Spec

-------------------------------------------------------------------------------
(* No row is stranded but by a failed write                                  *)

\* The inductive form of PendingRowHasOwner: whoever will move a PENDING row
\* on, and PendingIsAccounted then says where a pending job is.
PendingRowIsMoved ==
    Alive => \A j \in Job \ faulted :
        row[j] = "PENDING" => \/ sub[j] \in {"created", "failing", "cleaning"}
                              \/ j \in pending
                              \/ j \in HeldIn({"claimed"})
                              \/ j \in BeingCancelled

NotStranded == PendingRowIsMoved /\ RunningRowHasWorker

LEMMA InitNotStranded == Init => NotStranded
  BY DEF Init, NotStranded, PendingRowIsMoved, RunningRowHasWorker, Absent

LEMMA SubmissionNotStranded ==
  ASSUME Typed, NotStranded, NEW j \in Job, Submission(j)
  PROVE  NotStranded'
  <1> USE DEF Typed, TypeOK, NotStranded, PendingRowIsMoved, RunningRowHasWorker,
              HeldIn, BeingCancelled, Alive, SubmitStep, submitVars, workerVars,
              handlerVars, historyVars
  <1>1. CASE CreateJob(j)
    <2>1. /\ sub'[j] # "new"
          /\ \A k \in Job \ {j} : row'[k] = row[k] /\ sub'[k] = sub[k]
          /\ \/ sub'[j] = "created" /\ row'[j] = "PENDING"
             \/ row'[j] = row[j]
          /\ UNCHANGED <<pending, wpc, wjob, hpc, hjob, daemon, faulted>>
      BY <1>1 DEF CreateJob, Inserted
    <2>2. sub[j] = "new"
      BY <1>1 DEF CreateJob
    <2>3. PendingRowIsMoved'
      BY <2>1, <2>2
    <2>4. RunningRowHasWorker'
      BY <2>1
    <2>5. QED
      BY <2>3, <2>4
  <1>2. CASE MarkPending(j)
    BY <1>2 DEF MarkPending
  <1>3. CASE CheckContext(j)
    BY <1>3 DEF CheckContext
  <1>4. CASE Enqueue(j)
    BY <1>4 DEF Enqueue
  <1>5. CASE Unmark(j)
    BY <1>5 DEF Unmark
  <1>6. CASE CleanUp(j)
    BY <1>6 DEF CleanUp, Without, Fault, Absent
  <1>7. QED
    BY <1>1, <1>2, <1>3, <1>4, <1>5, <1>6 DEF Submission

LEMMA WorkNotStranded ==
  ASSUME Typed, Ownership, NotStranded, NEW w \in Worker, Work(w)
  PROVE  NotStranded'
  <1> USE JobAssumption
      DEF Typed, TypeOK, HoldsJob, Ownership, WorkerOwnsJob, NotStranded,
          PendingRowIsMoved, RunningRowHasWorker, HeldIn, BeingCancelled, Alive,
          WorkerStep, WorkerRests, submitVars, workerVars, handlerVars, historyVars
  <1>1. CASE Dequeue(w)
    BY <1>1 DEF Dequeue
  <1>2. CASE ExitWorker(w)
    BY <1>2 DEF ExitWorker
  <1>3. CASE Claim(w)
    <2>1. /\ wpc[w] = "taken" /\ wjob[w] \in Job
          /\ pending' = pending \ {wjob[w]}
          /\ wjob[w] \in pending => wpc'[w] = "claimed" /\ wjob'[w] = wjob[w]
          /\ \A v \in Worker \ {w} : wpc'[v] = wpc[v] /\ wjob'[v] = wjob[v]
          /\ UNCHANGED <<row, sub, hpc, hjob, daemon, faulted>>
      BY <1>3 DEF Claim
    <2>2. PendingRowIsMoved'
      BY <2>1
    <2>3. RunningRowHasWorker'
      BY <2>1
    <2>4. QED
      BY <2>2, <2>3
  <1>4. CASE StartJob(w)
    BY <1>4 DEF StartJob, WithStatus, Fault, Absent
  <1>5. CASE FinishJob(w)
    BY <1>5 DEF FinishJob, Update, WithStatus, Fault, Absent, Outcome
  <1>6. CASE Panic(w)
    BY <1>6 DEF Panic
  <1>7. CASE RecoverPanic(w)
    BY <1>7 DEF RecoverPanic, Update, WithStatus, Fault, Absent
  <1>8. CASE Report(w)
    BY <1>8 DEF Report
  <1>9. QED
    BY <1>1, <1>2, <1>3, <1>4, <1>5, <1>6, <1>7, <1>8 DEF Work

LEMMA HandlerNotStranded ==
  ASSUME Typed, NotStranded, NEW h \in Handler,
         Deletion(h) \/ \E j \in Job : DeleteRequest(h, j)
  PROVE  NotStranded'
  <1> USE DEF Typed, TypeOK, HoldsJob, NotStranded, PendingRowIsMoved,
              RunningRowHasWorker, HeldIn, BeingCancelled, Alive, HandlerStep,
              HandlerReturns, submitVars, workerVars, handlerVars, historyVars
  <1>1. CASE \E j \in Job : DeleteRequest(h, j)
    BY <1>1 DEF DeleteRequest
  <1>2. CASE ReadJob(h)
    BY <1>2 DEF ReadJob
  <1>3. CASE CancelJob(h)
    BY <1>3 DEF CancelJob
  <1>4. CASE DeletePendingRow(h)
    BY <1>4 DEF DeletePendingRow, Without, Fault, Absent
  <1>5. CASE DeleteRow(h)
    BY <1>5 DEF DeleteRow, Without, Absent
  <1>6. QED
    BY <1>1, <1>2, <1>3, <1>4, <1>5 DEF Deletion

LEMMA ProcessNotStranded ==
  ASSUME Typed, NotStranded, Process
  PROVE  NotStranded'
  <1> USE DEF Typed, TypeOK, NotStranded, PendingRowIsMoved, RunningRowHasWorker,
              HeldIn, BeingCancelled, submitVars, workerVars, handlerVars, historyVars
  <1>1. CASE PurgeJobs
    BY <1>1 DEF PurgeJobs, Purged, Absent, Alive
  <1>2. CASE Signal \/ CancelContext
    BY <1>2 DEF Signal, CancelContext, Alive, AlivePhase
  <1>3. CASE FinishShutdown \/ Crash
    BY <1>3 DEF FinishShutdown, Crash, Alive, AlivePhase
  <1>4. CASE Restart
    BY <1>4 DEF Restart, Recovered, Active
  <1>5. QED
    BY <1>1, <1>2, <1>3, <1>4 DEF Process

LEMMA NextNotStranded == Typed /\ Ownership /\ NotStranded /\ [Next]_vars => NotStranded'
  <1> SUFFICES ASSUME Typed, Ownership, NotStranded, [Next]_vars
               PROVE  NotStranded'
    OBVIOUS
  <1>1. CASE Next
    BY <1>1, SubmissionNotStranded, WorkNotStranded, HandlerNotStranded,
       ProcessNotStranded DEF Next
  <1>2. CASE UNCHANGED vars
    BY <1>2 DEF vars, NotStranded, PendingRowIsMoved, RunningRowHasWorker, HeldIn,
       BeingCancelled, Alive
  <1>3. QED
    BY <1>1, <1>2

\* A PENDING row is always somebody's to move on, unless a write that concerned
\* its job failed.
THEOREM PendingRowsHaveOwners == Spec => []PendingRowHasOwner
  <1>1. Ownership /\ NotStranded => PendingRowHasOwner
    BY DEF Ownership, NotStranded, PendingRowIsMoved, PendingIsAccounted,
           PendingRowHasOwner, SubmitPhase
  <1>2. QED
    BY <1>1, InitTyped, NextTyped, InitOwnership, NextOwnership, InitNotStranded,
       NextNotStranded, PTL DEF Spec

\* A RUNNING row has a worker that runs it, unless a write that concerned its
\* job failed.
THEOREM RunningRowsHaveWorkers == Spec => []RunningRowHasWorker
  <1>1. NotStranded => RunningRowHasWorker
    BY DEF NotStranded
  <1>2. QED
    BY <1>1, InitTyped, NextTyped, InitOwnership, NextOwnership, InitNotStranded,
       NextNotStranded, PTL DEF Spec
===============================================================================
