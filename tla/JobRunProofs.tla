----------------------------- MODULE JobRunProofs -----------------------------
(***************************************************************************)
(* Theorems about JobRun for every number of runs and every set of tiers:  *)
(* the two counters of processJob tell deriveStatus all it needs.          *)
(***************************************************************************)
EXTENDS JobRun, FiniteSetTheorems, TLAPS

\* The runs that have been counted.
Counted == IF pc = "saving" THEN i ELSE i - 1

CountersTyped ==
    /\ row \in RowState
    /\ pc \in WorkerState
    /\ i \in 1 .. Runs + 1
    /\ cleanRuns \in Nat
    /\ failedRuns \in Nat
    /\ decided \in Outcome \cup {None}
    /\ failedIn \in [Run -> SUBSET Tier]

\* A counter reaches the number of counted runs exactly when every one of them
\* was clean, or failed in all its tiers; this is all that is kept of them.  A
\* worker that died between counting a run and saving it is out of step.
CountersTell ==
    pc # "dead" =>
        /\ pc = "saving" => i \in Run
        /\ cleanRuns <= Counted /\ failedRuns <= Counted
        /\ cleanRuns = Counted <=> \A r \in 1 .. Counted : failedIn[r] = {}
        /\ failedRuns = Counted <=> \A r \in 1 .. Counted : failedIn[r] = Tier

\* The status is derived once, after the last run.
DecidedOnce ==
    /\ pc \in {"starting", "collecting", "saving", "panicked"} => decided = None
    /\ pc \in {"deciding", "judging", "reading", "listing", "enqueueing"} => decided # None
    /\ pc = "starting" => row \in {"PENDING", Absent}
    /\ decided # None => i = Runs + 1 /\ decided = StatusOfRuns
    /\ row \in {"COMPLETED", "PARTIAL"} => decided = row

IInv == CountersTyped /\ CountersTell /\ DecidedOnce

LEMMA InitIInv == Init => IInv
  BY RunsAssumption
  DEF Init, IInv, CountersTyped, CountersTell, DecidedOnce, Counted, RowState, Active,
      WorkerState, Run, None, Outcome

\* One more run: the step on which the two counters and the record agree.
LEMMA CollectRunIInv ==
  ASSUME IInv, CollectRun
  PROVE  IInv'
  <1>1. /\ pc = "collecting" /\ pc' = "saving" /\ i' = i /\ i \in Run /\ i <= Runs
        /\ UNCHANGED <<row, decided>>
    BY RunsAssumption DEF CollectRun, RunsLeft, tableVars, IInv, CountersTyped, Run
  <1>2. Counted = i - 1 /\ Counted' = i
    BY <1>1 DEF Counted
  <1>3. PICK bad \in SUBSET Tier :
           /\ failedIn' = [failedIn EXCEPT ![i] = bad]
           /\ cleanRuns' = cleanRuns + (IF RunClean(bad) THEN 1 ELSE 0)
           /\ failedRuns' = failedRuns + (IF RunFailed(bad) THEN 1 ELSE 0)
    BY DEF CollectRun
  <1>4. /\ failedIn'[i] = bad
        /\ \A r \in 1 .. (i - 1) : failedIn'[r] = failedIn[r]
    BY <1>1, <1>3, RunsAssumption DEF IInv, CountersTyped, Run
  <1>5. /\ cleanRuns \in Nat /\ failedRuns \in Nat /\ i \in Nat
        /\ cleanRuns <= i - 1 /\ failedRuns <= i - 1
        /\ cleanRuns = i - 1 <=> \A r \in 1 .. (i - 1) : failedIn[r] = {}
        /\ failedRuns = i - 1 <=> \A r \in 1 .. (i - 1) : failedIn[r] = Tier
    BY <1>1, <1>2 DEF IInv, CountersTyped, CountersTell, Run
  <1>6. \A r \in 1 .. i : r = i \/ r \in 1 .. (i - 1)
    BY <1>5
  <1>7. cleanRuns' = i <=> \A r \in 1 .. i : failedIn'[r] = {}
    <2>1. CASE bad = {}
      BY <1>3, <1>4, <1>5, <1>6, <2>1 DEF RunClean
    <2>2. CASE bad # {}
      BY <1>1, <1>3, <1>4, <1>5, <2>2 DEF RunClean, Run
    <2>3. QED
      BY <2>1, <2>2
  <1>8. failedRuns' = i <=> \A r \in 1 .. i : failedIn'[r] = Tier
    <2>1. CASE bad = Tier
      BY <1>3, <1>4, <1>5, <1>6, <2>1, TierAssumption DEF RunFailed
    <2>2. CASE bad # Tier
      BY <1>1, <1>3, <1>4, <1>5, <2>2 DEF RunFailed, Run
    <2>3. QED
      BY <2>1, <2>2
  <1>9. CountersTyped'
    BY <1>1, <1>3, <1>5 DEF IInv, CountersTyped, WorkerState, RunClean, RunFailed
  <1>10. CountersTell'
    BY <1>1, <1>2, <1>3, <1>5, <1>7, <1>8 DEF CountersTell, RunClean, RunFailed
  <1>11. DecidedOnce'
    BY <1>1 DEF IInv, DecidedOnce
  <1>12. QED
    BY <1>9, <1>10, <1>11 DEF IInv

\* deriveStatus on the counters is StatusOfRuns on the record.
LEMMA DecideIInv ==
  ASSUME IInv, Decide
  PROVE  IInv'
  <1>1. /\ pc = "collecting" /\ pc' = "deciding" /\ i' = i /\ i = Runs + 1
        /\ UNCHANGED <<row, cleanRuns, failedRuns, failedIn>>
        /\ decided' = deriveStatus(cleanRuns, failedRuns)
        /\ Counted = Runs /\ Counted' = Runs
    BY RunsAssumption
    DEF Decide, RunsLeft, tableVars, IInv, CountersTyped, Counted
  <1>2. /\ cleanRuns \in Nat /\ cleanRuns <= Runs
        /\ cleanRuns = Runs <=> \A r \in Run : failedIn[r] = {}
        /\ failedRuns = Runs <=> \A r \in Run : failedIn[r] = Tier
    BY <1>1 DEF IInv, CountersTyped, CountersTell, Run
  <1>3. decided' = StatusOfRuns' /\ decided' \in Outcome /\ decided' # None
    <2>1. Tier # {} /\ 1 \in Run
      BY TierAssumption, RunsAssumption DEF Run
    <2>2. ~((\A r \in Run : failedIn[r] = {}) /\ (\A r \in Run : failedIn[r] = Tier))
      BY <2>1
    <2>3. cleanRuns < Runs <=> ~ \A r \in Run : failedIn[r] = {}
      BY <1>2, RunsAssumption
    <2>4. QED
      BY <1>1, <1>2, <2>2, <2>3 DEF deriveStatus, StatusOfRuns, Outcome, None
  <1>4. CountersTyped'
    BY <1>1, <1>3 DEF IInv, CountersTyped, WorkerState
  <1>5. CountersTell'
    BY <1>1 DEF IInv, CountersTell, CountersTyped
  <1>6. DecidedOnce'
    BY <1>1, <1>3 DEF IInv, DecidedOnce, None
  <1>7. QED
    BY <1>4, <1>5, <1>6 DEF IInv

LEMMA WorkerIInv ==
  ASSUME IInv, Worker
  PROVE  IInv'
  <1> USE DEF IInv, CountersTyped, CountersTell, DecidedOnce, Counted, StatusOfRuns,
              WorkerState, RowState, Active, Outcome, None, Absent, Written, runVars,
              tableVars, requestVars
  <1>1. CASE StartJob
    BY <1>1 DEF StartJob
  <1>2. CASE SaveResult
    BY <1>2, RunsAssumption DEF SaveResult, Run
  <1>3. CASE WriteOutcome
    BY <1>3 DEF WriteOutcome, NextAfter
  <1>4. CASE WriteVerdict
    BY <1>4 DEF WriteVerdict, NextAfter
  <1>5. CASE ReadJob
    BY <1>5 DEF ReadJob
  <1>6. CASE ListResults
    BY <1>6 DEF ListResults
  <1>7. CASE EnqueueWebhook
    BY <1>7 DEF EnqueueWebhook
  <1>8. CASE Panic
    BY <1>8 DEF Panic, RunsLeft
  <1>9. CASE RecoverPanic
    BY <1>9 DEF RecoverPanic
  <1>10. QED
    BY <1>1, <1>2, <1>3, <1>4, <1>5, <1>6, <1>7, <1>8, <1>9, CollectRunIInv, DecideIInv
    DEF Worker

\* A request can only delete the row; a restart fails a job without outcome.
LEMMA OutsideIInv ==
  ASSUME IInv, Request \/ CancelContext \/ Restart
  PROVE  IInv'
  <1> USE DEF IInv, CountersTyped, CountersTell, DecidedOnce, Counted, StatusOfRuns,
              WorkerState, RowState, Active, Outcome, None, Absent, runVars, tableVars,
              requestVars
  <1>1. CASE GetJob \/ GetResults \/ DeleteRequest \/ DeleteDeliveries \/ CancelContext
    BY <1>1 DEF GetJob, GetResults, DeleteRequest, DeleteDeliveries, CancelContext
  <1>2. CASE DeleteRow
    BY <1>2 DEF DeleteRow
  <1>3. CASE Restart
    <2>1. CountersTyped'
      BY <1>3 DEF Restart
    <2>2. CountersTell'
      BY <1>3 DEF Restart
    <2>3. DecidedOnce'
      BY <1>3 DEF Restart
    <2>4. QED
      BY <2>1, <2>2, <2>3
  <1>4. QED
    BY <1>1, <1>2, <1>3 DEF Request

THEOREM Invariance == Spec => []IInv
  <1>1. IInv /\ [Next]_vars => IInv'
    <2> SUFFICES ASSUME IInv, [Next]_vars PROVE IInv'
      OBVIOUS
    <2>1. CASE Next
      BY <2>1, WorkerIInv, OutsideIInv DEF Next
    <2>2. CASE UNCHANGED vars
      BY <2>2 DEF vars, IInv, CountersTyped, CountersTell, DecidedOnce, Counted,
                  StatusOfRuns
    <2>3. QED
      BY <2>1, <2>2
  <1>2. QED
    BY <1>1, InitIInv, PTL DEF Spec

\* Whatever is deleted, lost or restarted meanwhile, the outcome that is stored
\* is the one that all the runs of the job deserve.
THEOREM StatusIsOfRuns == Spec => []StatusMatchesRuns
  <1>1. IInv => StatusMatchesRuns
    BY DEF IInv, DecidedOnce, StatusMatchesRuns, None
  <1>2. QED
    BY <1>1, Invariance, PTL

-------------------------------------------------------------------------------
(* What readers and recipients are told                                      *)

\* Of the runs that are behind the loop each has its result, or it was not saved.
ResultsKept == row # Absent => \A r \in 1 .. (i - 1) : r \in results \cup unsaved

\* Who knows that the job is over knows that the loop is.
OverIsOver ==
    /\ reader \in {"COMPLETED", "PARTIAL"} => i = Runs + 1
    /\ response.status \in {"COMPLETED", "PARTIAL"} => i = Runs + 1

\* What the row holds while the notice is made of it.
RowIsTold ==
    row # Absent =>
      /\ pc \in {"judging", "reading", "listing", "enqueueing"} /\ "status" \notin lost
           => row = decided
      /\ pc \in {"reading", "listing", "enqueueing"} /\ HasBudget /\ "verdict" \notin lost
           => verdict
      /\ pc = "enqueueing" /\ "results" \notin lost => Run \ unsaved \subseteq payload.results

PayloadTells ==
    /\ "status" \notin lost => payload.status = decided
    /\ HasBudget /\ "verdict" \notin lost => payload.verdict

\* The delivery is the payload, and comes last.
DeliveryIsPayload ==
    /\ verdict \in BOOLEAN /\ results \subseteq Run /\ payload \in Payload
    /\ pc \in {"listing", "enqueueing"} => PayloadTells
    /\ deliveries # {} => pc \in {"done", "dead"} /\ deliveries = {payload}

NInv == /\ ResultsKept /\ OverIsOver /\ RowIsTold /\ DeliveryIsPayload
        /\ ReadersSeeResults /\ NoticeIsFaithful /\ NoticeIsEnqueued

LEMMA InitNInv == Init => NInv
  <1> SUFFICES ASSUME Init PROVE NInv
    OBVIOUS
  <1>1. ResultsKept /\ OverIsOver /\ RowIsTold
    BY RunsAssumption DEF Init, ResultsKept, OverIsOver, RowIsTold, None
  <1>2. DeliveryIsPayload
    BY DEF Init, DeliveryIsPayload, NoPayload, Payload, RowState
  <1>3. ReadersSeeResults /\ NoticeIsFaithful
    BY DEF Init, ReadersSeeResults, NoticeIsFaithful, None
  <1>4. NoticeIsEnqueued
    BY FS_EmptySet DEF Init, NoticeIsEnqueued
  <1>5. QED
    BY <1>1, <1>2, <1>3, <1>4 DEF NInv

LEMMA AtMostOne ==
  ASSUME NEW S, NEW x, S = {} \/ S = {x}
  PROVE  Cardinality(S) <= 1
  <1>1. CASE S = {}
    BY <1>1, FS_EmptySet
  <1>2. CASE S = {x}
    <2>1. Cardinality(S) = 1
      BY <1>2, FS_Singleton
    <2>2. QED
      BY <2>1
  <1>3. QED
    BY <1>1, <1>2

\* One delivery at most: the payload.
LEMMA OneDeliveryNext ==
  ASSUME DeliveryIsPayload'
  PROVE  Cardinality(deliveries') <= 1
  <1>1. deliveries' = {} \/ deliveries' = {payload'}
    BY DEF DeliveryIsPayload
  <1>2. QED
    BY <1>1, AtMostOne

\* The steps of the worker that store nothing but their own place.
LEMMA WorkerNInv ==
  ASSUME IInv, IInv', NInv, Worker
  PROVE  NInv'
  <1>1. DeliveryIsPayload' => Cardinality(deliveries') <= 1
    BY OneDeliveryNext
  <1> USE DEF NInv, IInv, CountersTyped, DecidedOnce, ResultsKept, OverIsOver, RowIsTold,
              DeliveryIsPayload, PayloadTells, ReadersSeeResults, NoticeIsFaithful, Run,
              Written, Outcome, Active, Absent, None, runVars, tableVars, requestVars, Lose
  <1>2. CASE StartJob \/ CollectRun \/ Decide \/ Panic \/ RecoverPanic
    <2>1. UNCHANGED <<verdict, results, deliveries, payload, reader, response, deleter,
                      unsaved, i>>
      BY <1>2 DEF StartJob, CollectRun, Decide, Panic, RecoverPanic
    <2>2. /\ deliveries = {} /\ deliveries' = {}
          /\ pc' \in {"collecting", "saving", "deciding", "panicked", "done"}
          /\ pc' = "done" => decided' = None
      BY <1>2, <2>1 DEF StartJob, CollectRun, Decide, Panic, RecoverPanic
    <2>3. row' # Absent => row # Absent
      BY <1>2 DEF StartJob, CollectRun, Decide, Panic, RecoverPanic
    <2>4. QED
      BY <1>1, <2>1, <2>2, <2>3 DEF NoticeIsEnqueued
  <1>3. CASE SaveResult
    <2>1. /\ UNCHANGED <<row, verdict, deliveries, payload, reader, response, deleter, lost,
                         decided>>
          /\ pc = "saving" /\ pc' = "collecting" /\ i' = i + 1 /\ i \in Run
          /\ unsaved \subseteq unsaved' /\ results \subseteq results'
          /\ row # Absent => i \in results' \cup unsaved'
      BY <1>3 DEF SaveResult, CountersTell
    <2>2. deliveries' = {} /\ i # Runs + 1
      BY <2>1, RunsAssumption
    <2>3. ResultsKept'
      BY <2>1, RunsAssumption
    <2>4. OverIsOver' /\ RowIsTold' /\ DeliveryIsPayload'
      BY <2>1, <2>2, <1>3 DEF SaveResult
    <2>5. ReadersSeeResults' /\ NoticeIsFaithful'
      BY <2>1, <2>2
    <2>6. NoticeIsEnqueued'
      BY <1>1, <2>1, <2>4 DEF NoticeIsEnqueued
    <2>7. QED
      BY <2>3, <2>4, <2>5, <2>6
  <1>4. CASE WriteOutcome
    <2>1. /\ UNCHANGED <<verdict, results, deliveries, payload, reader, response, deleter,
                         unsaved, i, decided>>
          /\ pc = "deciding" /\ deliveries = {}
          /\ pc' \in {"judging", "reading", "done"}
          /\ pc' = "reading" => ~HasBudget
          /\ pc' = "done" => ~HasWebhook
          /\ lost \subseteq lost'
          /\ row' # Absent => row # Absent /\ ("status" \notin lost' => row' = decided)
      BY <1>4, FlagAssumption DEF WriteOutcome, NextAfter
    <2>2. QED
      BY <1>1, <2>1 DEF NoticeIsEnqueued
  <1>5. CASE WriteVerdict
    <2>1. /\ UNCHANGED <<row, results, deliveries, payload, reader, response, deleter,
                         unsaved, i, decided>>
          /\ pc = "judging" /\ deliveries = {}
          /\ pc' \in {"reading", "done"}
          /\ pc' = "done" => ~HasWebhook
          /\ lost \subseteq lost' /\ verdict' \in BOOLEAN
          /\ "status" \notin lost' => "status" \notin lost
          /\ row # Absent /\ "verdict" \notin lost' => verdict'
      BY <1>5, FlagAssumption DEF WriteVerdict, NextAfter
    <2>2. QED
      BY <1>1, <2>1 DEF NoticeIsEnqueued
  <1>6. CASE ReadJob
    <2>1. /\ UNCHANGED <<row, verdict, results, deliveries, reader, response, deleter,
                         unsaved, i, decided>>
          /\ pc = "reading" /\ deliveries = {}
          /\ \/ /\ pc' = "listing" /\ row # Absent /\ lost' = lost
                /\ payload' = [payload EXCEPT !.status = row, !.verdict = verdict]
             \/ /\ pc' = "done" /\ payload' = payload /\ lost \subseteq lost'
                /\ row = Absent \/ "notice" \in lost'
      BY <1>6 DEF ReadJob
    <2>2. CASE pc' = "listing"
      <3>1. payload'.status = row /\ payload'.verdict = verdict
        BY <2>1, <2>2 DEF Payload
      <3>2. PayloadTells'
        BY <2>1, <2>2, <3>1
      <3>3. payload' \in Payload
        BY <2>1, <2>2, FlagAssumption DEF Payload
      <3>4. QED
        BY <1>1, <2>1, <2>2, <3>2, <3>3 DEF NoticeIsEnqueued
    <2>3. CASE pc' = "done"
      BY <1>1, <2>1, <2>3 DEF NoticeIsEnqueued
    <2>4. QED
      BY <2>1, <2>2, <2>3
  <1>7. CASE ListResults
    <2>1. /\ UNCHANGED <<row, verdict, results, deliveries, reader, response, deleter,
                         unsaved, i, decided>>
          /\ pc = "listing" /\ pc' = "enqueueing" /\ deliveries = {}
          /\ i = Runs + 1 /\ lost \subseteq lost'
          /\ \/ payload' = [payload EXCEPT !.results = results]
             \/ payload' = payload /\ "results" \in lost'
      BY <1>7 DEF ListResults
    <2>2. /\ payload' \in Payload
          /\ payload'.status = payload.status /\ payload'.verdict = payload.verdict
          /\ "results" \notin lost' => payload'.results = results
      BY <2>1 DEF Payload
    <2>3. row # Absent => Run \ unsaved \subseteq results
      BY <2>1, RunsAssumption
    <2>4. QED
      BY <1>1, <2>1, <2>2, <2>3 DEF NoticeIsEnqueued
  <1>8. CASE EnqueueWebhook
    <2>1. /\ UNCHANGED <<row, verdict, results, payload, reader, response, deleter,
                         unsaved, i, decided>>
          /\ pc = "enqueueing" /\ pc' = "done" /\ deliveries = {} /\ lost \subseteq lost'
          /\ \/ deliveries' = {payload}
             \/ deliveries' = {} /\ "notice" \in lost'
      BY <1>8 DEF EnqueueWebhook
    <2>2. DeliveryIsPayload' /\ RowIsTold' /\ ResultsKept' /\ OverIsOver'
      BY <2>1
    <2>3. NoticeIsFaithful'
      BY <2>1
    <2>4. NoticeIsEnqueued'
      BY <1>1, <2>1, <2>2 DEF NoticeIsEnqueued
    <2>5. QED
      BY <2>1, <2>2, <2>3, <2>4
  <1>9. QED
    BY <1>2, <1>3, <1>4, <1>5, <1>6, <1>7, <1>8 DEF Worker

\* Requests read, or take the row and all that hangs on it; a restart takes the
\* worker.
LEMMA OutsideNInv ==
  ASSUME IInv, NInv, Request \/ CancelContext \/ Restart
  PROVE  NInv'
  <1>1. DeliveryIsPayload' => Cardinality(deliveries') <= 1
    BY OneDeliveryNext
  <1> USE DEF NInv, IInv, CountersTyped, DecidedOnce, ResultsKept, OverIsOver, RowIsTold,
              DeliveryIsPayload, PayloadTells, ReadersSeeResults, NoticeIsFaithful, Run,
              Active, Absent, None, runVars, tableVars, requestVars, Lose
  <1>2. CASE GetJob \/ DeleteRequest \/ CancelContext
    <2>1. /\ UNCHANGED <<row, verdict, results, deliveries, payload, pc, response,
                         unsaved, i, decided, lost>>
          /\ reader' = reader \/ reader' = row
          /\ deleter' = deleter \/ deleter = "idle"
      BY <1>2 DEF GetJob, DeleteRequest, CancelContext
    <2>2. OverIsOver'
      BY <2>1
    <2>3. NoticeIsEnqueued'
      BY <2>1 DEF NoticeIsEnqueued
    <2>4. ResultsKept' /\ RowIsTold' /\ DeliveryIsPayload'
      BY <2>1
    <2>5. ReadersSeeResults' /\ NoticeIsFaithful'
      BY <2>1
    <2>6. QED
      BY <2>2, <2>3, <2>4, <2>5
  <1>3. CASE GetResults
    <2>1. /\ UNCHANGED <<row, verdict, results, deliveries, payload, pc, deleter,
                         unsaved, i, decided, lost>>
          /\ reader' = None
          /\ response'.status = reader
          /\ response'.read => response'.results = results
      BY <1>3 DEF GetResults
    <2>2. ReadersSeeResults'
      BY <2>1, RunsAssumption
    <2>3. QED
      BY <1>1, <2>1, <2>2 DEF NoticeIsEnqueued
  <1>4. CASE DeleteDeliveries
    <2>1. /\ UNCHANGED <<row, verdict, results, payload, pc, reader, response,
                         unsaved, i, decided, lost>>
          /\ \/ deliveries' = {} /\ deleter' = "row"
             \/ deliveries' = deliveries /\ deleter' = "idle" /\ deleter # "row"
      BY <1>4 DEF DeleteDeliveries
    <2>2. QED
      BY <1>1, <2>1 DEF NoticeIsEnqueued
  <1>5. CASE DeleteRow
    <2>1. /\ UNCHANGED <<deliveries, payload, pc, reader, response, unsaved, i, decided>>
          /\ \/ row' = Absent /\ verdict' = FALSE /\ results' = {} /\ lost' = lost
             \/ UNCHANGED <<row, verdict, results>> /\ lost' = lost \cup {"notice"}
      BY <1>5 DEF DeleteRow
    <2>2. QED
      BY <1>1, <2>1 DEF NoticeIsEnqueued
  <1>6. CASE Restart
    <2>1. /\ UNCHANGED <<verdict, results, deliveries, payload, response, unsaved, i,
                         decided, lost>>
          /\ pc' = "dead" /\ reader' = None
          /\ row' # Absent => row # Absent
      BY <1>6 DEF Restart
    <2>2. QED
      BY <1>1, <2>1 DEF NoticeIsEnqueued
  <1>7. QED
    BY <1>2, <1>3, <1>4, <1>5, <1>6 DEF Request

\* The parts of the type invariant that nothing else needs.
Rest ==
    /\ cleanRuns <= Runs /\ failedRuns <= Runs
    /\ failedTiers \in SUBSET Tier
    /\ deliveries \in SUBSET Payload
    /\ ctxLive \in BOOLEAN
    /\ reader \in RowState \cup {None}
    /\ response \in [status : RowState \cup {None}, results : SUBSET Run, read : BOOLEAN]
    /\ deleter \in {"idle", "deliveries", "row"}
    /\ unsaved \in SUBSET Run
    /\ lost \in SUBSET Losable

LEMMA InitRest == Init => Rest
  BY RunsAssumption DEF Init, Rest, Run, RowState, Active, Outcome, None

LEMMA NextRest ==
  ASSUME IInv, IInv', NInv, Rest, Next
  PROVE  Rest'
  <1> USE DEF Rest, IInv, CountersTyped, runVars, tableVars, requestVars, Lose, Losable
  <1>1. cleanRuns' <= Runs /\ failedRuns' <= Runs
    <2>1. CASE CollectRun
      <3>1. pc' = "saving" /\ i' \in Run
        BY <2>1 DEF CollectRun, CountersTell
      <3>2. cleanRuns' <= i' /\ failedRuns' <= i'
        BY <3>1 DEF CountersTell, Counted
      <3>3. QED
        BY <3>1, <3>2, RunsAssumption DEF Run
    <2>2. CASE ~CollectRun
      <3>1. UNCHANGED <<cleanRuns, failedRuns>>
        BY <2>2 DEF Next, Worker, Request, StartJob, SaveResult, Decide, WriteOutcome,
           WriteVerdict, ReadJob, ListResults, EnqueueWebhook, Panic, RecoverPanic, GetJob,
           GetResults, DeleteRequest, DeleteDeliveries, DeleteRow, CancelContext, Restart
      <3>2. QED
        BY <3>1
    <2>3. QED
      BY <2>1, <2>2
  <1>2. CASE Worker
    <2>1. UNCHANGED <<ctxLive, requestVars>>
      BY <1>2 DEF Worker, StartJob, CollectRun, SaveResult, Decide, WriteOutcome, WriteVerdict,
         ReadJob, ListResults, EnqueueWebhook, Panic, RecoverPanic
    <2>2. lost' \in SUBSET Losable
      BY <1>2 DEF Worker, StartJob, CollectRun, SaveResult, Decide, WriteOutcome, WriteVerdict,
         ReadJob, ListResults, EnqueueWebhook, Panic, RecoverPanic
    <2>3. failedTiers' \in SUBSET Tier
      BY <1>2 DEF Worker, StartJob, CollectRun, SaveResult, Decide, WriteOutcome, WriteVerdict,
         ReadJob, ListResults, EnqueueWebhook, Panic, RecoverPanic
    <2>4. deliveries' \in SUBSET Payload
      BY <1>2 DEF Worker, StartJob, CollectRun, SaveResult, Decide, WriteOutcome, WriteVerdict,
         ReadJob, ListResults, EnqueueWebhook, Panic, RecoverPanic, NInv, DeliveryIsPayload
    <2>5. unsaved' \in SUBSET Run
      BY <1>2 DEF Worker, StartJob, CollectRun, SaveResult, Decide, WriteOutcome, WriteVerdict,
         ReadJob, ListResults, EnqueueWebhook, Panic, RecoverPanic, CountersTell
    <2>6. QED
      BY <1>1, <2>1, <2>2, <2>3, <2>4, <2>5
  <1>3. CASE Request \/ CancelContext \/ Restart
    <2>1. UNCHANGED <<failedTiers, unsaved>> /\ lost' \in SUBSET Losable
      BY <1>3 DEF Request, GetJob, GetResults, DeleteRequest, DeleteDeliveries, DeleteRow,
         CancelContext, Restart
    <2>2. deliveries' \in SUBSET Payload /\ ctxLive' \in BOOLEAN
      BY <1>3 DEF Request, GetJob, GetResults, DeleteRequest, DeleteDeliveries, DeleteRow,
         CancelContext, Restart
    <2>3. /\ reader' \in RowState \cup {None}
          /\ deleter' \in {"idle", "deliveries", "row"}
      BY <1>3 DEF Request, GetJob, GetResults, DeleteRequest, DeleteDeliveries, DeleteRow,
         CancelContext, Restart
    <2>4. response' \in [status : RowState \cup {None}, results : SUBSET Run, read : BOOLEAN]
      <3>1. CASE GetResults
        <4>1. results \in SUBSET Run
          BY DEF NInv, DeliveryIsPayload
        <4>2. PICK rs \in SUBSET Run, whole \in BOOLEAN :
                 response' = [status |-> reader, results |-> rs, read |-> whole]
          BY <3>1, <4>1 DEF GetResults
        <4>3. reader \in RowState \cup {None}
          OBVIOUS
        <4>4. QED
          BY <4>2, <4>3
      <3>2. CASE ~GetResults
        <4>1. response' = response
          BY <1>3, <3>2 DEF Request, GetJob, DeleteRequest, DeleteDeliveries, DeleteRow,
             CancelContext, Restart
        <4>2. QED
          BY <4>1
      <3>3. QED
        BY <3>1, <3>2
    <2>5. QED
      BY <1>1, <2>1, <2>2, <2>3, <2>4
  <1>4. QED
    BY <1>2, <1>3 DEF Next

THEOREM Telling == Spec => []NInv
  <1>1. IInv /\ IInv' /\ NInv /\ [Next]_vars => NInv'
    <2> SUFFICES ASSUME IInv, IInv', NInv, [Next]_vars PROVE NInv'
      OBVIOUS
    <2>1. CASE Next
      BY <2>1, WorkerNInv, OutsideNInv DEF Next
    <2>2. CASE UNCHANGED vars
      BY <2>2 DEF vars, NInv, ResultsKept, OverIsOver, RowIsTold, DeliveryIsPayload,
                  PayloadTells, ReadersSeeResults, NoticeIsFaithful, NoticeIsEnqueued
    <2>3. QED
      BY <2>1, <2>2
  <1>2. QED
    BY <1>1, InitNInv, Invariance, PTL DEF Spec

\* Two reads that are not one: an answer that says a job is over lists every
\* result that was stored.
THEOREM AnswersAreWhole == Spec => []ReadersSeeResults
  BY Telling, PTL DEF NInv

\* A notice tells the outcome, the verdict and the results that were stored.
THEOREM NoticesAreFaithful == Spec => []NoticeIsFaithful
  BY Telling, PTL DEF NInv

\* One notice for a job, and none missing without a reason.
THEOREM NoticesAreEnqueued == Spec => []NoticeIsEnqueued
  BY Telling, PTL DEF NInv

\* Every variable keeps its type; no counter goes beyond the number of runs.
THEOREM TypeCorrect == Spec => []TypeOK
  <1>1. IInv /\ IInv' /\ NInv /\ Rest /\ [Next]_vars => Rest'
    <2> SUFFICES ASSUME IInv, IInv', NInv, Rest, [Next]_vars PROVE Rest'
      OBVIOUS
    <2>1. CASE Next
      BY <2>1, NextRest
    <2>2. CASE UNCHANGED vars
      BY <2>2 DEF vars, Rest
    <2>3. QED
      BY <2>1, <2>2
  <1>2. IInv /\ NInv /\ Rest => TypeOK
    BY RunsAssumption DEF IInv, CountersTyped, NInv, DeliveryIsPayload, Rest, TypeOK
  <1>3. QED
    BY <1>1, <1>2, InitRest, Invariance, Telling, PTL DEF Spec

-------------------------------------------------------------------------------
(* Deletion                                                                  *)

\* A worker that is through enqueues no more; of a deletion that is under way
\* the deliveries are gone before the row.
Through ==
    /\ pc \in {"done", "dead"}
    /\ deleter = "row" => deliveries = {}
    /\ row = Absent => deliveries = {}

\* It stays so: no step of a request, of a stop or of the next process brings
\* a delivery back.
LEMMA ThroughIsStable ==
  ASSUME Through, [Next]_vars
  PROVE  Through'
  <1>1. ~Worker
    BY DEF Through, Worker, StartJob, CollectRun, SaveResult, Decide, WriteOutcome,
       WriteVerdict, ReadJob, ListResults, EnqueueWebhook, Panic, RecoverPanic
  <1>2. CASE GetJob \/ GetResults \/ DeleteRequest \/ CancelContext \/ UNCHANGED vars
    <2>1. UNCHANGED <<row, deliveries, pc>> /\ deleter' \in {deleter, "deliveries"}
      BY <1>2 DEF GetJob, GetResults, DeleteRequest, CancelContext, tableVars, requestVars, vars
    <2>2. QED
      BY <2>1 DEF Through
  <1>3. CASE DeleteDeliveries
    BY <1>3 DEF Through, DeleteDeliveries
  <1>4. CASE DeleteRow
    BY <1>4 DEF Through, DeleteRow
  <1>5. CASE Restart
    <2>1. row' = Absent => row = Absent
      BY <1>5 DEF Restart, Absent
    <2>2. QED
      BY <1>5, <2>1 DEF Restart, Through
  <1>6. QED
    BY <1>1, <1>2, <1>3, <1>4, <1>5 DEF Next, Request

\* Nothing that the foreign key ties to the job outlives its row.
RowHoldsAll == row = Absent => results = {} /\ ~verdict

LEMMA RowHoldsAllStays ==
  ASSUME IInv, RowHoldsAll, [Next]_vars
  PROVE  RowHoldsAll'
  <1>0. decided # Absent
    BY DEF IInv, CountersTyped, Outcome, None, Absent
  <1>1. CASE Worker
    <2>1. row' = Absent => row = Absent
      BY <1>0, <1>1
      DEF Worker, StartJob, CollectRun, SaveResult, Decide, WriteOutcome, WriteVerdict,
          ReadJob, ListResults, EnqueueWebhook, Panic, RecoverPanic, tableVars, Written, Absent
    <2>2. row = Absent => results' = results /\ (verdict' = verdict \/ ~verdict')
      BY <1>1
      DEF Worker, StartJob, CollectRun, SaveResult, Decide, WriteOutcome, WriteVerdict,
          ReadJob, ListResults, EnqueueWebhook, Panic, RecoverPanic, tableVars
    <2>3. QED
      BY <2>1, <2>2 DEF RowHoldsAll
  <1>2. CASE Request
    BY <1>2 DEF Request, GetJob, GetResults, DeleteRequest, DeleteDeliveries, DeleteRow,
       tableVars, RowHoldsAll
  <1>3. CASE CancelContext \/ UNCHANGED vars
    BY <1>3 DEF CancelContext, tableVars, vars, RowHoldsAll
  <1>4. CASE Restart
    <2>1. row' = Absent => row = Absent
      BY <1>4 DEF Restart, Absent
    <2>2. QED
      BY <1>4, <2>1 DEF Restart, RowHoldsAll
  <1>5. QED
    BY <1>1, <1>2, <1>3, <1>4 DEF Next

\* A deletion leaves no result and no verdict, at whatever step of the worker it
\* comes; one that begins when the worker is through leaves no delivery behind,
\* whichever of its statements fail, and however often it is asked for again.
THEOREM DeletionsAreComplete == Spec => DeletionIsComplete
  <1>1. pc \in {"done", "dead"} /\ deleter = "idle" /\ row # Absent => Through
    BY DEF Through
  <1>2. Through /\ [Next]_vars => Through'
    BY ThroughIsStable
  <1>3. Through => (row = Absent => deliveries = {})
    BY DEF Through
  <1>4. Spec => []RowHoldsAll
    <2>1. Init => RowHoldsAll
      BY DEF Init, RowHoldsAll, Absent
    <2>2. IInv /\ RowHoldsAll /\ [Next]_vars => RowHoldsAll'
      BY RowHoldsAllStays
    <2>3. QED
      BY <2>1, <2>2, Invariance, PTL DEF Spec
  <1>5. RowHoldsAll <=> (row = Absent => results = {} /\ ~verdict)
    BY DEF RowHoldsAll
  <1>6. QED
    BY <1>1, <1>2, <1>3, <1>4, <1>5, PTL DEF Spec, DeletionIsComplete
===============================================================================
