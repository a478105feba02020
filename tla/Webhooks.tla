------------------------------- MODULE Webhooks -------------------------------
(***************************************************************************)
(* The delivery of webhooks (internal/job/manager.go): the job workers put *)
(* rows into webhook_deliveries and announce them on webhookChan, and one  *)
(* goroutine, webhookWorker, posts them: at once when one is announced,    *)
(* and in a periodic sweep over the rows that are due.  JobRun shows how a *)
(* job comes to its delivery.                                              *)
(*                                                                         *)
(* Time is relative: wait[d] is what is left until next_attempt, and 0     *)
(* stands for a time that has passed as for no time at all (NULL), which   *)
(* the query treats alike.  So no clock has to be bounded.                 *)
(***************************************************************************)
EXTENDS Naturals, Sequences, FiniteSets, FiniteSetsExt

CONSTANTS
    Delivery,    \* the deliveries, numbered in the order of created_at
    MaxRetries,  \* maxWebhookRetries
    BatchSize,   \* webhookBatchSize
    ChanDepth,   \* webhookChanBuffer
    MaxFaults    \* bound: crashes, stops and failed store calls in a behaviour

ASSUME DeliveryAssumption == Delivery \subseteq Nat /\ IsFiniteSet(Delivery)

ASSUME LimitAssumption ==
    /\ MaxRetries \in Nat \ {0}
    /\ BatchSize \in Nat \ {0}
    /\ ChanDepth \in Nat \ {0}
    /\ MaxFaults \in Nat

VARIABLES
    status,      \* webhook_deliveries.status; "none" and "gone" without a row
    attempts,    \* webhook_deliveries.attempts
    wait,        \* webhook_deliveries.next_attempt, as the time left
    announcing,  \* rows whose worker has yet to send on webhookChan
    channel,     \* webhookChan
    stage,       \* where webhookWorker stands
    batch,       \* what it has read and is about to post
    seen,        \* the attempts in what it has read
    spent,       \* the time since the now of sendOneWebhook
    success,     \* what the recipient answered
    ctxLive,     \* m.ctx
    posts,       \* history: the requests the recipient got
    accepted,    \* history: those it answered with 2xx
    unrecorded,  \* history: those whose result was not stored
    faults       \* history: the faults so far

rowVars == <<status, attempts, wait>>
workerVars == <<stage, batch, seen, spent, success>>
historyVars == <<posts, accepted, unrecorded>>
vars == <<rowVars, announcing, channel, workerVars, ctxLive, historyVars, faults>>

Present == {"PENDING", "SUCCESS", "FAILED"}

\* math.Pow(2, attempts)
Backoff(a) == 2 ^ a

LongestWait == Backoff(MaxRetries)

TypeOK ==
    /\ status \in [Delivery -> Present \cup {"none", "gone"}]
    /\ attempts \in [Delivery -> 0 .. MaxRetries]
    /\ wait \in [Delivery -> 0 .. LongestWait]
    /\ announcing \in SUBSET Delivery
    /\ channel \in Seq(Delivery) /\ Len(channel) <= ChanDepth
    /\ stage \in {"select", "next", "posting", "recording", "exited"}
    /\ batch \in SUBSET Delivery /\ Cardinality(batch) <= BatchSize
    /\ seen \in [Delivery -> 0 .. MaxRetries]
    /\ spent \in 0 .. LongestWait
    /\ success \in BOOLEAN
    /\ ctxLive \in BOOLEAN
    /\ posts \in [Delivery -> Nat]
    /\ accepted \in [Delivery -> Nat]
    /\ unrecorded \in [Delivery -> Nat]
    /\ faults \in 0 .. MaxFaults

Zero == [d \in Delivery |-> 0]

Init ==
    /\ status = [d \in Delivery |-> "none"]
    /\ attempts = Zero
    /\ wait = Zero
    /\ announcing = {}
    /\ channel = <<>>
    /\ stage = "select"
    /\ batch = {}
    /\ seen = Zero
    /\ spent = 0
    /\ success = FALSE
    /\ ctxLive = TRUE
    /\ posts = Zero
    /\ accepted = Zero
    /\ unrecorded = Zero
    /\ faults = 0

\* One more of the faults a behaviour may hold.
Fault == faults < MaxFaults /\ faults' = faults + 1

\* A store call under m.ctx fails once the context is cancelled, or by a fault.
CallFails == \/ ~ctxLive /\ UNCHANGED faults
             \/ ctxLive /\ Fault

CallWorks == ctxLive /\ UNCHANGED faults

-------------------------------------------------------------------------------
(* The job workers and the deletions                                         *)

\* sendWebhook stores the row,
EnqueueWebhook(d) ==
    /\ status[d] = "none"
    /\ ctxLive
    /\ status' = [status EXCEPT ![d] = "PENDING"]
    /\ announcing' = announcing \cup {d}
    /\ UNCHANGED <<attempts, wait, channel, workerVars, ctxLive, historyVars, faults>>

\* then announces it, unless the channel is full.
Announce(d) ==
    /\ d \in announcing
    /\ announcing' = announcing \ {d}
    /\ \/ Len(channel) < ChanDepth /\ channel' = Append(channel, d)
       \/ Len(channel) = ChanDepth /\ UNCHANGED channel
    /\ UNCHANGED <<rowVars, workerVars, ctxLive, historyVars, faults>>

\* DeleteJob and PurgeOldJobs remove the rows of their jobs at any time.
RemoveRow(d) ==
    /\ status[d] \in Present
    /\ status' = [status EXCEPT ![d] = "gone"]
    /\ UNCHANGED <<attempts, wait, announcing, channel, workerVars, ctxLive,
                   historyVars, faults>>

-------------------------------------------------------------------------------
(* webhookWorker                                                             *)

\* Faulty variant: NULL is not <= now.
DueTimed(d) == status[d] = "PENDING" /\ wait[d] = 0 /\ attempts[d] > 0

\* The WHERE clause of GetPendingWebhooks.
Due(d) == status[d] = "PENDING" /\ wait[d] = 0

\* Faulty variant: an announced delivery is posted whatever became of it.
DeliverableAnyway(d) == status[d] \in Present

\* attemptWebhook: "Only deliver if it is still pending".
Deliverable(d) == status[d] = "PENDING"

\* ORDER BY created_at ASC LIMIT BatchSize
FirstDue ==
    LET due == {d \in Delivery : Due(d)}
    IN  {d \in due : Cardinality({e \in due : e < d}) < BatchSize}

\* What the worker has just read, to be posted one by one.
Take(read) ==
    /\ batch' = read
    /\ seen' = [d \in Delivery |-> IF d \in read THEN attempts[d] ELSE 0]
    /\ stage' = IF read = {} THEN "select" ELSE "next"

\* The ticker: processPendingWebhooks.
Sweep ==
    /\ stage = "select"
    /\ \/ CallWorks /\ Take(FirstDue)
       \/ CallFails /\ UNCHANGED <<stage, batch, seen>>
    /\ UNCHANGED <<rowVars, announcing, channel, spent, success, ctxLive, historyVars>>

\* An announced delivery: attemptWebhook reads it under a context of its own,
\* and whether its time has come is not asked.
Receive ==
    /\ stage = "select"
    /\ channel # <<>>
    /\ channel' = Tail(channel)
    /\ \/ Take({d \in {Head(channel)} : Deliverable(d)}) /\ UNCHANGED faults
       \/ Fault /\ UNCHANGED <<stage, batch, seen>>
    /\ UNCHANGED <<rowVars, announcing, spent, success, ctxLive, historyVars>>

\* The sweep goes through the deliveries in their order.
Current == Min(batch)

\* sendOneWebhook takes the time and posts,
Post ==
    /\ stage = "next"
    /\ stage' = "posting"
    /\ spent' = 0
    /\ UNCHANGED <<rowVars, announcing, channel, batch, seen, success, ctxLive,
                   historyVars, faults>>

\* under no context but the timeout of the client; the recipient answers with
\* 2xx, with something else, or never.
Answer(ok) ==
    /\ stage = "posting"
    /\ stage' = "recording"
    /\ success' = ok
    /\ posts' = [posts EXCEPT ![Current] = @ + 1]
    /\ accepted' = [accepted EXCEPT ![Current] = IF ok THEN @ + 1 ELSE @]
    /\ UNCHANGED <<rowVars, announcing, channel, batch, seen, spent, ctxLive,
                   unrecorded, faults>>

\* Faulty variant: d.Attempts++ is missing.
AttemptForgotten(d) == seen[d]

\* d.Attempts after d.Attempts++
Attempt(d) == seen[d] + 1

\* Faulty variants: one attempt too many, and one too few.
GivesUpLate(a) == a > MaxRetries
GivesUpEarly(a) == a >= MaxRetries \/ a + 1 >= MaxRetries

\* d.Attempts >= maxWebhookRetries
GivesUp(a) == a >= MaxRetries

\* What setWebhookStatus writes after an answer.
Verdict == IF success THEN "SUCCESS"
           ELSE IF GivesUp(Attempt(Current)) THEN "FAILED" ELSE "PENDING"

\* The UPDATE; without a row it changes nothing.
WriteRow(d) ==
    /\ status' = [status EXCEPT ![d] = IF @ \in Present THEN Verdict ELSE @]
    /\ attempts' = [attempts EXCEPT ![d] = IF status[d] \in Present THEN Attempt(d) ELSE @]
    /\ wait' = [wait EXCEPT ![d] =
           IF status[d] \in Present
           THEN IF Verdict = "PENDING" THEN Max({Backoff(Attempt(d)) - spent, 0}) ELSE 0
           ELSE @]

\* setWebhookStatus, whose error is only logged; then the next of the batch.
Record ==
    /\ stage = "recording"
    /\ \/ /\ CallWorks
          /\ WriteRow(Current)
          /\ UNCHANGED unrecorded
       \/ /\ CallFails
          /\ unrecorded' = [unrecorded EXCEPT ![Current] = @ + 1]
          /\ UNCHANGED rowVars
    /\ batch' = batch \ {Current}
    /\ seen' = [seen EXCEPT ![Current] = 0]
    /\ stage' = IF batch = {Current} THEN "select" ELSE "next"
    /\ spent' = 0
    /\ success' = FALSE
    /\ UNCHANGED <<announcing, channel, ctxLive, posts, accepted>>

\* case <-m.ctx.Done(): select may prefer the other cases for a while.
Exit ==
    /\ stage = "select"
    /\ ~ctxLive
    /\ stage' = "exited"
    /\ UNCHANGED <<rowVars, announcing, channel, batch, seen, spent, success, ctxLive,
                   historyVars, faults>>

WebhookWorker ==
    \/ Sweep \/ Receive \/ Post \/ Record \/ Exit
    \/ \E ok \in BOOLEAN : Answer(ok)

-------------------------------------------------------------------------------
(* Time and the process                                                      *)

\* One second.
Elapse ==
    /\ wait' = [d \in Delivery |-> Max({wait[d] - 1, 0})]
    /\ spent' = IF stage \in {"posting", "recording"} THEN Min({spent + 1, LongestWait})
                ELSE spent
    /\ UNCHANGED <<status, attempts, announcing, channel, stage, batch, seen, success,
                   ctxLive, historyVars, faults>>

\* Stop
CancelContext ==
    /\ ctxLive
    /\ Fault
    /\ ctxLive' = FALSE
    /\ UNCHANGED <<rowVars, announcing, channel, workerVars, historyVars>>

\* A new process: only the table is left.
StartProcess ==
    /\ announcing' = {}
    /\ channel' = <<>>
    /\ stage' = "select"
    /\ batch' = {}
    /\ seen' = Zero
    /\ spent' = 0
    /\ success' = FALSE
    /\ ctxLive' = TRUE
    /\ unrecorded' = [d \in Delivery |->
           IF stage = "recording" /\ d = Current THEN unrecorded[d] + 1 ELSE unrecorded[d]]
    /\ UNCHANGED <<rowVars, posts, accepted>>

Crash == Fault /\ StartProcess

\* After Stop: every goroutine has returned.
Reboot ==
    /\ stage = "exited"
    /\ announcing = {}
    /\ UNCHANGED faults
    /\ StartProcess

Next ==
    \/ \E d \in Delivery : EnqueueWebhook(d) \/ Announce(d) \/ RemoveRow(d)
    \/ WebhookWorker
    \/ Elapse \/ CancelContext \/ Crash \/ Reboot

Spec == Init /\ [][Next]_vars

\* Goroutines run, calls return, the ticker ticks and time goes on; no fault is
\* due.  select takes a ready case at random, so that none waits for ever.
Fairness ==
    /\ \A d \in Delivery : WF_vars(Announce(d))
    /\ WF_vars(Sweep /\ UNCHANGED faults) /\ SF_vars(Receive /\ UNCHANGED faults)
    /\ WF_vars(Post) /\ WF_vars(\E ok \in BOOLEAN : Answer(ok)) /\ WF_vars(Record)
    /\ SF_vars(Exit)
    /\ WF_vars(Elapse)
    /\ WF_vars(Reboot)

FairSpec == Spec /\ Fairness

-------------------------------------------------------------------------------
(* Properties                                                                *)

\* The request that is being recorded.
InFlight(d) == IF stage = "recording" /\ d = Current THEN 1 ELSE 0

\* The two ways to a delivery share one count of attempts: the row knows of
\* every request that the recipient got but for those that were not recorded.
\* So nobody is called more than MaxRetries times while the store works.
AttemptsAreCounted ==
    \A d \in Delivery : status[d] \in Present =>
        posts[d] = attempts[d] + unrecorded[d] + InFlight(d)

\* A recipient takes a notice once, and once more at most for each answer that
\* was not recorded: never because the channel and the sweep both hold it.
NoDuplicate ==
    \A d \in Delivery : accepted[d] <= 1 + unrecorded[d]

\* SUCCESS was heard from the recipient, and FAILED is said after all the
\* attempts, none of which was recorded as taken.
OutcomeIsEarned ==
    \A d \in Delivery :
        /\ status[d] = "SUCCESS" => accepted[d] > 0
        /\ status[d] = "FAILED" => attempts[d] = MaxRetries /\ accepted[d] <= unrecorded[d]

\* An outcome is final: no stale copy of a row in the worker undoes it, and a
\* removed row does not come back.
OutcomeIsFinal ==
    [][\A d \in Delivery :
          /\ status[d] \in {"SUCCESS", "FAILED"} => status'[d] \in {status[d], "gone"}
          /\ status[d] = "gone" => status'[d] = "gone"
          /\ status[d] \in Present /\ status'[d] \in Present => attempts'[d] >= attempts[d]]_vars

\* A request to come: the worker has a copy of the row, and has not posted it.
ToBePosted(d) == d \in batch /\ ~(stage = "recording" /\ d = Current)

\* What becomes of a delivery is what NoticeLifecycle promises: whatever the two
\* ways to it, stale copies, removals, stops and crashes do together.
NoticeState ==
    [d \in Delivery |-> IF status[d] = "gone" /\ ToBePosted(d) THEN "leaving"
                                                              ELSE status[d]]

Lifecycle ==
    INSTANCE NoticeLifecycle
    WITH Notice <- Delivery,
         Attempts <- MaxRetries,
         state <- NoticeState,
         tries <- attempts,
         taken <- {d \in Delivery : accepted[d] > 0},
         unheard <- {d \in Delivery : unrecorded[d] > 0}

ImplementsNoticeLifecycle == Lifecycle!Spec

\* "Persistence ensures that notifications are eventually delivered even if the
\* daemon restarts" (docs/decisions.md): whatever is stored is decided, through
\* a full channel, a small batch, stops and crashes.
DeliveryIsDecided ==
    \A d \in Delivery : status[d] = "PENDING" ~> status[d] # "PENDING"
===============================================================================
