---------------------------- MODULE WebhooksProofs ----------------------------
(***************************************************************************)
(* Theorems about Webhooks for every set of deliveries, every limit and    *)
(* every number of faults.  The inductive invariant says what the worker's *)
(* copy of a row is worth: while a delivery is in the batch nobody else    *)
(* writes its row, so that the copy tells the attempts as the row does,    *)
(* unless the row has gone.                                                *)
(***************************************************************************)
EXTENDS Webhooks, FiniteSetTheorems, WellFoundedInduction, TLAPS

Typed ==
    /\ status \in [Delivery -> Present \cup {"none", "gone"}]
    /\ attempts \in [Delivery -> Nat]
    /\ seen \in [Delivery -> Nat]
    /\ posts \in [Delivery -> Nat]
    /\ accepted \in [Delivery -> Nat]
    /\ unrecorded \in [Delivery -> Nat]
    /\ channel \in Seq(Delivery)
    /\ batch \in SUBSET Delivery
    /\ stage \in {"select", "next", "posting", "recording", "exited"}
    /\ success \in BOOLEAN

\* The worker holds a batch exactly while it goes through it.
BatchInHand == batch # {} <=> stage \in {"next", "posting", "recording"}

\* The copies are not stale.
CopiesAreFresh ==
    \A d \in batch :
        /\ status[d] \in {"PENDING", "gone"}
        /\ status[d] = "PENDING" => seen[d] = attempts[d]

\* A delivery that is not stored has no history, and one that is pending has
\* attempts left.
AttemptsLeft ==
    \A d \in Delivery :
        /\ status[d] = "none" =>
              attempts[d] = 0 /\ posts[d] = 0 /\ accepted[d] = 0 /\ unrecorded[d] = 0
        /\ status[d] = "PENDING" => attempts[d] < MaxRetries
        /\ status[d] = "FAILED" => attempts[d] = MaxRetries
        /\ status[d] = "SUCCESS" => accepted[d] > 0

\* One that may be posted again has been taken only by requests that were not
\* recorded, the one in flight aside.
Open(d) == status[d] \in {"none", "PENDING", "FAILED"} \/ d \in batch

TakenInFlight(d) == IF stage = "recording" /\ d = Current /\ success THEN 1 ELSE 0

TakenOnce ==
    \A d \in Delivery :
        /\ accepted[d] <= 1 + unrecorded[d]
        /\ Open(d) => accepted[d] <= unrecorded[d] + TakenInFlight(d)

\* A request that was taken has been counted.
AnswerIsCounted == stage = "recording" /\ success => accepted[Current] > 0

IInv ==
    /\ Typed /\ BatchInHand /\ CopiesAreFresh /\ AttemptsLeft
    /\ AttemptsAreCounted /\ TakenOnce /\ AnswerIsCounted

\* A set of natural numbers that is not empty has its Min.
LEMMA MinIsMember ==
  ASSUME NEW S \in SUBSET Nat, S # {}
  PROVE  Min(S) \in S
  <1>1. PICK x \in S : \A y \in S : ~ (<<y, x>> \in OpToRel(<, Nat))
    BY NatLessThanWellFounded, WFMin
  <1>2. \A y \in S : ~ (y < x)
    BY <1>1 DEF OpToRel
  <1>3. \A y \in S : x =< y
    BY <1>2
  <1>4. QED
    BY <1>3 DEF Min

LEMMA MinIsLeast ==
  ASSUME NEW S \in SUBSET Nat, NEW x \in S
  PROVE  Min(S) =< x
  <1>1. PICK m \in S : \A y \in S : ~ (<<y, m>> \in OpToRel(<, Nat))
    BY NatLessThanWellFounded, WFMin
  <1>2. \A y \in S : ~ (y < m)
    BY <1>1 DEF OpToRel
  <1>3. \A y \in S : m =< y
    BY <1>2
  <1>4. QED
    BY <1>3 DEF Min

LEMMA CurrentInBatch ==
  ASSUME IInv, batch # {}
  PROVE  Current \in batch /\ Current \in Delivery
  BY MinIsMember, DeliveryAssumption DEF IInv, Typed, Current

LEMMA CurrentStays == ASSUME batch' = batch PROVE Current' = Current
  BY DEF Current

LEMMA InitIInv == Init => IInv
  <1> SUFFICES ASSUME Init PROVE IInv
    OBVIOUS
  <1> USE DEF Init, Zero
  <1>0. <<>> \in Seq(Delivery)
    OBVIOUS
  <1>1. Typed /\ BatchInHand /\ CopiesAreFresh
    BY <1>0 DEF Typed, BatchInHand, CopiesAreFresh
  <1>2. AttemptsLeft /\ AttemptsAreCounted
    BY DEF AttemptsLeft, AttemptsAreCounted, Present
  <1>3. TakenOnce /\ AnswerIsCounted
    BY DEF TakenOnce, TakenInFlight, AnswerIsCounted
  <1>4. QED
    BY <1>1, <1>2, <1>3 DEF IInv

\* What only touches the time, the channel or the context touches nothing here.
LEMMA QuietIInv ==
  ASSUME IInv, channel' \in Seq(Delivery),
         UNCHANGED <<status, attempts, stage, batch, seen, success, historyVars>>
  PROVE  IInv'
  BY CurrentStays
  DEF IInv, Typed, BatchInHand, CopiesAreFresh, AttemptsLeft, AttemptsAreCounted,
      TakenOnce, Open, TakenInFlight, AnswerIsCounted, InFlight, historyVars

\* Rows come and go.
LEMMA RowIInv ==
  ASSUME IInv, NEW d \in Delivery, EnqueueWebhook(d) \/ RemoveRow(d)
  PROVE  IInv'
  <1>1. Current' = Current
    BY CurrentStays DEF EnqueueWebhook, RemoveRow, workerVars
  <1> USE DEF IInv, Typed, BatchInHand, CopiesAreFresh, AttemptsLeft, AttemptsAreCounted,
              TakenOnce, Open, TakenInFlight, AnswerIsCounted, InFlight, Present,
              workerVars, historyVars
  <1>2. CASE EnqueueWebhook(d)
    <2>1. d \notin batch
      BY <1>2 DEF EnqueueWebhook
    <2>2. stage = "recording" => d # Current
      BY <2>1, CurrentInBatch
    <2>3. Typed' /\ BatchInHand' /\ CopiesAreFresh'
      BY <1>2, <2>1 DEF EnqueueWebhook
    <2>4. AttemptsLeft' /\ AttemptsAreCounted'
      BY <1>1, <1>2, <2>2, LimitAssumption DEF EnqueueWebhook
    <2>5. TakenOnce' /\ AnswerIsCounted'
      BY <1>1, <1>2, <2>2 DEF EnqueueWebhook
    <2>6. QED
      BY <2>3, <2>4, <2>5
  <1>3. CASE RemoveRow(d)
    BY <1>1, <1>3 DEF RemoveRow
  <1>4. QED
    BY <1>2, <1>3

\* What the worker reads is pending, and it is read as it is.
LEMMA TakeIInv ==
  ASSUME IInv, NEW read \in SUBSET Delivery, Take(read), stage = "select",
         \A d \in read : status[d] = "PENDING", channel' \in Seq(Delivery),
         UNCHANGED <<status, attempts, success, historyVars>>
  PROVE  IInv'
  <1> USE DEF IInv, Take, historyVars
  <1>1. Typed' /\ BatchInHand'
    BY DEF Typed, BatchInHand
  <1>2. CopiesAreFresh'
    BY DEF CopiesAreFresh
  <1>3. AttemptsLeft'
    BY DEF AttemptsLeft
  <1>4. AttemptsAreCounted'
    BY DEF AttemptsAreCounted, InFlight
  <1>5. batch = {}
    BY DEF BatchInHand
  <1>6. TakenOnce' /\ AnswerIsCounted'
    BY <1>5 DEF TakenOnce, Open, TakenInFlight, AnswerIsCounted
  <1>7. QED
    BY <1>1, <1>2, <1>3, <1>4, <1>6

LEMMA ReadIInv ==
  ASSUME IInv, Sweep \/ Receive
  PROVE  IInv'
  <1>1. CASE Sweep
    <2>1. FirstDue \in SUBSET Delivery /\ \A d \in FirstDue : status[d] = "PENDING"
      BY DEF FirstDue, Due
    <2>2. channel' \in Seq(Delivery)
      BY <1>1 DEF Sweep, IInv, Typed
    <2>3. QED
      BY <1>1, <2>1, <2>2, TakeIInv, QuietIInv DEF Sweep, rowVars
  <1>2. CASE Receive
    <2>1. Head(channel) \in Delivery /\ channel' \in Seq(Delivery)
      BY <1>2 DEF Receive, IInv, Typed
    <2>2. QED
      BY <1>2, <2>1, TakeIInv, QuietIInv DEF Receive, rowVars, Deliverable
  <1>3. QED
    BY <1>1, <1>2


\* A request is counted while it is in flight.
LEMMA PostIInv ==
  ASSUME IInv, Post \/ \E ok \in BOOLEAN : Answer(ok)
  PROVE  IInv'
  <1>1. Current' = Current
    BY CurrentStays DEF Post, Answer
  <1> USE DEF IInv, rowVars, historyVars
  <1>2. CASE Post
    <2>1. Typed' /\ BatchInHand' /\ CopiesAreFresh' /\ AttemptsLeft'
      BY <1>2 DEF Post, Typed, BatchInHand, CopiesAreFresh, AttemptsLeft
    <2>2. AttemptsAreCounted'
      BY <1>2 DEF Post, AttemptsAreCounted, InFlight
    <2>3. TakenOnce' /\ AnswerIsCounted'
      BY <1>2 DEF Post, TakenOnce, Open, TakenInFlight, AnswerIsCounted
    <2>4. QED
      BY <2>1, <2>2, <2>3
  <1>3. ASSUME NEW ok \in BOOLEAN, Answer(ok) PROVE IInv'
    <2>1. Current \in batch /\ Current \in Delivery
      BY <1>3, CurrentInBatch DEF Answer, BatchInHand
    <2>2. /\ posts'[Current] = posts[Current] + 1
          /\ accepted'[Current] = IF ok THEN accepted[Current] + 1 ELSE accepted[Current]
          /\ \A d \in Delivery \ {Current} :
                posts'[d] = posts[d] /\ accepted'[d] = accepted[d]
          /\ UNCHANGED <<status, attempts, unrecorded, batch, seen, channel>>
          /\ stage = "posting" /\ stage' = "recording" /\ success' = ok
      BY <1>3, <2>1 DEF Answer, Typed
    <2>3. Typed'
      BY <1>3, <2>1 DEF Answer, Typed
    <2>4. BatchInHand' /\ CopiesAreFresh'
      BY <2>2 DEF BatchInHand, CopiesAreFresh
    <2>5. status[Current] \in {"PENDING", "gone"}
      BY <2>1 DEF CopiesAreFresh
    <2>6. AttemptsLeft'
      BY <2>2, <2>5 DEF AttemptsLeft, Typed
    <2>7. AttemptsAreCounted'
      BY <1>1, <2>1, <2>2 DEF AttemptsAreCounted, InFlight, Typed
    <2>8. TakenOnce' /\ AnswerIsCounted'
      BY <1>1, <2>1, <2>2 DEF TakenOnce, Open, TakenInFlight, AnswerIsCounted, Typed
    <2>9. QED
      BY <2>3, <2>4, <2>6, <2>7, <2>8
  <1>4. QED
    BY <1>2, <1>3

\* The UPDATE puts the request in flight on the row.
LEMMA RecordIInv ==
  ASSUME IInv, Record
  PROVE  IInv'
  <1>1. Current \in batch /\ Current \in Delivery
    BY CurrentInBatch DEF Record, IInv, BatchInHand
  <1>2. /\ stage = "recording"
        /\ batch' = batch \ {Current} /\ seen' = [seen EXCEPT ![Current] = 0]
        /\ stage' = IF batch = {Current} THEN "select" ELSE "next"
        /\ success' = FALSE
        /\ UNCHANGED <<channel, posts, accepted>>
    BY DEF Record
  <1>3. /\ status[Current] \in {"PENDING", "gone"}
        /\ status[Current] = "PENDING" => seen[Current] = attempts[Current]
    BY <1>1 DEF IInv, CopiesAreFresh
  <1>4. BatchInHand' /\ AnswerIsCounted'
    BY <1>1, <1>2 DEF BatchInHand, AnswerIsCounted
  <1> DEFINE c == Current
  <1> HIDE DEF c
  <1>5. CASE WriteRow(Current) /\ UNCHANGED unrecorded
    <2>1. /\ status' = [status EXCEPT ![c] = IF @ \in Present THEN Verdict ELSE @]
          /\ attempts' = [attempts EXCEPT ![c] =
                            IF status[c] \in Present THEN seen[c] + 1 ELSE @]
      BY <1>5 DEF WriteRow, Attempt, c
    <2>2. /\ Verdict \in Present
          /\ Verdict = "SUCCESS" <=> success
          /\ Verdict = "PENDING" => seen[c] + 1 < MaxRetries
          /\ Verdict = "FAILED" => seen[c] + 1 >= MaxRetries
      BY <1>1, LimitAssumption DEF Verdict, GivesUp, Attempt, Present, c, IInv, Typed
    <2>3. Typed'
      <3>1. status' \in [Delivery -> Present \cup {"none", "gone"}]
        BY <2>1, <2>2 DEF IInv, Typed
      <3>2. attempts' \in [Delivery -> Nat] /\ seen' \in [Delivery -> Nat]
        BY <1>1, <1>2, <2>1 DEF c, IInv, Typed
      <3>3. QED
        BY <1>2, <1>5, <3>1, <3>2 DEF IInv, Typed
    <2>4. CASE status[c] = "gone"
      <3>1. UNCHANGED <<status, attempts>>
        BY <1>1, <2>1, <2>4 DEF c, Present, IInv, Typed
      <3>2. CopiesAreFresh'
        BY <1>1, <1>2, <3>1 DEF IInv, Typed, CopiesAreFresh
      <3>3. AttemptsLeft'
        BY <1>2, <1>5, <3>1 DEF IInv, AttemptsLeft
      <3>4. AttemptsAreCounted'
        BY <1>2, <1>5, <2>4, <3>1 DEF IInv, AttemptsAreCounted, InFlight, c, Present
      <3>5. TakenOnce'
        BY <1>2, <1>5, <2>4, <3>1 DEF IInv, TakenOnce, Open, TakenInFlight, c
      <3>6. QED
        BY <1>4, <2>3, <3>2, <3>3, <3>4, <3>5 DEF IInv
    <2>5. CASE status[c] = "PENDING"
      <3>1. /\ status'[c] = Verdict /\ attempts'[c] = attempts[c] + 1
            /\ \A d \in Delivery \ {c} : status'[d] = status[d] /\ attempts'[d] = attempts[d]
        BY <1>1, <1>3, <2>1, <2>5 DEF c, Present, IInv, Typed
      <3>2. CopiesAreFresh'
        BY <1>1, <1>2, <3>1 DEF IInv, Typed, CopiesAreFresh, c
      <3>3. posts[c] = attempts[c] + unrecorded[c] + 1
        BY <1>1, <1>2, <2>5 DEF IInv, AttemptsAreCounted, InFlight, Present, c
      <3>4. AttemptsAreCounted'
        <4>1. ASSUME NEW d \in Delivery, status'[d] \in Present
              PROVE  posts'[d] = attempts'[d] + unrecorded'[d] + InFlight(d)'
          <5>1. InFlight(d)' = 0
            BY <1>2 DEF InFlight
          <5>2. CASE d = c
            BY <1>1, <1>2, <1>5, <3>1, <3>3, <5>1, <5>2 DEF c, IInv, Typed
          <5>3. CASE d # c
            BY <1>2, <1>5, <3>1, <4>1, <5>1, <5>3 DEF c, IInv, Typed, AttemptsAreCounted,
               InFlight
          <5>4. QED
            BY <5>2, <5>3
        <4>2. QED
          BY <4>1 DEF AttemptsAreCounted
      <3>5. accepted[c] <= unrecorded[c] + (IF success THEN 1 ELSE 0)
        BY <1>1, <1>2 DEF IInv, TakenOnce, Open, TakenInFlight, c
      <3>6. Verdict = "SUCCESS" => accepted[c] > 0
        BY <1>2, <2>2 DEF IInv, AnswerIsCounted, c
      <3>7. AttemptsLeft'
        <4>1. /\ seen[c] = attempts[c] /\ attempts[c] \in Nat
              /\ attempts[c] < MaxRetries
          BY <1>1, <1>3, <2>5 DEF IInv, Typed, AttemptsLeft, c
        <4>2. /\ Verdict = "PENDING" => attempts[c] + 1 < MaxRetries
              /\ Verdict = "FAILED" => attempts[c] + 1 = MaxRetries
              /\ Verdict # "none"
          BY <2>2, <4>1, LimitAssumption DEF Present
        <4>3. QED
          BY <1>2, <1>5, <3>1, <3>6, <4>2 DEF IInv, AttemptsLeft
      <3>8. TakenOnce'
        BY <1>1, <1>2, <1>5, <2>2, <3>1, <3>5 DEF IInv, Typed, TakenOnce, Open,
           TakenInFlight, c
      <3>9. QED
        BY <1>4, <2>3, <3>2, <3>4, <3>7, <3>8 DEF IInv
    <2>6. QED
      BY <1>3, <2>4, <2>5 DEF c
  <1>6. CASE unrecorded' = [unrecorded EXCEPT ![Current] = @ + 1] /\ UNCHANGED rowVars
    <2>1. UNCHANGED <<status, attempts>>
      BY <1>6 DEF rowVars
    <2>2. /\ unrecorded'[c] = unrecorded[c] + 1
          /\ \A d \in Delivery \ {c} : unrecorded'[d] = unrecorded[d]
      BY <1>1, <1>6 DEF c, IInv, Typed
    <2>3. Typed'
      <3>1. unrecorded' \in [Delivery -> Nat] /\ seen' \in [Delivery -> Nat]
        BY <1>1, <1>2, <1>6 DEF IInv, Typed
      <3>2. QED
        BY <1>2, <2>1, <3>1 DEF IInv, Typed
    <2>4. CopiesAreFresh'
      BY <1>1, <1>2, <2>1 DEF IInv, Typed, CopiesAreFresh
    <2>5. AttemptsLeft'
      BY <1>1, <1>2, <1>3, <2>1, <2>2 DEF IInv, AttemptsLeft, c
    <2>6. AttemptsAreCounted'
      <3>1. ASSUME NEW d \in Delivery, status[d] \in Present
            PROVE  posts'[d] = attempts'[d] + unrecorded'[d]
        <4>1. posts[d] = attempts[d] + unrecorded[d] + InFlight(d)
          BY <3>1 DEF IInv, AttemptsAreCounted
        <4>2. unrecorded'[d] = unrecorded[d] + InFlight(d)
          BY <1>2, <2>2 DEF InFlight, c, IInv, Typed
        <4>3. QED
          BY <1>2, <2>1, <4>1, <4>2, <3>1 DEF IInv, Typed, InFlight
      <3>2. \A d \in Delivery : InFlight(d)' = 0
        BY <1>2 DEF InFlight
      <3>3. QED
        BY <2>1, <2>3, <3>1, <3>2 DEF AttemptsAreCounted, Typed
    <2>7. TakenOnce'
      <3>1. ASSUME NEW d \in Delivery
            PROVE  /\ accepted[d] <= 1 + unrecorded'[d]
                   /\ Open(d) => accepted[d] <= unrecorded'[d]
        <4>1. /\ accepted[d] \in Nat /\ unrecorded[d] \in Nat
              /\ accepted[d] <= 1 + unrecorded[d]
              /\ Open(d) => accepted[d] <= unrecorded[d] + TakenInFlight(d)
          BY DEF IInv, Typed, TakenOnce
        <4>2. CASE d = c
          BY <2>2, <4>1, <4>2 DEF TakenInFlight
        <4>3. CASE d # c
          <5>1. unrecorded'[d] = unrecorded[d] /\ TakenInFlight(d) = 0
            BY <2>2, <4>3 DEF TakenInFlight, c
          <5>2. QED
            BY <4>1, <5>1
        <4>4. QED
          BY <4>2, <4>3
      <3>2. \A d \in Delivery : TakenInFlight(d)' = 0 /\ (Open(d)' => Open(d))
        BY <1>2, <2>1 DEF TakenInFlight, Open
      <3>3. QED
        BY <1>2, <2>3, <3>1, <3>2 DEF TakenOnce, Typed
    <2>8. QED
      BY <1>4, <2>3, <2>4, <2>5, <2>6, <2>7 DEF IInv
  <1>7. QED
    BY <1>5, <1>6 DEF Record

\* A process that ends between an answer and its UPDATE leaves it unrecorded.
LEMMA StartProcessIInv ==
  ASSUME IInv, StartProcess
  PROVE  IInv'
  <1>1. stage = "recording" => Current \in batch /\ Current \in Delivery
    BY CurrentInBatch DEF IInv, BatchInHand
  <1>2. /\ batch' = {} /\ stage' = "select" /\ success' = FALSE /\ channel' = <<>>
        /\ seen' = [d \in Delivery |-> 0]
        /\ UNCHANGED <<status, attempts, posts, accepted>>
        /\ unrecorded' = [d \in Delivery |-> unrecorded[d] + InFlight(d)]
    BY DEF StartProcess, rowVars, Zero, InFlight, IInv, Typed
  <1>3. \A d \in Delivery : InFlight(d) \in {0, 1}
    BY DEF InFlight
  <1>4. <<>> \in Seq(Delivery)
    OBVIOUS
  <1>5. /\ unrecorded' \in [Delivery -> Nat]
        /\ \A d \in Delivery : unrecorded'[d] = unrecorded[d] + InFlight(d)
    <2>1. \A d \in Delivery : unrecorded[d] \in Nat /\ InFlight(d) \in Nat
      BY <1>3 DEF IInv, Typed
    <2>2. \A d \in Delivery : unrecorded[d] + InFlight(d) \in Nat
      BY <2>1
    <2>3. QED
      BY <1>2, <2>2
  <1>6. Typed'
    BY <1>2, <1>4, <1>5 DEF IInv, Typed
  <1>7. BatchInHand' /\ CopiesAreFresh' /\ AnswerIsCounted'
    BY <1>2 DEF BatchInHand, CopiesAreFresh, AnswerIsCounted
  <1>8. \A d \in Delivery : InFlight(d)' = 0 /\ TakenInFlight(d)' = 0
    BY <1>2 DEF InFlight, TakenInFlight
  <1>9. AttemptsAreCounted'
    <2> SUFFICES ASSUME NEW d \in Delivery, status[d] \in Present
                 PROVE  posts[d] = attempts[d] + unrecorded'[d]
      BY <1>2, <1>6, <1>8 DEF AttemptsAreCounted, Typed
    <2>1. posts[d] = attempts[d] + unrecorded[d] + InFlight(d)
      BY DEF IInv, AttemptsAreCounted
    <2>2. unrecorded'[d] = unrecorded[d] + InFlight(d)
      BY <1>5
    <2>3. attempts[d] \in Nat /\ unrecorded[d] \in Nat /\ InFlight(d) \in Nat
      BY DEF IInv, Typed, InFlight
    <2>4. QED
      BY <2>1, <2>2, <2>3
  <1>10. AttemptsLeft'
    <2>1. \A d \in Delivery : status[d] = "none" => InFlight(d) = 0
      BY <1>1 DEF InFlight, IInv, CopiesAreFresh
    <2>2. QED
      BY <1>2, <2>1 DEF IInv, AttemptsLeft
  <1>11. TakenOnce'
    <2> SUFFICES ASSUME NEW d \in Delivery
                 PROVE  /\ accepted[d] <= 1 + unrecorded'[d]
                        /\ Open(d)' => accepted[d] <= unrecorded'[d]
      BY <1>2, <1>6, <1>8 DEF TakenOnce, Typed
    <2>1. TakenInFlight(d) <= InFlight(d) /\ TakenInFlight(d) \in {0, 1}
      BY DEF InFlight, TakenInFlight
    <2>2. Open(d)' => Open(d)
      BY <1>2 DEF Open
    <2>3. /\ accepted[d] <= 1 + unrecorded[d]
          /\ Open(d) => accepted[d] <= unrecorded[d] + TakenInFlight(d)
      BY DEF IInv, TakenOnce
    <2>4. accepted[d] \in Nat /\ unrecorded[d] \in Nat /\ InFlight(d) \in {0, 1}
      BY <1>3 DEF IInv, Typed
    <2>5. QED
      BY <1>5, <2>1, <2>2, <2>3, <2>4
  <1>12. QED
    BY <1>6, <1>7, <1>9, <1>10, <1>11 DEF IInv

LEMMA NextIInv ==
  ASSUME IInv, [Next]_vars
  PROVE  IInv'
  <1>1. ASSUME NEW d \in Delivery, EnqueueWebhook(d) \/ Announce(d) \/ RemoveRow(d)
        PROVE  IInv'
    <2>1. CASE Announce(d)
      <3>1. channel' \in Seq(Delivery)
        <4>1. channel \in Seq(Delivery)
          BY DEF IInv, Typed
        <4>2. Append(channel, d) \in Seq(Delivery)
          BY <4>1
        <4>3. QED
          BY <2>1, <4>1, <4>2 DEF Announce
      <3>2. QED
        BY <2>1, <3>1, QuietIInv DEF Announce, rowVars, workerVars
    <2>2. QED
      BY <1>1, <2>1, RowIInv
  <1>2. CASE WebhookWorker
    <2>1. CASE Exit
      <3>1. Typed' /\ BatchInHand' /\ CopiesAreFresh' /\ AttemptsLeft'
        BY <2>1 DEF Exit, rowVars, historyVars, IInv, Typed, BatchInHand, CopiesAreFresh,
                    AttemptsLeft
      <3>2. AttemptsAreCounted'
        BY <2>1 DEF Exit, rowVars, historyVars, IInv, AttemptsAreCounted, InFlight
      <3>3. TakenOnce' /\ AnswerIsCounted'
        BY <2>1 DEF Exit, rowVars, historyVars, IInv, TakenOnce, Open, TakenInFlight,
                    AnswerIsCounted
      <3>4. QED
        BY <3>1, <3>2, <3>3 DEF IInv
    <2>2. QED
      BY <1>2, <2>1, ReadIInv, PostIInv, RecordIInv DEF WebhookWorker
  <1>3. CASE Elapse \/ CancelContext \/ UNCHANGED vars
    <2>1. channel' \in Seq(Delivery)
      BY <1>3 DEF Elapse, CancelContext, vars, IInv, Typed
    <2>2. QED
      BY <1>3, <2>1, QuietIInv DEF Elapse, CancelContext, vars, rowVars, workerVars
  <1>4. CASE Crash \/ Reboot
    BY <1>4, StartProcessIInv DEF Crash, Reboot
  <1>5. QED
    BY <1>1, <1>2, <1>3, <1>4 DEF Next

THEOREM Invariance == Spec => []IInv
  BY InitIInv, NextIInv, PTL DEF Spec

\* The row of a delivery counts every request but those not recorded: the
\* recipient is not called more often than MaxRetries for any other reason.
THEOREM AttemptsCounted == Spec => []AttemptsAreCounted
  <1>1. IInv => AttemptsAreCounted
    BY DEF IInv
  <1>2. QED
    BY <1>1, Invariance, PTL

\* A recipient gets a notice it has taken again only after a fault.
THEOREM NoticeIsTakenOnce == Spec => []NoDuplicate
  <1>1. IInv => NoDuplicate
    BY DEF IInv, TakenOnce, NoDuplicate
  <1>2. QED
    BY <1>1, Invariance, PTL

\* SUCCESS and FAILED say what happened.
THEOREM OutcomesAreEarned == Spec => []OutcomeIsEarned
  <1>1. IInv => OutcomeIsEarned
    <2> SUFFICES ASSUME IInv, NEW d \in Delivery, status[d] = "FAILED"
                 PROVE  attempts[d] = MaxRetries /\ accepted[d] <= unrecorded[d]
      BY DEF IInv, AttemptsLeft, OutcomeIsEarned
    <2>1. TakenInFlight(d) = 0
      BY CurrentInBatch DEF TakenInFlight, IInv, BatchInHand, CopiesAreFresh
    <2>2. QED
      BY <2>1 DEF IInv, Typed, AttemptsLeft, TakenOnce, Open
  <1>2. QED
    BY <1>1, Invariance, PTL

\* No stale copy undoes an outcome, and nothing removed comes back.
THEOREM OutcomesAreFinal == Spec => OutcomeIsFinal
  <1> DEFINE Final ==
        \A d \in Delivery :
          /\ status[d] \in {"SUCCESS", "FAILED"} => status'[d] \in {status[d], "gone"}
          /\ status[d] = "gone" => status'[d] = "gone"
          /\ status[d] \in Present /\ status'[d] \in Present => attempts'[d] >= attempts[d]
  <1>1. ASSUME IInv, [Next]_vars PROVE [Final]_vars
    <2>1. ASSUME NEW d \in Delivery, EnqueueWebhook(d) \/ RemoveRow(d)
          PROVE  Final
      BY <1>1, <2>1 DEF EnqueueWebhook, RemoveRow, IInv, Typed, Present
    <2>2. CASE Record
      <3>1. Current \in batch /\ Current \in Delivery
        BY <1>1, <2>2, CurrentInBatch DEF Record, IInv, BatchInHand
      <3>2. status[Current] \in {"PENDING", "gone"}
        BY <1>1, <3>1 DEF IInv, CopiesAreFresh
      <3>3. CASE WriteRow(Current)
        <4>1. status[Current] = "PENDING" => Attempt(Current) = attempts[Current] + 1
          BY <1>1, <3>1 DEF Attempt, IInv, CopiesAreFresh
        <4>2. QED
          BY <1>1, <3>1, <3>2, <3>3, <4>1 DEF WriteRow, IInv, Typed, Present
      <3>4. CASE UNCHANGED rowVars
        BY <1>1, <3>4 DEF rowVars, IInv, Typed, Present
      <3>5. QED
        BY <2>2, <3>3, <3>4 DEF Record
    <2>3. CASE UNCHANGED <<status, attempts>>
      BY <1>1, <2>3 DEF IInv, Typed, Present
    <2>4. QED
      BY <1>1, <2>1, <2>2, <2>3
      DEF Next, WebhookWorker, Announce, Sweep, Receive, Post, Answer, Exit, Elapse,
          CancelContext, Crash, Reboot, StartProcess, rowVars, vars
  <1>2. QED
    BY <1>1, Invariance, PTL DEF Spec, OutcomeIsFinal

-------------------------------------------------------------------------------
(* The refinement of NoticeLifecycle, from the same invariant.               *)

\* Nothing that the lifecycle sees changes.
LEMMA HiddenStep ==
  ASSUME UNCHANGED <<status, attempts, accepted, unrecorded>>,
         \A d \in Delivery : status[d] = "gone" => (ToBePosted(d)' <=> ToBePosted(d))
  PROVE  UNCHANGED Lifecycle!vars
  BY DEF Lifecycle!vars, NoticeState

\* A row that comes is stored, and one that goes is removed.
LEMMA RowStep ==
  ASSUME IInv, NEW d \in Delivery, EnqueueWebhook(d) \/ RemoveRow(d)
  PROVE  Lifecycle!Store(d) \/ Lifecycle!Remove(d)
  <1>1. \A e \in Delivery : ToBePosted(e)' <=> ToBePosted(e)
    BY CurrentStays DEF ToBePosted, EnqueueWebhook, RemoveRow, workerVars
  <1>2. UNCHANGED <<attempts, accepted, unrecorded>>
    BY DEF EnqueueWebhook, RemoveRow, rowVars, historyVars
  <1>3. CASE EnqueueWebhook(d)
    <2>1. NoticeState[d] = "none"
      BY <1>3 DEF EnqueueWebhook, NoticeState
    <2>2. NoticeState' = [NoticeState EXCEPT ![d] = "PENDING"]
      BY <1>1, <1>3 DEF EnqueueWebhook, NoticeState, IInv, Typed
    <2>3. QED
      BY <1>2, <2>1, <2>2 DEF Lifecycle!Store, Lifecycle!Move
  <1>4. CASE RemoveRow(d)
    <2>1. NoticeState[d] = status[d] /\ status[d] \in {"PENDING", "SUCCESS", "FAILED"}
      BY <1>4 DEF RemoveRow, Present, NoticeState
    <2>2. ToBePosted(d) => status[d] = "PENDING"
      BY <2>1 DEF ToBePosted, IInv, CopiesAreFresh
    <2>3. NoticeState' = [NoticeState EXCEPT
                            ![d] = IF ToBePosted(d) THEN "leaving" ELSE "gone"]
      BY <1>1, <1>4 DEF RemoveRow, NoticeState, IInv, Typed
    <2>4. QED
      BY <1>2, <2>1, <2>2, <2>3 DEF Lifecycle!Remove, Lifecycle!Move
  <1>5. QED
    BY <1>3, <1>4

\* Only rows that are pending are taken up.
LEMMA TakeStep ==
  ASSUME IInv, Sweep \/ Receive
  PROVE  UNCHANGED Lifecycle!vars
  <1>1. batch = {} /\ stage = "select"
    BY DEF Sweep, Receive, IInv, BatchInHand
  <1>2. \A d \in batch' : status[d] = "PENDING"
    <2>1. \A d \in FirstDue : status[d] = "PENDING"
      BY DEF FirstDue, Due
    <2>2. QED
      BY <1>1, <2>1 DEF Sweep, Receive, Take, Deliverable
  <1>3. \A d \in Delivery : status[d] = "gone" => ~ToBePosted(d) /\ ~ToBePosted(d)'
    <2>1. status' = status
      BY DEF Sweep, Receive, rowVars
    <2>2. QED
      BY <1>1, <1>2, <2>1 DEF ToBePosted
  <1>4. QED
    BY <1>3, HiddenStep DEF Sweep, Receive, rowVars, historyVars

\* An answer is a request, of a notice that is pending or on its way out.
LEMMA AnswerStep ==
  ASSUME IInv, NEW ok \in BOOLEAN, Answer(ok)
  PROVE  Lifecycle!Next
  <1>1. Current \in batch /\ Current \in Delivery
    BY CurrentInBatch DEF Answer, IInv, BatchInHand
  <1>2. Current' = Current /\ status[Current] \in {"PENDING", "gone"}
    BY <1>1, CurrentStays DEF Answer, IInv, CopiesAreFresh
  <1>3. ToBePosted(Current) /\ ~ToBePosted(Current)'
    BY <1>1, <1>2 DEF ToBePosted, Answer
  <1>4. \A d \in Delivery : d # Current => (ToBePosted(d)' <=> ToBePosted(d))
    BY <1>2 DEF ToBePosted, Answer
  <1>5. NoticeState' = [NoticeState EXCEPT ![Current] = status[Current]]
    BY <1>1, <1>2, <1>3, <1>4 DEF NoticeState, Answer, rowVars, IInv, Typed
  <1>6. NoticeState[Current] = IF status[Current] = "gone" THEN "leaving" ELSE "PENDING"
    BY <1>1, <1>2, <1>3 DEF NoticeState
  <1>7. {d \in Delivery : accepted[d] > 0}' \in
           {{d \in Delivery : accepted[d] > 0},
            {d \in Delivery : accepted[d] > 0} \cup {Current}}
    <2>1. CASE ok
      BY <1>1, <2>1 DEF Answer, IInv, Typed
    <2>2. CASE ~ok
      BY <1>1, <2>2 DEF Answer, IInv, Typed
    <2>3. QED
      BY <2>1, <2>2
  <1>8. attempts' = attempts /\ unrecorded' = unrecorded
    BY DEF Answer, rowVars
  <1>9. PICK n \in Delivery : n = Current
    BY <1>1
  <1>10. Lifecycle!Ask(n)
    BY <1>2, <1>5, <1>6, <1>7, <1>8, <1>9 DEF Lifecycle!Ask, Lifecycle!Move
  <1>11. QED
    BY <1>10 DEF Lifecycle!Next

\* The record of a request decides the notice, or tries it again, or is lost.
LEMMA RecordStep ==
  ASSUME IInv, Record
  PROVE  [Lifecycle!Next]_(Lifecycle!vars)
  <1>1. Current \in batch /\ Current \in Delivery /\ stage = "recording"
    BY CurrentInBatch DEF Record, IInv, BatchInHand
  <1>2. status[Current] \in {"PENDING", "gone"}
    BY <1>1 DEF IInv, CopiesAreFresh
  <1>3. \A d \in Delivery : ToBePosted(d)' <=> ToBePosted(d)
    BY <1>1 DEF ToBePosted, Record
  <1>4. accepted' = accepted
    BY DEF Record
  <1>5. CASE WriteRow(Current) /\ unrecorded' = unrecorded
    <2>1. CASE status[Current] = "gone"
      <3>1. status' = status /\ attempts' = attempts
        BY <1>1, <1>5, <2>1 DEF WriteRow, Present, IInv, Typed
      <3>2. QED
        BY <1>3, <1>4, <1>5, <3>1, HiddenStep
    <2>2. CASE status[Current] = "PENDING"
      <3>1. Attempt(Current) = attempts[Current] + 1 /\ attempts[Current] + 1 <= MaxRetries
        BY <1>1, <2>2, LimitAssumption
        DEF Attempt, IInv, Typed, CopiesAreFresh, AttemptsLeft
      <3>2. NoticeState' = [NoticeState EXCEPT ![Current] = Verdict]
        BY <1>1, <1>3, <1>5, <2>2 DEF WriteRow, Present, NoticeState, Verdict, IInv, Typed
      <3>3. attempts' = [attempts EXCEPT ![Current] = @ + 1]
        BY <1>1, <1>5, <2>2, <3>1 DEF WriteRow, Present, IInv, Typed
      <3>4. NoticeState[Current] = "PENDING"
        BY <1>1, <2>2 DEF NoticeState
      <3> DEFINE taken == {d \in Delivery : accepted[d] > 0}
                 unheard == {d \in Delivery : unrecorded[d] > 0}
      <3>5. taken' = taken /\ unheard' = unheard
        BY <1>4, <1>5
      <3>6. CASE success
        <4>1. Verdict = "SUCCESS" /\ Current \in taken
          BY <1>1, <3>6 DEF Verdict, IInv, AnswerIsCounted
        <4>2. Lifecycle!Succeed(Current)
          BY <3>2, <3>3, <3>4, <3>5, <4>1
          DEF Lifecycle!Succeed, Lifecycle!Move, Lifecycle!Try
        <4>3. QED
          BY <1>1, <4>2 DEF Lifecycle!Next
      <3>7. CASE ~success /\ attempts[Current] + 1 >= MaxRetries
        <4>1. Verdict = "FAILED" /\ attempts[Current] + 1 = MaxRetries
          BY <1>1, <3>1, <3>7, LimitAssumption DEF Verdict, GivesUp, IInv, Typed
        <4>2. Current \in taken => Current \in unheard
          BY <1>1, <2>2, <3>7 DEF IInv, Typed, TakenOnce, Open, TakenInFlight
        <4>3. Lifecycle!GiveUp(Current)
          BY <3>2, <3>3, <3>4, <3>5, <4>1, <4>2
          DEF Lifecycle!GiveUp, Lifecycle!Move, Lifecycle!Try
        <4>4. QED
          BY <1>1, <4>3 DEF Lifecycle!Next
      <3>8. CASE ~success /\ ~(attempts[Current] + 1 >= MaxRetries)
        <4>1. Verdict = "PENDING" /\ attempts[Current] + 1 < MaxRetries
          BY <1>1, <3>1, <3>8, LimitAssumption DEF Verdict, GivesUp, IInv, Typed
        <4>2. Lifecycle!Retry(Current)
          BY <3>2, <3>3, <3>4, <3>5, <4>1
          DEF Lifecycle!Retry, Lifecycle!Move, Lifecycle!Try
        <4>3. QED
          BY <1>1, <4>2 DEF Lifecycle!Next
      <3>9. QED
        BY <3>6, <3>7, <3>8
    <2>3. QED
      BY <1>2, <2>1, <2>2
  <1>6. CASE UNCHANGED rowVars /\ unrecorded' = [unrecorded EXCEPT ![Current] = @ + 1]
    <2>1. NoticeState' = NoticeState
      BY <1>3, <1>6 DEF NoticeState, rowVars
    <2>2. NoticeState[Current] \in {"PENDING", "gone"}
      BY <1>1, <1>2 DEF NoticeState, ToBePosted
    <2>3. {d \in Delivery : unrecorded[d] > 0}'
             = {d \in Delivery : unrecorded[d] > 0} \cup {Current}
      BY <1>1, <1>6 DEF IInv, Typed
    <2>4. \E lost \in SUBSET {n \in Delivery : NoticeState[n] \in {"PENDING", "gone"}} :
             {d \in Delivery : unrecorded[d] > 0}' = {d \in Delivery : unrecorded[d] > 0} \cup lost
      <3>1. {Current} \in SUBSET {n \in Delivery : NoticeState[n] \in {"PENDING", "gone"}}
        BY <1>1, <2>2
      <3>2. QED
        BY <2>3, <3>1
    <2>5. \E quiet \in SUBSET {n \in Delivery : NoticeState[n] = "leaving"} :
             NoticeState' = [n \in Delivery |-> IF n \in quiet THEN "gone" ELSE NoticeState[n]]
      <3>1. NoticeState' = [n \in Delivery |-> IF n \in {} THEN "gone" ELSE NoticeState[n]]
        BY <2>1 DEF NoticeState
      <3>2. {} \in SUBSET {n \in Delivery : NoticeState[n] = "leaving"}
        OBVIOUS
      <3>3. QED
        BY <3>1, <3>2
    <2>6. Lifecycle!Lose
      BY <1>4, <1>6, <2>4, <2>5 DEF Lifecycle!Lose, rowVars
    <2>7. QED
      BY <2>6 DEF Lifecycle!Next
  <1>7. QED
    BY <1>5, <1>6 DEF Record

\* A new process loses an answer that was not stored, and posts nothing of what
\* the old one had in hand.
LEMMA StartProcessStep ==
  ASSUME IInv, StartProcess
  PROVE  Lifecycle!Lose
  <1> DEFINE quiet == {n \in Delivery : NoticeState[n] = "leaving"}
             lost == IF stage = "recording" THEN {Current} ELSE {}
  <1>1. NoticeState' = [n \in Delivery |-> IF n \in quiet THEN "gone" ELSE NoticeState[n]]
    <2>1. status' = status /\ batch' = {}
      BY DEF StartProcess, rowVars
    <2>2. NoticeState' = status
      BY <2>1 DEF NoticeState, ToBePosted, IInv, Typed
    <2>3. \A n \in Delivery :
             status[n] = IF NoticeState[n] = "leaving" THEN "gone" ELSE NoticeState[n]
      BY DEF NoticeState, IInv, Typed, Present
    <2>4. status = [n \in Delivery |-> status[n]]
      BY DEF IInv, Typed
    <2>5. QED
      BY <2>2, <2>3, <2>4
  <1>2. lost \in SUBSET {n \in Delivery : NoticeState[n] \in {"PENDING", "gone"}}
    <2>1. CASE stage = "recording"
      <3>1. Current \in batch /\ Current \in Delivery
        BY <2>1, CurrentInBatch DEF IInv, BatchInHand
      <3>2. NoticeState[Current] \in {"PENDING", "gone"}
        BY <2>1, <3>1 DEF NoticeState, ToBePosted, IInv, CopiesAreFresh
      <3>3. QED
        BY <3>1, <3>2
    <2>2. QED
      BY <2>1
  <1>3. {d \in Delivery : unrecorded[d] > 0}' = {d \in Delivery : unrecorded[d] > 0} \cup lost
    <2>1. CASE stage = "recording"
      <3>1. Current \in Delivery
        BY <2>1, CurrentInBatch DEF IInv, BatchInHand
      <3>2. QED
        BY <2>1, <3>1 DEF StartProcess, IInv, Typed
    <2>2. CASE stage # "recording"
      BY <2>2 DEF StartProcess, IInv, Typed
    <2>3. QED
      BY <2>1, <2>2
  <1>4. attempts' = attempts /\ accepted' = accepted
    BY DEF StartProcess, rowVars
  <1>5. quiet \in SUBSET {n \in Delivery : NoticeState[n] = "leaving"}
    OBVIOUS
  <1>6. QED
    BY <1>1, <1>2, <1>3, <1>4, <1>5 DEF Lifecycle!Lose

\* Webhooks implements NoticeLifecycle: what the owner of a job and the recipient
\* see of a delivery is a life that the lifecycle allows.
THEOREM RefinesNoticeLifecycle == Spec => ImplementsNoticeLifecycle
  <1>1. Init => Lifecycle!Init
    BY DEF Init, Zero, Lifecycle!Init, NoticeState, ToBePosted
  <1>2. ASSUME IInv, [Next]_vars PROVE [Lifecycle!Next]_(Lifecycle!vars)
    <2>1. ASSUME NEW d \in Delivery, EnqueueWebhook(d) \/ RemoveRow(d)
          PROVE  Lifecycle!Next
      BY <1>2, <2>1, RowStep DEF Lifecycle!Next
    <2>2. CASE Sweep \/ Receive
      BY <1>2, <2>2, TakeStep
    <2>3. ASSUME NEW ok \in BOOLEAN, Answer(ok)
          PROVE  Lifecycle!Next
      BY <1>2, <2>3, AnswerStep
    <2>4. CASE Record
      BY <1>2, <2>4, RecordStep
    <2>5. CASE Crash \/ Reboot
      BY <1>2, <2>5, StartProcessStep DEF Crash, Reboot, Lifecycle!Next
    <2>6. CASE Post \/ Exit
      <3>1. batch' = batch /\ stage # "recording" /\ stage' # "recording"
        BY <2>6 DEF Post, Exit
      <3>2. \A d \in Delivery : ToBePosted(d)' <=> ToBePosted(d)
        BY <3>1 DEF ToBePosted
      <3>3. QED
        BY <2>6, <3>2, HiddenStep DEF Post, Exit, rowVars, historyVars
    <2>7. CASE UNCHANGED <<status, attempts, accepted, unrecorded, stage, batch>>
      <3>1. \A d \in Delivery : ToBePosted(d)' <=> ToBePosted(d)
        BY <2>7, CurrentStays DEF ToBePosted
      <3>2. QED
        BY <2>7, <3>1, HiddenStep
    <2>8. ASSUME (\E d \in Delivery : Announce(d)) \/ Elapse \/ CancelContext \/ UNCHANGED vars
          PROVE  UNCHANGED <<status, attempts, accepted, unrecorded, stage, batch>>
      BY <2>8 DEF Announce, Elapse, CancelContext, vars, rowVars, workerVars, historyVars
    <2>9. QED
      BY <1>2, <2>1, <2>2, <2>3, <2>4, <2>5, <2>6, <2>7, <2>8 DEF Next, WebhookWorker
  <1>3. QED
    BY <1>1, <1>2, Invariance, PTL DEF Spec, ImplementsNoticeLifecycle, Lifecycle!Spec

-------------------------------------------------------------------------------
(* The types and the limits                                                  *)

\* The limits that IInv leaves out.
WithinLimits ==
    /\ attempts \in [Delivery -> 0 .. MaxRetries]
    /\ seen \in [Delivery -> 0 .. MaxRetries]
    /\ wait \in [Delivery -> 0 .. LongestWait]
    /\ spent \in 0 .. LongestWait
    /\ announcing \in SUBSET Delivery
    /\ Len(channel) <= ChanDepth
    /\ Cardinality(batch) <= BatchSize
    /\ ctxLive \in BOOLEAN
    /\ faults \in 0 .. MaxFaults

\* 2 ^ a is the number of the subsets of 1 .. a, which grow with a.
LEMMA BackoffGrows ==
  ASSUME NEW a \in 0 .. MaxRetries
  PROVE  Backoff(a) \in Nat /\ Backoff(a) <= LongestWait /\ LongestWait \in Nat
  <1>1. a \in Nat /\ MaxRetries \in Nat
    BY LimitAssumption
  <1>2. \A n \in Nat : /\ IsFiniteSet(SUBSET (1 .. n))
                       /\ Cardinality(SUBSET (1 .. n)) = Backoff(n)
    <2> TAKE n \in Nat
    <2>1. IsFiniteSet(1 .. n) /\ Cardinality(1 .. n) = n
      BY FS_Interval
    <2>2. QED
      BY <2>1, FS_SUBSET DEF Backoff
  <1>3. \A n \in Nat : Backoff(n) \in Nat
    BY <1>2, FS_CardinalityType
  <1>4. SUBSET (1 .. a) \in SUBSET (SUBSET (1 .. MaxRetries))
    BY <1>1
  <1>5. Cardinality(SUBSET (1 .. a)) <= Cardinality(SUBSET (1 .. MaxRetries))
    BY <1>1, <1>2, <1>4, FS_Subset
  <1>6. QED
    BY <1>1, <1>2, <1>3, <1>5 DEF LongestWait

LEMMA MinOfTwo ==
  ASSUME NEW x \in Nat, NEW y \in Nat
  PROVE  Min({x, y}) \in Nat /\ Min({x, y}) <= y
  <1>1. \E m \in {x, y} : \A n \in {x, y} : m =< n
    BY SMT
  <1>2. QED
    BY <1>1 DEF Min

LEMMA MaxWithZero ==
  ASSUME NEW x \in Int
  PROVE  Max({x, 0}) \in Nat /\ (Max({x, 0}) <= x \/ Max({x, 0}) = 0)
  <1>1. \E m \in {x, 0} : \A n \in {x, 0} : n =< m
    BY SMT
  <1>2. QED
    BY <1>1 DEF Max

\* The elements of a finite set of numbers that have fewer than b below them are
\* b at most: the last of them has all the others below it.
LEMMA FirstOnes ==
  ASSUME NEW S \in SUBSET Nat, IsFiniteSet(S), NEW b \in Nat \ {0}
  PROVE  LET First == {d \in S : Cardinality({e \in S : e < d}) < b}
         IN  IsFiniteSet(First) /\ Cardinality(First) <= b
  <1> DEFINE Below(d) == {e \in S : e < d}
             First == {d \in S : Cardinality(Below(d)) < b}
  <1>1. \A d \in S : /\ IsFiniteSet(Below(d)) /\ Cardinality(Below(d)) \in Nat
                      /\ Below(d) \subseteq S /\ d \notin Below(d)
    <2> TAKE d \in S
    <2>1. Below(d) \in SUBSET S
      OBVIOUS
    <2>2. IsFiniteSet(Below(d))
      BY <2>1, FS_Subset
    <2>3. QED
      BY <2>2, FS_CardinalityType
  <1>2. First \subseteq S /\ \A d \in First : Cardinality(Below(d)) < b
    OBVIOUS
  <1>3. \A d, e \in S : e < d => e \in Below(d)
    OBVIOUS
  <1>4. ASSUME NEW d \in S, NEW e \in S, e < d PROVE Below(e) \subseteq Below(d)
    <2>1. \A x \in S : x < e => x < d
      BY <1>4
    <2>2. QED
      BY <2>1
  <1> SUFFICES IsFiniteSet(First) /\ Cardinality(First) <= b
    OBVIOUS
  <1> HIDE DEF Below, First
  <1>5. IsFiniteSet(First) /\ Cardinality(First) \in Nat
    <2>1. IsFiniteSet(First)
      BY <1>2, FS_Subset
    <2>2. QED
      BY <2>1, FS_CardinalityType
  <1>6. CASE First = {}
    BY <1>6, FS_EmptySet
  <1>7. CASE First # {}
    <2> DEFINE Left == {n \in Nat : \E d \in First : n = b - Cardinality(Below(d))}
    <2>1. \A d \in First : b - Cardinality(Below(d)) \in Left
      BY <1>1, <1>2
    <2>2. PICK n \in Left : \A m \in Left : n <= m
      <3>1. Left \in SUBSET Nat /\ Left # {}
        BY <1>7, <2>1
      <3> HIDE DEF Left
      <3>2. QED
        BY <3>1, MinIsMember, MinIsLeast
    <2>3. PICK last \in First : n = b - Cardinality(Below(last))
      BY <2>2
    <2> HIDE DEF Left
    <2>4. \A d \in First : Cardinality(Below(d)) <= Cardinality(Below(last))
      BY <1>1, <1>2, <2>1, <2>2, <2>3
    <2>5. /\ IsFiniteSet(Below(last) \cup {last})
          /\ Cardinality(Below(last) \cup {last}) = Cardinality(Below(last)) + 1
      BY <1>1, <1>2, FS_AddElement
    <2>6. ASSUME NEW d \in First, last < d PROVE FALSE
      <3>1. Below(last) \cup {last} \in SUBSET Below(d)
        BY <1>2, <1>3, <1>4, <2>6
      <3>2. Cardinality(Below(last) \cup {last}) <= Cardinality(Below(d))
        BY <1>1, <1>2, <3>1, FS_Subset
      <3>3. QED
        BY <1>1, <1>2, <2>4, <2>5, <3>2
    <2>7. First \in SUBSET (Below(last) \cup {last})
      <3>1. \A d \in First : d < last \/ d = last
        BY <1>2, <2>6
      <3>2. QED
        BY <1>2, <1>3, <3>1
    <2>8. Cardinality(First) <= Cardinality(Below(last) \cup {last})
      BY <2>5, <2>7, FS_Subset
    <2>9. QED
      BY <1>1, <1>2, <1>5, <2>5, <2>8
  <1>8. QED
    BY <1>5, <1>6, <1>7

LEMMA InitWithinLimits == Init => WithinLimits
  <1> SUFFICES ASSUME Init PROVE WithinLimits
    OBVIOUS
  <1>1. 0 \in 0 .. MaxRetries /\ 0 \in 0 .. LongestWait /\ 0 \in 0 .. MaxFaults
    BY LimitAssumption, BackoffGrows
  <1>2. Len(channel) <= ChanDepth /\ Cardinality(batch) <= BatchSize
    BY LimitAssumption, FS_EmptySet DEF Init
  <1>3. QED
    BY <1>1, <1>2 DEF Init, Zero, WithinLimits

LEMMA FaultsCounted ==
  ASSUME WithinLimits, Fault \/ UNCHANGED faults
  PROVE  faults' \in 0 .. MaxFaults
  BY LimitAssumption DEF WithinLimits, Fault

\* What the worker reads, in a batch or alone.
LEMMA ReadWithinLimits ==
  ASSUME IInv, WithinLimits, Sweep \/ Receive
  PROVE  WithinLimits'
  <1>1. faults' \in 0 .. MaxFaults
    BY FaultsCounted DEF Sweep, Receive, CallWorks, CallFails
  <1>2. /\ UNCHANGED <<rowVars, announcing, spent, ctxLive>>
        /\ Len(channel') <= ChanDepth
    <2>1. channel \in Seq(Delivery)
      BY DEF IInv, Typed
    <2>2. channel # <<>> => Len(Tail(channel)) <= Len(channel)
      BY <2>1
    <2>3. Len(channel') <= ChanDepth
      <3>1. CASE Sweep
        BY <3>1 DEF Sweep, WithinLimits
      <3>2. CASE Receive
        BY <2>1, <2>2, <3>2, LimitAssumption DEF Receive, WithinLimits
      <3>3. QED
        BY <3>1, <3>2
    <2>4. QED
      BY <2>3 DEF Sweep, Receive
  <1>3. ASSUME NEW read \in SUBSET Delivery, Take(read), Cardinality(read) <= BatchSize
        PROVE  /\ seen' \in [Delivery -> 0 .. MaxRetries]
               /\ Cardinality(batch') <= BatchSize
    BY <1>3, LimitAssumption DEF Take, WithinLimits
  <1>4. \/ UNCHANGED <<batch, seen>>
        \/ /\ seen' \in [Delivery -> 0 .. MaxRetries]
           /\ Cardinality(batch') <= BatchSize
    <2>1. CASE Sweep
      <3>1. FirstDue \in SUBSET Delivery
        BY DEF FirstDue
      <3>2. Cardinality(FirstDue) <= BatchSize
        <4>1. {d \in Delivery : Due(d)} \in SUBSET Nat /\ IsFiniteSet({d \in Delivery : Due(d)})
          BY DeliveryAssumption, FS_Subset
        <4>2. QED
          BY <4>1, LimitAssumption, FirstOnes DEF FirstDue
      <3>3. QED
        BY <1>3, <2>1, <3>1, <3>2 DEF Sweep
    <2>2. CASE Receive
      <3> DEFINE read == {d \in {Head(channel)} : Deliverable(d)}
      <3>1. Head(channel) \in Delivery
        BY <2>2 DEF Receive, IInv, Typed
      <3>2. read \in SUBSET Delivery
        BY <3>1
      <3>3. Cardinality(read) <= BatchSize
        <4>1. read = {} \/ read = {Head(channel)}
          OBVIOUS
        <4> HIDE DEF read
        <4>2. Cardinality(read) \in {0, 1}
          BY <4>1, FS_EmptySet, FS_Singleton
        <4>3. QED
          BY <4>2, LimitAssumption
      <3>4. QED
        BY <1>3, <2>2, <3>2, <3>3 DEF Receive
    <2>3. QED
      BY <2>1, <2>2
  <1>5. QED
    BY <1>1, <1>2, <1>4 DEF WithinLimits, rowVars

\* What it writes: the row is as it was read, so there was an attempt left.
LEMMA RecordWithinLimits ==
  ASSUME IInv, WithinLimits, Record
  PROVE  WithinLimits'
  <1>1. Current \in batch /\ Current \in Delivery
    BY CurrentInBatch DEF Record, IInv, BatchInHand
  <1>2. /\ faults' \in 0 .. MaxFaults
        /\ UNCHANGED <<announcing, channel, ctxLive>>
    BY FaultsCounted DEF Record, CallWorks, CallFails
  <1>3. 0 \in 0 .. MaxRetries /\ LongestWait \in Nat
    BY LimitAssumption, BackoffGrows
  <1>4. spent' \in 0 .. LongestWait /\ seen' \in [Delivery -> 0 .. MaxRetries]
    <2>1. spent' = 0 /\ seen' = [seen EXCEPT ![Current] = 0]
      BY DEF Record
    <2>2. seen \in [Delivery -> 0 .. MaxRetries]
      BY DEF WithinLimits
    <2>3. seen' \in [Delivery -> 0 .. MaxRetries]
      BY <1>3, <2>1, <2>2
    <2>4. spent' \in 0 .. LongestWait
      BY <1>3, <2>1
    <2>5. QED
      BY <2>3, <2>4
  <1>5. Cardinality(batch') <= BatchSize
    <2>1. IsFiniteSet(batch) /\ batch' \in SUBSET batch
      BY DeliveryAssumption, FS_Subset DEF IInv, Typed, Record
    <2>2. IsFiniteSet(batch') /\ Cardinality(batch') <= Cardinality(batch)
      BY <2>1, FS_Subset
    <2>3. Cardinality(batch) \in Nat /\ Cardinality(batch') \in Nat
      BY <2>1, <2>2, FS_CardinalityType
    <2>4. QED
      BY <2>2, <2>3, LimitAssumption DEF WithinLimits
  <1>6. CASE UNCHANGED rowVars
    BY <1>2, <1>4, <1>5, <1>6 DEF WithinLimits, rowVars
  <1>7. CASE WriteRow(Current)
    <2>1. CASE status[Current] \in Present
      <3>1. status[Current] = "PENDING" /\ seen[Current] = attempts[Current]
        BY <1>1, <2>1 DEF IInv, CopiesAreFresh, Present
      <3>2. Attempt(Current) \in 0 .. MaxRetries
        BY <1>1, <3>1, LimitAssumption DEF IInv, Typed, AttemptsLeft, Attempt
      <3>3. Max({Backoff(Attempt(Current)) - spent, 0}) \in 0 .. LongestWait
        <4>1. /\ Backoff(Attempt(Current)) \in Nat /\ spent \in Nat
              /\ Backoff(Attempt(Current)) <= LongestWait
          BY <1>3, <3>2, BackoffGrows DEF WithinLimits
        <4>2. Backoff(Attempt(Current)) - spent \in Int
          BY <4>1
        <4>3. QED
          BY <1>3, <4>1, <4>2, MaxWithZero
      <3>4. attempts' \in [Delivery -> 0 .. MaxRetries]
        BY <1>7, <2>1, <3>2 DEF WriteRow, WithinLimits
      <3>5. wait' \in [Delivery -> 0 .. LongestWait]
        <4> DEFINE left == IF Verdict = "PENDING"
                           THEN Max({Backoff(Attempt(Current)) - spent, 0}) ELSE 0
        <4>1. left \in 0 .. LongestWait
          BY <1>3, <3>3
        <4>2. wait' = [wait EXCEPT ![Current] = left]
          BY <1>7, <2>1 DEF WriteRow
        <4> HIDE DEF left
        <4>3. QED
          BY <4>1, <4>2 DEF WithinLimits
      <3>6. QED
        BY <1>2, <1>4, <1>5, <3>4, <3>5 DEF WithinLimits
    <2>2. CASE status[Current] \notin Present
      BY <1>2, <1>4, <1>5, <1>7, <2>2 DEF WriteRow, WithinLimits
    <2>3. QED
      BY <2>1, <2>2
  <1>8. QED
    BY <1>6, <1>7 DEF Record

LEMMA NextWithinLimits ==
  ASSUME IInv, WithinLimits, [Next]_vars
  PROVE  WithinLimits'
  <1>0. 0 \in 0 .. MaxRetries /\ 0 \in 0 .. LongestWait /\ LongestWait \in Nat
    BY LimitAssumption, BackoffGrows
  <1>1. ASSUME NEW d \in Delivery, EnqueueWebhook(d) \/ RemoveRow(d)
        PROVE  WithinLimits'
    BY <1>1 DEF EnqueueWebhook, RemoveRow, workerVars, WithinLimits
  <1>2. ASSUME NEW d \in Delivery, Announce(d)
        PROVE  WithinLimits'
    <2>1. channel \in Seq(Delivery)
      BY DEF IInv, Typed
    <2>2. Len(channel) < ChanDepth => Len(Append(channel, d)) <= ChanDepth
      BY <2>1, LimitAssumption
    <2>3. Len(channel') <= ChanDepth
      BY <1>2, <2>2 DEF Announce, WithinLimits
    <2>4. QED
      BY <1>2, <2>3 DEF Announce, rowVars, workerVars, WithinLimits
  <1>3. CASE Post \/ Exit \/ \E ok \in BOOLEAN : Answer(ok)
    <2>1. spent' \in {spent, 0} /\ UNCHANGED <<rowVars, announcing, channel, batch, seen, ctxLive, faults>>
      BY <1>3 DEF Post, Exit, Answer
    <2>2. QED
      BY <1>0, <2>1 DEF rowVars, WithinLimits
  <1>4. CASE Elapse
    <2>1. UNCHANGED <<attempts, announcing, channel, batch, seen, ctxLive, faults>>
      BY <1>4 DEF Elapse
    <2>2. spent' \in 0 .. LongestWait
      <3>1. Min({spent + 1, LongestWait}) \in 0 .. LongestWait
        <4>1. spent + 1 \in Nat
          BY <1>0 DEF WithinLimits
        <4>2. QED
          BY <1>0, <4>1, MinOfTwo
      <3>2. QED
        BY <1>4, <3>1 DEF Elapse, WithinLimits
    <2>3. ASSUME NEW d \in Delivery PROVE Max({wait[d] - 1, 0}) \in 0 .. LongestWait
      <3>1. wait[d] \in 0 .. LongestWait
        BY DEF WithinLimits
      <3>2. wait[d] - 1 \in Int
        BY <1>0, <3>1
      <3>3. QED
        BY <1>0, <3>1, <3>2, MaxWithZero
    <2>4. wait' \in [Delivery -> 0 .. LongestWait]
      BY <1>4, <2>3 DEF Elapse
    <2>5. QED
      BY <2>1, <2>2, <2>4 DEF WithinLimits
  <1>5. CASE CancelContext
    BY <1>5, FaultsCounted DEF CancelContext, rowVars, workerVars, WithinLimits
  <1>6. CASE Crash \/ Reboot
    <2>1. faults' \in 0 .. MaxFaults
      BY <1>6, FaultsCounted DEF Crash, Reboot
    <2>2. Len(channel') <= ChanDepth /\ Cardinality(batch') <= BatchSize
      BY <1>6, LimitAssumption, FS_EmptySet DEF Crash, Reboot, StartProcess
    <2>3. QED
      BY <1>0, <1>6, <2>1, <2>2
      DEF Crash, Reboot, StartProcess, rowVars, Zero, WithinLimits
  <1>7. CASE UNCHANGED vars
    BY <1>7 DEF vars, rowVars, workerVars, WithinLimits
  <1>8. QED
    BY <1>1, <1>2, <1>3, <1>4, <1>5, <1>6, <1>7, ReadWithinLimits, RecordWithinLimits
    DEF Next, WebhookWorker

\* Every variable keeps its type: no row has more attempts than MaxRetries or a
\* longer wait than the last backoff, no sweep takes more than BatchSize rows,
\* and the channel holds no more than it is deep.
THEOREM TypeCorrect == Spec => []TypeOK
  <1>1. IInv /\ WithinLimits => TypeOK
    BY DEF IInv, Typed, WithinLimits, TypeOK
  <1>2. IInv /\ WithinLimits /\ [Next]_vars => WithinLimits'
    BY NextWithinLimits
  <1>3. QED
    BY <1>1, <1>2, InitWithinLimits, Invariance, PTL DEF Spec
===============================================================================
