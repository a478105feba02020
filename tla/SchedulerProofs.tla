---------------------------- MODULE SchedulerProofs ----------------------------
(***************************************************************************)
(* Theorems about Scheduler for every set of schedules, every batch size   *)
(* and every choice of faults: no schedule ever has two active jobs,       *)
(* between two jobs of a schedule an interval passes, and a tick takes     *)
(* each due schedule once and no more of them than its batch.  The count   *)
(* and the insertion are two calls; what the count has seen holds until    *)
(* the insertion because the loop is the only one to insert.               *)
(***************************************************************************)
EXTENDS Scheduler, FiniteSetTheorems, TLAPS

\* Nothing is active for the schedule that is about to get a job.
CountStillHolds ==
    step = "submit" /\ Head(todo) \in Schedule => active[Head(todo)] = 0

IInv ==
    /\ active \in [Schedule -> Nat]
    /\ NoPileup
    /\ CountStillHolds

LEMMA InitIInv == Init => IInv
  BY DEF Init, IInv, NoPileup, CountStillHolds

\* A row less for a schedule.
LEMMA FinishIInv ==
  ASSUME IInv, NEW s \in Schedule, FinishJob(s)
  PROVE  IInv'
  <1>1. /\ active[s] \in Nat /\ active[s] > 0
        /\ active' = [active EXCEPT ![s] = @ - 1]
        /\ UNCHANGED <<step, todo>>
    BY DEF IInv, FinishJob, loopVars
  <1>2. active[s] = 1
    BY <1>1 DEF IInv, NoPileup
  <1>3. QED
    BY <1>1, <1>2 DEF IInv, NoPileup, CountStillHolds

LEMMA LoopIInv ==
  ASSUME IInv, Loop
  PROVE  IInv'
  <1> USE DEF IInv, NoPileup, CountStillHolds
  <1>1. CASE Tick
    BY <1>1 DEF Tick, jobVars, loopVars
  <1>2. CASE Count
    BY <1>2 DEF Count, NextSchedule, Busy, jobVars
  <1>3. CASE Submit
    <2>1. /\ step = "submit" /\ step' = "mark"
          /\ \/ active' = [active EXCEPT ![Head(todo)] = @ + 1]
             \/ active' = active
      BY <1>3 DEF Submit, jobVars
    <2>2. QED
      BY <2>1
  <1>4. CASE Mark
    BY <1>4 DEF Mark, NextSchedule, jobVars
  <1>5. CASE Exit
    BY <1>5 DEF Exit, jobVars
  <1>6. QED
    BY <1>1, <1>2, <1>3, <1>4, <1>5 DEF Loop

THEOREM Invariance == Spec => []IInv
  <1>1. IInv /\ [Next]_vars => IInv'
    <2> SUFFICES ASSUME IInv, [Next]_vars PROVE IInv'
      OBVIOUS
    <2>1. CASE UNCHANGED <<active, loopVars>>
      BY <2>1 DEF IInv, NoPileup, CountStillHolds, loopVars
    <2>2. CASE StartProcess
      BY <2>2 DEF StartProcess, NoneActive, IInv, NoPileup, CountStillHolds
    <2>3. ASSUME NEW s \in Schedule, BecomeDue(s) \/ FinishJob(s) \/ LoseOutcome(s)
          PROVE  IInv'
      BY <2>1, <2>3, FinishIInv DEF BecomeDue, LoseOutcome, jobVars
    <2>4. QED
      BY <2>1, <2>2, <2>3, LoopIInv
      DEF Next, Requests, CreateSchedule, SetScheduleEnabled, DeleteSchedule, CancelContext,
          Crash, Reboot, jobVars, vars
  <1>2. QED
    BY <1>1, InitIInv, PTL DEF Spec

\* In every interleaving of the loop with requests, ends of jobs, failed calls,
\* stops and crashes, a schedule has at most one PENDING or RUNNING row.
THEOREM NoPileupEver == Spec => []NoPileup
  <1>1. IInv => NoPileup
    BY DEF IInv
  <1>2. QED
    BY <1>1, Invariance, PTL

-------------------------------------------------------------------------------
(* The order of next_run_at                                                  *)

\* A strict total order on the overdue schedules.
Ordered ==
    /\ overdue \in SUBSET Schedule
    /\ before \in SUBSET (overdue \X overdue)
    /\ \A s \in overdue : <<s, s>> \notin before
    /\ \A s, t \in overdue : s # t => <<s, t>> \in before \/ <<t, s>> \in before
    /\ \A s, t, u \in overdue :
          <<s, t>> \in before /\ <<t, u>> \in before => <<s, u>> \in before

LEMMA AddKeepsOrder ==
  ASSUME Ordered, NEW s \in Schedule, s \notin overdue, AddOverdue(s)
  PROVE  Ordered'
  <1>1. overdue' = overdue \cup {s} /\ before' = before \cup (overdue \X {s})
    BY DEF AddOverdue
  <1>2. \A t, u : <<t, u>> \in before' <=>
                    <<t, u>> \in before \/ (t \in overdue /\ u = s)
    BY <1>1
  <1>3. before' \in SUBSET (overdue' \X overdue')
    BY <1>1 DEF Ordered
  <1>4. \A t, u : <<t, u>> \in before => t \in overdue /\ u \in overdue
    BY DEF Ordered
  <1>5. QED
    BY <1>1, <1>2, <1>3, <1>4 DEF Ordered

LEMMA DropKeepsOrder ==
  ASSUME Ordered, NEW s, DropOverdue(s)
  PROVE  Ordered'
  <1>1. overdue' = overdue \ {s} /\ before' = {p \in before : s \notin {p[1], p[2]}}
    BY DEF DropOverdue
  <1>2. \A t, u \in overdue' : <<t, u>> \in before' <=> <<t, u>> \in before
    BY <1>1
  <1>3. before' \in SUBSET (overdue' \X overdue')
    <2>1. \A p \in before : p \in overdue \X overdue
      BY DEF Ordered
    <2>2. ASSUME NEW p \in before' PROVE p \in overdue' \X overdue'
      <3>1. p \in overdue \X overdue /\ p[1] # s /\ p[2] # s
        BY <1>1, <2>1
      <3>2. QED
        BY <1>1, <3>1
    <2>3. QED
      BY <2>2
  <1>4. QED
    BY <1>1, <1>2, <1>3 DEF Ordered

\* The due schedules have the ranks from 0 on, each rank one of them: as many
\* ranks as schedules, and a schedule has more before it than any that comes
\* before it.
LEMMA RanksAreComplete ==
  ASSUME Ordered
  PROVE  /\ IsFiniteSet(Due) /\ Cardinality(Due) \in Nat
         /\ \A n \in 1 .. Cardinality(Due) : \E s \in Due : Rank(s) = n - 1
  <1> DEFINE Earlier(s) == {t \in Due : <<t, s>> \in before}
             size == Cardinality(Due)
             rank == [s \in Due |-> Rank(s)]
  <1>1. Due \in SUBSET overdue /\ IsFiniteSet(Due) /\ size \in Nat
    <2>1. Due \in SUBSET overdue /\ Due \in SUBSET Schedule
      BY DEF Due, Ordered
    <2>2. IsFiniteSet(Due)
      BY <2>1, ScheduleAssumption, FS_Subset
    <2>3. QED
      BY <2>1, <2>2, FS_CardinalityType
  <1>2. ASSUME NEW s \in Due
        PROVE  /\ Earlier(s) \in SUBSET (Due \ {s}) /\ IsFiniteSet(Earlier(s))
               /\ Rank(s) = Cardinality(Earlier(s)) /\ Rank(s) \in Nat /\ Rank(s) < size
    <2>1. Earlier(s) \in SUBSET (Due \ {s})
      BY <1>1 DEF Ordered
    <2>2. IsFiniteSet(Due \ {s}) /\ Cardinality(Due \ {s}) = size - 1
      BY <1>1, FS_RemoveElement
    <2>3. IsFiniteSet(Earlier(s)) /\ Cardinality(Earlier(s)) <= size - 1
      BY <2>1, <2>2, FS_Subset
    <2>4. Rank(s) = Cardinality(Earlier(s))
      BY DEF Rank
    <2>5. Cardinality(Earlier(s)) \in Nat
      BY <2>3, FS_CardinalityType
    <2>6. QED
      BY <1>1, <2>1, <2>3, <2>4, <2>5
  <1>3. ASSUME NEW s \in Due, NEW t \in Due, <<s, t>> \in before
        PROVE  Rank(s) < Rank(t)
    <2>1. \A x \in Earlier(s) : x \in Due /\ <<x, s>> \in before
      OBVIOUS
    <2>2. \A x \in Earlier(s) : <<x, t>> \in before
      BY <1>1, <1>3, <2>1 DEF Ordered
    <2>3. Earlier(s) \cup {s} \in SUBSET Earlier(t)
      BY <1>3, <2>1, <2>2
    <2>4. Cardinality(Earlier(s) \cup {s}) = Cardinality(Earlier(s)) + 1
      BY <1>2, FS_AddElement
    <2>5. Cardinality(Earlier(s) \cup {s}) <= Cardinality(Earlier(t))
      BY <1>2, <2>3, FS_Subset
    <2>6. /\ Rank(s) = Cardinality(Earlier(s)) /\ Rank(s) \in Nat
          /\ Rank(t) = Cardinality(Earlier(t)) /\ Rank(t) \in Nat
      BY <1>2
    <2> HIDE DEF Earlier
    <2>7. QED
      BY <2>4, <2>5, <2>6
  <1>4. rank \in Injection(Due, 0 .. (size - 1))
    <2>1. rank \in [Due -> 0 .. (size - 1)]
      <3>1. \A s \in Due : Rank(s) \in Nat /\ Rank(s) < size
        BY <1>2
      <3> HIDE DEF size
      <3>2. \A s \in Due : Rank(s) \in 0 .. (size - 1)
        BY <1>1, <3>1
      <3>3. QED
        BY <3>2
    <2>2. ASSUME NEW s \in Due, NEW t \in Due, rank[s] = rank[t] PROVE s = t
      <3>1. Rank(s) = Rank(t) /\ Rank(s) \in Nat
        <4>1. rank[s] = Rank(s) /\ rank[t] = Rank(t)
          OBVIOUS
        <4>2. QED
          BY <1>2, <2>2, <4>1
      <3>2. <<s, t>> \notin before /\ <<t, s>> \notin before
        BY <1>3, <3>1
      <3>3. QED
        BY <1>1, <3>2 DEF Ordered
    <2> HIDE DEF rank
    <2>3. QED
      BY <2>1, <2>2 DEF Injection, IsInjective
  <1>5. IsFiniteSet(0 .. (size - 1)) /\ Cardinality(0 .. (size - 1)) = size
    BY <1>1, FS_Interval
  <1>6. rank \in Surjection(Due, 0 .. (size - 1))
    BY <1>4, <1>5, FS_Injection
  <1>7. ASSUME NEW n \in 1 .. size PROVE \E s \in Due : Rank(s) = n - 1
    <2>1. n - 1 \in 0 .. (size - 1)
      BY <1>1
    <2>2. \E s \in Due : rank[s] = n - 1
      BY <1>6, <2>1 DEF Surjection
    <2>3. QED
      BY <2>2
  <1>8. QED
    BY <1>1, <1>7

\* The list that a tick takes: due schedules, each once, no more than BatchSize.
LEMMA BatchOfTick ==
  ASSUME Ordered
  PROVE  /\ DueSchedules \in Seq(Schedule)
         /\ Len(DueSchedules) <= BatchSize
         /\ \A n \in DOMAIN DueSchedules : DueSchedules[n] \in overdue
         /\ \A m, n \in DOMAIN DueSchedules : DueSchedules[m] = DueSchedules[n] => m = n
  <1> DEFINE size == Cardinality(Due)
             limit == IF size <= BatchSize THEN size ELSE BatchSize
             chosen(n) == CHOOSE s \in Due : Rank(s) = n - 1
  <1>1. size \in Nat /\ \A n \in 1 .. size : \E s \in Due : Rank(s) = n - 1
    BY RanksAreComplete
  <1>2. limit \in Nat /\ limit <= BatchSize /\ limit <= size
    <2> HIDE DEF size
    <2>1. QED
      BY <1>1, SchedulerLimits
  <1>3. {k \in 1 .. size : k <= BatchSize} = 1 .. limit
    <2> HIDE DEF size
    <2>1. QED
      BY <1>1, SchedulerLimits
  <1>4. DueSchedules = [n \in 1 .. limit |-> chosen(n)]
    BY <1>3 DEF DueSchedules
  <1>5. ASSUME NEW n \in 1 .. limit
        PROVE  chosen(n) \in Due /\ Rank(chosen(n)) = n - 1
    <2>1. n \in 1 .. size
      BY <1>1, <1>2
    <2>2. \E s \in Due : Rank(s) = n - 1
      BY <1>1, <2>1
    <2>3. QED
      BY <2>2
  <1>6. Due \subseteq overdue /\ Due \subseteq Schedule
    BY DEF Due, Ordered
  <1> HIDE DEF limit, chosen
  <1>7. /\ DueSchedules \in Seq(Schedule) /\ Len(DueSchedules) = limit
        /\ DOMAIN DueSchedules = 1 .. limit
    BY <1>2, <1>4, <1>5, <1>6
  <1>8. \A n \in DOMAIN DueSchedules : DueSchedules[n] \in overdue
    BY <1>4, <1>5, <1>6, <1>7
  <1>9. ASSUME NEW m \in 1 .. limit, NEW n \in 1 .. limit, DueSchedules[m] = DueSchedules[n]
        PROVE  m = n
    <2>1. chosen(m) = chosen(n)
      BY <1>4, <1>9
    <2>2. m - 1 = n - 1
      BY <1>5, <2>1
    <2>3. QED
      BY <1>2, <2>2
  <1>10. QED
    BY <1>2, <1>7, <1>8, <1>9

-------------------------------------------------------------------------------
(* The tick and its list                                                     *)

\* What is left of the list of this tick.
ListInOrder ==
    /\ todo \in Seq(Schedule) /\ Len(todo) <= BatchSize
    /\ \A m, n \in DOMAIN todo : todo[m] = todo[n] => m = n
    /\ step \in {"count", "submit", "mark"} <=> todo # <<>>

RestTyped ==
    /\ table \in [Schedule -> {"none", "on", "off", "gone"}]
    /\ stuck \in SUBSET Schedule
    /\ step \in {"tick", "count", "submit", "mark", "exited"}
    /\ ctxLive \in BOOLEAN
    /\ elapsed \in SUBSET Schedule
    /\ unmarked \in SUBSET Schedule
    /\ faults \in 0 .. MaxFaults
    /\ \A s \in Schedule : table[s] \in {"none", "gone"} => s \notin overdue

\* An interval has passed since the last job of s, or its visit was not marked.
Waited(s) == s \in elapsed \/ s \in unmarked

\* The schedule that has its job and waits for its mark.
ToBeMarked(s) == step = "mark" /\ s = Head(todo)

\* What is overdue, or on the list of the tick, has waited.
OverdueHaveWaited ==
    /\ \A s \in overdue : Waited(s) \/ ToBeMarked(s)
    /\ \A n \in DOMAIN todo : Waited(todo[n]) \/ ToBeMarked(todo[n])

TInv == Ordered /\ ListInOrder /\ RestTyped /\ OverdueHaveWaited

LEMMA InitTInv == Init => TInv
  <1> SUFFICES ASSUME Init PROVE TInv
    OBVIOUS
  <1>1. Len(todo) <= BatchSize
    BY SchedulerLimits DEF Init
  <1>2. 0 \in 0 .. MaxFaults
    BY SchedulerLimits
  <1>3. QED
    BY <1>1, <1>2
    DEF Init, TInv, Ordered, ListInOrder, RestTyped, OverdueHaveWaited

\* The rest of a list, without its first.
LEMMA RestOfList ==
  ASSUME ListInOrder, todo # <<>>
  PROVE  /\ Head(todo) \in Schedule /\ Head(todo) = todo[1] /\ 1 \in DOMAIN todo
         /\ Tail(todo) \in Seq(Schedule) /\ Len(Tail(todo)) <= BatchSize
         /\ \A m, n \in DOMAIN Tail(todo) : Tail(todo)[m] = Tail(todo)[n] => m = n
         /\ \A n \in DOMAIN Tail(todo) :
               Tail(todo)[n] # Head(todo) /\ \E k \in DOMAIN todo : Tail(todo)[n] = todo[k]
         /\ Len(todo) = 1 <=> Tail(todo) = <<>>
  <1>1. todo \in Seq(Schedule) /\ DOMAIN todo = 1 .. Len(todo) /\ Len(todo) \in Nat \ {0}
    BY DEF ListInOrder
  <1>2. /\ Tail(todo) \in Seq(Schedule) /\ Len(Tail(todo)) = Len(todo) - 1
        /\ DOMAIN Tail(todo) = 1 .. (Len(todo) - 1)
        /\ \A n \in 1 .. (Len(todo) - 1) : Tail(todo)[n] = todo[n + 1]
    BY <1>1
  <1>3. Head(todo) = todo[1] /\ 1 \in DOMAIN todo /\ Head(todo) \in Schedule
    BY <1>1
  <1>4. \A n \in 1 .. (Len(todo) - 1) : n + 1 \in DOMAIN todo /\ n + 1 # 1
    BY <1>1
  <1>5. \A m, n \in DOMAIN todo : todo[m] = todo[n] => m = n
    BY DEF ListInOrder
  <1>6. \A m, n \in DOMAIN Tail(todo) : Tail(todo)[m] = Tail(todo)[n] => m = n
    <2> TAKE m, n \in DOMAIN Tail(todo)
    <2>1. Tail(todo)[m] = Tail(todo)[n] => m + 1 = n + 1
      BY <1>2, <1>4, <1>5
    <2>2. QED
      BY <1>1, <1>2, <2>1
  <1>7. \A n \in DOMAIN Tail(todo) :
           Tail(todo)[n] # Head(todo) /\ \E k \in DOMAIN todo : Tail(todo)[n] = todo[k]
    BY <1>2, <1>3, <1>4, <1>5
  <1>8. Len(Tail(todo)) <= BatchSize
    <2>1. Len(todo) <= BatchSize /\ BatchSize \in Nat
      BY SchedulerLimits DEF ListInOrder
    <2>2. QED
      BY <1>1, <1>2, <2>1
  <1>9. Len(todo) = 1 <=> Tail(todo) = <<>>
    <2>1. Tail(todo) = <<>> <=> Len(Tail(todo)) = 0
      BY <1>2
    <2>2. QED
      BY <1>1, <1>2, <2>1
  <1>10. QED
    BY <1>2, <1>3, <1>6, <1>7, <1>8, <1>9

\* What happens to the rows, the jobs and the context leaves the list alone, and
\* it takes no schedule's waiting back.
LEMMA OutsideTInv ==
  ASSUME TInv, Ordered', RestTyped', UNCHANGED loopVars,
         elapsed \subseteq elapsed', unmarked \subseteq unmarked',
         overdue' \ overdue \subseteq elapsed'
  PROVE  TInv'
  <1>1. ListInOrder'
    BY DEF TInv, ListInOrder, loopVars
  <1>2. OverdueHaveWaited'
    BY DEF TInv, OverdueHaveWaited, Waited, ToBeMarked, loopVars
  <1>3. QED
    BY <1>1, <1>2 DEF TInv

LEMMA RequestTInv ==
  ASSUME TInv,
         \/ Requests \/ CancelContext \/ UNCHANGED vars
         \/ \E s \in Schedule : BecomeDue(s) \/ FinishJob(s) \/ LoseOutcome(s)
  PROVE  TInv'
  <1>1. Fault => faults' \in 0 .. MaxFaults
    BY SchedulerLimits DEF Fault, TInv, RestTyped
  <1>2. ASSUME NEW s \in Schedule, CreateSchedule(s) \/ BecomeDue(s)
        PROVE  TInv'
    <2>1. s \notin overdue /\ AddOverdue(s)
      BY <1>2 DEF CreateSchedule, BecomeDue, TInv, RestTyped
    <2>2. Ordered'
      BY <2>1, AddKeepsOrder DEF TInv
    <2>3. RestTyped'
      BY <1>2, <2>1 DEF CreateSchedule, BecomeDue, AddOverdue, TInv, RestTyped, jobVars, loopVars
    <2>4. QED
      BY <1>2, <2>1, <2>2, <2>3, OutsideTInv DEF CreateSchedule, BecomeDue, AddOverdue
  <1>3. ASSUME NEW s \in Schedule, SetScheduleEnabled(s)
        PROVE  TInv'
    <2>1. Ordered' /\ RestTyped'
      BY <1>3 DEF SetScheduleEnabled, dueVars, jobVars, loopVars, TInv, Ordered, RestTyped
    <2>2. QED
      BY <1>3, <2>1, OutsideTInv DEF SetScheduleEnabled, dueVars
  <1>4. ASSUME NEW s \in Schedule, DeleteSchedule(s)
        PROVE  TInv'
    <2>1. Ordered'
      BY <1>4, DropKeepsOrder DEF DeleteSchedule, TInv
    <2>2. RestTyped'
      BY <1>4 DEF DeleteSchedule, DropOverdue, jobVars, loopVars, TInv, RestTyped
    <2>3. QED
      BY <1>4, <2>1, <2>2, OutsideTInv DEF DeleteSchedule, DropOverdue
  <1>5. ASSUME NEW s \in Schedule, FinishJob(s) \/ LoseOutcome(s)
        PROVE  TInv'
    <2>1. UNCHANGED <<table, overdue, before, loopVars, ctxLive, elapsed, unmarked>>
      BY <1>5 DEF FinishJob, LoseOutcome, tableVars, dueVars
    <2>2. stuck' \in SUBSET Schedule /\ faults' \in 0 .. MaxFaults
      BY <1>1, <1>5 DEF FinishJob, LoseOutcome, TInv, RestTyped
    <2>3. Ordered' /\ RestTyped'
      BY <2>1, <2>2 DEF TInv, Ordered, RestTyped, loopVars
    <2>4. QED
      BY <2>1, <2>3, OutsideTInv
  <1>6. CASE CancelContext \/ UNCHANGED vars
    <2>1. UNCHANGED <<table, overdue, before, stuck, loopVars, elapsed, unmarked>>
      BY <1>6 DEF CancelContext, vars, tableVars, dueVars, jobVars
    <2>2. ctxLive' \in BOOLEAN /\ faults' \in 0 .. MaxFaults
      BY <1>1, <1>6 DEF CancelContext, vars, TInv, RestTyped
    <2>3. Ordered' /\ RestTyped'
      BY <2>1, <2>2 DEF TInv, Ordered, RestTyped, loopVars
    <2>4. QED
      BY <2>1, <2>3, OutsideTInv
  <1>7. QED
    BY <1>2, <1>3, <1>4, <1>5, <1>6 DEF Requests

LEMMA LoopTInv ==
  ASSUME TInv, Loop
  PROVE  TInv'
  <1>1. \A what : CallWorks \/ CallFails(what) \/ UNCHANGED faults
                     => faults' \in 0 .. MaxFaults
    BY SchedulerLimits DEF CallWorks, CallFails, Fault, TInv, RestTyped
  <1>2. CASE Tick \/ Exit
    <2>1. /\ UNCHANGED <<table, overdue, before, stuck, ctxLive, elapsed, unmarked>>
          /\ step = "tick" /\ faults' \in 0 .. MaxFaults /\ todo = <<>>
      BY <1>1, <1>2 DEF Tick, Exit, tableVars, dueVars, jobVars, TInv, ListInOrder
    <2>2. Ordered'
      BY <2>1 DEF TInv, Ordered
    <2>3. \/ /\ todo' = DueSchedules
             /\ step' = IF DueSchedules = <<>> THEN "tick" ELSE "count"
          \/ todo' = todo /\ step' \in {"tick", "exited"}
      BY <1>2, <2>1 DEF Tick, Exit, loopVars
    <2>4. RestTyped'
      BY <2>1, <2>3 DEF TInv, RestTyped
    <2>5. ListInOrder'
      BY <2>1, <2>3, BatchOfTick DEF TInv, ListInOrder
    <2>6. OverdueHaveWaited'
      <3>1. \A s \in overdue : Waited(s) /\ Waited(s)'
        BY <2>1 DEF TInv, OverdueHaveWaited, Waited, ToBeMarked
      <3>2. \A n \in DOMAIN todo' : todo'[n] \in overdue
        BY <2>1, <2>3, BatchOfTick DEF TInv
      <3>3. QED
        BY <2>1, <3>1, <3>2 DEF OverdueHaveWaited, Waited
    <2>7. QED
      BY <2>2, <2>4, <2>5, <2>6 DEF TInv
  <1>3. CASE Count
    <2>1. /\ UNCHANGED <<table, overdue, before, stuck, ctxLive, elapsed, unmarked>>
          /\ step = "count" /\ faults' \in 0 .. MaxFaults /\ todo # <<>>
      BY <1>1, <1>3 DEF Count, tableVars, dueVars, jobVars, TInv, ListInOrder
    <2>2. \/ todo' = todo /\ step' \in {"mark", "submit"}
          \/ todo' = Tail(todo) /\ step' = IF Len(todo) = 1 THEN "tick" ELSE "count"
      BY <1>3 DEF Count, NextSchedule
    <2>3. Ordered' /\ RestTyped'
      BY <2>1, <2>2 DEF TInv, Ordered, RestTyped
    <2>4. ListInOrder'
      BY <2>1, <2>2, RestOfList DEF TInv, ListInOrder
    <2>5. OverdueHaveWaited'
      <3>1. /\ \A s \in overdue : Waited(s)
            /\ \A n \in DOMAIN todo : Waited(todo[n])
        BY <2>1 DEF TInv, OverdueHaveWaited, ToBeMarked
      <3>2. \A n \in DOMAIN todo' : \E k \in DOMAIN todo : todo'[n] = todo[k]
        BY <2>1, <2>2, RestOfList DEF TInv
      <3>3. QED
        BY <2>1, <3>1, <3>2 DEF OverdueHaveWaited, Waited
    <2>6. QED
      BY <2>3, <2>4, <2>5 DEF TInv
  <1>4. CASE Submit
    <2>1. /\ UNCHANGED <<table, overdue, before, todo, ctxLive, unmarked>>
          /\ step = "submit" /\ step' = "mark" /\ faults' \in 0 .. MaxFaults /\ todo # <<>>
      BY <1>1, <1>4 DEF Submit, tableVars, dueVars, TInv, ListInOrder
    <2>2. Head(todo) \in Schedule
      BY <2>1, RestOfList DEF TInv
    <2>3. elapsed' \in {elapsed, elapsed \ {Head(todo)}} /\ stuck' \in SUBSET Schedule
      BY <1>4, <2>2 DEF Submit, jobVars, TInv, RestTyped
    <2>4. Ordered' /\ RestTyped'
      BY <2>1, <2>3 DEF TInv, Ordered, RestTyped
    <2>5. ListInOrder'
      BY <2>1 DEF TInv, ListInOrder
    <2>6. OverdueHaveWaited'
      <3>1. /\ \A s \in overdue : Waited(s)
            /\ \A n \in DOMAIN todo : Waited(todo[n])
        BY <2>1 DEF TInv, OverdueHaveWaited, ToBeMarked
      <3>2. \A s : Waited(s) => Waited(s)' \/ ToBeMarked(s)'
        BY <2>1, <2>3 DEF Waited, ToBeMarked
      <3>3. QED
        BY <2>1, <3>1, <3>2 DEF OverdueHaveWaited
    <2>7. QED
      BY <2>4, <2>5, <2>6 DEF TInv
  <1>5. CASE Mark
    <2> DEFINE s == Head(todo)
    <2>1. /\ UNCHANGED <<table, stuck, ctxLive, elapsed>>
          /\ step = "mark" /\ faults' \in 0 .. MaxFaults /\ todo # <<>>
          /\ todo' = Tail(todo) /\ step' = IF Len(todo) = 1 THEN "tick" ELSE "count"
          /\ \/ DropOverdue(s) /\ unmarked' = unmarked \ {s}
             \/ UNCHANGED dueVars /\ unmarked' = unmarked \cup {s}
      BY <1>1, <1>5 DEF Mark, NextSchedule, Advanced, jobVars, TInv, ListInOrder
    <2>2. s \in Schedule
      BY <2>1, RestOfList DEF TInv
    <2>3. Ordered'
      BY <2>1, DropKeepsOrder DEF TInv, Ordered, dueVars
    <2>4. RestTyped'
      BY <2>1, <2>2 DEF TInv, RestTyped, DropOverdue, dueVars
    <2>5. ListInOrder'
      BY <2>1, RestOfList DEF TInv, ListInOrder
    <2>6. OverdueHaveWaited'
      <3>1. /\ \A x \in overdue : Waited(x) \/ x = s
            /\ \A n \in DOMAIN todo : Waited(todo[n]) \/ todo[n] = s
        BY <2>1 DEF TInv, OverdueHaveWaited, ToBeMarked
      <3>2. \A n \in DOMAIN todo' :
               todo'[n] # s /\ \E k \in DOMAIN todo : todo'[n] = todo[k]
        BY <2>1, RestOfList DEF TInv
      <3>3. \A x : Waited(x) /\ x # s => Waited(x)'
        BY <2>1 DEF Waited
      <3>4. \A x \in overdue' : x \in overdue /\ (x = s => s \in unmarked')
        BY <2>1 DEF DropOverdue, dueVars
      <3> HIDE DEF s
      <3>5. QED
        BY <3>1, <3>2, <3>3, <3>4 DEF OverdueHaveWaited, Waited
    <2>7. QED
      BY <2>3, <2>4, <2>5, <2>6 DEF TInv
  <1>6. QED
    BY <1>2, <1>3, <1>4, <1>5 DEF Loop

LEMMA StartTInv ==
  ASSUME TInv, StartProcess, Fault \/ UNCHANGED faults
  PROVE  TInv'
  <1>1. /\ UNCHANGED <<table, overdue, before, elapsed>>
        /\ todo' = <<>> /\ step' = "tick" /\ ctxLive' = TRUE
        /\ unmarked' = IF step = "mark" THEN unmarked \cup {Head(todo)} ELSE unmarked
    BY DEF StartProcess, tableVars, dueVars
  <1>2. step = "mark" => Head(todo) \in Schedule
    BY RestOfList DEF TInv, ListInOrder
  <1>3. stuck' \in SUBSET Schedule /\ faults' \in 0 .. MaxFaults
    BY SchedulerLimits DEF StartProcess, Fault, TInv, RestTyped
  <1>4. Ordered' /\ RestTyped'
    BY <1>1, <1>2, <1>3 DEF TInv, Ordered, RestTyped
  <1>5. ListInOrder'
    <2>1. Len(todo') <= BatchSize /\ todo' \in Seq(Schedule) /\ DOMAIN todo' = {}
      BY <1>1, SchedulerLimits
    <2>2. QED
      BY <1>1, <2>1 DEF ListInOrder
  <1>6. OverdueHaveWaited'
    BY <1>1 DEF TInv, OverdueHaveWaited, Waited, ToBeMarked
  <1>7. QED
    BY <1>4, <1>5, <1>6 DEF TInv

THEOREM TickInvariance == Spec => []TInv
  <1>1. TInv /\ [Next]_vars => TInv'
    BY RequestTInv, LoopTInv, StartTInv DEF Next, Crash, Reboot
  <1>2. QED
    BY <1>1, InitTInv, PTL DEF Spec

\* Every variable keeps its type: a tick never has more than BatchSize schedules
\* on its list, nor one twice.
THEOREM TypeCorrect == Spec => []TypeOK
  <1>1. IInv /\ TInv => TypeOK
    BY DEF IInv, TInv, Ordered, ListInOrder, RestTyped, TypeOK
  <1>2. QED
    BY <1>1, Invariance, TickInvariance, PTL

\* An interval passes between two jobs of a schedule: a failed call, a stop or a
\* crash lets it come back early only if its visit could not be marked.
THEOREM JobsSpaced == Spec => JobsAreSpaced
  <1>1. IInv /\ TInv /\ [Next]_vars
          => \A s \in Schedule : active'[s] > active[s] => s \in elapsed \/ s \in unmarked
    <2> SUFFICES ASSUME IInv, TInv, [Next]_vars, NEW s \in Schedule, active'[s] > active[s]
                 PROVE  s \in elapsed \/ s \in unmarked
      OBVIOUS
    <2>1. active \in [Schedule -> Nat] /\ active[s] \in Nat
      BY DEF IInv
    <2>2. active' # active
      BY <2>1
    <2>3. CASE Submit
      <3>1. step = "submit" /\ active' = [active EXCEPT ![Head(todo)] = @ + 1]
        BY <2>2, <2>3 DEF Submit, jobVars
      <3>2. s = Head(todo)
        BY <2>1, <3>1
      <3>3. s = todo[1] /\ 1 \in DOMAIN todo
        BY <3>1, <3>2, RestOfList DEF TInv, ListInOrder
      <3>4. QED
        BY <3>1, <3>3 DEF TInv, OverdueHaveWaited, Waited, ToBeMarked
    <2>4. CASE \E t \in Schedule : FinishJob(t)
      <3>1. PICK t \in Schedule : active' = [active EXCEPT ![t] = @ - 1]
        BY <2>4 DEF FinishJob
      <3>2. QED
        BY <2>1, <3>1
    <2>5. CASE StartProcess
      BY <2>1, <2>2, <2>5 DEF StartProcess, NoneActive
    <2>6. QED
      BY <2>2, <2>3, <2>4, <2>5
      DEF Next, Requests, CreateSchedule, SetScheduleEnabled, DeleteSchedule, BecomeDue,
          LoseOutcome, Loop, Tick, Count, Mark, Exit, CancelContext, Crash, Reboot, jobVars, vars
  <1>2. QED
    BY <1>1, Invariance, TickInvariance, PTL DEF Spec, JobsAreSpaced
===============================================================================
