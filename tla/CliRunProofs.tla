----------------------------- MODULE CliRunProofs ------------------------------
(***************************************************************************)
(* Theorems about CliRun for every number of runs, every set of tiers and  *)
(* metrics and any number of failures of the store: what its exit code     *)
(* says, what of its runs may be missing from the store unsaid, and that   *)
(* its verdict is of the middle of the sorted values.                      *)
(***************************************************************************)
EXTENDS CliRun, FiniteSetTheorems, SequenceTheorems, TLAPS

Typed ==
    /\ runsLeft \in Nat
    /\ runMetrics \in Seq(Samples)
    /\ tiersFailed \in Nat
    /\ noted \in Nat
    /\ withStore \in BOOLEAN /\ withBudget \in BOOLEAN

N == Len(runMetrics)

\* Before the first run there is nothing, after the last nothing is left; a wrong
\* flag ends the invocation, and the number of runs is looked at last.
RunsInOrder ==
    /\ pc \in {"invoked", "opening", "making"} => runMetrics = <<>> /\ jobs = {}
    /\ pc \in {"invoked", "opening", "making", "measuring", "creating", "saving", "evaluating"}
         => noted = 0
    /\ noted = 0 => judged = {}
    /\ pc \in {"opening", "making"} => flaws \subseteq {"runs"}
    /\ pc \notin {"invoked", "opening", "making", "exited"} => flaws = {}
    /\ pc \in {"evaluating", "noting", "reporting"} => runsLeft = 0
    /\ pc \in {"creating", "saving"} => N > 0 /\ withStore
    /\ noted <= N

FailuresCounted == tiersFailed <= Cardinality(Tier) * N

Wrong == {"unknown flag", "tier", "profile", "budget file", "runs"}

WrongFlags(F) == F \cap Wrong # {}

\* What an exit code stands for: all the runs, -h, a wrong flag or a panic.
ExitIsTold ==
    /\ pc # "exited" => exitCode = NoCode
    /\ exitCode \in {0, 3} =>
         /\ pc = "exited"
         /\ \/ flaws = {} /\ runsLeft = 0 /\ ~AllFailed
            \/ exitCode = 0 /\ "help" \in flaws /\ runMetrics = <<>> /\ jobs = {}
    /\ exitCode = 2 =>
         /\ pc = "exited"
         /\ \/ WrongFlags(flaws) /\ runMetrics = <<>> /\ jobs = {}
            \/ flaws = {} /\ runsLeft > 0 /\ judged = {}

\* A run that has been warned of, or whose row has been deleted.
Excused(n) == n \in warned \cup removed

\* What each step of the persistence has left for a run that is not excused.
RowsAreKept ==
    withStore =>
      /\ \A n \in 1 .. N : Excused(n) \/ n \in jobs \/ (pc = "creating" /\ n = N)
      /\ \A n \in 1 .. N : Excused(n) \/ n \in saved \/ (pc \in {"creating", "saving"} /\ n = N)
      /\ \A n \in 1 .. noted : Excused(n) \/ n \in judged
      /\ pc \in {"reporting", "exited"} /\ withBudget /\ exitCode # 2 => noted = N

IInv == Typed /\ RunsInOrder /\ FailuresCounted /\ ExitIsTold /\ RowsAreKept

LEMMA LengthType == ASSUME Typed PROVE N \in Nat /\ DOMAIN runMetrics = 1 .. N
  BY DEF Typed, N

TheChecks == {Checks[n].flaw : n \in 1 .. Len(Checks)}

LEMMA ChecksAre ==
  /\ Len(Checks) = 7
  /\ Checks[1].flaw = "help" /\ Checks[1].code = 0
  /\ Checks[2].flaw = "unknown flag" /\ Checks[2].code = 2
  /\ Checks[3].flaw = "no url" /\ Checks[3].code = 1
  /\ Checks[4].flaw = "tier" /\ Checks[4].code = 2
  /\ Checks[5].flaw = "profile" /\ Checks[5].code = 2
  /\ Checks[6].flaw = "refused url" /\ Checks[6].code = 1
  /\ Checks[7].flaw = "budget file" /\ Checks[7].code = 2
  BY DEF Checks

\* The first failing check decides, and it has the code of its own.
LEMMA FirstCheck ==
  ASSUME NEW F \in SUBSET (TheChecks \cup {"runs"}), ~(F \subseteq {"runs"})
  PROVE  /\ CodeOf(F) \in {0, 1, 2}
         /\ CodeOf(F) = 0 => "help" \in F
         /\ CodeOf(F) = 2 => WrongFlags(F)
  <1> DEFINE failing == {n \in 1 .. Len(Checks) : Checks[n].flaw \in F}
             first == CHOOSE n \in failing : \A k \in failing : n <= k
  <1>1. failing # {} /\ failing \subseteq 1 .. 7
    <2>1. PICK f \in F : f # "runs"
      OBVIOUS
    <2>2. PICK n \in 1 .. Len(Checks) : Checks[n].flaw = f
      BY <2>1 DEF TheChecks
    <2>3. QED
      BY <2>2, ChecksAre
  <1>2. \E n \in failing : \A k \in failing : n <= k
    <2> HIDE DEF failing
    <2>4. CASE 1 \in failing
      BY <1>1, <2>4
    <2>5. CASE 1 \notin failing /\ 2 \in failing
      BY <1>1, <2>5
    <2>6. CASE 1 \notin failing /\ 2 \notin failing /\ 3 \in failing
      BY <1>1, <2>6
    <2>7. CASE failing \cap {1, 2, 3} = {} /\ 4 \in failing
      BY <1>1, <2>7
    <2>8. CASE failing \cap {1, 2, 3, 4} = {} /\ 5 \in failing
      BY <1>1, <2>8
    <2>9. CASE failing \cap {1, 2, 3, 4, 5} = {} /\ 6 \in failing
      BY <1>1, <2>9
    <2>10. CASE failing \cap {1, 2, 3, 4, 5, 6} = {}
      <3>1. \A n \in 1 .. 7 : n \in {1, 2, 3, 4, 5, 6} \/ n = 7
        OBVIOUS
      <3>2. failing \subseteq {7} /\ failing # {}
        BY <1>1, <2>10, <3>1
      <3>3. failing = {7}
        BY <3>2
      <3>4. QED
        BY <3>3
    <2>11. QED
      BY <2>4, <2>5, <2>6, <2>7, <2>8, <2>9, <2>10
  <1>3. first \in failing
    <2> HIDE DEF failing
    <2>1. QED
      BY <1>2
  <1>4. first \in 1 .. 7 /\ Checks[first].flaw \in F
    BY <1>3, ChecksAre
  <1>5. CodeOf(F) = Checks[first].code
    BY DEF CodeOf
  <1> HIDE DEF first, failing
  <1>6. first \in {1, 2, 3, 4, 5, 6, 7}
    BY <1>4
  <1>7. QED
    BY <1>4, <1>5, <1>6, ChecksAre DEF WrongFlags, Wrong

LEMMA CodeIsNone == NoCode \notin {0, 1, 2, 3}
  BY DEF NoCode

LEMMA InitIInv == CliInit => IInv
  <1> SUFFICES ASSUME CliInit PROVE IInv
    OBVIOUS
  <1>1. runsLeft \in Nat /\ runMetrics = <<>> /\ N = 0
    BY RunsAssumption DEF CliInit, Init, N
  <1>2. Typed
    BY <1>1 DEF CliInit, Typed
  <1>3. RunsInOrder
    BY <1>1 DEF CliInit, RunsInOrder
  <1>4. FailuresCounted
    BY <1>1, TierAssumption, FS_CardinalityType DEF CliInit, FailuresCounted
  <1>5. ExitIsTold
    BY DEF CliInit, ExitIsTold, NoCode
  <1>6. RowsAreKept
    BY <1>1 DEF CliInit, RowsAreKept
  <1>7. QED
    BY <1>2, <1>3, <1>4, <1>5, <1>6 DEF IInv

\* The runs and their failures stay as they are.
LEMMA SameRuns ==
  ASSUME IInv, UNCHANGED <<runMetrics, tiersFailed>>
  PROVE  N' = N /\ FailuresCounted' /\ AllFailed' = AllFailed
  BY DEF IInv, N, FailuresCounted, AllFailed, TiersAttempted

\* Everything before the first run.
LEMMA FlagsIInv ==
  ASSUME IInv, CheckFlags \/ OpenStore \/ MakeSummaries
  PROVE  IInv'
  <1>1. /\ UNCHANGED <<vars, withStore, withBudget, tiersFailed, tableVars, noted, warned, removed>>
        /\ pc \in {"invoked", "opening", "making"}
    BY DEF CheckFlags, OpenStore, MakeSummaries, flagVars, noteVars
  <1>2. N' = N /\ FailuresCounted' /\ AllFailed' = AllFailed
    BY <1>1, SameRuns DEF vars
  <1>3. /\ Typed' /\ N = 0 /\ runMetrics = <<>> /\ runMetrics' = <<>>
        /\ jobs' = {} /\ noted' = 0 /\ judged' = {}
    BY <1>1 DEF IInv, Typed, RunsInOrder, vars, N, tableVars
  <1>4. exitCode = NoCode
    BY <1>1 DEF IInv, ExitIsTold
  <1>5. \/ /\ pc' \in {"opening", "making", "measuring"} /\ exitCode' = NoCode
           /\ flaws' \subseteq {"runs"}
           /\ pc' = "measuring" => flaws' = {}
        \/ /\ pc' = "exited" /\ exitCode' \in {0, 1, 2}
           /\ exitCode' = 0 => "help" \in flaws'
           /\ exitCode' = 2 => WrongFlags(flaws')
    <2>1. CASE CheckFlags
      <3>1. CASE flaws' \subseteq {"runs"}
        BY <1>4, <2>1, <3>1 DEF CheckFlags, Goto
      <3>2. CASE ~(flaws' \subseteq {"runs"})
        BY <2>1, <3>2, FirstCheck DEF CheckFlags, Exit, TheChecks
      <3>3. QED
        BY <3>1, <3>2
    <2>2. CASE OpenStore
      <3>1. flaws' = flaws /\ flaws \subseteq {"runs"}
        BY <2>2 DEF OpenStore, flagVars, IInv, RunsInOrder
      <3>2. CASE Goto("making")
        BY <1>4, <3>1, <3>2 DEF Goto
      <3>3. CASE Exit(1)
        BY <3>3 DEF Exit
      <3>4. QED
        BY <2>2, <3>2, <3>3 DEF OpenStore
    <2>3. CASE MakeSummaries
      <3>1. flaws' = flaws /\ flaws \subseteq {"runs"}
        BY <2>3 DEF MakeSummaries, flagVars, IInv, RunsInOrder
      <3>2. CASE "runs" \in flaws
        <4>1. "runs" \in flaws' \cap Wrong
          BY <3>1, <3>2 DEF Wrong
        <4>2. WrongFlags(flaws')
          BY <4>1 DEF WrongFlags
        <4>3. QED
          BY <2>3, <3>2, <4>2 DEF MakeSummaries, Exit
      <3>3. CASE "runs" \notin flaws
        BY <1>4, <2>3, <3>1, <3>3 DEF MakeSummaries, Goto
      <3>4. QED
        BY <3>2, <3>3
    <2>4. QED
      BY <2>1, <2>2, <2>3
  <1>6. RunsInOrder'
    <2>1. N' = 0 /\ noted' <= N'
      BY <1>2, <1>3
    <2>2. QED
      BY <1>3, <1>5, <2>1 DEF RunsInOrder
  <1>7. ExitIsTold'
    BY <1>3, <1>5, CodeIsNone DEF ExitIsTold
  <1>8. RowsAreKept'
    BY <1>2, <1>3 DEF RowsAreKept
  <1>9. QED
    BY <1>2, <1>3, <1>6, <1>7, <1>8 DEF IInv

\* A panic leaves everything as it is, before the verdict.
LEMMA PanicIInv ==
  ASSUME IInv, CollectorPanics
  PROVE  IInv'
  <1>1. /\ UNCHANGED <<vars, flagVars, tiersFailed, tableVars, noteVars>>
        /\ pc = "measuring" /\ runsLeft > 0 /\ pc' = "exited" /\ exitCode' = 2
    BY DEF CollectorPanics, Exit
  <1>2. N' = N /\ FailuresCounted' /\ AllFailed' = AllFailed /\ Typed'
    BY <1>1, SameRuns DEF vars, flagVars, noteVars, IInv, Typed
  <1>3. flaws = {} /\ judged = {}
    BY <1>1 DEF IInv, RunsInOrder
  <1>4. RunsInOrder'
    BY <1>1, <1>2 DEF vars, flagVars, tableVars, noteVars, IInv, RunsInOrder
  <1>5. ExitIsTold'
    BY <1>1, <1>3 DEF vars, flagVars, tableVars, ExitIsTold
  <1>6. RowsAreKept'
    BY <1>1, <1>2 DEF flagVars, tableVars, noteVars, IInv, RowsAreKept, Excused
  <1>7. QED
    BY <1>2, <1>4, <1>5, <1>6 DEF IInv

\* One more run, with as many failures as tiers at most.
LEMMA MeasureIInv ==
  ASSUME IInv, MeasureRun
  PROVE  IInv'
  <1>1. /\ pc = "measuring" /\ runsLeft' = runsLeft - 1 /\ runsLeft > 0
        /\ UNCHANGED <<flaws, withStore, withBudget, jobs, saved, judged, noted, warned,
                       removed, exitCode>>
        /\ pc' = IF withStore THEN "creating" ELSE "measuring"
    BY DEF MeasureRun, CollectRun, flagVars, tableVars, noteVars, Goto
  <1>2. /\ runMetrics' \in Seq(Samples) /\ N \in Nat /\ N' = N + 1
    <2>1. PICK run \in Samples : runMetrics' = Append(runMetrics, run)
      BY DEF MeasureRun, CollectRun
    <2>2. QED
      BY <2>1 DEF IInv, Typed, N
  <1>3. PICK failed \in SUBSET Tier : tiersFailed' = tiersFailed + Cardinality(failed)
    BY DEF MeasureRun
  <1>4. /\ Cardinality(failed) \in Nat /\ Cardinality(Tier) \in Nat
        /\ Cardinality(failed) <= Cardinality(Tier)
    BY TierAssumption, FS_Subset, FS_CardinalityType
  <1>5. Typed'
    BY <1>1, <1>2, <1>3, <1>4 DEF IInv, Typed
  <1>6. FailuresCounted'
    <2> DEFINE t == Cardinality(Tier)
    <2>1. t \in Nat
      BY <1>4
    <2> HIDE DEF t
    <2>2. t * (N + 1) = t * N + t /\ t * N \in Nat
      BY <1>2, <2>1
    <2>3. tiersFailed <= t * N /\ tiersFailed \in Nat
      BY DEF IInv, FailuresCounted, Typed, t
    <2>4. tiersFailed' <= t * N + t
      BY <1>3, <1>4, <2>1, <2>2, <2>3 DEF t
    <2>5. t' = t
      BY DEF t
    <2>6. QED
      BY <1>2, <2>2, <2>4, <2>5 DEF FailuresCounted, t
  <1>7. RunsInOrder'
    BY <1>1, <1>2 DEF IInv, RunsInOrder, Typed
  <1>8. ExitIsTold'
    BY <1>1 DEF IInv, ExitIsTold, NoCode
  <1>9. RowsAreKept'
    BY <1>1, <1>2 DEF IInv, RowsAreKept, RunsInOrder, Excused
  <1>10. QED
    BY <1>5, <1>6, <1>7, <1>8, <1>9 DEF IInv

\* The row and the result of a run, or their warnings; somebody deletes a row.
LEMMA PersistIInv ==
  ASSUME IInv, CreateJob \/ SaveResult \/ \E n \in Measured : RemoveRow(n)
  PROVE  IInv'
  <1>1. /\ UNCHANGED <<vars, flagVars, tiersFailed, noted, exitCode>>
        /\ \/ pc' = pc
           \/ pc = "creating" /\ pc' = "saving"
           \/ pc = "saving" /\ pc' = "measuring"
    BY DEF CreateJob, SaveResult, RemoveRow, Goto
  <1>2. N' = N /\ FailuresCounted' /\ AllFailed' = AllFailed /\ Typed'
    BY <1>1, SameRuns DEF vars, flagVars, IInv, Typed
  <1>3. /\ jobs = {} => jobs' = {} \/ pc = "creating"
        /\ judged = {} => judged' = {}
    BY DEF CreateJob, SaveResult, RemoveRow
  <1>4. RunsInOrder'
    BY <1>1, <1>2, <1>3 DEF vars, flagVars, IInv, RunsInOrder
  <1>5. ExitIsTold'
    BY <1>1, <1>2, <1>3 DEF vars, flagVars, IInv, ExitIsTold, NoCode
  <1>6. RowsAreKept'
    <2>1. CASE CreateJob
      BY <1>1, <1>2, <2>1
      DEF CreateJob, Goto, flagVars, IInv, RowsAreKept, RunsInOrder, Excused, N
    <2>2. CASE SaveResult
      BY <1>1, <1>2, <2>2
      DEF SaveResult, Goto, flagVars, IInv, RowsAreKept, RunsInOrder, Excused, N
    <2>3. ASSUME NEW n \in Measured, RemoveRow(n) PROVE RowsAreKept'
      BY <1>1, <1>2, <2>3 DEF RemoveRow, flagVars, IInv, RowsAreKept, Excused
    <2>4. QED
      BY <2>1, <2>2, <2>3
  <1>7. QED
    BY <1>2, <1>4, <1>5, <1>6 DEF IInv

\* The verdict, up to the report.
LEMMA JudgeIInv ==
  ASSUME IInv,
         \/ StartEvaluate \/ SkipEvaluate \/ (\E k \in Metric : EvaluateAssertion(k))
         \/ FinishEvaluate \/ FinishNoting
  PROVE  IInv'
  <1>1. /\ UNCHANGED <<flagVars, tiersFailed, tableVars, noteVars, exitCode, runMetrics, runsLeft>>
        /\ runsLeft = 0
        /\ \/ pc = "measuring" /\ withBudget /\ pc' = "evaluating"
           \/ pc = "measuring" /\ ~withBudget /\ pc' = "reporting"
           \/ pc = "evaluating" /\ pc' = pc
           \/ pc = "evaluating" /\ pc' = (IF withStore THEN "noting" ELSE "reporting")
           \/ pc = "noting" /\ noted = N /\ pc' = "reporting"
    BY DEF StartEvaluate, SkipEvaluate, EvaluateAssertion, FinishEvaluate, FinishNoting,
           BeginEvaluate, VisitAssertion, vars, Goto, IInv, RunsInOrder, N
  <1>2. N' = N /\ FailuresCounted' /\ AllFailed' = AllFailed /\ Typed'
    BY <1>1, SameRuns DEF flagVars, noteVars, IInv, Typed
  <1>3. RunsInOrder'
    BY <1>1, <1>2 DEF flagVars, tableVars, noteVars, IInv, RunsInOrder
  <1>4. ExitIsTold'
    BY <1>1, <1>2 DEF flagVars, tableVars, IInv, ExitIsTold, NoCode
  <1>5. RowsAreKept'
    BY <1>1, <1>2 DEF flagVars, tableVars, noteVars, IInv, RowsAreKept, Excused
  <1>6. QED
    BY <1>2, <1>3, <1>4, <1>5 DEF IInv

\* The verdict reaches a row, or its warning the log.
LEMMA NoteIInv ==
  ASSUME IInv, NoteVerdict
  PROVE  IInv'
  <1>1. /\ UNCHANGED <<vars, flagVars, tiersFailed, jobs, saved, removed, exitCode, pc>>
        /\ pc = "noting" /\ noted' = noted + 1 /\ noted < N
    BY DEF NoteVerdict, N
  <1>2. N' = N /\ FailuresCounted' /\ AllFailed' = AllFailed /\ N \in Nat /\ noted \in Nat
    BY <1>1, SameRuns, LengthType DEF vars, IInv, Typed
  <1>3. Typed' /\ RunsInOrder'
    BY <1>1, <1>2 DEF vars, flagVars, IInv, Typed, RunsInOrder
  <1>4. ExitIsTold'
    BY <1>1, <1>2 DEF vars, flagVars, IInv, ExitIsTold, NoCode
  <1>5. RowsAreKept'
    <2>1. noted' \in 1 .. N /\ \A n \in 1 .. noted' : n \in 1 .. noted \/ n = noted'
      BY <1>1, <1>2
    <2>2. warned \subseteq warned' /\ judged \subseteq judged'
      BY DEF NoteVerdict
    <2>3. noted' \in warned' \/ (judged' = judged \cup ({noted'} \cap jobs))
      BY DEF NoteVerdict
    <2>4. QED
      BY <1>1, <1>2, <2>1, <2>2, <2>3 DEF flagVars, IInv, RowsAreKept, Excused
  <1>6. QED
    BY <1>2, <1>3, <1>4, <1>5 DEF IInv

LEMMA ReportIInv ==
  ASSUME IInv, Report
  PROVE  IInv'
  <1>1. /\ UNCHANGED <<vars, flagVars, tiersFailed, tableVars, noteVars>>
        /\ pc = "reporting" /\ pc' = "exited" /\ exitCode' \in {1, FinalCode}
    BY DEF Report, Exit
  <1>2. N' = N /\ FailuresCounted' /\ AllFailed' = AllFailed /\ Typed'
    BY <1>1, SameRuns DEF vars, flagVars, noteVars, IInv, Typed
  <1>3. exitCode' \in {0, 1, 3} /\ (exitCode' # 1 => ~AllFailed)
    BY <1>1 DEF FinalCode
  <1>4. RunsInOrder'
    BY <1>1, <1>2 DEF vars, flagVars, tableVars, noteVars, IInv, RunsInOrder
  <1>5. ExitIsTold'
    BY <1>1, <1>2, <1>3 DEF vars, flagVars, IInv, ExitIsTold, RunsInOrder
  <1>6. RowsAreKept'
    <2>1. exitCode # 2
      BY <1>1, CodeIsNone DEF IInv, ExitIsTold
    <2>2. QED
      BY <1>1, <1>2, <2>1 DEF flagVars, tableVars, noteVars, IInv, RowsAreKept, Excused
  <1>7. QED
    BY <1>2, <1>4, <1>5, <1>6 DEF IInv

THEOREM Invariance == CliSpec => []IInv
  <1>1. IInv /\ [CliNext]_cliVars => IInv'
    <2> SUFFICES ASSUME IInv, [CliNext]_cliVars PROVE IInv'
      OBVIOUS
    <2>1. CASE CliNext
      BY <2>1, FlagsIInv, MeasureIInv, PanicIInv, PersistIInv, JudgeIInv, NoteIInv, ReportIInv
      DEF CliNext
    <2>2. CASE UNCHANGED cliVars
      <3>1. UNCHANGED <<vars, pc, flagVars, tiersFailed, tableVars, noteVars, exitCode>>
        BY <2>2 DEF cliVars
      <3>2. N' = N /\ FailuresCounted' /\ AllFailed' = AllFailed
        BY <3>1, SameRuns DEF vars
      <3>3. QED
        BY <3>1, <3>2
        DEF vars, flagVars, tableVars, noteVars, IInv, Typed, RunsInOrder, ExitIsTold,
            RowsAreKept, Excused
    <2>3. QED
      BY <2>1, <2>2
  <1>2. QED
    BY <1>1, InitIInv, PTL DEF CliSpec

\* Unless -h was given, 0 and 3 come after all the runs, of which an attempt
\* succeeded; 2 comes before any run, of a wrong flag, or before the last has
\* ended and before any verdict, of a panic.
THEOREM ExitCodeIsTrue == CliSpec => []ExitTellsOutcome
  <1>1. IInv => ExitTellsOutcome
    <2> SUFFICES ASSUME IInv, Exited PROVE ExitTellsOutcome
      BY DEF ExitTellsOutcome
    <2>1. N \in Nat /\ Measured = 1 .. N
      BY LengthType DEF IInv, Measured
    <2>2. Cardinality(Tier) \in Nat \ {0}
      BY TierAssumption, FS_CardinalityType, FS_EmptySet
    <2>3. Measured # {} => tiersFailed < Cardinality(Tier) * N \/ AllFailed
      <3> SUFFICES ASSUME N > 0 PROVE tiersFailed < Cardinality(Tier) * N \/ AllFailed
        BY <2>1
      <3> DEFINE t == Cardinality(Tier)
      <3> HIDE DEF t
      <3>1. t \in Nat \ {0}
        BY <2>2 DEF t
      <3>2. t * N \in Nat /\ t * N > 0
        BY <2>1, <3>1
      <3>3. tiersFailed <= t * N /\ tiersFailed \in Nat
        BY DEF IInv, FailuresCounted, Typed, t
      <3>4. TiersAttempted = t * N
        BY DEF TiersAttempted, t, N
      <3>5. QED
        BY <3>2, <3>3, <3>4 DEF AllFailed, t
    <2>4. runMetrics = <<>> /\ jobs = {} => NothingDone
      BY DEF NothingDone, Measured
    <2>5. QED
      <3>1. exitCode = 2 =>
              \/ /\ flaws \cap {"unknown flag", "tier", "profile", "budget file", "runs"} # {}
                 /\ NothingDone
              \/ flaws = {} /\ runsLeft > 0 /\ judged = {}
        BY <2>4 DEF IInv, ExitIsTold, WrongFlags, Wrong
      <3>2. exitCode \in {0, 3} =>
              \/ flaws = {} /\ runsLeft = 0 /\ ~AllFailed
              \/ exitCode = 0 /\ "help" \in flaws /\ NothingDone
        BY <2>4 DEF IInv, ExitIsTold
      <3>3. QED
        BY <2>3, <3>1, <3>2 DEF ExitTellsOutcome, N
  <1>2. QED
    BY <1>1, Invariance, PTL

\* However many calls of the store fail and rows are deleted, what is not in the
\* store at the end was warned of or deleted.
THEOREM NothingIsLostUnsaid == CliSpec => []StoredOrWarned
  <1>1. IInv => StoredOrWarned
    BY LengthType DEF IInv, RowsAreKept, StoredOrWarned, Exited, Excused, Measured
  <1>2. QED
    BY <1>1, Invariance, PTL

-------------------------------------------------------------------------------
(* The types, and the tables in them                                         *)

LEMMA InitTypes == CliInit => CliTypeOK
  <1> SUFFICES ASSUME CliInit PROVE CliTypeOK
    OBVIOUS
  <1>1. TypeOK
    BY DEF CliInit, Init, TypeOK
  <1>2. runMetrics = <<>> /\ Len(runMetrics) = 0 /\ 0 \in 0 .. MaxFaults
    BY FaultsAssumption DEF CliInit, Init
  <1>3. QED
    BY <1>1, <1>2 DEF CliInit, CliTypeOK

\* The steps of the verdict.
LEMMA VisitTypes ==
  ASSUME TypeOK, NEW k \in Metric, VisitAssertion(k)
  PROVE  TypeOK'
  <1>1. \A r \in ResultsOf(k) : r \in [metric : Metric, op : {"max", "min"}, status : Verdict]
    BY DEF ResultsOf, tripStatus, Verdict
  <1>2. /\ unvisited' \subseteq unvisited
        /\ results' = results \cup ResultsOf(k)
        /\ status' \in {"fail", "warn", status}
        /\ UNCHANGED <<assertions, runsLeft, runMetrics>>
    BY DEF VisitAssertion, Worst
  <1>3. results' \subseteq [metric : Metric, op : {"max", "min"}, status : Verdict]
    BY <1>1, <1>2 DEF TypeOK
  <1>4. QED
    BY <1>2, <1>3 DEF TypeOK, Verdict

LEMMA StepTypes ==
  ASSUME TypeOK, CollectRun \/ BeginEvaluate \/ UNCHANGED vars
  PROVE  TypeOK'
  <1>1. CASE CollectRun
    <2>1. runMetrics' \in Seq(Samples)
      BY <1>1 DEF CollectRun, TypeOK
    <2>2. runsLeft' \in 0 .. MaxRuns
      BY <1>1, RunsAssumption DEF CollectRun, TypeOK
    <2>3. QED
      BY <1>1, <2>1, <2>2 DEF CollectRun, TypeOK
  <1>2. CASE BeginEvaluate
    BY <1>2 DEF BeginEvaluate, TypeOK, Verdict
  <1>3. CASE UNCHANGED vars
    BY <1>3 DEF vars, TypeOK
  <1>4. QED
    BY <1>1, <1>2, <1>3

\* The tables stay within the runs, and a result or a verdict within the rows.
TablesTyped ==
    /\ saved \subseteq jobs /\ judged \subseteq jobs /\ jobs \subseteq Measured
    /\ warned \subseteq Measured /\ removed \subseteq Measured
    /\ faults \in 0 .. MaxFaults

Places == {"invoked", "opening", "making", "measuring", "creating", "saving",
           "evaluating", "noting", "reporting", "exited"}

Flaws == {"help", "unknown flag", "no url", "tier", "profile",
          "refused url", "budget file", "runs"}

LEMMA NextTables ==
  ASSUME IInv, IInv', TablesTyped, CliNext
  PROVE  TablesTyped'
  <1>0. /\ N \in Nat /\ N' \in Nat /\ Measured = 1 .. N /\ Measured' = 1 .. N'
        /\ MayFail /\ Fault => faults' \in 0 .. MaxFaults
    <2>1. Typed /\ Typed'
      BY DEF IInv
    <2>2. N \in Nat /\ Measured = 1 .. N
      BY <2>1, LengthType DEF Measured
    <2>3. N' \in Nat /\ Measured' = 1 .. N'
      BY <2>1 DEF Typed, N, Measured
    <2>4. MayFail /\ Fault => faults' \in 0 .. MaxFaults
      BY FaultsAssumption DEF TablesTyped, MayFail, Fault
    <2>5. QED
      BY <2>2, <2>3, <2>4
  <1>1. CASE MeasureRun
    <2>1. UNCHANGED <<tableVars, noteVars>> /\ N' = N + 1
      <3>1. PICK run \in Samples : runMetrics' = Append(runMetrics, run)
        BY <1>1 DEF MeasureRun, CollectRun
      <3>2. QED
        BY <1>1, <3>1 DEF MeasureRun, IInv, Typed, N
    <2>2. Measured \subseteq Measured'
      BY <1>0, <2>1
    <2>3. QED
      BY <2>1, <2>2 DEF TablesTyped, tableVars, noteVars
  <1>2. CASE CreateJob \/ SaveResult \/ NoteVerdict \/ OpenStore
    <2>1. UNCHANGED <<runMetrics, removed>> /\ N = Len(runMetrics)
      BY <1>2 DEF CreateJob, SaveResult, NoteVerdict, OpenStore, vars, N
    <2>2. Measured' = Measured
      BY <2>1 DEF Measured
    <2>3. pc \in {"creating", "saving"} => N \in Measured
      BY <1>0 DEF IInv, RunsInOrder
    <2>4. pc = "noting" /\ noted < N => noted + 1 \in Measured
      BY <1>0 DEF IInv, Typed
    <2>5. QED
      BY <1>0, <1>2, <2>1, <2>2, <2>3, <2>4
      DEF TablesTyped, CreateJob, SaveResult, NoteVerdict, OpenStore, tableVars
  <1>3. ASSUME NEW n \in Measured, RemoveRow(n) PROVE TablesTyped'
    <2>1. Measured' = Measured
      BY <1>3 DEF RemoveRow, vars, Measured
    <2>2. QED
      BY <1>0, <1>3, <2>1 DEF RemoveRow, TablesTyped
  <1>4. CASE \/ CheckFlags \/ MakeSummaries \/ CollectorPanics \/ StartEvaluate \/ SkipEvaluate \/ FinishEvaluate
             \/ FinishNoting \/ Report \/ \E k \in Metric : EvaluateAssertion(k)
    <2>1. UNCHANGED <<tableVars, warned, removed, faults, runMetrics>>
      BY <1>4 DEF CheckFlags, MakeSummaries, CollectorPanics, StartEvaluate, SkipEvaluate,
         FinishEvaluate, FinishNoting, Report, EvaluateAssertion, BeginEvaluate, VisitAssertion, vars, noteVars
    <2>2. QED
      BY <2>1 DEF TablesTyped, tableVars, Measured
  <1>5. QED
    BY <1>1, <1>2, <1>3, <1>4 DEF CliNext

LEMMA NextTypes ==
  ASSUME IInv, IInv', CliTypeOK, CliNext
  PROVE  CliTypeOK'
  <1>1. TypeOK'
    <2>1. \/ CollectRun \/ BeginEvaluate \/ UNCHANGED vars
          \/ \E k \in Metric : VisitAssertion(k)
      BY DEF CliNext, CheckFlags, OpenStore, MakeSummaries, CollectorPanics, MeasureRun, CreateJob, SaveResult, RemoveRow,
         StartEvaluate, SkipEvaluate, EvaluateAssertion, FinishEvaluate, NoteVerdict,
         FinishNoting, Report
    <2>2. QED
      BY <2>1, VisitTypes, StepTypes DEF CliTypeOK
  <1>2. TablesTyped'
    BY NextTables DEF CliTypeOK, TablesTyped
  <1>3. pc' \in Places
    BY DEF CliTypeOK, Places, CliNext, CheckFlags, OpenStore, MakeSummaries, CollectorPanics, MeasureRun, CreateJob, SaveResult,
       RemoveRow, StartEvaluate, SkipEvaluate, EvaluateAssertion, FinishEvaluate, NoteVerdict,
       FinishNoting, Report, Goto, Exit
  <1>4. flaws' \subseteq Flaws
    <2>1. TheChecks \cup {"runs"} \subseteq Flaws
      <3>1. \A n \in 1 .. 7 : n \in {1, 2, 3, 4, 5, 6, 7}
        OBVIOUS
      <3>2. ASSUME NEW n \in 1 .. Len(Checks) PROVE Checks[n].flaw \in Flaws
        <4>1. n \in {1, 2, 3, 4, 5, 6, 7}
          BY <3>1, ChecksAre
        <4>2. QED
          BY <4>1, ChecksAre DEF Flaws
      <3>3. "runs" \in Flaws
        BY DEF Flaws
      <3>4. QED
        BY <3>2, <3>3 DEF TheChecks
    <2>2. CASE CheckFlags
      BY <2>1, <2>2 DEF CheckFlags, TheChecks
    <2>3. CASE ~CheckFlags
      <3>1. flaws' = flaws
        BY <2>3 DEF CliNext, OpenStore, MakeSummaries, CollectorPanics, MeasureRun, CreateJob, SaveResult, RemoveRow,
           StartEvaluate, SkipEvaluate, EvaluateAssertion, FinishEvaluate, NoteVerdict,
           FinishNoting, Report, flagVars
      <3>2. QED
        BY <3>1 DEF CliTypeOK, Flaws
    <2>4. QED
      BY <2>2, <2>3
  <1>5. exitCode' \in 0 .. 3 \cup {NoCode}
    <2>1. CASE CheckFlags /\ ~(flaws' \subseteq {"runs"})
      <3>1. flaws' \in SUBSET (TheChecks \cup {"runs"})
        BY <2>1 DEF CheckFlags, TheChecks
      <3>2. CodeOf(flaws') \in {0, 1, 2} /\ exitCode' = CodeOf(flaws')
        BY <2>1, <3>1, FirstCheck DEF CheckFlags, Exit
      <3>3. QED
        BY <3>2
    <2>2. CASE Report
      <3>1. exitCode' \in {1, FinalCode}
        BY <2>2 DEF Report, Exit
      <3>2. FinalCode \in {0, 1, 3}
        BY DEF FinalCode
      <3>3. QED
        BY <3>1, <3>2
    <2>3. CASE ~Report /\ ~(CheckFlags /\ ~(flaws' \subseteq {"runs"}))
      <3>1. exitCode' = exitCode \/ exitCode' \in {1, 2}
        <4>1. CASE CheckFlags \/ OpenStore \/ MakeSummaries \/ CollectorPanics
          BY <2>3, <4>1
          DEF CheckFlags, OpenStore, MakeSummaries, CollectorPanics, Goto, Exit
        <4>2. CASE ~CheckFlags /\ ~OpenStore /\ ~MakeSummaries /\ ~CollectorPanics
          BY <2>3, <4>2 DEF CliNext, MeasureRun, CreateJob, SaveResult, RemoveRow,
             StartEvaluate, SkipEvaluate, EvaluateAssertion, FinishEvaluate, NoteVerdict,
             FinishNoting, Goto
        <4>3. QED
          BY <4>1, <4>2
      <3>2. exitCode \in 0 .. 3 \cup {NoCode}
        BY DEF CliTypeOK
      <3>3. QED
        BY <3>1, <3>2 DEF NoCode
    <2>4. QED
      BY <2>1, <2>2, <2>3
  <1>6. noted' \in 0 .. Len(runMetrics')
    <2>1. noted' \in Nat /\ noted' <= N' /\ N' \in Nat
      BY DEF IInv, Typed, RunsInOrder, N
    <2>2. QED
      BY <2>1 DEF N
  <1>7. withStore' \in BOOLEAN /\ withBudget' \in BOOLEAN /\ tiersFailed' \in Nat
    BY DEF IInv, Typed
  <1>8. QED
    BY <1>1, <1>2, <1>3, <1>4, <1>5, <1>6, <1>7
    DEF CliTypeOK, TablesTyped, Places, Flaws

\* Every variable keeps its type; a result and a verdict are of a row that is there.
THEOREM TypeCorrect == CliSpec => []CliTypeOK
  <1>1. IInv /\ IInv' /\ CliTypeOK /\ [CliNext]_cliVars => CliTypeOK'
    <2> SUFFICES ASSUME IInv, IInv', CliTypeOK, [CliNext]_cliVars PROVE CliTypeOK'
      OBVIOUS
    <2>1. CASE CliNext
      BY <2>1, NextTypes
    <2>2. CASE UNCHANGED cliVars
      BY <2>2 DEF cliVars, vars, flagVars, tableVars, noteVars, CliTypeOK, TypeOK, Measured
    <2>3. QED
      BY <2>1, <2>2
  <1>2. QED
    BY <1>1, InitTypes, Invariance, PTL DEF CliSpec

-------------------------------------------------------------------------------
(* Sorting, and the middle of the values                                     *)

\* Sets that grow from each element of S to the next have the sizes 1, 2, ...
LEMMA Ranks ==
  ASSUME NEW S, IsFiniteSet(S), NEW L \in [S -> SUBSET S],
         \A i \in S : i \in L[i],
         \A i, j \in S : i # j => \/ L[i] \subseteq L[j] /\ j \notin L[i]
                                  \/ L[j] \subseteq L[i] /\ i \notin L[j]
  PROVE  /\ Cardinality(S) \in Nat
         /\ \A i \in S : Cardinality(L[i]) \in 1 .. Cardinality(S)
         /\ \A i, j \in S : Cardinality(L[i]) = Cardinality(L[j]) => i = j
         /\ \A n \in 1 .. Cardinality(S) : \E i \in S : Cardinality(L[i]) = n
         /\ \A i, j \in S : L[i] \subseteq L[j] => Cardinality(L[i]) <= Cardinality(L[j])
  <1> DEFINE size == Cardinality(S)
             rank == [i \in S |-> Cardinality(L[i])]
  <1>1. size \in Nat
    BY FS_CardinalityType
  <1>2. ASSUME NEW i \in S
        PROVE  IsFiniteSet(L[i]) /\ Cardinality(L[i]) \in Nat /\ Cardinality(L[i]) <= size
               /\ Cardinality(L[i]) # 0
    <2>1. L[i] \in SUBSET S
      OBVIOUS
    <2>2. IsFiniteSet(L[i]) /\ Cardinality(L[i]) <= size
      BY <2>1, FS_Subset
    <2>3. QED
      BY <2>2, FS_CardinalityType, FS_EmptySet
  <1>3. ASSUME NEW i \in S, NEW j \in S, L[i] \subseteq L[j]
        PROVE  Cardinality(L[i]) <= Cardinality(L[j])
    BY <1>2, <1>3, FS_Subset
  <1>4. ASSUME NEW i \in S, NEW j \in S, L[i] \subseteq L[j], j \notin L[i]
        PROVE  Cardinality(L[i]) < Cardinality(L[j])
    <2>1. L[i] \in SUBSET (L[j] \ {j}) /\ j \in L[j]
      BY <1>4
    <2>2. IsFiniteSet(L[j] \ {j}) /\ Cardinality(L[j] \ {j}) = Cardinality(L[j]) - 1
      BY <1>2, <2>1, FS_RemoveElement
    <2>3. Cardinality(L[i]) <= Cardinality(L[j] \ {j})
      BY <2>1, <2>2, FS_Subset
    <2>4. QED
      BY <1>2, <2>2, <2>3
  <1>5. ASSUME NEW i \in S, NEW j \in S, Cardinality(L[i]) = Cardinality(L[j]) PROVE i = j
    BY <1>2, <1>4, <1>5
  <1>6. \A i \in S : Cardinality(L[i]) \in 1 .. size
    BY <1>1, <1>2
  <1>7. rank \in Injection(S, 1 .. size)
    <2>1. rank \in [S -> 1 .. size]
      BY <1>6
    <2>2. \A i, j \in S : rank[i] = rank[j] => i = j
      BY <1>5
    <2> HIDE DEF rank
    <2>3. QED
      BY <2>1, <2>2 DEF Injection, IsInjective
  <1>8. IsFiniteSet(1 .. size) /\ Cardinality(1 .. size) = size
    BY <1>1, FS_Interval
  <1>9. rank \in Surjection(S, 1 .. size)
    BY <1>7, <1>8, FS_Injection
  <1>10. ASSUME NEW n \in 1 .. size PROVE \E i \in S : Cardinality(L[i]) = n
    <2>1. \E i \in S : rank[i] = n
      BY <1>9 DEF Surjection
    <2>2. QED
      BY <2>1
  <1>11. QED
    BY <1>1, <1>3, <1>5, <1>6, <1>10

\* So taking them by size takes each once.
LEMMA InOrder ==
  ASSUME NEW S, IsFiniteSet(S), NEW L \in [S -> SUBSET S],
         \A i \in S : i \in L[i],
         \A i, j \in S : i # j => \/ L[i] \subseteq L[j] /\ j \notin L[i]
                                  \/ L[j] \subseteq L[i] /\ i \notin L[j],
         NEW nth \in [1 .. Cardinality(S) -> S],
         \A n \in 1 .. Cardinality(S) : Cardinality(L[nth[n]]) = n
  PROVE  nth \in Bijection(1 .. Cardinality(S), S)
  <1>1. /\ \A i, j \in S : Cardinality(L[i]) = Cardinality(L[j]) => i = j
        /\ \A i \in S : Cardinality(L[i]) \in 1 .. Cardinality(S)
    BY Ranks
  <1>2. \A i \in S : nth[Cardinality(L[i])] = i
    BY <1>1
  <1>3. \A m, n \in 1 .. Cardinality(S) : nth[m] = nth[n] => m = n
    OBVIOUS
  <1>4. QED
    BY <1>1, <1>2, <1>3 DEF Bijection, Injection, Surjection, IsInjective

\* Sorting takes each value once, the smaller ones first.
LEMMA SortedAscends ==
  ASSUME NEW n \in Nat, NEW values \in [1 .. n -> Int]
  PROVE  \E p \in Bijection(1 .. n, 1 .. n) :
            /\ Sorted(values) = [m \in 1 .. n |-> values[p[m]]]
            /\ \A l, m \in 1 .. n : l <= m => values[p[l]] <= values[p[m]]
  <1> DEFINE S == 1 .. n
             L == [i \in S |-> UpTo(values, i)]
             p == [m \in 1 .. n |->
                     CHOOSE i \in DOMAIN values : Cardinality(UpTo(values, i)) = m]
  <1>1. /\ DOMAIN values = S
        /\ \A i \in S : L[i] = {j \in S : values[j] < values[i] \/ (values[j] = values[i] /\ j <= i)}
    BY DEF UpTo
  <1>2. IsFiniteSet(S) /\ Cardinality(S) = n
    BY FS_Interval
  <1>3. L \in [S -> SUBSET S]
    BY <1>1
  <1>4. \A i \in S : values[i] \in Int /\ i \in Int
    OBVIOUS
  <1> HIDE DEF L, S
  <1>5. \A i \in S : i \in L[i]
    BY <1>1, <1>4
  <1>6. \A i, j \in S : i # j => \/ L[i] \subseteq L[j] /\ j \notin L[i]
                                 \/ L[j] \subseteq L[i] /\ i \notin L[j]
    <2>1. ASSUME NEW i \in S, NEW j \in S,
                 values[i] < values[j] \/ (values[i] = values[j] /\ i < j)
          PROVE  L[i] \subseteq L[j] /\ j \notin L[i]
      BY <1>1, <1>4, <2>1
    <2>2. QED
      BY <1>4, <2>1
  <1>7. p \in Bijection(1 .. n, S) /\ \A m \in 1 .. n : Cardinality(L[p[m]]) = m
    <2>1. \A m \in 1 .. n : \E i \in S : Cardinality(L[i]) = m
      BY <1>2, <1>3, <1>5, <1>6, Ranks
    <2>2. \A i \in S : L[i] = UpTo(values, i)
      BY DEF L
    <2>3. \A m \in 1 .. n : p[m] \in S /\ Cardinality(L[p[m]]) = m
      BY <1>1, <2>1, <2>2
    <2>4. p \in [1 .. n -> S]
      BY <2>3
    <2> HIDE DEF p
    <2>5. QED
      BY <1>2, <1>3, <1>5, <1>6, <2>3, <2>4, InOrder
  <1>8. Sorted(values) = [m \in 1 .. n |-> values[p[m]]]
    <2>1. DOMAIN values = 1 .. n
      OBVIOUS
    <2>2. QED
      BY <2>1 DEF Sorted
  <1>9. ASSUME NEW l \in 1 .. n, NEW m \in 1 .. n, l <= m PROVE values[p[l]] <= values[p[m]]
    <2>1. p[l] \in S /\ p[m] \in S
      BY <1>7 DEF Bijection, Injection
    <2> HIDE DEF p
    <2>2. SUFFICES ASSUME values[p[m]] < values[p[l]] PROVE FALSE
      BY <1>4, <2>1
    <2>3. L[p[m]] \subseteq L[p[l]]
      <3>1. ASSUME NEW a \in S, NEW b \in S, values[a] < values[b], NEW j \in L[a]
            PROVE  j \in L[b]
        BY <1>1, <1>4, <3>1
      <3>2. QED
        BY <2>1, <2>2, <3>1
    <2>4. Cardinality(L[p[m]]) <= Cardinality(L[p[l]])
      BY <1>2, <1>3, <1>5, <1>6, <2>1, <2>3, Ranks
    <2>5. m = l
      BY <1>7, <1>9, <2>4
    <2>6. QED
      BY <1>4, <2>1, <2>2, <2>5
  <1>10. QED
    BY <1>7, <1>8, <1>9 DEF S

Measurement(i, k) == runMetrics[i][k]

\* What a run has of a metric is one of the values.
LEMMA MeasurementType ==
  ASSUME TypeOK, NEW k, NEW i \in Collecting(k)
  PROVE  Measurement(i, k) \in Value /\ Measurement(i, k) \in Int
  <1>1. i \in DOMAIN runMetrics /\ k \in DOMAIN runMetrics[i]
    BY DEF Collecting
  <1>2. runMetrics[i] \in Samples
    BY <1>1, ElementOfSeq DEF TypeOK
  <1>3. PICK collected \in SUBSET Tier :
           runMetrics[i] \in [UNION {Keys[t] : t \in collected} -> Value]
    BY <1>2 DEF Samples
  <1>4. QED
    BY <1>1, <1>3, ValueAssumption DEF Measurement

LEMMA CollectingType ==
  ASSUME TypeOK, NEW k
  PROVE  /\ IsFiniteSet(Collecting(k)) /\ Cardinality(Collecting(k)) \in Nat
         /\ Collecting(k) \in SUBSET (1 .. N) /\ N \in Nat /\ IsFiniteSet(1 .. N)
         /\ Count(k) = Cardinality(Collecting(k))
  <1>1. N \in Nat /\ DOMAIN runMetrics = 1 .. N
    BY LenProperties DEF N, TypeOK
  <1>2. IsFiniteSet(1 .. N)
    BY <1>1, FS_Interval
  <1>3. Collecting(k) \in SUBSET (1 .. N)
    BY <1>1 DEF Collecting
  <1>4. QED
    BY <1>1, <1>2, <1>3, FS_Subset, FS_CardinalityType DEF Count, Collecting

\* byKey[k] has the value of each run that collected the metric, and no other.
LEMMA EachRunAppends ==
  ASSUME TypeOK, NEW k
  PROVE  LET nth == [n \in 1 .. Count(k) |-> Appending(k, n)]
         IN  /\ nth \in Bijection(1 .. Count(k), Collecting(k))
             /\ ValuesOf(k) = [n \in 1 .. Count(k) |-> Measurement(nth[n], k)]
  <1> DEFINE S == Collecting(k)
             L == [i \in S |-> {j \in S : j <= i}]
             nth == [n \in 1 .. Count(k) |-> Appending(k, n)]
  <1>1. /\ IsFiniteSet(S) /\ Count(k) = Cardinality(S)
        /\ \A i \in S : i \in Int
    BY CollectingType
  <1>2. L \in [S -> SUBSET S] /\ \A i \in S : L[i] = {j \in S : j <= i}
    OBVIOUS
  <1> HIDE DEF L
  <1>3. \A i \in S : i \in L[i]
    BY <1>1, <1>2
  <1>4. \A i, j \in S : i # j => \/ L[i] \subseteq L[j] /\ j \notin L[i]
                                 \/ L[j] \subseteq L[i] /\ i \notin L[j]
    <2>1. ASSUME NEW i \in S, NEW j \in S, i < j PROVE L[i] \subseteq L[j] /\ j \notin L[i]
      BY <1>1, <1>2, <2>1
    <2>2. QED
      BY <1>1, <2>1
  <1>5. \A n \in 1 .. Count(k) : Appending(k, n) \in S /\ Cardinality(L[Appending(k, n)]) = n
    <2>1. \A n \in 1 .. Count(k) : \E i \in S : Cardinality(L[i]) = n
      BY <1>1, <1>2, <1>3, <1>4, Ranks
    <2>2. \A n \in 1 .. Count(k) : \E i \in S : Cardinality({j \in S : j <= i}) = n
      BY <1>2, <2>1
    <2>3. \A n \in 1 .. Count(k) : /\ Appending(k, n) \in S
                                   /\ Cardinality({j \in S : j <= Appending(k, n)}) = n
      BY <2>2 DEF Appending
    <2>4. QED
      BY <1>2, <2>3
  <1>6. nth \in [1 .. Count(k) -> S] /\ \A n \in 1 .. Count(k) : Cardinality(L[nth[n]]) = n
    BY <1>5
  <1>7. nth \in Bijection(1 .. Count(k), S)
    <2> HIDE DEF nth, S
    <2>1. QED
      BY <1>1, <1>2, <1>3, <1>4, <1>6, InOrder
  <1>8. ValuesOf(k) = [n \in 1 .. Count(k) |-> Measurement(nth[n], k)]
    BY <1>1 DEF ValuesOf, Measurement
  <1>9. QED
    BY <1>7, <1>8

\* The n-th smallest value of a metric.
Nth(k, n) == Sorted(ValuesOf(k))[n]

\* Each run has its place among the sorted values.
LEMMA SortedRuns ==
  ASSUME TypeOK, NEW k
  PROVE  /\ Count(k) \in Nat /\ Len(ValuesOf(k)) = Count(k) /\ ValuesOf(k) \in Seq(Int)
         /\ \E h \in Bijection(1 .. Count(k), Collecting(k)) :
               /\ \A n \in 1 .. Count(k) : Nth(k, n) = Measurement(h[n], k)
               /\ \A m, n \in 1 .. Count(k) : m <= n => Nth(k, m) <= Nth(k, n)
  <1> DEFINE size == Count(k)
             nth == [n \in 1 .. size |-> Appending(k, n)]
             values == ValuesOf(k)
  <1>1. size \in Nat
    BY CollectingType
  <1>2. /\ nth \in Bijection(1 .. size, Collecting(k))
        /\ values = [n \in 1 .. size |-> Measurement(nth[n], k)]
    BY EachRunAppends
  <1> HIDE DEF size, nth, values
  <1>3. \A n \in 1 .. size : nth[n] \in Collecting(k)
    BY <1>2 DEF Bijection, Injection
  <1>4. values \in [1 .. size -> Int]
    BY <1>2, <1>3, MeasurementType
  <1>5. PICK p \in Bijection(1 .. size, 1 .. size) :
           /\ Sorted(values) = [m \in 1 .. size |-> values[p[m]]]
           /\ \A l, m \in 1 .. size : l <= m => values[p[l]] <= values[p[m]]
    BY <1>1, <1>4, SortedAscends
  <1>6. \A m \in 1 .. size : p[m] \in 1 .. size
    BY <1>5 DEF Bijection, Injection
  <1> DEFINE h == [n \in 1 .. size |-> nth[p[n]]]
  <1>7. h \in Bijection(1 .. size, Collecting(k))
    <2>1. h \in [1 .. size -> Collecting(k)]
      BY <1>3, <1>6
    <2>2. \A m, n \in 1 .. size : h[m] = h[n] => m = n
      <3>1. \A m, n \in 1 .. size : nth[m] = nth[n] => m = n
        BY <1>2 DEF Bijection, Injection, IsInjective
      <3>2. \A m, n \in 1 .. size : p[m] = p[n] => m = n
        BY <1>5 DEF Bijection, Injection, IsInjective
      <3>3. QED
        BY <1>6, <3>1, <3>2
    <2>3. ASSUME NEW i \in Collecting(k) PROVE \E n \in 1 .. size : h[n] = i
      <3>1. PICK m \in 1 .. size : nth[m] = i
        BY <1>2 DEF Bijection, Surjection
      <3>2. PICK n \in 1 .. size : p[n] = m
        BY <1>5 DEF Bijection, Surjection
      <3>3. QED
        BY <3>1, <3>2
    <2> HIDE DEF h
    <2>4. QED
      BY <2>1, <2>2, <2>3 DEF Bijection, Injection, Surjection, IsInjective
  <1>8. \A n \in 1 .. size : /\ Nth(k, n) = values[p[n]]
                             /\ Nth(k, n) = Measurement(h[n], k)
    BY <1>2, <1>5, <1>6 DEF Nth, values
  <1>9. \A m, n \in 1 .. size : m <= n => Nth(k, m) <= Nth(k, n)
    BY <1>5, <1>8
  <1>10. values \in Seq(Int) /\ Len(values) = size
    BY <1>1, <1>4, IsASeq, LenProperties
  <1>11. QED
    <2> HIDE DEF h
    <2>1. QED
      BY <1>1, <1>7, <1>8, <1>9, <1>10 DEF size, values

\* The runs whose value is smaller, or as small.
Below(k, v) == {i \in Collecting(k) : Measurement(i, k) < v}
UpToValue(k, v) == {i \in Collecting(k) : Measurement(i, k) <= v}

\* It is the one by counting: fewer are smaller, and enough are as small.
LEMMA NthIsOrderStatistic ==
  ASSUME TypeOK, NEW k, NEW rank \in 1 .. Count(k)
  PROVE  OrderStatistic(k, rank) = Nth(k, rank) /\ Nth(k, rank) \in Int
  <1> DEFINE size == Count(k)
             runs == Collecting(k)
             s == Nth(k, rank)
  <1>1. size \in Nat /\ rank \in Nat /\ rank <= size /\ rank >= 1
    BY SortedRuns
  <1>2. PICK h \in Bijection(1 .. size, runs) :
           /\ \A n \in 1 .. size : Nth(k, n) = Measurement(h[n], k)
           /\ \A m, n \in 1 .. size : m <= n => Nth(k, m) <= Nth(k, n)
    BY SortedRuns
  <1>3. /\ \A n \in 1 .. size : h[n] \in runs
        /\ \A m, n \in 1 .. size : h[m] = h[n] => m = n
        /\ \A i \in runs : \E n \in 1 .. size : h[n] = i
    BY <1>2 DEF Bijection, Injection, Surjection, IsInjective
  <1>4. \A i \in runs : Measurement(i, k) \in Value /\ Measurement(i, k) \in Int
    BY MeasurementType
  <1>5. IsFiniteSet(runs)
    BY CollectingType
  <1>6. s \in Value /\ s \in Int /\ \A n \in 1 .. size : Nth(k, n) \in Int
    BY <1>2, <1>3, <1>4
  <1> DEFINE First(n) == {h[m] : m \in 1 .. n}
  <1> HIDE DEF size, runs, s
  <1>7. ASSUME NEW n \in 0 .. size
        PROVE  IsFiniteSet(First(n)) /\ Cardinality(First(n)) = n
    <2> DEFINE T == First(n)
               f == [m \in 1 .. n |-> h[m]]
    <2>1. IsFiniteSet(1 .. n) /\ Cardinality(1 .. n) = n
      BY FS_Interval
    <2>2. f \in Bijection(1 .. n, T)
      <3>1. \A m \in 1 .. n : m \in 1 .. size
        BY <1>1
      <3>2. f \in [1 .. n -> T]
        OBVIOUS
      <3>3. \A l, m \in 1 .. n : f[l] = f[m] => l = m
        BY <1>3, <3>1
      <3>4. \A t \in T : \E m \in 1 .. n : f[m] = t
        OBVIOUS
      <3> HIDE DEF f, T
      <3>5. QED
        BY <3>2, <3>3, <3>4 DEF Bijection, Injection, Surjection, IsInjective
    <2>3. ExistsBijection(1 .. n, T)
      BY <2>2 DEF ExistsBijection
    <2> HIDE DEF T
    <2>4. IsFiniteSet(T) /\ Cardinality(T) = n
      BY <2>1, <2>3, FS_Bijection
    <2>5. QED
      BY <2>4 DEF T
  <1>8. ASSUME NEW v \in Int
        PROVE  /\ IsFiniteSet(Below(k, v)) /\ Cardinality(Below(k, v)) \in Nat
               /\ IsFiniteSet(UpToValue(k, v)) /\ Cardinality(UpToValue(k, v)) \in Nat
    <2>1. Below(k, v) \in SUBSET runs /\ UpToValue(k, v) \in SUBSET runs
      BY DEF Below, UpToValue, runs
    <2>2. QED
      BY <1>5, <2>1, FS_Subset, FS_CardinalityType
  \* The runs before it in the order are the only ones that may be smaller.
  <1>9. ASSUME NEW v \in Int, v <= s
        PROVE  Cardinality(Below(k, v)) < rank
    <2>1. Below(k, v) \in SUBSET First(rank - 1)
      <3>1. SUFFICES ASSUME NEW i \in runs, Measurement(i, k) < v
                     PROVE  i \in First(rank - 1)
        BY DEF Below, runs
      <3>2. PICK n \in 1 .. size : h[n] = i
        BY <1>3
      <3>3. Nth(k, n) < s
        BY <1>2, <1>4, <1>6, <1>9, <3>1, <3>2
      <3>4. ~(rank <= n)
        BY <1>1, <1>2, <1>6, <3>3 DEF s, size
      <3>5. n \in 1 .. (rank - 1)
        BY <1>1, <3>4
      <3>6. QED
        BY <3>2, <3>5
    <2>2. rank - 1 \in 0 .. size
      BY <1>1
    <2> HIDE DEF First
    <2>3. Cardinality(Below(k, v)) <= Cardinality(First(rank - 1))
      BY <1>7, <2>1, <2>2, FS_Subset
    <2>4. QED
      BY <1>1, <1>7, <1>8, <2>2, <2>3
  \* It and those before it are as small.
  <1>10. ASSUME NEW v \in Int, s <= v
         PROVE  Cardinality(UpToValue(k, v)) >= rank /\ (s < v => Cardinality(Below(k, v)) >= rank)
    <2>1. \A m \in 1 .. rank : h[m] \in runs /\ Measurement(h[m], k) <= s
      <3>1. TAKE m \in 1 .. rank
      <3>2. m \in 1 .. size /\ m <= rank /\ rank \in 1 .. size
        BY <1>1
      <3>3. QED
        BY <1>2, <1>3, <3>2 DEF s
    <2>2. First(rank) \in SUBSET UpToValue(k, v)
      BY <1>4, <1>6, <1>10, <2>1 DEF UpToValue, runs
    <2>3. s < v => First(rank) \in SUBSET Below(k, v)
      BY <1>4, <1>6, <2>1 DEF Below, runs
    <2>4. rank \in 0 .. size
      BY <1>1
    <2> HIDE DEF First
    <2>5. IsFiniteSet(First(rank)) /\ Cardinality(First(rank)) = rank
      BY <1>7, <2>4
    <2>6. rank <= Cardinality(UpToValue(k, v))
      BY <1>8, <2>2, <2>5, FS_Subset
    <2>7. s < v => rank <= Cardinality(Below(k, v))
      BY <1>8, <2>3, <2>5, FS_Subset
    <2>8. QED
      BY <1>1, <1>8, <2>6, <2>7
  <1> HIDE DEF First
  <1>11. Cardinality(Below(k, s)) < rank /\ Cardinality(UpToValue(k, s)) >= rank
    BY <1>6, <1>9, <1>10
  <1>12. ASSUME NEW v \in Int,
                Cardinality(Below(k, v)) < rank, Cardinality(UpToValue(k, v)) >= rank
         PROVE  v = s
    <2>1. CASE v < s
      <3>1. UpToValue(k, v) \in SUBSET Below(k, s)
        BY <1>4, <1>6, <2>1 DEF UpToValue, Below, runs
      <3>2. Cardinality(UpToValue(k, v)) <= Cardinality(Below(k, s))
        BY <1>6, <1>8, <3>1, FS_Subset
      <3>3. QED
        BY <1>1, <1>6, <1>8, <1>11, <1>12, <3>2
    <2>2. CASE s < v
      BY <1>1, <1>6, <1>8, <1>10, <1>12, <2>2
    <2>3. QED
      BY <1>6, <2>1, <2>2
  <1>13. OrderStatistic(k, rank) = CHOOSE v \in Value :
            Cardinality(Below(k, v)) < rank /\ Cardinality(UpToValue(k, v)) >= rank
    BY DEF OrderStatistic, Measurement, Collecting, Below, UpToValue
  <1>14. OrderStatistic(k, rank) = s
    BY <1>6, <1>11, <1>12, <1>13, ValueAssumption
  <1>15. QED
    BY <1>6, <1>14 DEF s

\* Half the sum of the two in the middle, which are one if the count is odd.
LEMMA MedianIsMiddle ==
  ASSUME TypeOK, NEW k, Count(k) > 0
  PROVE  /\ Median(ValuesOf(k)) = 50 * TwiceMiddle(k) /\ TwiceMiddle(k) \in Int
         /\ ValuesOf(k) # <<>>
         /\ (Count(k) + 1) \div 2 \in 1 .. Count(k) /\ Count(k) \div 2 + 1 \in 1 .. Count(k)
         /\ TwiceMiddle(k) = Nth(k, (Count(k) + 1) \div 2) + Nth(k, Count(k) \div 2 + 1)
  <1> DEFINE n == Count(k)
             v == ValuesOf(k)
             rank == 50 * (Len(v) - 1)
             lo == rank \div 100 + 1
  <1>1. n \in Nat /\ n > 0 /\ Len(v) = n /\ v \in Seq(Int)
    BY SortedRuns
  <1>2. v # <<>>
    BY <1>1
  <1> HIDE DEF n, v
  <1>3. (n + 1) \div 2 \in 1 .. n /\ n \div 2 + 1 \in 1 .. n
    BY <1>1
  <1>4. TwiceMiddle(k) = Nth(k, (n + 1) \div 2) + Nth(k, n \div 2 + 1)
    BY <1>3, NthIsOrderStatistic DEF TwiceMiddle, n
  <1>5. \A m \in 1 .. n : Nth(k, m) \in Int
    BY NthIsOrderStatistic DEF n
  <1>6. Median(v) = IF lo >= n THEN 100 * Nth(k, lo)
                    ELSE 100 * Nth(k, lo) + (rank % 100) * (Nth(k, lo + 1) - Nth(k, lo))
    BY <1>1, <1>2 DEF Median, Percentile, Nth, v
  <1>7. CASE \E m \in Nat : n = 2 * m + 1
    <2>1. PICK m \in Nat : n = 2 * m + 1
      BY <1>7
    <2>2. rank = 100 * m /\ lo = m + 1 /\ rank % 100 = 0
      BY <1>1, <2>1
    <2>3. (n + 1) \div 2 = m + 1 /\ n \div 2 + 1 = m + 1
      BY <2>1
    <2>4. m + 1 \in 1 .. n /\ (~(m + 1 >= n) => m + 2 \in 1 .. n)
      BY <2>1
    <2> DEFINE x == Nth(k, m + 1)
               y == Nth(k, (m + 1) + 1)
    <2>5. x \in Int /\ (~(m + 1 >= n) => y \in Int)
      BY <1>5, <2>4
    <2>6. Median(v) = IF m + 1 >= n THEN 100 * x ELSE 100 * x + 0 * (y - x)
      BY <1>6, <2>2
    <2> HIDE DEF x, y, rank, lo
    <2>7. Median(v) = 100 * x
      BY <2>5, <2>6
    <2>8. TwiceMiddle(k) = x + x
      BY <1>4, <2>3 DEF x
    <2>9. QED
      BY <1>2, <1>3, <1>4, <2>5, <2>7, <2>8 DEF v, n
  <1>8. CASE \E m \in Nat : n = 2 * (m + 1)
    <2>1. PICK m \in Nat : n = 2 * (m + 1)
      BY <1>8
    <2>2. rank = 100 * m + 50 /\ lo = m + 1 /\ rank % 100 = 50
      BY <1>1, <2>1
    <2>3. (n + 1) \div 2 = m + 1 /\ n \div 2 + 1 = (m + 1) + 1
      BY <2>1
    <2>4. m + 1 \in 1 .. n /\ (m + 1) + 1 \in 1 .. n /\ ~(m + 1 >= n)
      BY <2>1
    <2> DEFINE x == Nth(k, m + 1)
               y == Nth(k, (m + 1) + 1)
    <2>5. x \in Int /\ y \in Int
      BY <1>5, <2>4
    <2>6. Median(v) = 100 * x + 50 * (y - x)
      BY <1>6, <2>2, <2>4
    <2>7. TwiceMiddle(k) = x + y
      BY <1>4, <2>3
    <2> HIDE DEF x, y, rank, lo
    <2>8. Median(v) = 50 * (x + y)
      BY <2>5, <2>6
    <2>9. QED
      BY <1>2, <1>3, <1>4, <2>5, <2>7, <2>8 DEF v, n
  <1>9. QED
    <2>1. n = 2 * (n \div 2) + 1 \/ n = 2 * (n \div 2)
      BY <1>1
    <2>2. n \div 2 \in Nat
      BY <1>1
    <2>3. CASE n = 2 * (n \div 2) + 1
      BY <1>7, <2>2, <2>3
    <2>4. CASE n = 2 * (n \div 2)
      <3>1. n \div 2 - 1 \in Nat /\ n = 2 * ((n \div 2 - 1) + 1)
        BY <1>1, <2>2, <2>4
      <3>2. QED
        BY <1>8, <3>1
    <2>5. QED
      BY <2>1, <2>3, <2>4

-------------------------------------------------------------------------------
(* The verdict                                                               *)

LEMMA AssertionType ==
  ASSUME TypeOK, NEW k \in DOMAIN assertions
  PROVE  /\ assertions[k].max \subseteq Threshold /\ assertions[k].min \subseteq Threshold
         /\ assertions[k].max \cup assertions[k].min # {}
         /\ \A t \in Threshold : t \in Int
         /\ k \in Metric
  <1>1. PICK keys \in SUBSET Metric \ {{}} : assertions \in [keys -> Assertion]
    BY DEF TypeOK, Budgets
  <1>2. assertions[k] \in Assertion /\ k \in Metric
    BY <1>1
  <1>3. QED
    BY <1>2, ValueAssumption DEF Assertion, Pointer

\* An assertion has a result that trips if and only if it is not respected.
LEMMA ResultsTell ==
  ASSUME TypeOK, NEW k \in DOMAIN assertions
  PROVE  /\ \A r \in ResultsOf(k) :
               /\ r.metric = k
               /\ r.status = "pass" \/ r.status = tripStatus(assertions[k].level)
         /\ (\E r \in ResultsOf(k) : r.status # "pass") <=> ~Respected(k)
  <1> DEFINE agg == Aggregate(k)
             level == tripStatus(assertions[k].level)
             found(op, bound) == [metric |-> k, op |-> op,
                                  status |-> IF Trips(op, bound, agg) THEN level ELSE "pass"]
  <1>1. ResultsOf(k) = {found("max", t) : t \in assertions[k].max}
                         \cup {found("min", t) : t \in assertions[k].min}
    BY DEF ResultsOf
  <1>2. level # "pass"
    BY DEF tripStatus
  <1> DEFINE Trip(op, t) == Trips(op, t, agg)
  <1>3. \A op, t : /\ found(op, t).metric = k
                   /\ found(op, t).status = IF Trip(op, t) THEN level ELSE "pass"
    OBVIOUS
  <1> HIDE DEF found, level, Trip
  <1>4. \A r \in ResultsOf(k) : r.metric = k /\ (r.status = "pass" \/ r.status = level)
    BY <1>1, <1>3
  <1>5. (\E r \in ResultsOf(k) : r.status # "pass")
           <=> \/ \E t \in assertions[k].max : Trip("max", t)
               \/ \E t \in assertions[k].min : Trip("min", t)
    <2>1. \A op, t : found(op, t).status # "pass" <=> Trip(op, t)
      BY <1>2, <1>3
    <2>2. ASSUME NEW r \in ResultsOf(k), r.status # "pass"
          PROVE  \/ \E t \in assertions[k].max : Trip("max", t)
                 \/ \E t \in assertions[k].min : Trip("min", t)
      <3>1. \/ \E t \in assertions[k].max : r = found("max", t)
            \/ \E t \in assertions[k].min : r = found("min", t)
        BY <1>1
      <3>2. QED
        BY <2>1, <2>2, <3>1
    <2>3. ASSUME NEW t \in assertions[k].max, Trip("max", t)
          PROVE  \E r \in ResultsOf(k) : r.status # "pass"
      <3>1. found("max", t) \in ResultsOf(k)
        BY <1>1
      <3>2. QED
        BY <2>1, <2>3, <3>1
    <2>4. ASSUME NEW t \in assertions[k].min, Trip("min", t)
          PROVE  \E r \in ResultsOf(k) : r.status # "pass"
      <3>1. found("min", t) \in ResultsOf(k)
        BY <1>1
      <3>2. QED
        BY <2>1, <2>4, <3>1
    <2>5. QED
      BY <2>2, <2>3, <2>4
  <1>6. /\ \A t \in assertions[k].max : t \in Int
        /\ \A t \in assertions[k].min : t \in Int
        /\ assertions[k].max \cup assertions[k].min # {}
    BY AssertionType
  <1>7. Count(k) \in Nat /\ Len(ValuesOf(k)) = Count(k) /\ ValuesOf(k) \in Seq(Int)
    BY SortedRuns
  <1>8. CASE Count(k) = 0
    <2>1. agg = {}
      <3>1. ValuesOf(k) = <<>>
        BY <1>7, <1>8, EmptySeq
      <3>2. QED
        BY <3>1 DEF Aggregate
    <2>2. \A op, t : Trip(op, t)
      BY <2>1 DEF Trips, Trip
    <2>3. ~Respected(k)
      BY <1>8 DEF Respected
    <2>4. (\E t \in assertions[k].max : Trip("max", t)) \/ \E t \in assertions[k].min : Trip("min", t)
      BY <1>6, <2>2
    <2>5. QED
      BY <1>4, <1>5, <2>3, <2>4 DEF level
  <1>9. CASE Count(k) > 0
    <2>1. agg = {50 * TwiceMiddle(k)} /\ TwiceMiddle(k) \in Int
      BY <1>9, MedianIsMiddle DEF Aggregate
    <2> DEFINE w == TwiceMiddle(k)
    <2> HIDE DEF agg, w
    <2>2. w \in Int /\ \A op, t : Trip(op, t) <=> Violates(op, t, 50 * w)
      BY <2>1 DEF Trips, Trip, w
    <2>3. \A t \in assertions[k].max : Trip("max", t) <=> ~(w <= 2 * t)
      <3>1. TAKE t \in assertions[k].max
      <3>2. t \in Int
        BY <1>6
      <3>3. Violates("max", t, 50 * w) <=> 50 * w > 100 * t
        BY DEF Violates
      <3>4. QED
        BY <2>2, <3>2, <3>3
    <2>4. \A t \in assertions[k].min : Trip("min", t) <=> ~(w >= 2 * t)
      <3>1. TAKE t \in assertions[k].min
      <3>2. t \in Int
        BY <1>6
      <3>3. Violates("min", t, 50 * w) <=> 50 * w < 100 * t
        BY DEF Violates
      <3>4. QED
        BY <2>2, <3>2, <3>3
    <2>5. ~Respected(k) <=> \/ \E t \in assertions[k].max : Trip("max", t)
                            \/ \E t \in assertions[k].min : Trip("min", t)
      BY <1>9, <2>3, <2>4 DEF Respected, w
    <2>6. QED
      BY <1>4, <1>5, <2>5 DEF level
  <1>10. QED
    BY <1>7, <1>8, <1>9

LEMMA SameResults ==
  ASSUME UNCHANGED <<assertions, runMetrics>>, NEW k
  PROVE  ResultsOf(k)' = ResultsOf(k)
  <1>1. Aggregate(k)' = Aggregate(k)
    BY DEF Aggregate, ValuesOf, Appending, Collecting
  <1>2. QED
    BY <1>1 DEF ResultsOf

\* Until it is reached there is no verdict; then it is the worst of the results
\* of the assertions that were visited.
VerdictFollows ==
    /\ status = None => results = {}
    /\ status # None =>
         /\ runsLeft = 0
         /\ \A r : r \in results <=>
               \E k \in DOMAIN assertions \ unvisited : r \in ResultsOf(k)
         /\ status = "fail" <=> \E r \in results : r.status = "fail"
         /\ status = "pass" <=> \A r \in results : r.status = "pass"

\* What the exit code makes of it.
GateFollows ==
    /\ pc \in {"invoked", "opening", "making", "measuring", "creating", "saving"}
         => status = None
    /\ pc = "evaluating" => status # None
    /\ pc \in {"noting", "reporting"} /\ withBudget => Evaluated
    /\ exitCode \in {0, 3} /\ withBudget =>
         \/ exitCode = 0 /\ "help" \in flaws
         \/ Evaluated /\ (exitCode = 3 <=> status = "fail")

LEMMA VisitFollows ==
  ASSUME TypeOK, VerdictFollows, status # None, NEW k \in Metric, VisitAssertion(k)
  PROVE  VerdictFollows'
  <1>1. /\ k \in unvisited /\ unvisited' = unvisited \ {k}
        /\ results' = results \cup ResultsOf(k)
        /\ status' = Worst(status, {r.status : r \in ResultsOf(k)})
        /\ UNCHANGED <<assertions, runsLeft, runMetrics>>
    BY DEF VisitAssertion
  <1>2. k \in DOMAIN assertions /\ \A q : ResultsOf(q)' = ResultsOf(q)
    BY <1>1, SameResults DEF TypeOK
  <1>3. status' # None
    BY <1>1 DEF Worst, None
  <1>4. \A r : r \in results' <=> \E q \in DOMAIN assertions \ unvisited' : r \in ResultsOf(q)
    BY <1>1, <1>2 DEF VerdictFollows
  <1>5. \A r \in results \cup ResultsOf(k) : r.status \in Verdict
    <2>1. \A r \in ResultsOf(k) : r.status \in {"pass", "warn", "fail"}
      BY <1>2, ResultsTell DEF tripStatus
    <2>2. \A r \in results : r.status \in Verdict
      BY DEF TypeOK
    <2>3. QED
      BY <2>1, <2>2 DEF Verdict
  <1>6. status \in Verdict
    BY DEF TypeOK
  <1> DEFINE found == {r.status : r \in ResultsOf(k)}
  <1>7. /\ "fail" \in found <=> \E r \in ResultsOf(k) : r.status = "fail"
        /\ "warn" \in found <=> \E r \in ResultsOf(k) : r.status = "warn"
    OBVIOUS
  <1>8. status' = Worst(status, found)
    BY <1>1
  <1> HIDE DEF found
  <1>9. status' = "fail" <=> \E r \in results' : r.status = "fail"
    BY <1>1, <1>7, <1>8 DEF Worst, VerdictFollows
  <1>10. status' = "pass" <=> \A r \in results' : r.status = "pass"
    BY <1>1, <1>5, <1>6, <1>7, <1>8 DEF Worst, VerdictFollows, Verdict
  <1>11. runsLeft' = 0
    BY <1>1 DEF VerdictFollows
  <1>12. QED
    BY <1>1, <1>2, <1>3, <1>4, <1>9, <1>10, <1>11 DEF VerdictFollows

LEMMA SameVerdict ==
  ASSUME VerdictFollows, UNCHANGED vars
  PROVE  VerdictFollows'
  <1>1. \A q : ResultsOf(q)' = ResultsOf(q)
    BY SameResults DEF vars
  <1>2. QED
    BY <1>1 DEF VerdictFollows, vars

LEMMA NextFollows ==
  ASSUME IInv, IInv', TypeOK, VerdictFollows, GateFollows, [CliNext]_cliVars
  PROVE  VerdictFollows' /\ GateFollows'
  <1>0. None \notin Verdict /\ NoCode \notin {0, 3}
    BY CodeIsNone DEF None, Verdict
  <1>1. CASE MeasureRun
    <2>1. /\ status = None /\ status' = None /\ results' = results
          /\ pc' \in {"creating", "measuring"} /\ exitCode' = NoCode
      BY <1>1 DEF MeasureRun, CollectRun, Goto, GateFollows, IInv, ExitIsTold
    <2>2. QED
      BY <1>0, <2>1 DEF VerdictFollows, GateFollows
  <1>2. CASE StartEvaluate
    <2>1. /\ status = None /\ status' = "pass" /\ results' = {} /\ runsLeft' = 0
          /\ unvisited' = DOMAIN assertions /\ assertions' = assertions
          /\ pc' = "evaluating" /\ exitCode' = NoCode
      BY <1>2 DEF StartEvaluate, BeginEvaluate, Goto, GateFollows, VerdictFollows, IInv,
         ExitIsTold
    <2>2. VerdictFollows'
      BY <2>1 DEF VerdictFollows, None
    <2>3. GateFollows'
      BY <1>0, <2>1 DEF GateFollows, None
    <2>4. QED
      BY <2>2, <2>3
  <1>3. ASSUME NEW k \in Metric, EvaluateAssertion(k)
        PROVE  VerdictFollows' /\ GateFollows'
    <2>1. /\ pc = "evaluating" /\ pc' = pc /\ VisitAssertion(k) /\ exitCode' = exitCode
          /\ exitCode = NoCode
      BY <1>3 DEF EvaluateAssertion, IInv, ExitIsTold
    <2>2. VerdictFollows' /\ status' # None
      <3>1. status # None
        BY <2>1 DEF GateFollows
      <3>2. status' # None
        BY <2>1, <3>1 DEF VisitAssertion, Worst, None
      <3>3. QED
        BY <2>1, <3>1, <3>2, VisitFollows
    <2>3. QED
      BY <1>0, <2>1, <2>2 DEF GateFollows
  <1>4. CASE UNCHANGED vars
    <2>1. VerdictFollows'
      BY <1>4, SameVerdict
    <2>2. status' = status /\ unvisited' = unvisited /\ (Evaluated' <=> Evaluated)
      BY <1>4 DEF vars, Evaluated
    <2>3. CASE \/ CheckFlags \/ OpenStore \/ MakeSummaries \/ CollectorPanics
               \/ CreateJob \/ SaveResult \/ \E n \in Measured : RemoveRow(n)
      <3>1. /\ withBudget' = withBudget
            /\ \/ pc' = pc /\ exitCode' = exitCode /\ flaws' = flaws
               \/ /\ pc \in {"invoked", "opening", "making", "measuring", "creating", "saving"}
                  /\ \/ /\ pc' \in {"opening", "making", "measuring", "saving"}
                        /\ exitCode' = NoCode
                     \/ /\ pc' = "exited" /\ exitCode' \in {0, 1, 2}
                        /\ exitCode' = 0 => "help" \in flaws'
        <4>1. pc # "exited" => exitCode = NoCode
          BY DEF IInv, ExitIsTold
        <4>2. CASE CheckFlags
          <5>1. CASE flaws' \subseteq {"runs"}
            BY <4>1, <4>2, <5>1 DEF CheckFlags, Goto
          <5>2. CASE ~(flaws' \subseteq {"runs"})
            BY <4>2, <5>2, FirstCheck DEF CheckFlags, Exit, TheChecks
          <5>3. QED
            BY <5>1, <5>2
        <4>3. CASE OpenStore \/ MakeSummaries \/ CollectorPanics
          BY <4>1, <4>3 DEF OpenStore, MakeSummaries, CollectorPanics, flagVars, Goto, Exit
        <4>4. CASE CreateJob \/ SaveResult \/ \E n \in Measured : RemoveRow(n)
          BY <4>1, <4>4 DEF CreateJob, SaveResult, RemoveRow, flagVars, Goto
        <4>5. QED
          BY <2>3, <4>2, <4>3, <4>4
      <3>2. QED
        BY <1>0, <2>1, <2>2, <3>1 DEF GateFollows
    <2>4. CASE SkipEvaluate \/ FinishEvaluate \/ NoteVerdict \/ FinishNoting
      <3>1. /\ withBudget' = withBudget /\ exitCode' = exitCode /\ flaws' = flaws
            /\ \/ pc = "measuring" /\ ~withBudget /\ pc' = "reporting"
               \/ pc = "evaluating" /\ unvisited = {} /\ pc' \in {"noting", "reporting"}
               \/ pc = "noting" /\ pc' \in {"noting", "reporting"}
        BY <2>4 DEF SkipEvaluate, FinishEvaluate, NoteVerdict, FinishNoting, flagVars, Goto
      <3>2. QED
        BY <2>1, <2>2, <3>1 DEF GateFollows, Evaluated
    <2>5. CASE Report
      <3>1. /\ withBudget' = withBudget /\ pc = "reporting" /\ pc' = "exited"
            /\ exitCode' \in {1, FinalCode}
        BY <2>5 DEF Report, Exit, flagVars
      <3>2. exitCode' \in {0, 3} /\ withBudget => (exitCode' = 3 <=> status = "fail")
        BY <3>1 DEF FinalCode
      <3>3. QED
        BY <2>1, <2>2, <3>1, <3>2 DEF GateFollows
    <2>6. CASE UNCHANGED cliVars
      BY <2>1, <2>2, <2>6 DEF GateFollows, cliVars, flagVars
    <2>7. CASE MeasureRun \/ StartEvaluate \/ \E k \in Metric : EvaluateAssertion(k)
      BY <1>1, <1>2, <1>3, <2>7
    <2>8. QED
      BY <2>3, <2>4, <2>5, <2>6, <2>7 DEF CliNext
  <1>5. QED
    <2>1. \/ UNCHANGED vars \/ MeasureRun \/ StartEvaluate
          \/ \E k \in Metric : EvaluateAssertion(k)
      BY DEF CliNext, CheckFlags, OpenStore, MakeSummaries, CollectorPanics, CreateJob,
         SaveResult, RemoveRow, SkipEvaluate, FinishEvaluate, NoteVerdict, FinishNoting, Report, cliVars
    <2>2. QED
      BY <1>1, <1>2, <1>3, <1>4, <2>1

THEOREM VerdictInvariance == CliSpec => [](VerdictFollows /\ GateFollows)
  <1>1. CliInit => VerdictFollows /\ GateFollows
    <2> SUFFICES ASSUME CliInit PROVE VerdictFollows /\ GateFollows
      OBVIOUS
    <2>1. status = None /\ results = {} /\ pc = "invoked" /\ exitCode = NoCode
      BY DEF CliInit, Init
    <2>2. QED
      BY <2>1, CodeIsNone DEF VerdictFollows, GateFollows
  <1>2. IInv /\ IInv' /\ CliTypeOK /\ VerdictFollows /\ GateFollows /\ [CliNext]_cliVars
          => VerdictFollows' /\ GateFollows'
    BY NextFollows DEF CliTypeOK
  <1>3. QED
    BY <1>1, <1>2, Invariance, TypeCorrect, PTL DEF CliSpec

\* The verdict is the worst of the assertions, by the middle of the values.
THEOREM VerdictsAreWorst == CliSpec => []VerdictIsWorst
  <1>1. ASSUME TypeOK, VerdictFollows, Evaluated PROVE VerdictIsWorst
    <2> DEFINE broken == {k \in DOMAIN assertions : ~Respected(k)}
    <2>1. /\ status # None
          /\ \A r : r \in results <=> \E k \in DOMAIN assertions : r \in ResultsOf(k)
          /\ status = "fail" <=> \E r \in results : r.status = "fail"
          /\ status = "pass" <=> \A r \in results : r.status = "pass"
      BY <1>1 DEF VerdictFollows, Evaluated
    <2>2. \A k \in DOMAIN assertions :
            /\ \A r \in ResultsOf(k) :
                 /\ r.metric = k
                 /\ r.status = "pass" \/ r.status = tripStatus(assertions[k].level)
            /\ (\E r \in ResultsOf(k) : r.status # "pass") <=> ~Respected(k)
      BY <1>1, ResultsTell
    <2>3. \A level : /\ tripStatus(level) \in {"warn", "fail"}
                     /\ tripStatus(level) = "fail" <=> level # "warn"
      BY DEF tripStatus
    <2>4. status = "fail" <=> \E k \in broken : assertions[k].level # "warn"
      BY <2>1, <2>2, <2>3
    <2>5. status = "pass" <=> broken = {}
      BY <2>1, <2>2, <2>3
    <2>6. \A r \in results : r.status # "pass" => r.metric \in broken
      BY <2>1, <2>2
    <2> HIDE DEF broken
    <2>7. QED
      BY <2>4, <2>5, <2>6 DEF VerdictIsWorst, broken
  <1>2. TypeOK /\ VerdictFollows => VerdictIsWorst
    BY <1>1 DEF VerdictIsWorst
  <1>3. QED
    BY <1>2, VerdictInvariance, TypeCorrect, PTL DEF CliTypeOK

\* And the exit code is that of the verdict.
THEOREM GateIsTrue == CliSpec => []GateHolds
  <1>1. VerdictIsWorst /\ GateFollows => GateHolds
    <2> SUFFICES ASSUME VerdictIsWorst, GateFollows, Exited, withBudget
                 PROVE  LET respected == \A k \in DOMAIN assertions :
                                            assertions[k].level # "warn" => Respected(k)
                        IN  /\ exitCode = 0 => respected \/ "help" \in flaws
                            /\ exitCode = 3 => ~respected
      BY DEF GateHolds
    <2>1. exitCode \in {0, 3} =>
             \/ exitCode = 0 /\ "help" \in flaws
             \/ Evaluated /\ (exitCode = 3 <=> status = "fail")
      BY DEF GateFollows
    <2>2. Evaluated => (status = "fail" <=>
             \E k \in DOMAIN assertions : ~Respected(k) /\ assertions[k].level # "warn")
      BY DEF VerdictIsWorst
    <2>3. QED
      BY <2>1, <2>2
  <1>2. QED
    BY <1>1, VerdictInvariance, VerdictsAreWorst, PTL

\* All values of a metric but one are within bounds: so is the middle of three or
\* more, and that of two if the odd run has none.
LEMMA OddRunIsOutvoted ==
  ASSUME TypeOK, NEW k, NEW i, NEW t \in Int,
         Count(k) >= 3 \/ (i \notin Collecting(k) /\ Count(k) > 0)
  PROVE  /\ (\A j \in Collecting(k) \ {i} : Measurement(j, k) <= t) => TwiceMiddle(k) <= 2 * t
         /\ (\A j \in Collecting(k) \ {i} : Measurement(j, k) >= t) => TwiceMiddle(k) >= 2 * t
  <1> DEFINE n == Count(k)
             low == (n + 1) \div 2
             high == n \div 2 + 1
  <1>1. n \in Nat /\ n > 0
    BY SortedRuns
  <1>2. /\ low \in 1 .. n /\ high \in 1 .. n
        /\ TwiceMiddle(k) = Nth(k, low) + Nth(k, high)
    BY <1>1, MedianIsMiddle
  <1>3. /\ Nth(k, low) \in Int /\ Nth(k, high) \in Int
        /\ \A m \in 1 .. n : Nth(k, m) \in Int
    BY <1>2, NthIsOrderStatistic
  <1>4. n >= 3 => low < n /\ high < n /\ 1 < low /\ 1 < high
    BY <1>1
  <1>5. PICK h \in Bijection(1 .. n, Collecting(k)) :
           /\ \A m \in 1 .. n : Nth(k, m) = Measurement(h[m], k)
           /\ \A l, m \in 1 .. n : l <= m => Nth(k, l) <= Nth(k, m)
    BY SortedRuns
  <1>6. /\ \A m \in 1 .. n : h[m] \in Collecting(k)
        /\ \A l, m \in 1 .. n : h[l] = h[m] => l = m
    BY <1>5 DEF Bijection, Injection, IsInjective
  <1>7. n \in 1 .. n /\ 1 \in 1 .. n
    BY <1>1
  <1>8. n >= 3 \/ i \notin Collecting(k)
    OBVIOUS
  <1> HIDE DEF n, low, high
  <1>9. ASSUME \A j \in Collecting(k) \ {i} : Measurement(j, k) <= t,
               NEW m \in 1 .. n, m < n \/ i \notin Collecting(k)
        PROVE  Nth(k, m) <= t
    <2>1. SUFFICES ASSUME ~(Nth(k, m) <= t) PROVE FALSE
      OBVIOUS
    <2>2. h[m] = i /\ m < n
      BY <1>5, <1>6, <1>9, <2>1
    <2>3. Nth(k, m) <= Nth(k, n)
      BY <1>1, <1>5, <1>7, <2>2
    <2>4. ~(Nth(k, n) <= t)
      BY <1>3, <1>7, <2>1, <2>3
    <2>5. h[n] = i
      BY <1>5, <1>6, <1>7, <1>9, <2>4
    <2>6. QED
      BY <1>1, <1>6, <1>7, <2>2, <2>5
  <1>10. ASSUME \A j \in Collecting(k) \ {i} : Measurement(j, k) >= t,
                NEW m \in 1 .. n, 1 < m \/ i \notin Collecting(k)
         PROVE  Nth(k, m) >= t
    <2>1. SUFFICES ASSUME ~(Nth(k, m) >= t) PROVE FALSE
      OBVIOUS
    <2>2. h[m] = i /\ 1 < m
      BY <1>5, <1>6, <1>10, <2>1
    <2>3. Nth(k, 1) <= Nth(k, m)
      BY <1>1, <1>5, <1>7, <2>2
    <2>4. ~(Nth(k, 1) >= t)
      BY <1>3, <1>7, <2>1, <2>3
    <2>5. h[1] = i
      BY <1>5, <1>6, <1>7, <1>10, <2>4
    <2>6. QED
      BY <1>1, <1>6, <1>7, <2>2, <2>5
  <1>11. (low < n /\ high < n /\ 1 < low /\ 1 < high) \/ i \notin Collecting(k)
    BY <1>4, <1>8
  <1>12. ASSUME \A j \in Collecting(k) \ {i} : Measurement(j, k) <= t
         PROVE  TwiceMiddle(k) <= 2 * t
    <2>1. Nth(k, low) <= t /\ Nth(k, high) <= t
      BY <1>2, <1>9, <1>11, <1>12
    <2>2. QED
      BY <1>2, <1>3, <2>1
  <1>13. ASSUME \A j \in Collecting(k) \ {i} : Measurement(j, k) >= t
         PROVE  TwiceMiddle(k) >= 2 * t
    <2>1. Nth(k, low) >= t /\ Nth(k, high) >= t
      BY <1>2, <1>10, <1>11, <1>13
    <2>2. QED
      BY <1>2, <1>3, <2>1
  <1>14. QED
    BY <1>12, <1>13

\* So one noisy run among three or more does not decide a verdict.
THEOREM NoiseIsOutvoted == CliSpec => []TwoRunsOutvoteOne
  <1>1. ASSUME TypeOK, VerdictIsWorst PROVE TwoRunsOutvoteOne
    <2> SUFFICES ASSUME Evaluated, NEW i \in DOMAIN runMetrics, Len(runMetrics) >= 3,
                        \A j \in DOMAIN runMetrics \ {i} : Meets(j)
                 PROVE  status = "pass"
      BY DEF TwoRunsOutvoteOne
    <2>1. ASSUME NEW k \in DOMAIN assertions PROVE Respected(k)
      <3>1. /\ N \in Nat /\ N >= 3 /\ IsFiniteSet(1 .. N) /\ DOMAIN runMetrics = 1 .. N
            /\ Collecting(k) \in SUBSET (1 .. N)
            /\ Count(k) = Cardinality(Collecting(k)) /\ Count(k) \in Nat
            /\ IsFiniteSet(Collecting(k))
        BY <1>1, CollectingType, LenProperties DEF N, TypeOK
      <3>2. \A j \in (1 .. N) \ {i} :
               /\ j \in Collecting(k)
               /\ \A t \in assertions[k].max : Measurement(j, k) <= t
               /\ \A t \in assertions[k].min : Measurement(j, k) >= t
        BY <3>1 DEF Meets, Collecting, Measurement
      <3>3. Count(k) >= 3 \/ (i \notin Collecting(k) /\ Count(k) > 0)
        <4>1. CASE i \in Collecting(k)
          <5>1. Collecting(k) = 1 .. N
            BY <3>1, <3>2, <4>1
          <5>2. Cardinality(1 .. N) = N
            BY <3>1, FS_Interval
          <5>3. QED
            BY <3>1, <5>1, <5>2
        <4>2. CASE i \notin Collecting(k)
          <5>1. Collecting(k) # {}
            <6>1. \E j \in 1 .. N : j # i
              BY <3>1
            <6>2. QED
              BY <3>2, <6>1
          <5>2. Count(k) # 0
            BY <3>1, <5>1, FS_EmptySet
          <5>3. QED
            BY <3>1, <4>2, <5>2
        <4>3. QED
          BY <4>1, <4>2
      <3>4. /\ \A t \in assertions[k].max : t \in Int
            /\ \A t \in assertions[k].min : t \in Int
        BY <1>1, AssertionType
      <3>5. \A t \in assertions[k].max : TwiceMiddle(k) <= 2 * t
        BY <1>1, <3>1, <3>2, <3>3, <3>4, OddRunIsOutvoted
      <3>6. \A t \in assertions[k].min : TwiceMiddle(k) >= 2 * t
        BY <1>1, <3>1, <3>2, <3>3, <3>4, OddRunIsOutvoted
      <3>7. Count(k) > 0
        BY <3>1, <3>3
      <3>8. QED
        BY <3>5, <3>6, <3>7 DEF Respected
    <2>2. QED
      BY <1>1, <2>1 DEF VerdictIsWorst
  <1>2. TypeOK /\ VerdictIsWorst => TwoRunsOutvoteOne
    BY <1>1
  <1>3. QED
    BY <1>2, VerdictsAreWorst, TypeCorrect, PTL DEF CliTypeOK
===============================================================================
