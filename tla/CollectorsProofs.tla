-------------------------- MODULE CollectorsProofs --------------------------
(***************************************************************************)
(* Theorems about what a tier measures: Browser, for every pool of workers *)
(* and every number of tiers (what the Once, the remembered error and the  *)
(* order of processJob and Stop hold together), and Vitals, for every page *)
(* (what the observers make of its entries, and what Collect returns).     *)
(***************************************************************************)
EXTENDS Browser, Vitals, FiniteSetTheorems, SequenceTheorems, TLAPS

\* A worker is past browserManager: the Once is through.
PastOnce == {"opening", "applying", "collecting", "closing"}

\* It has a tab, or had one when the tier began.
WithTab == {"applying", "collecting", "closing"}

\* At most one worker launches, and nobody is past it before it is done.
LaunchIsOnce ==
    /\ \A w \in Worker : at[w] = "launching" => once = "started"
    /\ \A w \in Worker : at[w] \in PastOnce => once = "done"
    /\ \A v, w \in Worker : at[v] = "launching" /\ at[w] = "launching" => v = w
    /\ once # "done" => running = 0 /\ ~startErr
    /\ stray # {} => once = "done"

\* Only a browser that started has had tabs.
TabsAreOfBrowser ==
    /\ startErr => running = 0 /\ stray = {}
    /\ \A w \in Worker : at[w] \in WithTab => ~startErr
    /\ \A w \in Worker : tab[w] # "none" => at[w] \in WithTab

\* What a tab has been told is what the job wants, from the call on.
ThrottlingFollows ==
    \A w \in Worker :
        /\ throttled[w] => at[w] \in {"collecting", "closing"}
        /\ at[w] = "collecting" => throttled[w] = throttle[w]
        /\ outcome[w] # "none" => at[w] = "closing"
        /\ outcome[w] = "measured" => throttled[w] = throttle[w]

\* A worker in a tier has it left to do.
TiersAreLeft == \A w \in Worker : at[w] \in InTier => left[w] # 0

\* Stop came to its end after every worker.
StopIsLast ==
    closed => /\ ~ctxLive
              /\ \A w \in Worker : at[w] = "exited"
              /\ running = 0 /\ stray = {}

IInv == /\ TypeOK /\ LaunchIsOnce /\ TabsAreOfBrowser
        /\ ThrottlingFollows /\ TiersAreLeft /\ StopIsLast

LEMMA InitIInv == Init => IInv
  <1> SUFFICES ASSUME Init PROVE IInv
    OBVIOUS
  <1>1. TypeOK
    <2>1. 0 \in 0 .. 1 /\ 0 \in 0 .. MaxTiers
      BY TiersAssumption
    <2>2. /\ at \in [Worker -> InTier \cup {"idle", "exited"}]
          /\ left \in [Worker -> 0 .. MaxTiers]
          /\ throttle \in [Worker -> BOOLEAN] /\ runCtx \in [Worker -> BOOLEAN]
      BY <2>1 DEF Init
    <2>3. /\ tab \in [Worker -> {"none", "open", "cancelled"}]
          /\ throttled \in [Worker -> BOOLEAN]
          /\ outcome \in [Worker -> {"none", "failed", "measured"}]
      BY DEF Init
    <2>4. QED
      BY <2>1, <2>2, <2>3 DEF Init, TypeOK
  <1>2. LaunchIsOnce /\ TabsAreOfBrowser
    BY DEF Init, LaunchIsOnce, TabsAreOfBrowser, PastOnce, WithTab
  <1>3. ThrottlingFollows
    BY DEF Init, ThrottlingFollows
  <1>4. TiersAreLeft /\ StopIsLast
    BY DEF Init, TiersAreLeft, StopIsLast, InTier
  <1>5. QED
    BY <1>1, <1>2, <1>3, <1>4 DEF IInv

\* The end of a tier leaves the run, or the worker, where it may be.
LEMMA EndTierTyped ==
  ASSUME TypeOK, NEW w \in Worker, left[w] # 0, EndTier(w)
  PROVE  /\ at' \in [Worker -> InTier \cup {"idle", "exited"}]
         /\ left' \in [Worker -> 0 .. MaxTiers]
         /\ runCtx' \in [Worker -> BOOLEAN]
         /\ jar' \in Worker \cup {Clean, Shared}
         /\ throttle' = throttle
  <1>1. left[w] - 1 \in 0 .. MaxTiers
    BY TiersAssumption DEF TypeOK
  <1>2. left' \in [Worker -> 0 .. MaxTiers]
    BY <1>1 DEF TypeOK, EndTier
  <1>3. at' \in [Worker -> InTier \cup {"idle", "exited"}]
    BY DEF TypeOK, EndTier, Goto, InTier
  <1>4. runCtx' \in [Worker -> BOOLEAN] /\ jar' \in Worker \cup {Clean, Shared}
    BY DEF TypeOK, EndTier
  <1>5. QED
    BY <1>2, <1>3, <1>4 DEF EndTier

\* The steps of a worker, one by one.
LEMMA WorkerIInv ==
  ASSUME IInv, NEW w \in Worker,
         StartRun(w) \/ WorkerStep(w) \/ CancelTab(w) \/ ExpireRun(w) \/ CloseStray(w)
  PROVE  IInv'
  <1> USE TiersAssumption DEF IInv, InTier, PastOnce, WithTab, Goto
  <1>1. CASE StartRun(w)
    <2>1. TypeOK'
      BY <1>1 DEF StartRun, TypeOK, browserVars, tabVars
    <2>2. LaunchIsOnce' /\ TabsAreOfBrowser' /\ ThrottlingFollows'
      BY <1>1 DEF StartRun, TypeOK, browserVars, tabVars, LaunchIsOnce, TabsAreOfBrowser, ThrottlingFollows
    <2>3. TiersAreLeft' /\ StopIsLast'
      BY <1>1 DEF StartRun, TypeOK, browserVars, tabVars, TiersAreLeft, StopIsLast
    <2>4. QED
      BY <2>1, <2>2, <2>3
  <1>2. CASE AskBrowser(w)
    BY <1>2 DEF AskBrowser, TypeOK, runVars, tabVars, LaunchIsOnce, TabsAreOfBrowser,
                ThrottlingFollows, TiersAreLeft, StopIsLast
  <1>3. CASE Launch(w)
    <2>1. TypeOK'
      <3>1. running = 0
        BY <1>3 DEF Launch, LaunchIsOnce
      <3>2. QED
        <4>1. running' \in 0 .. 1 /\ startErr' \in BOOLEAN /\ once' = "done"
          <5>1. running' \in 0 .. 1 /\ once' = "done"
            BY <1>3, <3>1 DEF Launch
          <5>2. startErr' \in BOOLEAN
            BY <1>3, Zenon DEF Launch
          <5>3. QED
            BY <5>1, <5>2
        <4>2. at' \in [Worker -> InTier \cup {"idle", "exited"}]
          BY <1>3 DEF Launch, TypeOK
        <4>3. QED
          <5>1. UNCHANGED <<ctxLive, closed, left, throttle, runCtx, tab, throttled,
                            outcome, stray, jar>>
            BY <1>3 DEF Launch, runVars, tabVars
          <5>2. QED
            BY <4>1, <4>2, <5>1 DEF TypeOK
    <2>2. LaunchIsOnce' /\ TabsAreOfBrowser'
      BY <1>3 DEF Launch, runVars, tabVars, TypeOK, LaunchIsOnce, TabsAreOfBrowser
    <2>3. ThrottlingFollows'
      BY <1>3 DEF Launch, runVars, tabVars, TypeOK, ThrottlingFollows
    <2>4. TiersAreLeft' /\ StopIsLast'
      BY <1>3 DEF Launch, runVars, tabVars, TypeOK, TiersAreLeft, StopIsLast, LaunchIsOnce
    <2>5. QED
      BY <2>1, <2>2, <2>3, <2>4
  <1>4. CASE OpenTab(w)
    <2>1. TypeOK'
      <3>1. left[w] # 0
        BY <1>4 DEF OpenTab, TiersAreLeft
      <3>2. CASE EndTier(w) /\ UNCHANGED tab
        BY <1>4, <3>1, <3>2, EndTierTyped DEF OpenTab, browserVars, TypeOK
      <3>3. CASE ~startErr
        BY <1>4, <3>3 DEF OpenTab, browserVars, runVars, TypeOK
      <3>4. QED
        BY <1>4, <3>2, <3>3 DEF OpenTab
    <2>2. LaunchIsOnce' /\ TabsAreOfBrowser'
      BY <1>4 DEF OpenTab, EndTier, browserVars, runVars, TypeOK, LaunchIsOnce, TabsAreOfBrowser
    <2>3. ThrottlingFollows'
      BY <1>4 DEF OpenTab, EndTier, browserVars, runVars, TypeOK, ThrottlingFollows
    <2>4. TiersAreLeft' /\ StopIsLast'
      BY <1>4 DEF OpenTab, EndTier, browserVars, runVars, TypeOK, TiersAreLeft, StopIsLast, LaunchIsOnce
    <2>5. QED
      BY <2>1, <2>2, <2>3, <2>4
  <1>5. CASE ApplyProfile(w)
    BY <1>5 DEF ApplyProfile, TypeOK, browserVars, runVars, LaunchIsOnce, TabsAreOfBrowser,
                ThrottlingFollows, TiersAreLeft, StopIsLast
  <1>6. CASE Collect(w)
    <2>1. TypeOK'
      BY <1>6 DEF Collect, Spill, browserVars, runVars, TypeOK, Shared, LaunchIsOnce, TiersAreLeft
    <2>2. LaunchIsOnce' /\ TabsAreOfBrowser'
      BY <1>6 DEF Collect, Spill, browserVars, runVars, TypeOK, LaunchIsOnce, TabsAreOfBrowser
    <2>3. ThrottlingFollows'
      BY <1>6 DEF Collect, Spill, browserVars, runVars, TypeOK, ThrottlingFollows
    <2>4. TiersAreLeft' /\ StopIsLast'
      BY <1>6 DEF Collect, Spill, browserVars, runVars, TypeOK, TiersAreLeft, StopIsLast, LaunchIsOnce
    <2>5. QED
      BY <2>1, <2>2, <2>3, <2>4
  <1>7. CASE FailInTab(w)
    <2>1. TypeOK'
      BY <1>7 DEF FailInTab, Spill, browserVars, runVars, TypeOK, Shared, LaunchIsOnce, TiersAreLeft
    <2>2. LaunchIsOnce' /\ TabsAreOfBrowser'
      BY <1>7 DEF FailInTab, Spill, browserVars, runVars, TypeOK, LaunchIsOnce, TabsAreOfBrowser
    <2>3. ThrottlingFollows'
      BY <1>7 DEF FailInTab, Spill, browserVars, runVars, TypeOK, ThrottlingFollows
    <2>4. TiersAreLeft' /\ StopIsLast'
      BY <1>7 DEF FailInTab, Spill, browserVars, runVars, TypeOK, TiersAreLeft, StopIsLast, LaunchIsOnce
    <2>5. QED
      BY <2>1, <2>2, <2>3, <2>4
  <1>8. CASE Panic(w)
    <2>1. TypeOK'
      BY <1>8 DEF Panic, browserVars, TypeOK, Shared, LaunchIsOnce, TiersAreLeft
    <2>2. LaunchIsOnce' /\ TabsAreOfBrowser'
      BY <1>8 DEF Panic, browserVars, TypeOK, LaunchIsOnce, TabsAreOfBrowser
    <2>3. ThrottlingFollows'
      BY <1>8 DEF Panic, browserVars, TypeOK, ThrottlingFollows
    <2>4. TiersAreLeft' /\ StopIsLast'
      BY <1>8 DEF Panic, browserVars, TypeOK, TiersAreLeft, StopIsLast, LaunchIsOnce
    <2>5. QED
      BY <2>1, <2>2, <2>3, <2>4
  <1>9. CASE CloseTab(w)
    <2>1. TypeOK'
      <3>1. left[w] # 0
        BY <1>9 DEF CloseTab, TiersAreLeft
      <3>2. QED
        BY <1>9, <3>1, EndTierTyped DEF CloseTab, browserVars, TypeOK
    <2>2. LaunchIsOnce' /\ TabsAreOfBrowser'
      BY <1>9 DEF CloseTab, EndTier, browserVars, TypeOK, LaunchIsOnce, TabsAreOfBrowser
    <2>3. ThrottlingFollows'
      <3>1. /\ \A v \in Worker : v # w => at'[v] = at[v] /\ throttled'[v] = throttled[v]
                                        /\ outcome'[v] = outcome[v]
            /\ ~throttled'[w] /\ outcome'[w] = "none" /\ throttle' = throttle
            /\ at'[w] \in {"asking", "idle"}
        BY <1>9 DEF CloseTab, EndTier, TypeOK
      <3>2. QED
        BY <3>1 DEF ThrottlingFollows
    <2>4. TiersAreLeft' /\ StopIsLast'
      BY <1>9 DEF CloseTab, EndTier, browserVars, TypeOK, TiersAreLeft, StopIsLast, LaunchIsOnce
    <2>5. QED
      BY <2>1, <2>2, <2>3, <2>4
  <1>10. CASE ExitWorker(w)
    BY <1>10 DEF ExitWorker, TypeOK, browserVars, runVars, tabVars, LaunchIsOnce,
                 TabsAreOfBrowser, ThrottlingFollows, TiersAreLeft, StopIsLast
  <1>11. CASE CancelTab(w)
    BY <1>11 DEF CancelTab, TypeOK, browserVars, runVars, LaunchIsOnce,
                 TabsAreOfBrowser, ThrottlingFollows, TiersAreLeft, StopIsLast
  <1>12. CASE ExpireRun(w)
    BY <1>12 DEF ExpireRun, TypeOK, browserVars, tabVars, LaunchIsOnce,
                 TabsAreOfBrowser, ThrottlingFollows, TiersAreLeft, StopIsLast
  <1>13. CASE CloseStray(w)
    BY <1>13 DEF CloseStray, TypeOK, browserVars, runVars, tabVars, LaunchIsOnce,
                 TabsAreOfBrowser, ThrottlingFollows, TiersAreLeft, StopIsLast
  <1>14. QED
    BY <1>1, <1>2, <1>3, <1>4, <1>5, <1>6, <1>7, <1>8, <1>9, <1>10, <1>11, <1>12, <1>13
    DEF WorkerStep

\* Chrome, Stop and the next process.
LEMMA ProcessIInv ==
  ASSUME IInv, ChromeDies \/ CancelContext \/ FinishStop \/ Restart
  PROVE  IInv'
  <1> USE TiersAssumption DEF IInv, InTier, PastOnce, WithTab
  <1>1. CASE ChromeDies
    <2>1. TypeOK'
      BY <1>1 DEF ChromeDies, runVars, tabVars, TypeOK, Clean, LaunchIsOnce, TiersAreLeft
    <2>2. LaunchIsOnce' /\ TabsAreOfBrowser'
      BY <1>1 DEF ChromeDies, runVars, tabVars, TypeOK, LaunchIsOnce, TabsAreOfBrowser
    <2>3. ThrottlingFollows'
      BY <1>1 DEF ChromeDies, runVars, tabVars, TypeOK, ThrottlingFollows
    <2>4. TiersAreLeft' /\ StopIsLast'
      BY <1>1 DEF ChromeDies, runVars, tabVars, TypeOK, TiersAreLeft, StopIsLast, LaunchIsOnce
    <2>5. QED
      BY <2>1, <2>2, <2>3, <2>4
  <1>2. CASE CancelContext
    <2>1. TypeOK'
      BY <1>2 DEF CancelContext, browserVars, tabVars, TypeOK
    <2>2. LaunchIsOnce' /\ TabsAreOfBrowser'
      BY <1>2 DEF CancelContext, browserVars, tabVars, LaunchIsOnce, TabsAreOfBrowser
    <2>3. ThrottlingFollows' /\ TiersAreLeft' /\ StopIsLast'
      BY <1>2
      DEF CancelContext, browserVars, tabVars, ThrottlingFollows, TiersAreLeft, StopIsLast
    <2>4. QED
      BY <2>1, <2>2, <2>3
  <1>3. CASE FinishStop
    <2>1. TypeOK'
      BY <1>3 DEF FinishStop, CloseChrome, runVars, tabVars, TypeOK, LaunchIsOnce, TiersAreLeft
    <2>2. LaunchIsOnce' /\ TabsAreOfBrowser'
      BY <1>3 DEF FinishStop, CloseChrome, runVars, tabVars, TypeOK, LaunchIsOnce, TabsAreOfBrowser
    <2>3. ThrottlingFollows'
      BY <1>3 DEF FinishStop, CloseChrome, runVars, tabVars, TypeOK, ThrottlingFollows
    <2>4. TiersAreLeft' /\ StopIsLast'
      BY <1>3 DEF FinishStop, CloseChrome, runVars, tabVars, TypeOK, TiersAreLeft, StopIsLast, LaunchIsOnce
    <2>5. QED
      BY <2>1, <2>2, <2>3, <2>4
  <1>4. CASE Restart
    <2>1. TypeOK'
      <3>1. running' \in 0 .. 1 /\ at' \in [Worker -> InTier \cup {"idle", "exited"}]
        BY <1>4 DEF Restart
      <3>2. QED
        BY <1>4, <3>1 DEF Restart, runVars, tabVars, TypeOK
    <2>2. LaunchIsOnce' /\ TabsAreOfBrowser'
      <3>1. \A v \in Worker : tab[v] = "none"
        BY <1>4 DEF Restart, StopIsLast, TabsAreOfBrowser, TypeOK
      <3>2. stray = {}
        BY <1>4 DEF Restart, StopIsLast
      <3>3. QED
        BY <1>4, <3>1, <3>2 DEF Restart, tabVars, LaunchIsOnce, TabsAreOfBrowser
    <2>3. ThrottlingFollows'
      <3>1. \A v \in Worker : ~throttled[v] /\ outcome[v] = "none"
        BY <1>4 DEF Restart, StopIsLast, ThrottlingFollows, TypeOK
      <3>2. QED
        BY <1>4, <3>1 DEF Restart, tabVars, ThrottlingFollows
    <2>4. TiersAreLeft' /\ StopIsLast'
      BY <1>4 DEF Restart, runVars, tabVars, TypeOK, TiersAreLeft, StopIsLast, LaunchIsOnce
    <2>5. QED
      BY <2>1, <2>2, <2>3, <2>4
  <1>5. QED
    BY <1>1, <1>2, <1>3, <1>4

THEOREM Invariance == Spec => []IInv
  <1>1. IInv /\ [Next]_vars => IInv'
    <2> SUFFICES ASSUME IInv, [Next]_vars PROVE IInv'
      OBVIOUS
    <2>1. CASE Next
      BY <2>1, WorkerIInv, ProcessIInv DEF Next
    <2>2. CASE UNCHANGED vars
      BY <2>2
      DEF vars, browserVars, runVars, tabVars, IInv, TypeOK, LaunchIsOnce,
          TabsAreOfBrowser, ThrottlingFollows, TiersAreLeft, StopIsLast
    <2>3. QED
      BY <2>1, <2>2
  <1>2. QED
    BY <1>1, InitIInv, PTL DEF Spec

\* The places of the workers and of the browser are the ones named.
THEOREM TypeCorrect == Spec => []TypeOK
  BY Invariance, PTL DEF IInv

\* However many workers come at once, they launch one Chrome, and Stop leaves
\* neither a process nor a tab.
THEOREM OneChromeAndNoneLeft == Spec => []ChromeIsClosed
  <1>1. IInv => ChromeIsClosed
    BY DEF IInv, TypeOK, TabsAreOfBrowser, StopIsLast, ChromeIsClosed, WithTab
  <1>2. QED
    BY <1>1, Invariance, PTL

\* What was measured was measured under the profile of its job.
THEOREM MeasuredAsAsked == Spec => []ThrottlingIsHonest
  <1>1. IInv => ThrottlingIsHonest
    BY DEF IInv, TypeOK, ThrottlingFollows, ThrottlingIsHonest
  <1>2. QED
    BY <1>1, Invariance, PTL

\* No worker has a tab of a browser that never started.
THEOREM FailedStartIsNotUsed == Spec => []NoTabWithoutChrome
  <1>1. IInv => NoTabWithoutChrome
    BY DEF IInv, TabsAreOfBrowser, NoTabWithoutChrome
  <1>2. QED
    BY <1>1, Invariance, PTL

-------------------------------------------------------------------------------
(* Vitals: what the observers know                                           *)

\* What the observers know is of the page, and no entry is heard before it is.
HeardIsOfPage ==
    /\ g.fcp \in {0, painted}
    /\ g.lcp \in {0} \cup {candidates[i] : i \in DOMAIN candidates}
    /\ painted = 0 => candidates = <<>> /\ heard.paint = 0
    /\ heard.paint = 0 => g.fcp = 0
    /\ heard.shifts <= Len(shifts)
    /\ heard.tasks <= Len(tasks)

\* The main thread runs one task at a time.
TasksRunAlone ==
    /\ \A i \in DOMAIN tasks : tasks[i].at + tasks[i].duration <= now
    /\ \A i, j \in DOMAIN tasks :
          i < j => tasks[i].at + tasks[i].duration <= tasks[j].at
    /\ \A start \in begun, i \in DOMAIN tasks : tasks[i].at + tasks[i].duration <= start

\* The larger of two, and one of them.
LEMMA MaxOfTwo ==
    ASSUME NEW a \in Nat, NEW b \in Nat
    PROVE  /\ Max({a, b}) \in {a, b}
           /\ Max({a, b}) >= a /\ Max({a, b}) >= b
<1>1. \E x \in {a, b} : \A y \in {a, b} : x >= y
  <2>1. CASE a >= b  BY <2>1
  <2>2. CASE b >= a  BY <2>2
  <2> QED  BY <2>1, <2>2
<1> QED  BY <1>1 DEF Max

\* The next entry of a type for its observer is one of that type.
LEMMA NextEntry ==
    ASSUME NEW S, NEW type, NEW entries \in Seq(S),
           heard[type] \in Nat, heard[type] < Len(entries)
    PROVE  /\ heard[type] + 1 \in DOMAIN entries
           /\ Entry(type, entries) = entries[heard[type] + 1]
           /\ Entry(type, entries) \in S
<1>1. heard[type] + 1 \in 1 .. Len(entries)  OBVIOUS
<1>2. DOMAIN entries = 1 .. Len(entries)  OBVIOUS
<1> QED  BY <1>1, <1>2, ElementOfSeq DEF Entry

LEMMA BlockingType ==
    ASSUME NEW e \in [at : Time, duration : LongTask]
    PROVE  Blocking(e) \in Nat /\ Blocking(e) > 0 /\ Blocking(e) = e.duration - Allowance
<1>1. PICK d : d = e.duration  OBVIOUS
<1>2. d \in LongTask  BY <1>1
<1>3. d \in Nat /\ d > Allowance  BY <1>2, EntryAssumption
<1>4. d - Allowance \in Nat /\ d - Allowance > 0  BY <1>3, WindowAssumption
<1> QED  BY <1>1, <1>4 DEF Blocking

LEMMA VitalsTypeInit == VitalsInit => VitalsTypeOK
BY EntryAssumption DEF VitalsInit, VitalsTypeOK, Time

LEMMA VitalsTypeStep == VitalsTypeOK /\ [VitalsNext]_vitalsVars => VitalsTypeOK'
<1> SUFFICES ASSUME VitalsTypeOK, [VitalsNext]_vitalsVars PROVE VitalsTypeOK'  OBVIOUS
<1> DEFINE GType == [lcp : Time, fcp : Time, cls : Nat, tbt : Nat]
           HType == [{"paint", "candidates", "shifts", "tasks"} -> Nat]
<1>g. g \in GType  BY DEF VitalsTypeOK
<1>h. heard \in HType  BY DEF VitalsTypeOK
<1> USE EntryAssumption, WindowAssumption
<1>1. CASE Elapse  BY <1>1 DEF Elapse, VitalsTypeOK, Time
<1>2. CASE Paint  BY <1>2 DEF Paint, VitalsTypeOK, Time
<1>3. CASE PaintLarger
  <2>1. candidates' \in Seq(Time)  BY <1>3 DEF PaintLarger, VitalsTypeOK
  <2> QED  BY <1>3, <2>1 DEF PaintLarger, VitalsTypeOK
<1>4. CASE BeginTask  BY <1>4 DEF BeginTask, VitalsTypeOK
<1>12. CASE EndTask
  <2>1. PICK start \in begun :
            /\ now - start \in LongTask
            /\ tasks' = Append(tasks, [at |-> start, duration |-> now - start])
        BY <1>12 DEF EndTask
  <2>2. [at |-> start, duration |-> now - start] \in [at : Time, duration : LongTask]
        BY <2>1 DEF VitalsTypeOK
  <2> QED  BY <1>12, <2>1, <2>2 DEF EndTask, VitalsTypeOK
<1>5. ASSUME NEW score \in Score, NEW input \in BOOLEAN, Shift(score, input)
      PROVE  VitalsTypeOK'
  <2>1. [at |-> now, value |-> score, hadRecentInput |-> input]
            \in [at : Time, value : Score, hadRecentInput : BOOLEAN]
        BY DEF VitalsTypeOK
  <2> QED  BY <1>5, <2>1 DEF Shift, VitalsTypeOK
<1>6. CASE HearCandidate
  <2>1. Entry("candidates", candidates) \in Time
        BY <1>6 DEF HearCandidate, Entry, VitalsTypeOK
  <2>2. g' \in GType  BY <1>6, <2>1, <1>g DEF HearCandidate
  <2>3. heard' \in HType  BY <1>6, <1>h DEF HearCandidate, Hear
  <2> QED  BY <1>6, <2>2, <2>3 DEF HearCandidate, VitalsTypeOK, pageVars
<1>7. CASE HearPaint
  <2>1. painted \in Time  BY DEF VitalsTypeOK
  <2>2. g' \in GType  BY <1>7, <2>1, <1>g DEF HearPaint
  <2>3. heard' \in HType  BY <1>7, <1>h DEF HearPaint, Hear
  <2> QED  BY <1>7, <2>2, <2>3 DEF HearPaint, VitalsTypeOK, pageVars
<1>8. CASE HearShift
  <2> DEFINE e == Entry("shifts", shifts)
             before == IF SessionOver(e.at) THEN 0 ELSE session.value
             sum == before + e.value
  <2>1. e \in [at : Time, value : Score, hadRecentInput : BOOLEAN]
    <3>1. shifts \in Seq([at : Time, value : Score, hadRecentInput : BOOLEAN])
          BY DEF VitalsTypeOK
    <3>2. heard["shifts"] \in Nat /\ heard["shifts"] < Len(shifts)
          BY <1>8, <1>h DEF HearShift
    <3> QED  BY <3>1, <3>2, NextEntry
  <2>2. before \in Nat  BY DEF VitalsTypeOK
  <2>3. sum \in Nat
    <3>1. e.value \in Nat  BY <2>1
    <3> HIDE DEF before, e
    <3> QED  BY <2>2, <3>1
  <2>4. g.cls \in Nat  BY DEF VitalsTypeOK
  <2>5. Max({g.cls, sum}) \in Nat
    <3> HIDE DEF sum
    <3> QED  BY <2>3, <2>4, MaxOfTwo
  <2>6. heard' \in [{"paint", "candidates", "shifts", "tasks"} -> Nat]
        BY <1>8, <1>h DEF HearShift, Hear
  <2> HIDE DEF before, sum
  <2>7. CASE e.hadRecentInput
        BY <1>8, <2>6, <2>7 DEF HearShift, VitalsTypeOK, pageVars
  <2>8. CASE ~e.hadRecentInput
    <3>1. /\ session' = [value |-> sum, end |-> e.at,
                         start |-> IF before = 0 THEN e.at ELSE session.start]
          /\ g' = [g EXCEPT !.cls = Max({g.cls, sum})]
          BY <1>8, <2>8 DEF HearShift, sum, before
    <3>2. session' \in [value : Nat, start : Time, end : Time]
          BY <3>1, <2>1, <2>3 DEF VitalsTypeOK
    <3>3. g' \in [lcp : Time, fcp : Time, cls : Nat, tbt : Nat]
          BY <3>1, <2>5 DEF VitalsTypeOK
    <3> QED  BY <1>8, <2>6, <3>2, <3>3 DEF HearShift, VitalsTypeOK, pageVars
  <2> QED  BY <2>7, <2>8
<1>9. CASE HearTask
  <2> DEFINE e == Entry("tasks", tasks)
  <2>1. e \in [at : Time, duration : LongTask]
    <3>1. tasks \in Seq([at : Time, duration : LongTask])  BY DEF VitalsTypeOK
    <3>2. heard["tasks"] \in Nat /\ heard["tasks"] < Len(tasks)
          BY <1>9, <1>h DEF HearTask
    <3> QED  BY <3>1, <3>2, NextEntry
  <2>2. Blocking(e) \in Nat  BY <2>1, BlockingType
  <2>3. g.tbt + Blocking(e) \in Nat  BY <2>2, <1>g
  <2>4. g' \in GType
    <3>1. g' = [g EXCEPT !.tbt = IF BeforeFcp(e) THEN g.tbt ELSE g.tbt + Blocking(e)]
          BY <1>9 DEF HearTask
    <3> HIDE DEF e
    <3> QED  BY <3>1, <2>3, <1>g
  <2>5. heard' \in HType  BY <1>9, <1>h DEF HearTask, Hear
  <2> QED  BY <1>9, <2>4, <2>5 DEF HearTask, VitalsTypeOK, pageVars
<1>10. CASE ReadVitals
  <2>1. FcpRead \in Nat  BY DEF FcpRead, VitalsTypeOK, Time
  <2>2. LcpRead \subseteq Nat
    <3>1. candidates # <<>> => candidates[Len(candidates)] \in Time  BY DEF VitalsTypeOK
    <3> QED  BY <3>1 DEF LcpRead, VitalsTypeOK, Time
  <2>3. \A lcp \in LcpRead : Max({lcp, FcpRead}) \in Nat  BY <2>1, <2>2, MaxOfTwo
  <2>4. result' \subseteq [lcp : Nat, fcp : Nat, cls : Nat, tbt : Nat]
        BY <1>10, <2>1, <2>3 DEF ReadVitals, VitalsTypeOK
  <2> QED  BY <1>10, <2>4 DEF ReadVitals, VitalsTypeOK, pageVars
<1>11. CASE UNCHANGED vitalsVars
      BY <1>11 DEF vitalsVars, pageVars, VitalsTypeOK
<1> QED  BY <1>1, <1>2, <1>3, <1>4, <1>5, <1>6, <1>7, <1>8, <1>9, <1>10, <1>11,
         <1>12 DEF VitalsNext

-------------------------------------------------------------------------------
(* TBT and what is returned                                                  *)

LEMMA EntriesAre ==
    ASSUME NEW S, NEW s \in Seq(S)
    PROVE  DOMAIN s = 1 .. Len(s) /\ \A i \in DOMAIN s : s[i] \in S
BY ElementOfSeq

LEMMA TasksAre ==
    ASSUME VitalsTypeOK
    PROVE  /\ tasks \in Seq([at : Time, duration : LongTask])
           /\ DOMAIN tasks = 1 .. Len(tasks) /\ Len(tasks) \in Nat
           /\ \A i \in DOMAIN tasks : tasks[i] \in [at : Time, duration : LongTask]
<1>1. tasks \in Seq([at : Time, duration : LongTask])  BY DEF VitalsTypeOK
<1>2. \A i \in DOMAIN tasks : tasks[i] \in [at : Time, duration : LongTask]
      BY <1>1, EntriesAre
<1> QED  BY <1>1, <1>2

LEMMA EntriesStay ==
    ASSUME NEW S, NEW s \in Seq(S), NEW x, NEW i \in DOMAIN s
    PROVE  i \in DOMAIN Append(s, x) /\ Append(s, x)[i] = s[i]
OBVIOUS

\* What the observers know stays true of the page.
LEMMA HeardStep ==
    VitalsTypeOK /\ HeardIsOfPage /\ [VitalsNext]_vitalsVars => HeardIsOfPage'
<1> SUFFICES ASSUME VitalsTypeOK, HeardIsOfPage, [VitalsNext]_vitalsVars
             PROVE  HeardIsOfPage'
    OBVIOUS
<1> DEFINE GType == [lcp : Time, fcp : Time, cls : Nat, tbt : Nat]
           HType == [{"paint", "candidates", "shifts", "tasks"} -> Nat]
<1>g. g \in GType  BY DEF VitalsTypeOK
<1>h. heard \in HType  BY DEF VitalsTypeOK
<1>1. CASE Elapse  BY <1>1 DEF Elapse, HeardIsOfPage
<1>2. CASE Paint
  <2>1. candidates = <<>> /\ g.lcp = 0 /\ g.fcp = 0
        BY <1>2 DEF Paint, HeardIsOfPage
  <2>2. painted' > 0  BY <1>2, EntryAssumption DEF Paint, VitalsTypeOK, Time
  <2> QED  BY <1>2, <2>1, <2>2 DEF Paint, HeardIsOfPage
<1>3. CASE PaintLarger
  <2>1. candidates \in Seq(Time)  BY DEF VitalsTypeOK
  <2>2. painted > 0 /\ painted' = painted /\ candidates' = Append(candidates, now)
        BY <1>3 DEF PaintLarger
  <2>3. {candidates[i] : i \in DOMAIN candidates}
            \subseteq {candidates'[i] : i \in DOMAIN candidates'}
        BY <2>1, <2>2, EntriesStay
  <2>4. painted' # 0  BY <2>2, EntryAssumption DEF VitalsTypeOK, Time
  <2> QED  BY <1>3, <2>2, <2>3, <2>4 DEF PaintLarger, HeardIsOfPage
<1>4. CASE BeginTask  BY <1>4 DEF BeginTask, HeardIsOfPage
<1>12. CASE EndTask
  <2>1. Len(tasks') = Len(tasks) + 1 /\ Len(tasks) \in Nat
        BY <1>12 DEF EndTask, VitalsTypeOK
  <2>2. heard["tasks"] \in Nat  BY <1>h
  <2>3. heard'.tasks <= Len(tasks')  BY <1>12, <2>1, <2>2 DEF EndTask, HeardIsOfPage
  <2> QED  BY <1>12, <2>3 DEF EndTask, HeardIsOfPage
<1>5. ASSUME NEW score \in Score, NEW input \in BOOLEAN, Shift(score, input)
      PROVE  HeardIsOfPage'
  <2>1. Len(shifts') = Len(shifts) + 1 /\ Len(shifts) \in Nat
        BY <1>5 DEF Shift, VitalsTypeOK
  <2>2. heard["shifts"] \in Nat  BY <1>h
  <2>3. heard'.shifts <= Len(shifts')  BY <1>5, <2>1, <2>2 DEF Shift, HeardIsOfPage
  <2> QED  BY <1>5, <2>3 DEF Shift, HeardIsOfPage
<1>6. CASE HearCandidate
  <2>1. candidates \in Seq(Time)  BY DEF VitalsTypeOK
  <2>2. heard["candidates"] \in Nat /\ heard["candidates"] < Len(candidates)
        BY <1>6, <1>h DEF HearCandidate
  <2>3. Entry("candidates", candidates) \in {candidates[i] : i \in DOMAIN candidates}
        BY <2>1, <2>2, NextEntry
  <2>4. g'.lcp = Entry("candidates", candidates) /\ g'.fcp = g.fcp
        BY <1>6, <1>g DEF HearCandidate
  <2>5. /\ heard'["shifts"] = heard["shifts"] /\ heard'["tasks"] = heard["tasks"]
        /\ heard'["paint"] = heard["paint"]
        BY <1>6, <1>h DEF HearCandidate, Hear
  <2> QED  BY <1>6, <2>3, <2>4, <2>5 DEF HearCandidate, HeardIsOfPage, pageVars
<1>7. CASE HearPaint
  <2>1. g'.lcp = g.lcp /\ g'.fcp = painted  BY <1>7, <1>g DEF HearPaint
  <2>2. /\ heard'["shifts"] = heard["shifts"] /\ heard'["tasks"] = heard["tasks"]
        /\ heard'["paint"] = 1 /\ painted > 0
        BY <1>7, <1>h DEF HearPaint, Hear
  <2> QED  BY <1>7, <2>1, <2>2 DEF HearPaint, HeardIsOfPage, pageVars
<1>8. CASE HearShift
  <2>1. g'.lcp = g.lcp /\ g'.fcp = g.fcp
    <3>1. g' = g \/ \E c : g' = [g EXCEPT !.cls = c]  BY <1>8 DEF HearShift
    <3> QED  BY <3>1, <1>g
  <2>2. /\ heard'["shifts"] = heard["shifts"] + 1 /\ heard'["tasks"] = heard["tasks"]
        /\ heard'["paint"] = heard["paint"]
        BY <1>8, <1>h DEF HearShift, Hear
  <2>3. heard["shifts"] \in Nat /\ Len(shifts) \in Nat /\ heard["shifts"] < Len(shifts)
        BY <1>8, <1>h DEF HearShift, VitalsTypeOK
  <2>4. heard'["shifts"] <= Len(shifts)  BY <2>2, <2>3
  <2> QED  BY <1>8, <2>1, <2>2, <2>4 DEF HearShift, HeardIsOfPage, pageVars
<1>9. CASE HearTask
  <2>1. g'.lcp = g.lcp /\ g'.fcp = g.fcp
    <3>1. \E b : g' = [g EXCEPT !.tbt = b]  BY <1>9 DEF HearTask
    <3> QED  BY <3>1, <1>g
  <2>2. /\ heard'["shifts"] = heard["shifts"] /\ heard'["tasks"] = heard["tasks"] + 1
        /\ heard'["paint"] = heard["paint"]
        BY <1>9, <1>h DEF HearTask, Hear
  <2>3. heard["tasks"] \in Nat /\ Len(tasks) \in Nat /\ heard["tasks"] < Len(tasks)
        BY <1>9, <1>h DEF HearTask, VitalsTypeOK
  <2>4. heard'["tasks"] <= Len(tasks)  BY <2>2, <2>3
  <2> QED  BY <1>9, <2>1, <2>2, <2>4 DEF HearTask, HeardIsOfPage, pageVars
<1>10. CASE ReadVitals  BY <1>10 DEF ReadVitals, HeardIsOfPage, pageVars
<1>11. CASE UNCHANGED vitalsVars  BY <1>11 DEF vitalsVars, pageVars, HeardIsOfPage
<1> QED  BY <1>1, <1>2, <1>3, <1>4, <1>5, <1>6, <1>7, <1>8, <1>9, <1>10, <1>11,
         <1>12 DEF VitalsNext

\* What is returned is read once, and the page is not looked at afterwards.
LEMMA ResultStep ==
    VitalsTypeOK /\ HeardIsOfPage /\ ResultIsConsistent /\ [VitalsNext]_vitalsVars
        => ResultIsConsistent'
<1> SUFFICES ASSUME VitalsTypeOK, HeardIsOfPage, ResultIsConsistent, [VitalsNext]_vitalsVars
             PROVE  ResultIsConsistent'
    OBVIOUS
<1>1. CASE ReadVitals
  <2>1. PICK lcp \in LcpRead :
            result' = {[lcp |-> Max({lcp, FcpRead}), fcp |-> FcpRead,
                        cls |-> g.cls, tbt |-> g.tbt]}
        BY <1>1 DEF ReadVitals
  <2>2. FcpRead \in Nat /\ (painted > 0 => FcpRead = painted)
        BY EntryAssumption DEF FcpRead, VitalsTypeOK, HeardIsOfPage, Time
  <2>3. lcp \in Nat /\ (lcp = 0 \/ \E i \in DOMAIN candidates : lcp = candidates[i])
    <3>1. candidates \in Seq(Time)  BY DEF VitalsTypeOK
    <3>2. candidates # <<>> => /\ Len(candidates) \in DOMAIN candidates
                               /\ candidates[Len(candidates)] \in Time
          BY <3>1
    <3>3. Time \subseteq Nat /\ g.lcp \in Time  BY EntryAssumption DEF Time, VitalsTypeOK
    <3>4. CASE g.lcp > 0
      <4>1. lcp = g.lcp  BY <3>4 DEF LcpRead
      <4> QED  BY <4>1, <3>3, <3>4 DEF HeardIsOfPage
    <3>5. CASE ~(g.lcp > 0)
      <4>1. lcp = 0 \/ (candidates # <<>> /\ lcp = candidates[Len(candidates)])
        <5>1. LcpRead = IF candidates = <<>> THEN {0}
                        ELSE {0, candidates[Len(candidates)]}
              BY <3>5 DEF LcpRead
        <5>2. lcp \in LcpRead  BY <2>1
        <5> QED  BY <5>1, <5>2
      <4>2. CASE lcp = 0  BY <4>2
      <4>3. CASE candidates # <<>> /\ lcp = candidates[Len(candidates)]
        <5>1. Len(candidates) \in DOMAIN candidates /\ lcp \in Time  BY <4>3, <3>2
        <5> QED  BY <5>1, <4>3, <3>3
      <4> QED  BY <4>1, <4>2, <4>3
    <3> QED  BY <3>4, <3>5
  <2>4. DEFINE m == Max({lcp, FcpRead})
  <2>5. m \in {lcp, FcpRead} /\ m >= lcp /\ m >= FcpRead  BY <2>2, <2>3, MaxOfTwo
  <2>6. m = FcpRead \/ \E i \in DOMAIN candidates : m = candidates[i]
    <3> HIDE DEF m
    <3> QED  BY <2>2, <2>3, <2>5
  <2>7. \A r \in result' : r.lcp = m /\ r.fcp = FcpRead
    <3> HIDE DEF m
    <3> QED  BY <2>1 DEF m
  <2> HIDE DEF m
  <2>8. painted' = painted /\ candidates' = candidates  BY <1>1 DEF ReadVitals, pageVars
  <2> QED  BY <2>2, <2>5, <2>6, <2>7, <2>8 DEF ResultIsConsistent
<1>2. CASE UNCHANGED vitalsVars  BY <1>2 DEF vitalsVars, pageVars, ResultIsConsistent
<1>3. CASE result' = {}  BY <1>3 DEF ResultIsConsistent
<1>4. VitalsNext => ReadVitals \/ result' = {}
      BY DEF VitalsNext, Elapse, Paint, PaintLarger, BeginTask, EndTask, Shift,
             HearCandidate, HearPaint, HearShift, HearTask, Observing
<1> QED  BY <1>1, <1>2, <1>3, <1>4

LEMMA TasksStep ==
    VitalsTypeOK /\ TasksRunAlone /\ [VitalsNext]_vitalsVars => TasksRunAlone'
<1> SUFFICES ASSUME VitalsTypeOK, TasksRunAlone, [VitalsNext]_vitalsVars
             PROVE  TasksRunAlone'
    OBVIOUS
<1>t. /\ Time \subseteq Nat /\ LongTask \subseteq Nat /\ now \in Nat
      /\ tasks \in Seq([at : Time, duration : LongTask])
      BY EntryAssumption DEF VitalsTypeOK, Time
<1>e. \A i \in DOMAIN tasks : tasks[i].at \in Nat /\ tasks[i].duration \in Nat
  <2>1. \A i \in DOMAIN tasks : tasks[i] \in [at : Time, duration : LongTask]
        BY <1>t, EntriesAre
  <2> QED  BY <2>1, <1>t
<1>1. CASE EndTask
  <2>1. PICK start \in begun :
            /\ now - start \in LongTask
            /\ tasks' = Append(tasks, [at |-> start, duration |-> now - start])
        BY <1>1 DEF EndTask
  <2> DEFINE n == Len(tasks) + 1
             new == [at |-> start, duration |-> now - start]
  <2>2. /\ DOMAIN tasks' = 1 .. n /\ DOMAIN tasks = 1 .. n - 1 /\ n \in Nat
        /\ tasks'[n] = new /\ \A i \in 1 .. n - 1 : tasks'[i] = tasks[i]
        BY <2>1, <1>t
  <2>3. now' = now /\ now \in Nat /\ start \in Nat /\ begun' = {}
        BY <1>1, <1>t DEF EndTask, VitalsTypeOK
  <2>4. tasks'[n].at = start /\ tasks'[n].duration = now - start  BY <2>2
  <2> HIDE DEF n, new
  <2>5. ASSUME NEW i \in 1 .. n PROVE tasks'[i].at + tasks'[i].duration <= now'
    <3>1. CASE i = n  BY <3>1, <2>3, <2>4
    <3>2. CASE i # n
      <4>1. i \in 1 .. n - 1  BY <3>2, <2>2
      <4> QED  BY <4>1, <2>2, <2>3 DEF TasksRunAlone
    <3> QED  BY <3>1, <3>2
  <2>6. ASSUME NEW i \in 1 .. n, NEW j \in 1 .. n, i < j
        PROVE  tasks'[i].at + tasks'[i].duration <= tasks'[j].at
    <3>1. i \in 1 .. n - 1  BY <2>2, <2>6
    <3>2. CASE j = n
          BY <3>1, <3>2, <2>1, <2>2, <2>4 DEF TasksRunAlone
    <3>3. CASE j # n
      <4>1. j \in 1 .. n - 1  BY <3>3, <2>2
      <4> QED  BY <4>1, <3>1, <2>2, <2>6 DEF TasksRunAlone
    <3> QED  BY <3>2, <3>3
  <2> QED  BY <2>2, <2>3, <2>5, <2>6 DEF TasksRunAlone
<1>8. CASE BeginTask
  <2>1. now' = now /\ tasks' = tasks /\ begun' = {now}  BY <1>8 DEF BeginTask
  <2> QED  BY <2>1 DEF TasksRunAlone
<1>2. CASE Elapse
  <2>1. now' = now + 1 /\ tasks' = tasks /\ begun' = begun  BY <1>2 DEF Elapse
  <2>2. \A i \in DOMAIN tasks : tasks[i].at + tasks[i].duration \in Nat  BY <1>e
  <2>3. \A i \in DOMAIN tasks : tasks[i].at + tasks[i].duration <= now'
        BY <2>1, <2>2, <1>t DEF TasksRunAlone
  <2> QED  BY <2>1, <2>3 DEF TasksRunAlone
<1>3. CASE now' = now /\ tasks' = tasks /\ begun' = begun  BY <1>3 DEF TasksRunAlone
<1>4. ASSUME Paint \/ PaintLarger PROVE TasksRunAlone'
      BY <1>3, <1>4 DEF Paint, PaintLarger
<1>5. ASSUME NEW score \in Score, NEW input \in BOOLEAN, Shift(score, input)
      PROVE  TasksRunAlone'
      BY <1>3, <1>5 DEF Shift
<1>6. ASSUME UNCHANGED pageVars PROVE TasksRunAlone'
      BY <1>3, <1>6 DEF pageVars
<1>7. HearCandidate \/ HearPaint \/ HearShift \/ HearTask \/ ReadVitals => UNCHANGED pageVars
      BY DEF HearCandidate, HearPaint, HearShift, HearTask, ReadVitals
<1> QED  BY <1>1, <1>2, <1>4, <1>5, <1>6, <1>7, <1>8 DEF VitalsNext, vitalsVars

LEMMA TotalType ==
    ASSUME NEW S
    PROVE  IsFiniteSet(Blocked(S)) /\ TotalBlocking(S) \in Nat
<1>1. IsFiniteSet(Time)  BY EntryAssumption, FS_Interval DEF Time
<1>2. Blocked(S) \subseteq Time  BY DEF Blocked
<1> QED  BY <1>1, <1>2, FS_Subset, FS_CardinalityType DEF TotalBlocking

\* As tasks do not overlap, one more adds what it blocks.
LEMMA TotalAdds ==
    ASSUME VitalsTypeOK, TasksRunAlone, NEW n \in DOMAIN tasks,
           NEW S \in SUBSET (1 .. n - 1)
    PROVE  TotalBlocking(S \cup {n}) = TotalBlocking(S) + Blocking(tasks[n])
<1> DEFINE B == Blocked({n})
<1>2. /\ DOMAIN tasks = 1 .. Len(tasks) /\ Len(tasks) \in Nat /\ n \in Nat
      /\ \A i \in DOMAIN tasks : tasks[i] \in [at : Time, duration : LongTask]
      BY TasksAre
<1>3. PICK a, d : a = tasks[n].at /\ d = tasks[n].duration  OBVIOUS
<1>4. a \in Nat /\ d \in Nat /\ d > Allowance /\ Allowance \in Nat
  <2>1. a \in Time /\ d \in LongTask  BY <1>2, <1>3
  <2> QED  BY <2>1, EntryAssumption, WindowAssumption DEF Time
<1>5. a + d <= MaxTime /\ MaxTime \in Nat
  <2>1. a + d <= now  BY <1>3 DEF TasksRunAlone
  <2> QED  BY <2>1, <1>4, EntryAssumption DEF VitalsTypeOK, Time
<1>6. B = (a + Allowance) .. (a + d - 1)
  <2>1. \A t : t \in B <=> t \in Time /\ a + Allowance <= t /\ t < a + d
        BY <1>3 DEF Blocked
  <2>2. \A t : t \in B <=> t \in (a + Allowance) .. (a + d - 1)
    <3> HIDE DEF B
    <3>1. \A t \in Time : t \in Nat /\ t <= MaxTime  BY <1>5 DEF Time
    <3>2. \A t \in (a + Allowance) .. (a + d - 1) :
             t \in Nat /\ t <= MaxTime /\ a + Allowance <= t /\ t < a + d
          BY <1>4, <1>5
    <3>3. \A t \in Nat : t <= MaxTime => t \in Time  BY <1>5 DEF Time
    <3>4. \A t \in Nat : a + Allowance <= t /\ t < a + d => t \in (a + Allowance) .. (a + d - 1)
          BY <1>4
    <3> QED  BY <2>1, <3>1, <3>2, <3>3, <3>4
  <2> QED  BY <2>2
<1>7. Cardinality(B) = Blocking(tasks[n])
  <2>1. Blocking(tasks[n]) = d - Allowance  BY <1>3 DEF Blocking
  <2>2. Cardinality((a + Allowance) .. (a + d - 1)) = d - Allowance
        BY <1>4, FS_Interval
  <2> QED  BY <2>1, <2>2, <1>6
<1>8. Blocked(S) \cap B = {}
  <2> SUFFICES ASSUME NEW t \in Blocked(S), t \in B PROVE FALSE  OBVIOUS
  <2>1. PICK i \in S : t < tasks[i].at + tasks[i].duration  BY DEF Blocked
  <2>2. i \in DOMAIN tasks /\ i < n  BY <1>2
  <2>3. tasks[i].at + tasks[i].duration <= a  BY <2>2, <1>3 DEF TasksRunAlone
  <2>4. PICK e : e = tasks[i].at + tasks[i].duration  OBVIOUS
  <2>5. e \in Nat
    <3>1. PICK x, y : x = tasks[i].at /\ y = tasks[i].duration  OBVIOUS
    <3>2. x \in Time /\ y \in LongTask  BY <2>2, <1>2, <3>1
    <3>3. x \in Nat /\ y \in Nat  BY <3>2, EntryAssumption DEF Time
    <3> QED  BY <3>1, <3>3, <2>4
  <2>6. t \in Nat /\ a + Allowance <= t  BY <1>6, <1>4
  <2> QED  BY <2>1, <2>3, <2>4, <2>5, <2>6, <1>4
<1>9. Blocked(S \cup {n}) = Blocked(S) \cup B  BY DEF Blocked
<1>10. /\ IsFiniteSet(Blocked(S)) /\ IsFiniteSet(B)
       /\ Cardinality(Blocked(S)) \in Nat /\ Cardinality(B) \in Nat
       BY TotalType, FS_CardinalityType
<1> HIDE DEF B
<1>11. Cardinality(Blocked(S) \cup B) = Cardinality(Blocked(S)) + Cardinality(B)
  <2>1. Cardinality({}) = 0  BY FS_EmptySet
  <2>2. Cardinality(Blocked(S) \cup B)
            = Cardinality(Blocked(S)) + Cardinality(B) - Cardinality(Blocked(S) \cap B)
        BY <1>10, FS_Union
  <2>3. Cardinality(Blocked(S) \cap B) = 0  BY <1>8, <2>1
  <2> QED  BY <1>10, <2>2, <2>3
<1> QED  BY <1>7, <1>9, <1>11 DEF TotalBlocking

\* What the tasks that are entries have blocked does not change.
LEMMA TotalStays ==
    ASSUME NEW S, \A i \in S : tasks'[i] = tasks[i]
    PROVE  Blocked(S)' = Blocked(S)
BY DEF Blocked

\* The tasks that TBT counts, of those heard: all while FCP was not heard, and
\* all from FCP on.
TbtIsOf(S) ==
    /\ S \subseteq 1 .. heard.tasks
    /\ g.tbt = TotalBlocking(S)
    /\ heard.paint = 0 => S = 1 .. heard.tasks
    /\ \A i \in (1 .. heard.tasks) \ S : ~(tasks[i].at >= painted)

TbtFollows == \E S : TbtIsOf(S)

LEMMA BlockingStep ==
    ASSUME VitalsTypeOK, HeardIsOfPage, TasksRunAlone, TbtFollows,
           [VitalsNext]_vitalsVars
    PROVE  TbtFollows'
<1> DEFINE K == 1 .. heard.tasks
<1>g. g \in [lcp : Time, fcp : Time, cls : Nat, tbt : Nat]  BY DEF VitalsTypeOK
<1>h. /\ heard \in [{"paint", "candidates", "shifts", "tasks"} -> Nat]
      /\ heard["tasks"] \in Nat /\ heard["paint"] \in Nat
      BY DEF VitalsTypeOK
<1>t. /\ tasks \in Seq([at : Time, duration : LongTask])
      /\ DOMAIN tasks = 1 .. Len(tasks) /\ Len(tasks) \in Nat
      /\ \A i \in DOMAIN tasks : tasks[i] \in [at : Time, duration : LongTask]
      BY TasksAre
<1>k. K \subseteq DOMAIN tasks  BY <1>h, <1>t DEF HeardIsOfPage
<1>s. PICK S : TbtIsOf(S)  BY DEF TbtFollows
<1>1. ASSUME g'.tbt = g.tbt, heard'.tasks = heard.tasks,
             heard'.paint = 0 => heard.paint = 0,
             painted' = painted \/ S = K,
             \A i \in K : tasks'[i] = tasks[i]
      PROVE  TbtFollows'
  <2>1. S \subseteq K /\ \A i \in S : tasks'[i] = tasks[i]  BY <1>s, <1>1 DEF TbtIsOf
  <2>2. TotalBlocking(S)' = TotalBlocking(S)
        BY <2>1, TotalStays DEF TotalBlocking, Blocked
  <2>3. \A i \in K \ S : ~(tasks'[i].at >= painted')  BY <1>s, <1>1 DEF TbtIsOf
  <2> QED  BY <1>s, <1>1, <2>1, <2>2, <2>3 DEF TbtIsOf, TbtFollows
<1>2. CASE Paint
  <2>1. painted = 0 /\ g' = g /\ heard' = heard /\ tasks' = tasks  BY <1>2 DEF Paint
  <2>2. S = K  BY <1>s, <2>1 DEF TbtIsOf, HeardIsOfPage
  <2> QED  BY <1>1, <2>1, <2>2
<1>3. CASE EndTask
  <2>1. \A i \in K : tasks'[i] = tasks[i]  BY <1>3, <1>k, <1>t, EntriesStay DEF EndTask
  <2> QED  BY <1>1, <1>3, <2>1 DEF EndTask
<1>4. CASE HearTask
  <2>n. PICK n : n = heard.tasks + 1  OBVIOUS
  <2> DEFINE e == tasks[n]
  <2>1. n \in DOMAIN tasks /\ Entry("tasks", tasks) = e
        BY <1>4, <1>h, <1>t, <2>n, NextEntry DEF HearTask
  <2>2. /\ heard'.tasks = n /\ heard'.paint = heard.paint
        /\ painted' = painted /\ tasks' = tasks
        BY <1>4, <1>h, <2>n DEF HearTask, Hear, pageVars
  <2>3. /\ K' = K \cup {n} /\ K \in SUBSET (1 .. n - 1) /\ n \notin K
        /\ S \in SUBSET (1 .. n - 1)
        BY <2>2, <2>n, <1>h, <1>s DEF TbtIsOf
  <2>4. g'.tbt = IF BeforeFcp(e) THEN g.tbt ELSE g.tbt + Blocking(e)
        BY <1>4, <2>1, <1>g DEF HearTask
  <2>5. \A T : TotalBlocking(T)' = TotalBlocking(T)
        BY <2>2 DEF TotalBlocking, Blocked
  <2>6. CASE BeforeFcp(e)
    <3>1. ~(e.at >= painted) /\ heard.paint # 0
      <4>1. g.fcp = painted /\ e.at < painted /\ g.fcp > 0
            BY <2>6 DEF BeforeFcp, HeardIsOfPage
      <4>2. PICK a : a = e.at  OBVIOUS
      <4>3. a \in Time  BY <2>1, <1>t, <4>2
      <4>4. a \in Nat /\ painted \in Nat  BY <4>3, EntryAssumption DEF Time, VitalsTypeOK
      <4>5. ~(a >= painted)  BY <4>1, <4>2, <4>4
      <4>6. g.fcp # 0  BY <4>1, <4>4
      <4> QED  BY <4>2, <4>5, <4>6 DEF HeardIsOfPage
    <3>2. g'.tbt = TotalBlocking(S)'  BY <2>4, <2>5, <2>6, <1>s DEF TbtIsOf
    <3>3. \A i \in K' \ S : ~(tasks'[i].at >= painted')
          BY <2>2, <2>3, <3>1, <1>s DEF TbtIsOf
    <3>4. S \subseteq K' /\ heard'.paint # 0  BY <2>2, <2>3, <3>1, <1>s DEF TbtIsOf
    <3> QED  BY <3>2, <3>3, <3>4 DEF TbtIsOf, TbtFollows
  <2>7. CASE ~BeforeFcp(e)
    <3> DEFINE T == S \cup {n}
    <3>1. TotalBlocking(T) = TotalBlocking(S) + Blocking(e)  BY <2>1, <2>3, TotalAdds
    <3>2. g'.tbt = TotalBlocking(T)'
      <4> HIDE DEF T, e
      <4> QED  BY <3>1, <2>4, <2>5, <2>7, <1>s DEF TbtIsOf
    <3>3. T \subseteq K' /\ (heard'.paint = 0 => T = K')
          BY <2>2, <2>3, <1>s DEF TbtIsOf
    <3>4. \A i \in K' \ T : ~(tasks'[i].at >= painted')
          BY <2>2, <2>3, <1>s DEF TbtIsOf
    <3> HIDE DEF T
    <3> QED  BY <3>2, <3>3, <3>4 DEF TbtIsOf, TbtFollows
  <2> QED  BY <2>6, <2>7
<1>6. ASSUME g'.tbt = g.tbt, heard'.tasks = heard.tasks,
             heard'.paint = 0 => heard.paint = 0, UNCHANGED <<painted, tasks>>
      PROVE  TbtFollows'
      BY <1>1, <1>6
<1>7. CASE Elapse \/ PaintLarger \/ BeginTask
      BY <1>6, <1>7 DEF Elapse, PaintLarger, BeginTask
<1>8. ASSUME NEW score \in Score, NEW input \in BOOLEAN, Shift(score, input)
      PROVE  TbtFollows'
      BY <1>6, <1>8 DEF Shift
<1>9. CASE HearCandidate
      BY <1>6, <1>9, <1>g, <1>h DEF HearCandidate, Hear, pageVars
<1>10. CASE HearPaint
      BY <1>6, <1>10, <1>g, <1>h DEF HearPaint, Hear, pageVars
<1>11. CASE HearShift
  <2>1. g' = g \/ \E c : g' = [g EXCEPT !.cls = c]  BY <1>11 DEF HearShift
  <2>2. g'.tbt = g.tbt  BY <2>1, <1>g
  <2> QED  BY <1>6, <1>11, <2>2, <1>h DEF HearShift, Hear, pageVars
<1>12. CASE ReadVitals  BY <1>6, <1>12 DEF ReadVitals, pageVars
<1>13. CASE UNCHANGED vitalsVars  BY <1>6, <1>13 DEF vitalsVars, pageVars
<1> QED  BY <1>2, <1>3, <1>4, <1>7, <1>8, <1>9, <1>10, <1>11, <1>12, <1>13 DEF VitalsNext

\* As tasks do not overlap, one at most began before FCP and went on after it.
LEMMA TbtIsAsStated ==
    ASSUME VitalsTypeOK, HeardIsOfPage, TasksRunAlone, TbtFollows
    PROVE  TbtIsOfWholeTasks
<1> DEFINE K == 1 .. heard.tasks
<1>1. PICK S : TbtIsOf(S)  BY DEF TbtFollows
<1>2. /\ S \in SUBSET K /\ g.tbt = TotalBlocking(S)
      /\ heard.paint = 0 => K \ S = {}
      /\ \A i \in K \ S : ~(tasks[i].at >= painted)
      BY <1>1 DEF TbtIsOf
<1>3. FromPaint(K \ S) = {}  BY <1>2 DEF FromPaint
<1>4. /\ \A i \in K : i \in Nat /\ i \in DOMAIN tasks
      /\ painted \in Nat
      BY EntryAssumption, TasksAre DEF HeardIsOfPage, VitalsTypeOK, Time
<1>5. ASSUME NEW i \in K \ S, NEW j \in K \ S, i < j, EndsAfterPaint(i) PROVE FALSE
  <2>1. PICK a, d, b : a = tasks[i].at /\ d = tasks[i].duration /\ b = tasks[j].at
        OBVIOUS
  <2>2. a \in Time /\ d \in LongTask /\ b \in Time  BY <1>4, <2>1, TasksAre
  <2>3. a \in Nat /\ d \in Nat /\ b \in Nat  BY <2>2, EntryAssumption DEF Time
  <2>4. a + d <= b  BY <1>4, <1>5, <2>1 DEF TasksRunAlone
  <2>5. a + d > painted  BY <1>5, <2>1 DEF EndsAfterPaint
  <2>6. b >= painted  BY <1>4, <2>3, <2>4, <2>5
  <2> QED  BY <1>2, <2>1, <2>6
<1>6. ASSUME NEW i \in K \ S, NEW j \in K \ S, EndsAfterPaint(i), EndsAfterPaint(j)
      PROVE  i = j
  <2>1. i < j \/ j < i \/ i = j  BY <1>4
  <2> QED  BY <1>5, <1>6, <2>1
<1> QED  BY <1>2, <1>3, <1>6 DEF TbtIsOfWholeTasks

-------------------------------------------------------------------------------
(* CLS                                                                       *)

\* The observer is given the shifts in the order of their times.
ShiftsInOrder ==
    /\ \A i \in DOMAIN shifts : shifts[i].at <= now
    /\ \A i, j \in DOMAIN shifts : i < j => shifts[i].at < shifts[j].at

\* The session that the observer has open is the last one of the cut: it began
\* with s, and c is the last shift that was counted.
LastIsOpen(first, s, c) ==
    /\ \A i \in first : i <= s
    /\ \A i \in Counted : i <= c
    /\ session.value = SumOfScores(SessionFrom(s, first))
    /\ session.value > 0
    /\ session.start = shifts[s].at
    /\ session.end = shifts[c].at

SessionsFollow ==
    \E first \in SUBSET Counted :
        /\ OpenSessions(first)
        /\ g.cls \in Sums(first)
        /\ \A sum \in Sums(first) : sum <= g.cls
        /\ \/ Counted = {} /\ session.value = 0
           \/ \E s \in first, c \in Counted : LastIsOpen(first, s, c)

LEMMA ShiftsAre ==
    ASSUME VitalsTypeOK
    PROVE  /\ shifts \in Seq([at : Time, value : Score, hadRecentInput : BOOLEAN])
           /\ DOMAIN shifts = 1 .. Len(shifts) /\ Len(shifts) \in Nat
           /\ \A i \in DOMAIN shifts :
                 /\ shifts[i] \in [at : Time, value : Score, hadRecentInput : BOOLEAN]
                 /\ shifts[i].at \in Nat
                 /\ shifts[i].value \in Nat /\ shifts[i].value > 0
<1>1. shifts \in Seq([at : Time, value : Score, hadRecentInput : BOOLEAN])
      BY DEF VitalsTypeOK
<1>2. \A i \in DOMAIN shifts :
          shifts[i] \in [at : Time, value : Score, hadRecentInput : BOOLEAN]
      BY <1>1, EntriesAre
<1>3. ASSUME NEW i \in DOMAIN shifts
      PROVE  shifts[i].at \in Nat /\ shifts[i].value \in Nat /\ shifts[i].value > 0
  <2>1. PICK a, v : a = shifts[i].at /\ v = shifts[i].value  OBVIOUS
  <2>2. a \in Time /\ v \in Score  BY <1>2, <2>1
  <2>3. a \in Nat /\ v \in Nat /\ v > 0  BY <2>2, EntryAssumption DEF Time
  <2> QED  BY <2>1, <2>3
<1> QED  BY <1>1, <1>2, <1>3

\* Finitely many shifts have finitely many points.
LEMMA PointsAreFinite ==
    ASSUME VitalsTypeOK, NEW S \in SUBSET DOMAIN shifts
    PROVE  IsFiniteSet(Points(S)) /\ SumOfScores(S) \in Nat
<1> DEFINE P(i) == {i} \X (1 .. shifts[i].value)
           T == {P(i) : i \in S}
           M == [i \in S |-> P(i)]
<1>1. IsFiniteSet(S)
  <2>1. IsFiniteSet(1 .. Len(shifts))  BY ShiftsAre, FS_Interval
  <2> QED  BY <2>1, ShiftsAre, FS_Subset
<1>2. IsFiniteSet(T)
  <2>1. M \in Surjection(S, T)  BY DEF Surjection
  <2> HIDE DEF T, M
  <2> QED  BY <1>1, <2>1, FS_Surjection
<1>3. ASSUME NEW i \in S PROVE IsFiniteSet(P(i))
  <2>1. PICK v : v = shifts[i].value  OBVIOUS
  <2>2. v \in Nat  BY <2>1, ShiftsAre
  <2>3. IsFiniteSet(1 .. v)  BY <2>2, FS_Interval
  <2>4. IsFiniteSet({i})  BY FS_Singleton
  <2>5. IsFiniteSet({i} \X (1 .. v))  BY <2>3, <2>4, FS_Product
  <2> QED  BY <2>1, <2>5
<1>4. \A U \in T : IsFiniteSet(U)  BY <1>3
<1>5. Points(S) = UNION T  BY DEF Points
<1> HIDE DEF T
<1>6. IsFiniteSet(UNION T)  BY <1>2, <1>4, FS_UNION
<1> QED  BY <1>5, <1>6, FS_CardinalityType DEF SumOfScores

\* One more shift adds its score.
LEMMA SumAdds ==
    ASSUME VitalsTypeOK, NEW n \in DOMAIN shifts, NEW S \in SUBSET (1 .. n - 1)
    PROVE  SumOfScores(S \cup {n}) = SumOfScores(S) + shifts[n].value
<1> DEFINE P == {n} \X (1 .. shifts[n].value)
<1>1. n \in Nat /\ S \subseteq DOMAIN shifts /\ n \notin S  BY ShiftsAre
<1>2. Points(S \cup {n}) = Points(S) \cup P  BY DEF Points
<1>3. Points(S) \cap P = {}
  <2> SUFFICES ASSUME NEW p \in Points(S), p \in P PROVE FALSE  OBVIOUS
  <2>1. PICK i \in S : p \in {i} \X (1 .. shifts[i].value)  BY DEF Points
  <2>2. p[1] = i  BY <2>1
  <2>3. p[1] = n  OBVIOUS
  <2> QED  BY <1>1, <2>2, <2>3
<1>4. IsFiniteSet(P) /\ Cardinality(P) = shifts[n].value
  <2>1. PICK v : v = shifts[n].value  OBVIOUS
  <2>2. v \in Nat  BY <2>1, ShiftsAre
  <2>3. IsFiniteSet(1 .. v) /\ Cardinality(1 .. v) = v  BY <2>2, FS_Interval
  <2>4. IsFiniteSet({n}) /\ Cardinality({n}) = 1  BY FS_Singleton
  <2>5. IsFiniteSet({n} \X (1 .. v)) /\ Cardinality({n} \X (1 .. v)) = 1 * v
        BY <2>3, <2>4, FS_Product
  <2>6. 1 * v = v  BY <2>2
  <2> QED  BY <2>1, <2>5, <2>6
<1>5. IsFiniteSet(Points(S)) /\ SumOfScores(S) \in Nat  BY <1>1, PointsAreFinite
<1> HIDE DEF P
<1>6. Cardinality(Points(S) \cup P)
          = Cardinality(Points(S)) + Cardinality(P) - Cardinality(Points(S) \cap P)
      BY <1>4, <1>5, FS_Union
<1>7. Cardinality(Points(S) \cap P) = 0  BY <1>3, FS_EmptySet
<1>8. PICK v : v = shifts[n].value /\ v \in Nat  BY ShiftsAre
<1>9. SumOfScores(S \cup {n}) = Cardinality(Points(S) \cup P)  BY <1>2 DEF SumOfScores
<1>10. Cardinality(Points(S)) = SumOfScores(S)  BY DEF SumOfScores
<1>11. Cardinality(P) = v  BY <1>4, <1>8
<1>12. SumOfScores(S \cup {n}) = SumOfScores(S) + v
       BY <1>5, <1>6, <1>7, <1>8, <1>9, <1>10, <1>11
<1> QED  BY <1>8, <1>12

LEMMA SumOfNone == SumOfScores({}) = 0
<1>1. Points({}) = {}  BY DEF Points
<1> QED  BY <1>1, FS_EmptySet DEF SumOfScores

\* A cut of the shifts in C, and its sessions.
Opens(C, first) ==
    \A i \in C :
        i \in first <=>
            \/ \A j \in Before(C, i) : shifts[i].at - shifts[j].at > Gap
            \/ \A j \in Before(first, i) : shifts[i].at - shifts[j].at > Cap

From(C, i, first) == {j \in C : i <= j /\ \A k \in first : i < k => j < k}

\* A cut of the shifts before n is one of those up to n, with or without n.
LEMMA CutGrows ==
    ASSUME NEW n \in Nat, NEW C \in SUBSET (1 .. n - 1), NEW first \in SUBSET C,
           NEW more \in {first, first \cup {n}}, Opens(C, first),
           n \in more <=> \/ \A j \in C : shifts[n].at - shifts[j].at > Gap
                         \/ \A j \in first : shifts[n].at - shifts[j].at > Cap
    PROVE  Opens(C \cup {n}, more)
<1>1. n \notin C /\ n \notin first  OBVIOUS
<1>2. Before(C \cup {n}, n) = C /\ Before(more, n) = first
  <2>1. \A j \in C : j < n  OBVIOUS
  <2>2. ~(n < n)  OBVIOUS
  <2> QED  BY <2>1, <2>2 DEF Before
<1>3. ASSUME NEW i \in C
      PROVE  /\ Before(C \cup {n}, i) = Before(C, i)
             /\ Before(more, i) = Before(first, i)
             /\ i \in more <=> i \in first
      BY <1>1 DEF Before
<1> QED  BY <1>2, <1>3 DEF Opens

\* The sessions that were closed stay as they are.
LEMMA ClosedStay ==
    ASSUME NEW n \in Nat, NEW C \in SUBSET (1 .. n - 1), NEW first \in SUBSET C,
           NEW more \in {first, first \cup {n}}, NEW i \in first,
           n \in more \/ \E k \in first : i < k
    PROVE  From(C \cup {n}, i, more) = From(C, i, first)
<1>1. /\ \A j \in C : j \in Nat /\ j < n
      /\ i \in Nat /\ i < n /\ ~(n < n)
      /\ \A k \in more : k \in first \/ k = n
      /\ first \subseteq more
      OBVIOUS
<1>2. n \notin From(C \cup {n}, i, more)
  <2>1. CASE n \in more  BY <2>1, <1>1 DEF From
  <2>2. CASE \E k \in first : i < k
    <3>1. PICK k \in first : i < k  BY <2>2
    <3>2. k \in more /\ k \in Nat /\ ~(n < k)  BY <1>1
    <3> QED  BY <3>1, <3>2 DEF From
  <2> QED  BY <2>1, <2>2
<1>3. ASSUME NEW j \in C PROVE j \in From(C \cup {n}, i, more) <=> j \in From(C, i, first)
      BY <1>1 DEF From
<1>4. From(C, i, first) \subseteq C /\ From(C \cup {n}, i, more) \subseteq C \cup {n}
      BY DEF From
<1> QED  BY <1>2, <1>3, <1>4

\* The last one takes n in if n does not open one.
LEMMA LastTakes ==
    ASSUME NEW n \in Nat, NEW C \in SUBSET (1 .. n - 1), NEW first \in SUBSET C,
           NEW s \in first, \A i \in first : i <= s
    PROVE  From(C \cup {n}, s, first) = From(C, s, first) \cup {n}
BY DEF From

LEMMA NewIsAlone ==
    ASSUME NEW n \in Nat, NEW C \in SUBSET (1 .. n - 1), NEW first \in SUBSET C
    PROVE  From(C \cup {n}, n, first \cup {n}) = {n}
<1>1. \A j \in C : j \in Nat /\ j < n /\ ~(n <= j) /\ ~(n < j)  OBVIOUS
<1>2. n <= n /\ ~(n < n)  OBVIOUS
<1> QED  BY <1>1, <1>2 DEF From

LEMMA OrderStep ==
    ASSUME VitalsTypeOK, ShiftsInOrder, [VitalsNext]_vitalsVars
    PROVE  ShiftsInOrder'
<1>t. now \in Nat  BY EntryAssumption DEF VitalsTypeOK, Time
<1>1. ASSUME now' \in Nat, now' >= now, shifts' = shifts PROVE ShiftsInOrder'
  <2>1. ASSUME NEW i \in DOMAIN shifts PROVE shifts[i].at <= now'
    <3>1. shifts[i].at \in Nat /\ shifts[i].at <= now  BY ShiftsAre DEF ShiftsInOrder
    <3>2. PICK a : a = shifts[i].at  OBVIOUS
    <3> QED  BY <1>t, <1>1, <3>1, <3>2
  <2> QED  BY <1>1, <2>1 DEF ShiftsInOrder
<1>2. ASSUME NEW score \in Score, NEW input \in BOOLEAN, Shift(score, input)
      PROVE  ShiftsInOrder'
  <2> DEFINE n == Len(shifts) + 1
             m == Len(shifts)
  <2>1. DOMAIN shifts' = 1 .. n /\ DOMAIN shifts = 1 .. m /\ m \in Nat /\ n = m + 1
        BY <1>2, ShiftsAre DEF Shift
  <2>2. shifts'[n].at = now /\ \A i \in 1 .. m : shifts'[i] = shifts[i]
        BY <1>2, ShiftsAre DEF Shift
  <2>3. now' = now  BY <1>2 DEF Shift
  <2>4. \A i \in 1 .. m : shifts[i].at < now
    <3> SUFFICES ASSUME NEW i \in 1 .. m PROVE shifts[i].at < now  OBVIOUS
    <3>1. shifts # <<>>  BY <2>1
    <3>2. shifts[m].at < now  BY <1>2, <3>1 DEF Shift
    <3>3. m \in 1 .. m /\ (i = m \/ i < m)
      <4> HIDE DEF m, n
      <4> QED  BY <2>1
    <3>4. i = m \/ shifts[i].at < shifts[m].at  BY <2>1, <3>3 DEF ShiftsInOrder
    <3>5. PICK a, b : a = shifts[i].at /\ b = shifts[m].at  OBVIOUS
    <3>6. a \in Nat /\ b \in Nat  BY <2>1, <3>3, <3>5, ShiftsAre
    <3>7. i = m => a = b  BY <3>5
    <3> QED  BY <3>2, <3>4, <3>5, <3>6, <3>7, <1>t
  <2> HIDE DEF n, m
  <2>5. \A i \in 1 .. n : i = n \/ i \in 1 .. m  BY <2>1
  <2>6. \A i, j \in 1 .. n : i < j => i \in 1 .. m /\ (j = n \/ j \in 1 .. m)  BY <2>1
  <2>7. ASSUME NEW i \in 1 .. n PROVE shifts'[i].at <= now'
    <3>1. CASE i = n  BY <3>1, <2>2, <2>3, <1>t
    <3>2. CASE i \in 1 .. m  BY <3>2, <2>1, <2>2, <2>3 DEF ShiftsInOrder
    <3> QED  BY <2>5, <3>1, <3>2
  <2>8. ASSUME NEW i \in 1 .. n, NEW j \in 1 .. n, i < j
        PROVE  shifts'[i].at < shifts'[j].at
    <3>1. i \in 1 .. m  BY <2>6, <2>8
    <3>2. CASE j = n  BY <3>1, <3>2, <2>2, <2>4
    <3>3. CASE j \in 1 .. m  BY <3>1, <3>3, <2>1, <2>2, <2>8 DEF ShiftsInOrder
    <3> QED  BY <2>6, <2>8, <3>2, <3>3
  <2> QED  BY <2>1, <2>7, <2>8 DEF ShiftsInOrder
<1>3. CASE BeginTask \/ EndTask  BY <1>1, <1>3, <1>t DEF BeginTask, EndTask
<1>4. CASE Elapse
  <2>1. now' = now + 1 /\ shifts' = shifts  BY <1>4 DEF Elapse
  <2> QED  BY <1>1, <1>t, <2>1
<1>5. ASSUME Paint \/ PaintLarger PROVE ShiftsInOrder'
      BY <1>1, <1>5, <1>t DEF Paint, PaintLarger
<1>6. ASSUME UNCHANGED pageVars PROVE ShiftsInOrder'
      BY <1>1, <1>6, <1>t DEF pageVars
<1>7. HearCandidate \/ HearPaint \/ HearShift \/ HearTask \/ ReadVitals => UNCHANGED pageVars
      BY DEF HearCandidate, HearPaint, HearShift, HearTask, ReadVitals
<1> QED  BY <1>2, <1>3, <1>4, <1>5, <1>6, <1>7 DEF VitalsNext, vitalsVars

\* What was heard, and what the observer made of it, is all it depends on.
LEMMA SessionsStay ==
    ASSUME SessionsFollow, g'.cls = g.cls, session' = session, Counted' = Counted,
           \A i \in Counted : shifts'[i] = shifts[i]
    PROVE  SessionsFollow'
<1>1. PICK first \in SUBSET Counted :
          /\ OpenSessions(first)
          /\ g.cls \in Sums(first)
          /\ \A sum \in Sums(first) : sum <= g.cls
          /\ \/ Counted = {} /\ session.value = 0
             \/ \E s \in first, c \in Counted : LastIsOpen(first, s, c)
      BY DEF SessionsFollow
<1>2. \A i \in Counted : shifts'[i].at = shifts[i].at /\ shifts'[i].value = shifts[i].value
      OBVIOUS
<1>3. \A S \in SUBSET Counted : \A i : Before(S, i) \subseteq Counted  BY DEF Before
<1>4. \A S, i : Before(S, i)' = Before(S, i)  BY DEF Before
<1>5. OpenSessions(first)'
  <2>1. ASSUME NEW i \in Counted
        PROVE  i \in first <=>
                  \/ \A j \in Before(Counted, i) : shifts'[i].at - shifts'[j].at > Gap
                  \/ \A j \in Before(first, i) : shifts'[i].at - shifts'[j].at > Cap
    <3>1. /\ \A j \in Before(Counted, i) : shifts'[i].at - shifts'[j].at = shifts[i].at - shifts[j].at
          /\ \A j \in Before(first, i) : shifts'[i].at - shifts'[j].at = shifts[i].at - shifts[j].at
          BY <1>2, <1>3
    <3> QED  BY <1>1, <3>1 DEF OpenSessions
  <2> QED  BY <2>1 DEF OpenSessions, Before
<1>6. ASSUME NEW i PROVE SumOfScores(SessionFrom(i, first))' = SumOfScores(SessionFrom(i, first))
  <2>1. SessionFrom(i, first)' = SessionFrom(i, first)  BY DEF SessionFrom
  <2>2. SessionFrom(i, first) \subseteq Counted  BY DEF SessionFrom
  <2>3. Points(SessionFrom(i, first))' = Points(SessionFrom(i, first))
        BY <1>2, <2>1, <2>2 DEF Points
  <2> QED  BY <2>3 DEF SumOfScores
<1>7. Sums(first)' = Sums(first)  BY <1>6 DEF Sums
<1>8. ASSUME NEW s \in first, NEW c \in Counted, LastIsOpen(first, s, c)
      PROVE  LastIsOpen(first, s, c)'
      BY <1>2, <1>6, <1>8 DEF LastIsOpen
<1>9. first \in SUBSET Counted'  OBVIOUS
<1> QED  BY <1>1, <1>5, <1>7, <1>8, <1>9 DEF SessionsFollow

\* A shift that was counted opens a session, or adds to the one that is open.
LEMMA SessionsHear ==
    ASSUME VitalsTypeOK, HeardIsOfPage, ShiftsInOrder, SessionsFollow, HearShift
    PROVE  SessionsFollow'
<1>n. PICK n, C, e : n = heard.shifts + 1 /\ C = Counted /\ e = shifts[n]  OBVIOUS
<1>g. g \in [lcp : Time, fcp : Time, cls : Nat, tbt : Nat]  BY DEF VitalsTypeOK
<1>s. session \in [value : Nat, start : Time, end : Time]  BY DEF VitalsTypeOK
<1>h. /\ heard \in [{"paint", "candidates", "shifts", "tasks"} -> Nat]
      /\ heard["shifts"] \in Nat
      BY DEF VitalsTypeOK
<1>1. /\ n \in DOMAIN shifts /\ n \in Nat /\ Entry("shifts", shifts) = e
      /\ C \in SUBSET (1 .. n - 1) /\ C \subseteq DOMAIN shifts
  <2>1. heard["shifts"] < Len(shifts)  BY DEF HearShift
  <2>2. shifts \in Seq([at : Time, value : Score, hadRecentInput : BOOLEAN])  BY ShiftsAre
  <2>3. n \in DOMAIN shifts /\ Entry("shifts", shifts) = e
        BY <1>n, <1>h, <2>1, <2>2, NextEntry
  <2>4. C \in SUBSET (1 .. n - 1)  BY <1>n, <1>h DEF Counted
  <2>5. 1 .. n - 1 \subseteq DOMAIN shifts  BY <1>n, <1>h, <2>1, ShiftsAre
  <2> QED  BY <1>n, <1>h, <2>3, <2>4, <2>5
<1>2. heard'.shifts = n /\ shifts' = shifts  BY <1>n, <1>h DEF HearShift, Hear, pageVars
<1>3. Counted' = {i \in 1 .. n : ~shifts[i].hadRecentInput}  BY <1>2 DEF Counted
<1>4. 1 .. n = (1 .. n - 1) \cup {n} /\ n - 1 = heard.shifts  BY <1>n, <1>h
<1>5. CASE e.hadRecentInput
  <2>1. Counted' = Counted  BY <1>n, <1>3, <1>4, <1>5 DEF Counted
  <2>2. session' = session /\ g' = g  BY <1>1, <1>5 DEF HearShift
  <2> QED  BY <1>2, <2>1, <2>2, SessionsStay
<1>6. CASE ~e.hadRecentInput
  <2>1. Counted' = C \cup {n}  BY <1>n, <1>3, <1>4, <1>6 DEF Counted
  <2> DEFINE before == IF SessionOver(e.at) THEN 0 ELSE session.value
  <2>s. PICK sum : sum = before + e.value  OBVIOUS
  <2>2. /\ session' = [value |-> sum, end |-> e.at,
                       start |-> IF before = 0 THEN e.at ELSE session.start]
        /\ g' = [g EXCEPT !.cls = Max({g.cls, sum})]
        BY <1>1, <1>6, <2>s DEF HearShift
  <2>3. PICK first \in SUBSET C :
            /\ OpenSessions(first)
            /\ g.cls \in Sums(first)
            /\ \A x \in Sums(first) : x <= g.cls
            /\ \/ C = {} /\ session.value = 0
               \/ \E s \in first, c \in C : LastIsOpen(first, s, c)
        BY <1>n DEF SessionsFollow
  <2>4. PICK a, v : a = e.at /\ v = e.value  OBVIOUS
  <2>5. a \in Nat /\ v \in Nat /\ v > 0  BY <1>n, <1>1, <2>4, ShiftsAre
  <2>6. Opens(C, first)  BY <1>n, <2>3 DEF OpenSessions, Opens
  <2>7. \A i, x : SessionFrom(i, x) = From(C, i, x)  BY <1>n DEF SessionFrom, From
  <2>8. ASSUME NEW more \in SUBSET (C \cup {n}), Opens(C \cup {n}, more)
        PROVE  OpenSessions(more)'
        BY <1>2, <2>1, <2>8 DEF OpenSessions, Opens, Before
  <2>9. \A i, x : SumOfScores(SessionFrom(i, x))' = SumOfScores(From(C \cup {n}, i, x))
        BY <1>2, <2>1 DEF SumOfScores, SessionFrom, From, Points
  <2>10. \A j \in C : shifts[j].at \in Nat /\ j < n /\ shifts[j].at < a
         BY <1>n, <1>1, <2>4, ShiftsAre DEF ShiftsInOrder
  <2>11. g.cls \in Nat  BY <1>g
  <2>12. PICK m : m = Max({g.cls, sum})  OBVIOUS
  <2>13. /\ g'.cls = m /\ session'.value = sum /\ session'.end = a
         /\ session'.start = IF before = 0 THEN a ELSE session.start
         BY <2>2, <2>4, <2>12, <1>g
  <2>14. ASSUME sum \in Nat PROVE m \in {g.cls, sum} /\ m >= g.cls /\ m >= sum
         BY <2>11, <2>12, <2>14, MaxOfTwo
  <2>15. \A i \in C \cup {n} : i <= n  BY <1>1
  <2>16. CASE before = 0
    <3> DEFINE more == first \cup {n}
    <3>1. \/ \A j \in C : shifts[n].at - shifts[j].at > Gap
          \/ \A j \in first : shifts[n].at - shifts[j].at > Cap
      <4>1. CASE session.value = 0
        <5>1. C = {}  BY <1>s, <2>3, <4>1 DEF LastIsOpen
        <5> QED  BY <5>1
      <4>2. CASE session.value # 0
        <5>1. SessionOver(a)  BY <2>4, <2>16, <4>2
        <5>2. PICK s \in first, c \in C : LastIsOpen(first, s, c)  BY <2>3, <4>2
        <5>3. a - shifts[c].at > Gap \/ a - shifts[s].at > Cap
              BY <5>1, <5>2 DEF SessionOver, LastIsOpen
        <5>4. ASSUME NEW i \in C, NEW j \in C, j <= i PROVE a - shifts[j].at >= a - shifts[i].at
          <6>1. PICK x, y : x = shifts[j].at /\ y = shifts[i].at  OBVIOUS
          <6>2. x \in Nat /\ y \in Nat  BY <2>10, <6>1
          <6>3. j = i \/ j < i  BY <1>1, <5>4
          <6>4. x = y \/ x < y  BY <1>1, <6>1, <6>3 DEF ShiftsInOrder
          <6>5. a - x >= a - y  BY <2>5, <6>2, <6>4
          <6> QED  BY <6>1, <6>5
        <5>5. \A i \in C : a - shifts[i].at \in Int  BY <2>5, <2>10
        <5>6. ASSUME a - shifts[c].at > Gap, NEW j \in C PROVE a - shifts[j].at > Gap
          <6>1. a - shifts[j].at >= a - shifts[c].at  BY <1>n, <5>2, <5>4, <5>6 DEF LastIsOpen
          <6> QED  BY <5>5, <5>6, <6>1, WindowAssumption
        <5>7. ASSUME a - shifts[s].at > Cap, NEW j \in first PROVE a - shifts[j].at > Cap
          <6>1. a - shifts[j].at >= a - shifts[s].at  BY <5>2, <5>4 DEF LastIsOpen
          <6> QED  BY <5>5, <5>7, <6>1, WindowAssumption
        <5> QED  BY <1>n, <2>4, <5>3, <5>6, <5>7
      <4> QED  BY <4>1, <4>2
    <3>2. Opens(C \cup {n}, more)  BY <1>1, <2>6, <3>1, CutGrows
    <3>3. sum = v  BY <2>s, <2>4, <2>5, <2>16
    <3>4. SumOfScores(From(C \cup {n}, n, more)) = v
      <4>1. SumOfScores({} \cup {n}) = 0 + v  BY <1>n, <1>1, <2>4, SumAdds, SumOfNone
      <4>2. From(C \cup {n}, n, more) = {n}  BY <1>1, NewIsAlone
      <4> QED  BY <2>5, <4>1, <4>2
    <3>5. \A i \in first :
             SumOfScores(From(C \cup {n}, i, more)) = SumOfScores(From(C, i, first))
          BY <1>1, ClosedStay
    <3>6. Sums(more)' = Sums(first) \cup {v}
          BY <2>7, <2>9, <3>4, <3>5 DEF Sums
    <3>7. m \in Sums(more)' /\ \A x \in Sums(more)' : x <= m
      <4>1. m \in {g.cls, v} /\ m >= g.cls /\ m >= v  BY <2>5, <2>14, <3>3
      <4>2. m \in Sums(more)'  BY <2>3, <3>6, <4>1
      <4>3. ASSUME NEW x \in Sums(first) PROVE x <= m
        <5>1. x <= g.cls /\ x \in Nat
          <6>1. \A i : From(C, i, first) \in SUBSET DOMAIN shifts  BY <1>1 DEF From
          <6>2. \A i : SumOfScores(From(C, i, first)) \in Nat  BY <6>1, PointsAreFinite
          <6> QED  BY <2>3, <2>7, <6>2 DEF Sums
        <5> QED  BY <2>5, <2>11, <4>1, <5>1
      <4> QED  BY <2>5, <3>6, <4>1, <4>2, <4>3
    <3>8. LastIsOpen(more, n, n)'
      <4>1. session'.value = v /\ session'.start = a /\ session'.end = a
            BY <2>13, <2>16, <3>3
      <4>2. SumOfScores(SessionFrom(n, more))' = v  BY <2>9, <3>4
      <4>3. shifts'[n].at = a  BY <1>n, <1>2, <2>4
      <4>4. \A i \in Counted' : i <= n  BY <2>1, <2>15
      <4>5. \A i \in more : i <= n  BY <2>15
      <4> HIDE DEF more
      <4> QED  BY <2>5, <4>1, <4>2, <4>3, <4>4, <4>5 DEF LastIsOpen
    <3>9. OpenSessions(more)' /\ more \in SUBSET (C \cup {n}) /\ n \in more
          BY <2>8, <3>2
    <3> HIDE DEF more
    <3> QED  BY <2>1, <2>13, <3>7, <3>8, <3>9 DEF SessionsFollow
  <2>17. CASE before # 0
    <3>0. before = session.value /\ session.value # 0 /\ ~SessionOver(a)
          BY <2>4, <2>17
    <3>1. PICK s \in first, c \in C : LastIsOpen(first, s, c)  BY <2>3, <3>0
    <3>2. Opens(C \cup {n}, first)
      <4>1. ~(a - session.end > Gap) /\ ~(a - session.start > Cap)
            BY <3>0, <3>1 DEF SessionOver, LastIsOpen
      <4>2. ~(a - shifts[c].at > Gap) /\ ~(a - shifts[s].at > Cap)
            BY <3>1, <4>1 DEF LastIsOpen
      <4>3. n \notin first  BY <1>1
      <4> QED  BY <1>n, <1>1, <2>4, <2>6, <4>2, <4>3, CutGrows
    <3>3. sum = session.value + v /\ session.value \in Nat
          BY <1>s, <2>s, <2>4, <3>0
    <3>4. SumOfScores(From(C \cup {n}, s, first)) = sum
      <4>1. From(C \cup {n}, s, first) = From(C, s, first) \cup {n}
            BY <1>1, <3>1, LastTakes DEF LastIsOpen
      <4>2. From(C, s, first) \in SUBSET (1 .. n - 1)  BY <1>1 DEF From
      <4>3. SumOfScores(From(C, s, first) \cup {n}) = SumOfScores(From(C, s, first)) + v
            BY <1>n, <1>1, <2>4, <4>2, SumAdds
      <4>4. SumOfScores(From(C, s, first)) = session.value  BY <2>7, <3>1 DEF LastIsOpen
      <4> QED  BY <3>3, <4>1, <4>3, <4>4
    <3>5. \A i \in first : i # s =>
             SumOfScores(From(C \cup {n}, i, first)) = SumOfScores(From(C, i, first))
      <4> SUFFICES ASSUME NEW i \in first, i # s
                   PROVE  From(C \cup {n}, i, first) = From(C, i, first)
          OBVIOUS
      <4>1. i < s
        <5>1. i <= s  BY <3>1 DEF LastIsOpen
        <5>2. i \in Nat /\ s \in Nat  BY <1>1
        <5> QED  BY <5>1, <5>2
      <4> QED  BY <1>1, <4>1, ClosedStay
    <3>6. \A i : SumOfScores(From(C, i, first)) \in Nat
      <4>1. \A i : From(C, i, first) \in SUBSET DOMAIN shifts  BY <1>1 DEF From
      <4> QED  BY <4>1, PointsAreFinite
    <3>7. m \in Sums(first)' /\ \A x \in Sums(first)' : x <= m
      <4>1. sum \in Nat /\ sum > session.value /\ sum > 0  BY <2>5, <3>3
      <4>2. m \in {g.cls, sum} /\ m >= g.cls /\ m >= sum  BY <2>14, <4>1
      <4>3. Sums(first)' = {0} \cup {SumOfScores(From(C \cup {n}, i, first)) : i \in first}
            BY <2>9 DEF Sums
      <4>4. sum \in Sums(first)'  BY <3>4, <4>3
      <4>5. session.value \in Sums(first) /\ session.value <= g.cls
        <5>1. session.value \in Sums(first)  BY <3>1 DEF Sums, LastIsOpen
        <5> QED  BY <2>3, <5>1
      <4>6. ASSUME NEW x \in Sums(first) PROVE x = session.value \/ x \in Sums(first)'
        <5>1. CASE x = 0  BY <4>3, <5>1
        <5>2. ASSUME NEW i \in first, x = SumOfScores(From(C, i, first))
              PROVE  x = session.value \/ x \in Sums(first)'
          <6>1. CASE i = s  BY <2>7, <3>1, <5>2, <6>1 DEF LastIsOpen
          <6>2. CASE i # s  BY <3>5, <4>3, <5>2, <6>2
          <6> QED  BY <6>1, <6>2
        <5> QED  BY <2>7, <5>1, <5>2 DEF Sums
      <4>7. m \in Sums(first)'
        <5>1. CASE m = sum  BY <4>4, <5>1
        <5>2. CASE m = g.cls
          <6>1. g.cls # session.value  BY <2>11, <3>3, <4>1, <4>2, <5>2
          <6> QED  BY <2>3, <4>6, <5>2, <6>1
        <5> QED  BY <4>2, <5>1, <5>2
      <4>8. ASSUME NEW x \in Sums(first)' PROVE x <= m
        <5>1. CASE x = 0 \/ x = sum  BY <2>11, <4>1, <4>2, <5>1
        <5>2. ASSUME NEW i \in first, i # s, x = SumOfScores(From(C, i, first)) PROVE x <= m
          <6>1. x \in Sums(first) /\ x \in Nat  BY <2>7, <3>6, <5>2 DEF Sums
          <6>2. x <= g.cls  BY <2>3, <6>1
          <6> QED  BY <2>11, <4>1, <4>2, <6>1, <6>2
        <5> QED  BY <3>4, <3>5, <4>3, <5>1, <5>2
      <4> QED  BY <4>7, <4>8
    <3>8. LastIsOpen(first, s, n)'
      <4>1. session'.value = sum /\ session'.start = session.start /\ session'.end = a
            BY <2>13, <2>17
      <4>2. SumOfScores(SessionFrom(s, first))' = sum  BY <2>9, <3>4
      <4>3. shifts'[n].at = a /\ shifts'[s].at = session.start
            BY <1>n, <1>2, <2>4, <3>1 DEF LastIsOpen
      <4>4. \A i \in Counted' : i <= n  BY <2>1, <2>15
      <4>5. \A i \in first : i <= s  BY <3>1 DEF LastIsOpen
      <4>6. sum > 0  BY <2>5, <3>3
      <4> QED  BY <4>1, <4>2, <4>3, <4>4, <4>5, <4>6 DEF LastIsOpen
    <3>9. OpenSessions(first)' /\ first \in SUBSET (C \cup {n}) /\ s \in first
          BY <2>8, <3>2
    <3> QED  BY <2>1, <2>13, <3>7, <3>8, <3>9 DEF SessionsFollow
  <2> QED  BY <2>16, <2>17
<1> QED  BY <1>5, <1>6

LEMMA SessionsStep ==
    ASSUME VitalsTypeOK, HeardIsOfPage, ShiftsInOrder, SessionsFollow, [VitalsNext]_vitalsVars
    PROVE  SessionsFollow'
<1>g. /\ g \in [lcp : Time, fcp : Time, cls : Nat, tbt : Nat]
      /\ heard \in [{"paint", "candidates", "shifts", "tasks"} -> Nat]
      BY DEF VitalsTypeOK
<1>1. ASSUME g'.cls = g.cls, session' = session, heard'.shifts = heard.shifts, shifts' = shifts
      PROVE  SessionsFollow'
  <2>1. Counted' = Counted  BY <1>1 DEF Counted
  <2> QED  BY <1>1, <2>1, SessionsStay
<1>2. ASSUME NEW score \in Score, NEW input \in BOOLEAN, Shift(score, input)
      PROVE  SessionsFollow'
  <2>1. g' = g /\ session' = session /\ heard' = heard  BY <1>2 DEF Shift
  <2>2. 1 .. heard.shifts \subseteq DOMAIN shifts
        BY <1>g, ShiftsAre DEF HeardIsOfPage
  <2>3. \A i \in 1 .. heard.shifts : shifts'[i] = shifts[i]
        BY <1>2, <2>2, ShiftsAre, EntriesStay DEF Shift
  <2>4. Counted' = Counted  BY <2>1, <2>3 DEF Counted
  <2>5. \A i \in Counted : shifts'[i] = shifts[i]  BY <2>3 DEF Counted
  <2> QED  BY <2>1, <2>4, <2>5, SessionsStay
<1>3. CASE HearShift  BY <1>3, SessionsHear
<1>4. ASSUME Elapse \/ Paint \/ PaintLarger PROVE SessionsFollow'
      BY <1>1, <1>4 DEF Elapse, Paint, PaintLarger
<1>5. CASE BeginTask \/ EndTask  BY <1>1, <1>5 DEF BeginTask, EndTask
<1>6. CASE HearCandidate
      BY <1>1, <1>6, <1>g DEF HearCandidate, Hear, pageVars
<1>7. CASE HearPaint  BY <1>1, <1>7, <1>g DEF HearPaint, Hear, pageVars
<1>8. CASE HearTask
  <2>1. \E b : g' = [g EXCEPT !.tbt = b]  BY <1>8 DEF HearTask
  <2>2. g'.cls = g.cls  BY <2>1, <1>g
  <2> QED  BY <1>1, <1>8, <1>g, <2>2 DEF HearTask, Hear, pageVars
<1>9. CASE ReadVitals \/ UNCHANGED vitalsVars
      BY <1>1, <1>9 DEF ReadVitals, vitalsVars, pageVars
<1> QED  BY <1>2, <1>3, <1>4, <1>5, <1>6, <1>7, <1>8, <1>9 DEF VitalsNext

\* What the properties rest on: the observers know no more than the page, its
\* tasks and shifts come in their order, and the one session and the one maximum
\* that are kept are the last and the worst of the cut of all that was heard.
VitalsInv ==
    /\ VitalsTypeOK /\ HeardIsOfPage
    /\ TasksRunAlone /\ TbtFollows
    /\ ShiftsInOrder /\ SessionsFollow
    /\ ResultIsConsistent

LEMMA VitalsInvInit == VitalsInit => VitalsInv
<1> SUFFICES ASSUME VitalsInit PROVE VitalsInv  OBVIOUS
<1>1. VitalsTypeOK  BY VitalsTypeInit
<1>2. /\ heard.shifts = 0 /\ heard.tasks = 0 /\ g.cls = 0 /\ g.tbt = 0
      /\ g.fcp = 0 /\ g.lcp = 0 /\ session.value = 0 /\ heard.paint = 0 /\ begun = {}
      /\ shifts = <<>> /\ tasks = <<>> /\ candidates = <<>> /\ result = {}
      BY DEF VitalsInit
<1>3. 1 .. 0 = {}  OBVIOUS
<1>4. HeardIsOfPage  BY <1>2 DEF HeardIsOfPage
<1>5. TasksRunAlone /\ ShiftsInOrder  BY <1>2 DEF TasksRunAlone, ShiftsInOrder
<1>6. TbtFollows
  <2>1. Blocked({}) = {}  BY DEF Blocked
  <2>2. TotalBlocking({}) = 0  BY <2>1, FS_EmptySet DEF TotalBlocking
  <2>3. 1 .. heard.tasks = {}  BY <1>2, <1>3
  <2> QED  BY <1>2, <2>2, <2>3 DEF TbtFollows, TbtIsOf
<1>7. SessionsFollow
  <2>1. Counted = {}  BY <1>2, <1>3 DEF Counted
  <2>2. OpenSessions({}) /\ Sums({}) = {0}  BY <2>1 DEF OpenSessions, Sums
  <2> QED  BY <1>2, <2>1, <2>2 DEF SessionsFollow
<1>8. ResultIsConsistent  BY <1>2 DEF ResultIsConsistent
<1> QED  BY <1>1, <1>4, <1>5, <1>6, <1>7, <1>8 DEF VitalsInv

\* The observers' invariant.
THEOREM VitalsInvariance == VitalsSpec => []VitalsInv
<1>1. VitalsInit => VitalsInv  BY VitalsInvInit
<1>2. VitalsInv /\ [VitalsNext]_vitalsVars => VitalsInv'
      BY VitalsTypeStep, HeardStep, TasksStep, BlockingStep, OrderStep, SessionsStep,
         ResultStep DEF VitalsInv
<1> QED  BY <1>1, <1>2, PTL DEF VitalsSpec

\* Every variable of Vitals keeps its type, whatever the page does.
THEOREM VitalsTypeCorrect == VitalsSpec => []VitalsTypeOK
<1>1. VitalsInv => VitalsTypeOK  BY DEF VitalsInv
<1> QED  BY <1>1, VitalsInvariance, PTL

\* One session and one maximum, kept over the entries in their order, are CLS
\* as the comment of Result.CLS defines it, for any gap, length and scores.
THEOREM ClsIsWorst == VitalsSpec => []ClsIsWorstSession
<1>1. VitalsInv => ClsIsWorstSession  BY DEF VitalsInv, SessionsFollow, ClsIsWorstSession
<1> QED  BY <1>1, VitalsInvariance, PTL

\* However late the observer of paints is, TBT is the blocking time of whole
\* tasks, all that began at FCP or later among them, and what it misses after FCP
\* is of one task at most, for any allowance and tasks.
THEOREM TbtCountsWholeTasks == VitalsSpec => []TbtIsOfWholeTasks
<1>1. VitalsInv => TbtIsOfWholeTasks  BY TbtIsAsStated DEF VitalsInv
<1> QED  BY <1>1, VitalsInvariance, PTL

\* Whatever was heard when the delay ended, what Collect returns is of one page
\* load, and its LCP is not before its FCP.
THEOREM ResultsAreConsistent == VitalsSpec => []ResultIsConsistent
<1>1. VitalsInv => ResultIsConsistent  BY DEF VitalsInv
<1> QED  BY <1>1, VitalsInvariance, PTL
===============================================================================
