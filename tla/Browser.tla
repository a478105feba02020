-------------------------------- MODULE Browser --------------------------------
(***************************************************************************)
(* The headless Chrome that the workers of the daemon share: its lazy      *)
(* start (browserManager, internal/job/manager.go), the tab that each      *)
(* browser-driven tier of a run opens, throttles, measures in and closes   *)
(* (internal/chrome, internal/profile, processJob), and Stop.  Chrome may  *)
(* fail to start, hang in any call, and die.                               *)
(*                                                                         *)
(* chromedp and Chrome are external.  What is taken of them: launching     *)
(* returns; a call in a tab whose context is cancelled returns an error;   *)
(* closing a tab returns unless the browser never started (the comment of  *)
(* NewManager); tabs that are opened without a browser context of their    *)
(* own share the cookies and the cache of the browser.                     *)
(***************************************************************************)
EXTENDS Naturals, FiniteSets

CONSTANTS
    Worker,    \* the workers of the pool
    MaxTiers   \* the browser-driven tiers of a run (browser, vitals)

ASSUME WorkerAssumption == IsFiniteSet(Worker)
ASSUME TiersAssumption == MaxTiers \in Nat \ {0}

VARIABLES
    once,       \* m.chromeOnce
    startErr,   \* whether NewManager has set startErr
    running,    \* the Chrome processes
    ctxLive,    \* m.ctx
    closed,     \* Stop is through
    at,         \* where each worker stands
    left,       \* the browser-driven tiers its run has yet to attempt
    throttle,   \* whether the profile of its job is other than "none"
    runCtx,     \* whether its runCtx is live
    tab,        \* its tab
    stray,      \* the workers of which a run that panicked has left a tab open
    throttled,  \* whether that tab emulates the conditions of the profile
    outcome,    \* what its tier came to
    jar         \* whose run it is that has left cookies and cache in the browser

browserVars == <<once, startErr, running>>
runVars == <<left, throttle, runCtx>>
tabVars == <<tab, throttled, outcome>>
vars == <<browserVars, ctxLive, closed, at, runVars, tabVars, stray, jar>>

\* The jar is empty, or holds what several runs, or one that is over, have left.
Clean == "clean"
Shared == "shared"

InTier == {"asking", "launching", "opening", "applying", "collecting", "closing"}

TypeOK ==
    /\ once \in {"unused", "started", "done"}
    /\ startErr \in BOOLEAN
    /\ running \in 0 .. 1
    /\ ctxLive \in BOOLEAN
    /\ closed \in BOOLEAN
    /\ at \in [Worker -> InTier \cup {"idle", "exited"}]
    /\ left \in [Worker -> 0 .. MaxTiers]
    /\ throttle \in [Worker -> BOOLEAN]
    /\ runCtx \in [Worker -> BOOLEAN]
    /\ tab \in [Worker -> {"none", "open", "cancelled"}]
    /\ stray \subseteq Worker
    /\ throttled \in [Worker -> BOOLEAN]
    /\ outcome \in [Worker -> {"none", "failed", "measured"}]
    /\ jar \in Worker \cup {Clean, Shared}

Init ==
    /\ once = "unused"
    /\ startErr = FALSE
    /\ running = 0
    /\ ctxLive = TRUE
    /\ closed = FALSE
    /\ at = [w \in Worker |-> "idle"]
    /\ left = [w \in Worker |-> 0]
    /\ throttle = [w \in Worker |-> FALSE]
    /\ runCtx = [w \in Worker |-> FALSE]
    /\ tab = [w \in Worker |-> "none"]
    /\ stray = {}
    /\ throttled = [w \in Worker |-> FALSE]
    /\ outcome = [w \in Worker |-> "none"]
    /\ jar = Clean

Goto(w, place) == at' = [at EXCEPT ![w] = place]

-------------------------------------------------------------------------------
(* A worker, in a run with browser-driven tiers                              *)

\* context.WithTimeout(m.ctx, timeout), and the first of those tiers.
StartRun(w) ==
    /\ at[w] = "idle"
    /\ \E n \in 1 .. MaxTiers : left' = [left EXCEPT ![w] = n]
    /\ \E wanted \in BOOLEAN : throttle' = [throttle EXCEPT ![w] = wanted]
    /\ runCtx' = [runCtx EXCEPT ![w] = ctxLive]
    /\ Goto(w, "asking")
    /\ UNCHANGED <<browserVars, ctxLive, closed, tabVars, stray, jar>>

\* Faulty variant: if m.chrome == nil, without the Once.
AskBrowserUnguarded(w) ==
    /\ at[w] = "asking"
    /\ IF once = "done"
       THEN Goto(w, "opening") /\ UNCHANGED once
       ELSE Goto(w, "launching") /\ once' = "started"
    /\ UNCHANGED <<startErr, running, ctxLive, closed, runVars, tabVars, stray, jar>>

\* browserManager: the first to come launches, and who comes while it does
\* waits for it, whatever becomes of the run's deadline.
AskBrowser(w) ==
    /\ at[w] = "asking"
    /\ \/ once = "unused" /\ once' = "started" /\ Goto(w, "launching")
       \/ once = "done" /\ UNCHANGED once /\ Goto(w, "opening")
    /\ UNCHANGED <<startErr, running, ctxLive, closed, runVars, tabVars, stray, jar>>

\* NewManager returns, with the error of chromedp.Run if there is one.
Launch(w) ==
    /\ at[w] = "launching"
    /\ once' = "done"
    /\ \/ running' = running + 1 /\ startErr' = FALSE
       \/ running' = running /\ startErr' = TRUE
    /\ Goto(w, "opening")
    /\ UNCHANGED <<ctxLive, closed, runVars, tabVars, stray, jar>>

\* The tier is over: the next one, or the end of the run (runCancel).
EndTier(w) ==
    /\ left' = [left EXCEPT ![w] = @ - 1]
    /\ IF left[w] > 1
       THEN Goto(w, "asking") /\ UNCHANGED <<runCtx, jar>>
       ELSE /\ Goto(w, "idle")
            /\ runCtx' = [runCtx EXCEPT ![w] = FALSE]
            /\ jar' = IF jar = w THEN Shared ELSE jar
    /\ UNCHANGED throttle

\* Faulty variant: the error of the launch is not remembered.
OpenTabAnyway(w) ==
    /\ at[w] = "opening"
    /\ tab' = [tab EXCEPT ![w] = "open"]
    /\ Goto(w, "applying")
    /\ UNCHANGED <<browserVars, ctxLive, closed, runVars, throttled, outcome, stray, jar>>

\* Manager.NewContext: fails fast if the browser never started.
OpenTab(w) ==
    /\ at[w] = "opening"
    /\ \/ startErr /\ EndTier(w) /\ UNCHANGED tab
       \/ /\ ~startErr
          /\ tab' = [tab EXCEPT ![w] = "open"]
          /\ Goto(w, "applying")
          /\ UNCHANGED <<runVars, jar>>
    /\ UNCHANGED <<browserVars, ctxLive, closed, throttled, outcome, stray>>

\* Faulty variant: a tab ends with the manager, and not with its run.
CancelTabByStop(w) ==
    /\ tab[w] = "open"
    /\ ~ctxLive
    /\ tab' = [tab EXCEPT ![w] = "cancelled"]
    /\ UNCHANGED <<browserVars, ctxLive, closed, at, runVars, throttled, outcome, stray, jar>>

\* context.AfterFunc(ctx, tabCancel), in a goroutine of its own.
CancelTab(w) ==
    /\ tab[w] = "open"
    /\ ~runCtx[w]
    /\ tab' = [tab EXCEPT ![w] = "cancelled"]
    /\ UNCHANGED <<browserVars, ctxLive, closed, at, runVars, throttled, outcome, stray, jar>>

\* A call in the tab may work.
Responds(w) == tab[w] = "open" /\ running > 0

\* Faulty variant: the error of profile.Apply is dropped.
ApplyProfileLoosely(w) ==
    /\ at[w] = "applying"
    /\ Goto(w, "collecting")
    /\ throttled' \in {throttled, [throttled EXCEPT ![w] = throttle[w]]}
    /\ UNCHANGED <<browserVars, ctxLive, closed, runVars, tab, outcome, stray, jar>>

\* collectThrottled: profile.Apply, which does nothing for "none".
ApplyProfile(w) ==
    /\ at[w] = "applying"
    /\ ~throttle[w] \/ Responds(w)
    /\ throttled' = [throttled EXCEPT ![w] = throttle[w]]
    /\ Goto(w, "collecting")
    /\ UNCHANGED <<browserVars, ctxLive, closed, runVars, tab, outcome, stray, jar>>

\* A page of the run of w leaves something in the browser.
Spill(w) == jar' = IF jar \in {Clean, w} THEN w ELSE Shared

\* The collector navigates and reads what the page has measured.
Collect(w) ==
    /\ at[w] = "collecting"
    /\ Responds(w)
    /\ Spill(w)
    /\ outcome' = [outcome EXCEPT ![w] = "measured"]
    /\ Goto(w, "closing")
    /\ UNCHANGED <<browserVars, ctxLive, closed, runVars, tab, throttled, stray>>

\* Either fails, before or after the page has left something.
FailInTab(w) ==
    /\ \/ at[w] = "applying" /\ throttle[w] /\ UNCHANGED jar
       \/ at[w] = "collecting" /\ (Spill(w) \/ UNCHANGED jar)
    /\ outcome' = [outcome EXCEPT ![w] = "failed"]
    /\ Goto(w, "closing")
    /\ UNCHANGED <<browserVars, ctxLive, closed, runVars, tab, throttled, stray>>

\* bCancel: stop(), then tabCancel().
CloseTab(w) ==
    /\ at[w] = "closing"
    /\ ~startErr
    /\ tab' = [tab EXCEPT ![w] = "none"]
    /\ throttled' = [throttled EXCEPT ![w] = FALSE]
    /\ outcome' = [outcome EXCEPT ![w] = "none"]
    /\ EndTier(w)
    /\ UNCHANGED <<browserVars, ctxLive, closed, stray>>

\* A collector panics: the worker recovers and drops the job, and neither
\* bCancel nor runCancel is called.  One such tab per worker, to bound them.
Panic(w) ==
    /\ at[w] = "collecting"
    /\ w \notin stray
    /\ stray' = stray \cup {w}
    /\ tab' = [tab EXCEPT ![w] = "none"]
    /\ throttled' = [throttled EXCEPT ![w] = FALSE]
    /\ left' = [left EXCEPT ![w] = 0]
    /\ Goto(w, "idle")
    /\ runCtx' = [runCtx EXCEPT ![w] = FALSE]
    /\ jar' = Shared
    /\ UNCHANGED <<browserVars, ctxLive, closed, throttle, outcome>>

\* What closes it is the deadline of its run, by the same AfterFunc.
CloseStray(w) ==
    /\ w \in stray
    /\ stray' = stray \ {w}
    /\ UNCHANGED <<browserVars, ctxLive, closed, at, runVars, tabVars, jar>>

\* case <-m.ctx.Done()
ExitWorker(w) ==
    /\ at[w] = "idle"
    /\ ~ctxLive
    /\ Goto(w, "exited")
    /\ UNCHANGED <<browserVars, ctxLive, closed, runVars, tabVars, stray, jar>>

-------------------------------------------------------------------------------
(* Time, Chrome and Stop                                                     *)

\* The timeout of the run passes.
ExpireRun(w) ==
    /\ at[w] \in InTier
    /\ runCtx[w]
    /\ runCtx' = [runCtx EXCEPT ![w] = FALSE]
    /\ UNCHANGED <<browserVars, ctxLive, closed, at, left, throttle, tabVars, stray, jar>>

\* Nobody starts it again.
ChromeDies ==
    /\ running > 0
    /\ running' = running - 1
    /\ jar' = Clean
    /\ UNCHANGED <<once, startErr, ctxLive, closed, at, runVars, tabVars, stray>>

\* Stop: m.cancel(), which ends every runCtx,
CancelContext ==
    /\ ctxLive
    /\ ctxLive' = FALSE
    /\ runCtx' = [w \in Worker |-> FALSE]
    /\ UNCHANGED <<browserVars, closed, at, left, throttle, tabVars, stray, jar>>

\* Close ends the process of m.chrome.
CloseChrome ==
    /\ closed' = TRUE
    /\ running' = IF once = "done" /\ running > 0 THEN running - 1 ELSE running
    /\ stray' = {}
    /\ UNCHANGED <<once, startErr, ctxLive, at, runVars, tabVars, jar>>

\* m.wg.Wait(), then m.chrome.Close() if there is one.
FinishStop ==
    /\ ~ctxLive /\ ~closed
    /\ \A w \in Worker : at[w] = "exited"
    /\ CloseChrome

\* A new process begins where this one did.
Restart ==
    /\ closed
    /\ once' = "unused" /\ startErr' = FALSE /\ running' = 0
    /\ ctxLive' = TRUE /\ closed' = FALSE
    /\ at' = [w \in Worker |-> "idle"]
    /\ jar' = Clean
    /\ UNCHANGED <<runVars, tabVars, stray>>

WorkerStep(w) ==
    \/ AskBrowser(w) \/ Launch(w) \/ OpenTab(w) \/ ApplyProfile(w) \/ Collect(w)
    \/ FailInTab(w) \/ Panic(w) \/ CloseTab(w) \/ ExitWorker(w)

Next ==
    \/ \E w \in Worker : StartRun(w) \/ WorkerStep(w) \/ CancelTab(w) \/ ExpireRun(w)
                         \/ CloseStray(w)
    \/ ChromeDies \/ CancelContext \/ FinishStop \/ Restart

Spec == Init /\ [][Next]_vars

\* Goroutines run, launching and closing return, deadlines pass.  A call that
\* is made in a tab need not return before the tab is cancelled.
Fairness ==
    /\ \A w \in Worker :
          /\ WF_vars(AskBrowser(w)) /\ WF_vars(Launch(w)) /\ WF_vars(OpenTab(w))
          /\ WF_vars(~throttle[w] /\ ApplyProfile(w))
          /\ WF_vars(tab[w] = "cancelled" /\ FailInTab(w))
          /\ WF_vars(CloseTab(w)) /\ WF_vars(CancelTab(w)) /\ WF_vars(CloseStray(w))
          /\ WF_vars(ExpireRun(w)) /\ SF_vars(ExitWorker(w))
    /\ WF_vars(FinishStop)

FairSpec == Spec /\ Fairness

-------------------------------------------------------------------------------
(* Properties                                                                *)

\* Whatever Chrome does (it never started, hangs, dies at any call), a worker
\* comes out of its browser tiers, a tab that it leaves behind is closed, and
\* Stop comes out of its wait.
TiersEnd ==
    /\ \A w \in Worker : at[w] \in InTier ~> at[w] \in {"idle", "exited"}
    /\ \A w \in Worker : w \in stray ~> w \notin stray
    /\ ~ctxLive ~> ctxLive \/ closed

\* "A worker pool ensures that the system doesn't spawn an unbounded number of
\* Chrome instances" (docs/decisions.md): the workers launch one at most between
\* them, whoever comes first, and Stop leaves none behind, nor a tab.
ChromeIsClosed ==
    /\ running <= 1
    /\ closed => running = 0 /\ stray = {} /\ \A w \in Worker : tab[w] = "none"

\* A measurement was taken under the conditions that its job asks for: in a tab
\* that is throttled, or in one that no earlier tier has throttled.
ThrottlingIsHonest ==
    \A w \in Worker : outcome[w] = "measured" => (throttled[w] <=> throttle[w])

\* A browser that never started is not handed out.
NoTabWithoutChrome ==
    startErr => \A w \in Worker : tab[w] = "none"

\* "we share the browser process between tests while keeping the data
\* (cookies/cache) separate for each run" (GETTING_STARTED.md).
RunsAreIsolated ==
    \A w \in Worker : at[w] = "collecting" => jar \in {Clean, w}
===============================================================================
