-------------------------------- MODULE Vitals --------------------------------
(***************************************************************************)
(* The vitals of one page load (internal/collector/vitals/collector.go):   *)
(* the page paints, shifts and computes; four independent observers,       *)
(* installed before the navigation, hear of it in callbacks of their own,  *)
(* each in the order of its entries and at any time later; readVitalsJS    *)
(* takes what they have made of it, and Collect clamps LCP.                *)
(*                                                                         *)
(* A callback handles its batch entry by entry, so one entry is a step.    *)
(* Callbacks and readVitalsJS run on the main thread, between the tasks of *)
(* the page; a paint has the time it is presented at, which may lie within *)
(* a task. The page and the delivery of its entries are external.          *)
(***************************************************************************)
EXTENDS Naturals, Sequences, FiniteSets, FiniteSetsExt

CONSTANTS
    Gap,          \* a session ends after this gap (1000 ms)
    Cap,          \* and at this length (5000 ms)
    Allowance,    \* the part of a long task that does not block (50 ms)
    ResponseEnd,  \* responseEnd of the navigation entry
    Score,        \* the scores a layout shift may have
    LongTask,     \* the durations of long tasks
    MaxTime,      \* bound on the observation
    MaxEntries    \* bound on the shifts, tasks and candidates together

ASSUME WindowAssumption == Gap \in Nat /\ Cap \in Nat /\ Allowance \in Nat
ASSUME EntryAssumption ==
    /\ ResponseEnd \in Nat
    /\ Score \subseteq Nat \ {0}
    /\ LongTask \subseteq {d \in Nat : d > Allowance}
    /\ MaxTime \in Nat /\ MaxEntries \in Nat

VARIABLES
    now,         \* performance.now()
    painted,     \* startTime of first-contentful-paint, 0 before it
    candidates,  \* the entries of largest-contentful-paint
    shifts,      \* those of layout-shift
    tasks,       \* those of longtask
    begun,       \* when the long task that runs began, {} when none does
    heard,       \* how many of each the observer of that type was given
    g,           \* window.__loadstar
    session,     \* the session of layout shifts that is open
    result       \* what Collect returns, and {} before

pageVars == <<now, painted, candidates, shifts, tasks, begun>>
vitalsVars == <<pageVars, heard, g, session, result>>

Time == 0 .. MaxTime

VitalsTypeOK ==
    /\ now \in Time
    /\ painted \in Time
    /\ candidates \in Seq(Time)
    /\ shifts \in Seq([at : Time, value : Score, hadRecentInput : BOOLEAN])
    /\ tasks \in Seq([at : Time, duration : LongTask])
    /\ begun \subseteq Time
    /\ heard \in [{"paint", "candidates", "shifts", "tasks"} -> Nat]
    /\ g \in [lcp : Time, fcp : Time, cls : Nat, tbt : Nat]
    /\ session \in [value : Nat, start : Time, end : Time]
    /\ result \subseteq [lcp : Nat, fcp : Nat, cls : Nat, tbt : Nat]

VitalsInit ==
    /\ now = 0
    /\ painted = 0
    /\ candidates = <<>>
    /\ shifts = <<>>
    /\ tasks = <<>>
    /\ begun = {}
    /\ heard = [paint |-> 0, candidates |-> 0, shifts |-> 0, tasks |-> 0]
    /\ g = [lcp |-> 0, fcp |-> 0, cls |-> 0, tbt |-> 0]
    /\ session = [value |-> 0, start |-> 0, end |-> 0]
    /\ result = {}

-------------------------------------------------------------------------------
(* The page                                                                  *)

Observing == result = {}

RoomForEntry ==
    Len(candidates) + Len(shifts) + Len(tasks) + Cardinality(begun) < MaxEntries

\* The main thread runs one task at a time,
MainThreadIsFree == begun = {}

BeginTask ==
    /\ Observing /\ RoomForEntry
    /\ MainThreadIsFree
    /\ begun' = {now}
    /\ UNCHANGED <<now, painted, candidates, shifts, tasks, heard, g, session, result>>

\* and a long one is an entry once it is over.
EndTask ==
    /\ Observing
    /\ \E start \in begun :
          /\ now - start \in LongTask
          /\ tasks' = Append(tasks, [at |-> start, duration |-> now - start])
    /\ begun' = {}
    /\ UNCHANGED <<now, painted, candidates, shifts, heard, g, session, result>>

Elapse ==
    /\ Observing
    /\ now < MaxTime
    /\ now' = now + 1
    /\ UNCHANGED <<painted, candidates, shifts, tasks, begun, heard, g, session, result>>

\* The first content is the first candidate of the largest, too. A frame is
\* presented at any time, also while the main thread is at a task.
Paint ==
    /\ Observing /\ RoomForEntry
    /\ painted = 0 /\ now > 0
    /\ painted' = now
    /\ candidates' = <<now>>
    /\ UNCHANGED <<now, shifts, tasks, begun, heard, g, session, result>>

PaintLarger ==
    /\ Observing /\ RoomForEntry
    /\ painted > 0 /\ candidates[Len(candidates)] < now
    /\ candidates' = Append(candidates, now)
    /\ UNCHANGED <<now, painted, shifts, tasks, begun, heard, g, session, result>>

\* At most one shift is reported per frame.
Shift(score, input) ==
    /\ Observing /\ RoomForEntry
    /\ shifts # <<>> => shifts[Len(shifts)].at < now
    /\ shifts' = Append(shifts, [at |-> now, value |-> score, hadRecentInput |-> input])
    /\ UNCHANGED <<now, painted, candidates, tasks, begun, heard, g, session, result>>

-------------------------------------------------------------------------------
(* The observers                                                             *)

Hear(type) == heard' = [heard EXCEPT ![type] = @ + 1]

\* The next entry of a type for its observer.
Entry(type, entries) == entries[heard[type] + 1]

HearCandidate ==
    /\ Observing /\ MainThreadIsFree
    /\ heard.candidates < Len(candidates)
    /\ g' = [g EXCEPT !.lcp = Entry("candidates", candidates)]
    /\ Hear("candidates")
    /\ UNCHANGED <<pageVars, session, result>>

HearPaint ==
    /\ Observing /\ MainThreadIsFree
    /\ heard.paint = 0 /\ painted > 0
    /\ g' = [g EXCEPT !.fcp = painted]
    /\ Hear("paint")
    /\ UNCHANGED <<pageVars, session, result>>

\* Faulty variant: a session ends after a gap only.
SessionOverByGap(time) == session.value > 0 /\ time - session.end > Gap

SessionOver(time) ==
    session.value > 0 /\ (time - session.end > Gap \/ time - session.start > Cap)

\* Shifts that follow an input are ignored; a shift opens a session or goes on
\* with the one that is open, and the worst is kept.
HearShift ==
    /\ Observing /\ MainThreadIsFree
    /\ heard.shifts < Len(shifts)
    /\ LET e == Entry("shifts", shifts)
           before == IF SessionOver(e.at) THEN 0 ELSE session.value
           sum == before + e.value
       IN IF e.hadRecentInput
          THEN UNCHANGED <<session, g>>
          ELSE /\ session' = [value |-> sum, end |-> e.at,
                              start |-> IF before = 0 THEN e.at ELSE session.start]
               /\ g' = [g EXCEPT !.cls = Max({@, sum})]
    /\ Hear("shifts")
    /\ UNCHANGED <<pageVars, result>>

\* Faulty variant: a task that contains FCP is left out, as is one at FCP.
BeforeFcpLoosely(e) == g.fcp > 0 /\ e.at <= g.fcp

\* g.fcp > 0 && e.startTime < g.fcp
BeforeFcp(e) == g.fcp > 0 /\ e.at < g.fcp

Blocking(e) == e.duration - Allowance

HearTask ==
    /\ Observing /\ MainThreadIsFree
    /\ heard.tasks < Len(tasks)
    /\ LET e == Entry("tasks", tasks)
       IN g' = [g EXCEPT !.tbt = IF BeforeFcp(e) THEN @ ELSE @ + Blocking(e)]
    /\ Hear("tasks")
    /\ UNCHANGED <<pageVars, session, result>>

-------------------------------------------------------------------------------
(* The end of the observation                                                *)

\* Faulty variant: no paint entries are looked up.
FcpReadPlain == IF g.fcp > 0 THEN g.fcp ELSE ResponseEnd

\* readVitalsJS falls back to the paint entries, then to the response,
FcpRead ==
    IF g.fcp > 0 THEN g.fcp ELSE IF painted > 0 THEN painted ELSE ResponseEnd

\* and to the LCP entries, which a browser need not give out.
LcpRead ==
    IF g.lcp > 0 THEN {g.lcp}
    ELSE IF candidates = <<>> THEN {0} ELSE {0, candidates[Len(candidates)]}

\* The settle delay ends with whatever was heard; Collect makes LCP FCP at least.
ReadVitals ==
    /\ Observing /\ MainThreadIsFree
    /\ \E lcp \in LcpRead :
          result' = {[lcp |-> Max({lcp, FcpRead}), fcp |-> FcpRead,
                      cls |-> g.cls, tbt |-> g.tbt]}
    /\ UNCHANGED <<pageVars, heard, g, session>>

VitalsNext ==
    \/ Elapse \/ Paint \/ PaintLarger
    \/ BeginTask \/ EndTask
    \/ \E score \in Score, input \in BOOLEAN : Shift(score, input)
    \/ HearCandidate \/ HearPaint \/ HearShift \/ HearTask
    \/ ReadVitals

VitalsSpec == VitalsInit /\ [][VitalsNext]_vitalsVars

-------------------------------------------------------------------------------
(* Properties                                                                *)

\* The shifts without recent input that were heard.
Counted == {i \in 1 .. heard.shifts : ~shifts[i].hadRecentInput}

Before(S, i) == {j \in S : j < i}

\* The shifts that open a session: those later than the gap after every shift
\* before, or than the length of a session after every one that opened one.
OpenSessions(first) ==
    \A i \in Counted :
        i \in first <=>
            \/ \A j \in Before(Counted, i) : shifts[i].at - shifts[j].at > Gap
            \/ \A j \in Before(first, i) : shifts[i].at - shifts[j].at > Cap

\* The shifts from one that opens a session to the next that does.
SessionFrom(i, first) == {j \in Counted : i <= j /\ \A k \in first : i < k => j < k}

\* A score, as the number of its points: a set can be reasoned of by its members.
Points(S) == UNION {{i} \X (1 .. shifts[i].value) : i \in S}

SumOfScores(S) == Cardinality(Points(S))

Sums(first) == {0} \cup {SumOfScores(SessionFrom(i, first)) : i \in first}

\* CLS is at any time the sum of the worst session of the shifts that were
\* heard, as the comment of Result.CLS defines one (a session is closed by its
\* gap or by its length, whichever is first, and both are counted from shifts
\* that are counted), though the observer keeps one session and one maximum.
ClsIsWorstSession ==
    \E first \in SUBSET Counted :
        /\ OpenSessions(first)
        /\ g.cls \in Sums(first)
        /\ \A sum \in Sums(first) : sum <= g.cls

\* The moments that the tasks of S block: those after the allowance of one.
Blocked(S) ==
    {t \in Time : \E i \in S : /\ tasks[i].at + Allowance <= t
                              /\ t < tasks[i].at + tasks[i].duration}

TotalBlocking(S) == Cardinality(Blocked(S))

FromPaint(S) == {i \in S : tasks[i].at >= painted}

\* The task goes on after FCP.
EndsAfterPaint(i) == tasks[i].at + tasks[i].duration > painted

\* Whatever the order in which the two observers hear of the tasks and of FCP,
\* TBT is the blocking time of whole tasks, no moment twice: of all tasks while
\* FCP was not heard, and of all that began at FCP or later. Of the blocking
\* time after FCP it misses that of one task at most, the one that FCP was in.
TbtIsOfWholeTasks ==
    \E S \in SUBSET (1 .. heard.tasks) :
        LET left == (1 .. heard.tasks) \ S
        IN /\ g.tbt = TotalBlocking(S)
           /\ heard.paint = 0 => left = {}
           /\ FromPaint(left) = {}
           /\ \A i, j \in left : EndsAfterPaint(i) /\ EndsAfterPaint(j) => i = j

\* What Collect returns is of this page, even of observers that were late: FCP
\* is when it was painted if it was, LCP is one of its candidates or FCP, and
\* LCP is not before FCP.
ResultIsConsistent ==
    \A r \in result :
        /\ painted > 0 => r.fcp = painted
        /\ r.lcp = r.fcp \/ \E i \in DOMAIN candidates : r.lcp = candidates[i]
        /\ r.lcp >= r.fcp

\* "TBT: blocking portion (duration - 50ms) of long tasks after FCP."
\* (internal/collector/vitals/collector.go). This allows for a task that FCP was
\* in, all of it, and for one that ended with it.
TbtIsAfterFcp ==
    \A r \in result :
        painted > 0 =>
            r.tbt <= TotalBlocking({i \in DOMAIN tasks :
                                       tasks[i].at + tasks[i].duration >= painted})
===============================================================================
