---------------------------------- MODULE Rum ----------------------------------
(***************************************************************************)
(* The RUM events of one page, from the limiter of RumIngest through their *)
(* table to the summary of GET /v1/rum/summary (internal/api/rum.go,       *)
(* internal/store/rum.go), and their purge (internal/job/retention.go).    *)
(*                                                                         *)
(* An event is its metric and its age, in the units of RumIngest.  The     *)
(* values are left out: a percentile is of the events that were selected.  *)
(***************************************************************************)
EXTENDS RumIngest, FiniteSetsExt

CONSTANTS
    Metric,     \* rumMetrics
    Limit,      \* rumValuesLimit
    Retention,  \* the age up to which events are kept
    Horizon     \* bound: ages from this on are one

ASSUME MetricAssumption == IsFiniteSet(Metric)
ASSUME LimitAssumption == Limit \in Nat /\ Retention \in Nat /\ Horizon \in Nat

VARIABLES
    stamp,  \* the age of the CreatedAt that a request is inserting
    table   \* table[m][a]: the events of the page of metric m and of age a

rumVars == <<vars, stamp, table>>

Age == 0 .. Horizon

\* The windows of the summary; the last is any that goes beyond.
Window == Age

RumTypeOK ==
    /\ TypeOK
    /\ stamp \in [Request -> Age]
    /\ table \in [Metric -> [Age -> Nat]]

RumInit ==
    /\ Init
    /\ stamp = [r \in Request |-> 0]
    /\ table = [m \in Metric |-> [a \in Age |-> 0]]

\* time.Now() is taken before the INSERT, which may wait for the file.
ValidateEvent(r) ==
    /\ Validate(r)
    /\ stamp' = [stamp EXCEPT ![r] = 0]
    /\ UNCHANGED table

\* The event may be of another page, or not be stored.
SaveEvent(r) ==
    /\ Save(r)
    /\ \/ UNCHANGED table
       \/ /\ savedAhead' = savedAhead + Grain
          /\ \E m \in Metric :
                table' = [table EXCEPT ![m][stamp[r]] =
                             IF stamp[r] = Horizon THEN AtMost(@ + 1, Limit) ELSE @ + 1]
    /\ UNCHANGED stamp

Older(events) ==
    [a \in Age |-> IF a = 0 THEN 0
                   ELSE IF a = Horizon
                        THEN AtMost(events[a] + events[a - 1], Limit) ELSE events[a - 1]]

\* Everything is a unit older.
GrowOlder ==
    /\ Elapse
    /\ stamp' = [r \in Request |-> AtMost(stamp[r] + 1, Horizon)]
    /\ table' = [m \in Metric |-> Older(table[m])]

\* PurgeOldRUMEvents, from the retention loop.
PurgeOldRUMEvents ==
    /\ table' = [m \in Metric |-> [a \in Age |-> IF a > Retention THEN 0 ELSE table[m][a]]]
    /\ UNCHANGED <<vars, stamp>>

ServeEvent(r) ==
    \/ (Admit(r) \/ Refuse(r)) /\ UNCHANGED <<stamp, table>>
    \/ ValidateEvent(r) \/ SaveEvent(r)

RumNext ==
    \/ GrowOlder \/ PurgeOldRUMEvents
    \/ \E r \in Request :
          \/ Arrive(r) /\ UNCHANGED <<stamp, table>>
          \/ ServeEvent(r)

RumSpec == RumInit /\ [][RumNext]_rumVars

\* Time goes on, handlers end, and the clients keep sending.
FairRumSpec ==
    /\ RumSpec
    /\ WF_rumVars(GrowOlder)
    /\ \A r \in Request :
          /\ WF_rumVars(Arrive(r) /\ UNCHANGED <<stamp, table>>)
          /\ WF_rumVars(ServeEvent(r))

-------------------------------------------------------------------------------
(* The summary                                                               *)

\* The events of these ages, those of one metric and one age with a number each.
Stored(ages) ==
    UNION {{<<m, a, n>> : n \in 1 .. table[m][a]} : m \in Metric, a \in ages}

EventsIn(ages) == Cardinality(Stored(ages))

\* Faulty variant: oldest first.
SelectedFirstOldest(w, a) == Limit - EventsIn((a + 1) .. w)

\* What the LIMIT leaves for the events of age a: ORDER BY created_at DESC.
SelectedFirst(w, a) == Limit - EventsIn(0 .. (a - 1))

\* GetRUMValues of the last w units: how many events of each metric and age the
\* query may give back.  The LIMIT is one for all metrics, and those of the age
\* where it falls come in any order.
GetRUMValues(w) ==
    LET Cut(a) == SelectedFirst(w, a) < EventsIn({a})
        Left(a) == IF SelectedFirst(w, a) > 0 THEN SelectedFirst(w, a) ELSE 0
        Possible(a) ==
            IF Cut(a)
            THEN {f \in [Metric -> 0 .. Limit] :
                    /\ \A m \in Metric : f[m] <= table[m][a]
                    /\ MapThenSumSet(LAMBDA m : f[m], Metric) = Left(a)}
            ELSE {[m \in Metric |-> table[m][a]]}
    IN [a \in 0 .. w |-> Possible(a)]

-------------------------------------------------------------------------------
(* Properties                                                                *)

\* How far back the limiter leaves the LIMIT of the query enough: what it may
\* admit in that time, a burst, and a request that is slow in each handler.
Covered == Limit * Grain - Full - Cardinality(Request) * Grain

\* A summary counts every stored event of its window that is at most Covered
\* old, of every metric, however the page is hammered with events of another
\* and whatever the events do on their way to the table.
SummaryIsOfAll ==
    \A w \in Window : \A a \in 0 .. w :
        a <= Covered /\ a < Horizon
            => GetRUMValues(w)[a] = {[m \in Metric |-> table[m][a]]}
===============================================================================
