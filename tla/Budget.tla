-------------------------------- MODULE Budget ---------------------------------
(***************************************************************************)
(* The verdict on a job that carries a budget (internal/budget/budget.go): *)
(* the metrics that each run collected, their aggregation and the          *)
(* evaluation of the assertions, which the worker (processJob) and         *)
(* "loadstar run" (evaluateBudget) share.  Go visits a map in no           *)
(* particular order, so the order of the assertions is open here too.      *)
(* These are the steps of the verdict; CliRun composes them into a run.    *)
(***************************************************************************)
EXTENDS Integers, Sequences, FiniteSets, Stats

CONSTANTS
    Tier,       \* the tiers of the job
    Keys,       \* Keys[t]: the metrics of tier t (metricKeys)
    Value,      \* the values a metric may have
    Threshold,  \* the bounds a budget may set
    MaxRuns     \* bound on the runs of a job

None == "none"

\* A pointer: the set of what it points to, empty when it is nil.
Pointer(S) == {{}} \cup {{v} : v \in S}

Metric == UNION {Keys[t] : t \in Tier}

ASSUME ValueAssumption == Value \subseteq Int /\ Threshold \subseteq Int
ASSUME RunsAssumption == MaxRuns \in Nat

VARIABLES
    assertions,  \* Budget.Assertions
    runsLeft,    \* runs that have not ended
    runMetrics,  \* the metrics of the runs that have
    unvisited,   \* assertions the loop of Evaluate has not visited
    status,      \* eval.Status, None before Evaluate
    results      \* eval.Assertions; sortResults makes one list of the set

vars == <<assertions, runsLeft, runMetrics, unvisited, status, results>>

Assertion ==
    {a \in [max : Pointer(Threshold), min : Pointer(Threshold),
            level : {"", "warn", "error"}] : a.max \cup a.min # {}}

\* The budgets that Validate lets through.
Budgets == UNION {[keys -> Assertion] : keys \in SUBSET Metric \ {{}}}

\* Flatten: a tier contributes all its metrics, or none.
Samples == UNION {[UNION {Keys[t] : t \in collected} -> Value] :
                    collected \in SUBSET Tier}

Verdict == {"pass", "warn", "fail"}

TypeOK ==
    /\ assertions \in Budgets
    /\ runsLeft \in 0 .. MaxRuns
    /\ runMetrics \in Seq(Samples)
    /\ unvisited \subseteq DOMAIN assertions
    /\ status \in Verdict \cup {None}
    /\ results \subseteq [metric : Metric, op : {"max", "min"}, status : Verdict]

Init ==
    /\ assertions \in Budgets
    /\ runsLeft \in 0 .. MaxRuns
    /\ runMetrics = <<>>
    /\ unvisited = {}
    /\ status = None
    /\ results = {}

-------------------------------------------------------------------------------
(* Aggregate                                                                 *)

Collecting(k) == {i \in DOMAIN runMetrics : k \in DOMAIN runMetrics[i]}

\* The n-th run to append to byKey[k].
Appending(k, n) ==
    CHOOSE i \in Collecting(k) : Cardinality({j \in Collecting(k) : j <= i}) = n

\* byKey[k]
ValuesOf(k) == [n \in 1 .. Cardinality(Collecting(k)) |-> runMetrics[Appending(k, n)][k]]

\* agg[k], in hundredths, if any run collected the metric
Aggregate(k) == IF ValuesOf(k) = <<>> THEN {} ELSE {Median(ValuesOf(k))}

-------------------------------------------------------------------------------
(* Evaluate                                                                  *)

\* tripStatus of the level, or of LevelError for an assertion without one
tripStatus(level) == IF level = "warn" THEN "warn" ELSE "fail"

Violates(op, bound, actual) ==
    IF op = "max" THEN actual > 100 * bound ELSE actual < 100 * bound

\* Faulty variant: a missing metric passes.
TripsIfMeasured(op, bound, actual) == \E v \in actual : Violates(op, bound, v)

\* A missing metric trips its assertion.
Trips(op, bound, actual) == \A v \in actual : Violates(op, bound, v)

\* The results of an assertion, one for each bound that is set.
ResultsOf(k) ==
    LET a == assertions[k]
        ResultOf(op, bound) ==
            [metric |-> k, op |-> op,
             status |-> IF Trips(op, bound, Aggregate(k)) THEN tripStatus(a.level) ELSE "pass"]
    IN {ResultOf("max", t) : t \in a.max} \cup {ResultOf("min", t) : t \in a.min}

\* Faulty variant: the last assertion that trips decides.
WorstLast(before, found) ==
    IF "fail" \in found THEN "fail" ELSE IF "warn" \in found THEN "warn" ELSE before

Worst(before, found) ==
    IF "fail" \in found THEN "fail"
    ELSE IF "warn" \in found /\ before = "pass" THEN "warn" ELSE before

\* One run of processJob, or of runCmd: a tier that fails may contribute
\* nothing, or what it had collected by then (network keeps its timing).
CollectRun ==
    /\ runsLeft > 0
    /\ \E run \in Samples : runMetrics' = Append(runMetrics, run)
    /\ runsLeft' = runsLeft - 1
    /\ UNCHANGED <<assertions, unvisited, status, results>>

BeginEvaluate ==
    /\ runsLeft = 0
    /\ status = None
    /\ unvisited' = DOMAIN assertions
    /\ status' = "pass"
    /\ UNCHANGED <<assertions, runsLeft, runMetrics, results>>

\* One iteration of the loop over b.Assertions.
VisitAssertion(k) ==
    /\ k \in unvisited
    /\ unvisited' = unvisited \ {k}
    /\ results' = results \cup ResultsOf(k)
    /\ status' = Worst(status, {r.status : r \in ResultsOf(k)})
    /\ UNCHANGED <<assertions, runsLeft, runMetrics>>

-------------------------------------------------------------------------------
(* Properties                                                                *)

Evaluated == status # None /\ unvisited = {}

\* The k-th smallest value of a metric, by counting.
OrderStatistic(k, rank) ==
    LET runs == {i \in DOMAIN runMetrics : k \in DOMAIN runMetrics[i]}
    IN CHOOSE v \in Value :
         /\ Cardinality({i \in runs : runMetrics[i][k] < v}) < rank
         /\ Cardinality({i \in runs : runMetrics[i][k] <= v}) >= rank

Count(k) == Cardinality({i \in DOMAIN runMetrics : k \in DOMAIN runMetrics[i]})

\* Twice the middle of the values, by the definition of the median.
TwiceMiddle(k) ==
    OrderStatistic(k, (Count(k) + 1) \div 2) + OrderStatistic(k, Count(k) \div 2 + 1)

Respected(k) ==
    /\ Count(k) > 0
    /\ \A t \in assertions[k].max : TwiceMiddle(k) <= 2 * t
    /\ \A t \in assertions[k].min : TwiceMiddle(k) >= 2 * t

\* Evaluate: the verdict is "fail" if an assertion that does not only warn is
\* not respected by the middle of the collected values, else "warn" if one that
\* warns is not, else "pass", in whatever order the map of assertions and the
\* runs come; a metric without values respects nothing.
VerdictIsWorst ==
    LET broken == {k \in DOMAIN assertions : ~Respected(k)}
    IN Evaluated =>
         /\ status = "fail" <=> \E k \in broken : assertions[k].level # "warn"
         /\ status = "pass" <=> broken = {}
         /\ \A r \in results : r.status # "pass" => r.metric \in broken

\* Run i, taken alone, meets every assertion.
Meets(i) ==
    \A k \in DOMAIN assertions :
      /\ k \in DOMAIN runMetrics[i]
      /\ \A t \in assertions[k].max : runMetrics[i][k] <= t
      /\ \A t \in assertions[k].min : runMetrics[i][k] >= t

\* Two runs that meet the budget outvote a third, whether it measured a spike
\* or failed to measure ("a single noisy run does not decide the verdict").
TwoRunsOutvoteOne ==
    Evaluated =>
      \A i \in DOMAIN runMetrics :
        (Len(runMetrics) >= 3 /\ \A j \in DOMAIN runMetrics \ {i} : Meets(j))
          => status = "pass"
===============================================================================
