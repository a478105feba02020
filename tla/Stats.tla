--------------------------------- MODULE Stats ---------------------------------
(***************************************************************************)
(* Percentile and Median (internal/stats/stats.go) over sequences of       *)
(* integers.  Results are hundredths, so that the interpolation between    *)
(* two ranks is exact.                                                     *)
(***************************************************************************)
EXTENDS Integers, Sequences, FiniteSets

\* The indexes that come up to i when the values are sorted.
UpTo(values, i) ==
    {j \in DOMAIN values : values[j] < values[i] \/ (values[j] = values[i] /\ j <= i)}

\* sort.Float64s of a copy
Sorted(values) ==
    [n \in DOMAIN values |->
        values[CHOOSE i \in DOMAIN values : Cardinality(UpTo(values, i)) = n]]

\* Faulty variant: the values in the order they came.
PercentileUnsorted(values, p) ==
    LET rank == p * (Len(values) - 1)
        lo == rank \div 100 + 1
    IN IF lo >= Len(values) THEN 100 * values[lo]
       ELSE 100 * values[lo] + (rank % 100) * (values[lo + 1] - values[lo])

\* Linear interpolation between the closest ranks, 0 for no values.
Percentile(values, p) ==
    LET sorted == Sorted(values)
        rank == p * (Len(values) - 1)
        lo == rank \div 100 + 1
        frac == rank % 100
    IN CASE values = <<>> -> 0
         [] values # <<>> /\ p <= 0 -> 100 * sorted[1]
         [] values # <<>> /\ p >= 100 -> 100 * sorted[Len(values)]
         [] OTHER -> IF lo >= Len(values)
                     THEN 100 * sorted[lo]
                     ELSE 100 * sorted[lo] + frac * (sorted[lo + 1] - sorted[lo])

Median(values) == Percentile(values, 50)
===============================================================================
