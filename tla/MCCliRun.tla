------------------------------- MODULE MCCliRun --------------------------------
(* Two tiers of one metric each, runs up to three, a threshold between values. *)
EXTENDS CliRun

OneMetricEach == [t \in Tier |-> {t}]

\* Any one assertion on a metric, and any two that set a maximum.
Files ==
    {b \in Budgets :
        \/ DOMAIN b = {"network"}
        \/ \A k \in DOMAIN b : b[k].min = {} /\ b[k].level # ""}
===============================================================================
