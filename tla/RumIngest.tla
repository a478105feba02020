------------------------------- MODULE RumIngest -------------------------------
(***************************************************************************)
(* POST /v1/rum (internal/api/rum.go): concurrent requests, one token      *)
(* bucket for all of them, and the table of events.                        *)
(*                                                                         *)
(* The unit of time is what it takes to refill one part of a token, Grain  *)
(* of which make a token: perSecond is one part per unit, and fractions of *)
(* tokens are whole numbers of parts.                                      *)
(***************************************************************************)
EXTENDS Naturals, FiniteSets

CONSTANTS
    Request,  \* the requests that may be served at the same time
    Grain,    \* the parts of a token
    Burst     \* rumBurst, in tokens

ASSUME RequestAssumption == IsFiniteSet(Request)
ASSUME BucketAssumption == Grain \in Nat \ {0} /\ Burst \in Nat \ {0}

VARIABLES
    tokens,      \* b.tokens, in parts
    unrefilled,  \* now - b.lastRefill; what exceeds a full bucket is cut off
    phase,       \* where each request stands
    ahead,       \* history: by how much the admissions lead the rate
    savedAhead   \* history: by how much the insertions lead the rate

vars == <<tokens, unrefilled, phase, ahead, savedAhead>>

\* b.max
Full == Burst * Grain

TypeOK ==
    /\ tokens \in 0 .. Full
    /\ unrefilled \in 0 .. Full
    /\ phase \in [Request -> {"idle", "arrived", "admitted", "saving"}]
    /\ ahead \in Nat
    /\ savedAhead \in Nat

\* newTokenBucket
Init ==
    /\ tokens = Full
    /\ unrefilled = 0
    /\ phase = [r \in Request |-> "idle"]
    /\ ahead = 0
    /\ savedAhead = 0

AtMost(a, b) == IF a < b THEN a ELSE b

Goto(r, p) == phase' = [phase EXCEPT ![r] = p]

\* A request of an allowed origin; others are refused before the limiter.
Arrive(r) ==
    /\ phase[r] = "idle"
    /\ Goto(r, "arrived")
    /\ UNCHANGED <<tokens, unrefilled, ahead, savedAhead>>

\* Faulty variant: no fraction of a token.
RefilledWhole == AtMost(tokens + (unrefilled \div Grain) * Grain, Full)

\* b.tokens += elapsed * perSecond, capped at b.max
Refilled == AtMost(tokens + unrefilled, Full)

\* Faulty variant: the bucket gives what it has begun to refill.
EnoughBegun(level) == level > 0

\* ~(b.tokens < 1)
Enough(level) == level >= Grain

\* allow, under its mutex; a refused request has refilled the bucket too, and
\* moved lastRefill.
Admit(r) ==
    /\ phase[r] = "arrived"
    /\ Enough(Refilled)
    /\ tokens' = Refilled - Grain
    /\ unrefilled' = 0
    /\ ahead' = ahead + Grain
    /\ Goto(r, "admitted")
    /\ UNCHANGED savedAhead

\* 429
Refuse(r) ==
    /\ phase[r] = "arrived"
    /\ ~Enough(Refilled)
    /\ tokens' = Refilled
    /\ unrefilled' = 0
    /\ Goto(r, "idle")
    /\ UNCHANGED <<ahead, savedAhead>>

\* The checks of the body come after the limiter, which has its token.
Validate(r) ==
    /\ phase[r] = "admitted"
    /\ \E p \in {"idle", "saving"} : Goto(r, p)
    /\ UNCHANGED <<tokens, unrefilled, ahead, savedAhead>>

\* Faulty variant: an insertion that may have taken effect is tried again.
SaveRetried(r) ==
    /\ phase[r] = "saving"
    /\ \E lead \in {savedAhead, savedAhead + Grain} : savedAhead' = lead
    /\ \E p \in {"idle", "saving"} : Goto(r, p)
    /\ UNCHANGED <<tokens, unrefilled, ahead>>

\* SaveRUMEvent, or its failure.
Save(r) ==
    /\ phase[r] = "saving"
    /\ \E lead \in {savedAhead, savedAhead + Grain} : savedAhead' = lead
    /\ Goto(r, "idle")
    /\ UNCHANGED <<tokens, unrefilled, ahead>>

\* One unit of time: the rate catches up with what leads it.
Elapse ==
    /\ unrefilled' = AtMost(unrefilled + 1, Full)
    /\ ahead' = IF ahead = 0 THEN 0 ELSE ahead - 1
    /\ savedAhead' = IF savedAhead = 0 THEN 0 ELSE savedAhead - 1
    /\ UNCHANGED <<tokens, phase>>

Serve(r) == Admit(r) \/ Refuse(r) \/ Validate(r) \/ Save(r)

Next == Elapse \/ \E r \in Request : Arrive(r) \/ Serve(r)

Spec == Init /\ [][Next]_vars

\* Time goes on, handlers end, and the clients keep sending.
FairSpec ==
    /\ Spec
    /\ WF_vars(Elapse)
    /\ \A r \in Request : WF_vars(Arrive(r)) /\ WF_vars(Serve(r))

-------------------------------------------------------------------------------
(* Properties                                                                *)

\* In any span of time, whatever it starts with, the limiter admits no more
\* than a burst over the rate: ahead is the largest such excess over all the
\* spans that end now.
RateIsBounded == ahead <= Full

\* "The goal is just to bound write pressure on the store" (the comment of
\* tokenBucket): the insertions exceed the rate by a burst and the requests that
\* were admitted and slow, and no more.
WritePressureIsBounded == savedAhead <= Full + Cardinality(Request) * Grain

\* Being hammered does not close the endpoint for good: the fractions that the
\* refused requests refill add up to a token.
OpensAgain == []<>(\E r \in Request : phase[r] = "admitted")
===============================================================================
