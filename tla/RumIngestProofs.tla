---------------------------- MODULE RumIngestProofs ----------------------------
(***************************************************************************)
(* Theorems about RumIngest and Rum for every number of requests, every    *)
(* bucket and every fineness of time.  What leads the rate and what is     *)
(* left in the bucket share one sum, which no step raises; so do the       *)
(* events of a window of the table, and time alone adds to that sum.       *)
(***************************************************************************)
EXTENDS Rum, FiniteSetTheorems, TLAPS

Typed ==
    /\ tokens \in 0 .. Full
    /\ unrefilled \in 0 .. Full
    /\ phase \in [Request -> {"idle", "arrived", "admitted", "saving"}]
    /\ ahead \in Nat
    /\ savedAhead \in Nat

\* The requests that hold a token and have yet to insert.
Pending == {r \in Request : phase[r] \in {"admitted", "saving"}}

\* The admissions ahead of the rate are gone from the bucket.
BucketPays == ahead + Refilled <= Full

\* So are the insertions, and what is still pending.
PendingPays ==
    savedAhead + Cardinality(Pending) * Grain + Refilled
        <= Full + Cardinality(Request) * Grain

IInv == Typed /\ BucketPays /\ PendingPays

LEMMA FullType == Full \in Nat /\ Full > 0 /\ Grain \in Nat \ {0}
  <1>1. Grain \in Nat \ {0} /\ Burst \in Nat \ {0}
    BY BucketAssumption
  <1>2. \A g \in Nat \ {0}, b \in Nat \ {0} : b * g \in Nat /\ b * g > 0
    OBVIOUS
  <1>3. QED
    BY <1>1, <1>2 DEF Full

LEMMA PendingType ==
  /\ IsFiniteSet(Pending) /\ Cardinality(Pending) \in Nat
  /\ Cardinality(Request) \in Nat /\ Cardinality(Pending) <= Cardinality(Request)
  BY RequestAssumption, FS_Subset, FS_CardinalityType, Pending \subseteq Request DEF Pending

\* A product with a natural number grows with it.
LEMMA Product ==
  ASSUME NEW n \in Nat, NEW m \in Nat, NEW g \in Nat, n <= m
  PROVE  n * g \in Nat /\ m * g \in Nat /\ n * g <= m * g /\ (n + 1) * g = n * g + g
  OBVIOUS

LEMMA InitIInv == Init => IInv
  <1> SUFFICES ASSUME Init PROVE IInv
    OBVIOUS
  <1>1. Pending = {} /\ Cardinality(Pending) = 0
    <2>1. Pending = {}
      BY DEF Init, Pending
    <2>2. QED
      BY <2>1, FS_EmptySet
  <1>2. Refilled = Full
    BY FullType DEF Init, Refilled, AtMost
  <1>3. Cardinality(Request) * Grain \in Nat /\ 0 * Grain = 0
    BY PendingType, FullType
  <1>4. QED
    BY <1>1, <1>2, <1>3, FullType DEF Init, IInv, Typed, BucketPays, PendingPays

\* A unit of time refills one part and takes one off what leads.
LEMMA ElapseIInv ==
  ASSUME IInv, Elapse
  PROVE  IInv'
  <1>1. /\ Refilled \in Nat /\ Refilled <= Full /\ Refilled' \in Nat
        /\ Refilled' <= Refilled + 1 /\ Refilled' <= Full
    BY FullType DEF IInv, Typed, Elapse, Refilled, AtMost
  <1>2. Typed'
    BY FullType DEF IInv, Typed, Elapse, AtMost
  <1>3. /\ ahead \in Nat /\ savedAhead \in Nat
        /\ ahead' = 0 \/ (ahead \in Nat \ {0} /\ ahead' = ahead - 1)
        /\ savedAhead' = 0 \/ (savedAhead \in Nat \ {0} /\ savedAhead' = savedAhead - 1)
    BY DEF IInv, Typed, Elapse
  <1>4. BucketPays'
    <2>1. ahead + Refilled <= Full
      BY DEF IInv, BucketPays
    <2>2. ahead' + Refilled' <= Full
      BY <1>1, <1>3, <2>1, FullType
    <2>3. Full' = Full
      BY DEF Full
    <2>4. QED
      BY <2>2, <2>3 DEF BucketPays
  <1>5. Pending' = Pending
    BY DEF Pending, Elapse
  <1> DEFINE p == Cardinality(Pending) * Grain
             q == Cardinality(Request) * Grain
  <1>6. p \in Nat /\ q \in Nat /\ p <= q
    BY PendingType, Product, FullType
  <1>7. p' = p
    BY <1>5
  <1> HIDE DEF p, q
  <1>8. savedAhead + p + Refilled <= Full + q
    BY DEF IInv, PendingPays, p, q
  <1>9. savedAhead' + p + Refilled' <= Full + q
    BY <1>1, <1>3, <1>6, <1>8, FullType
  <1>10. PendingPays'
    BY <1>5, <1>9 DEF PendingPays, p, q
  <1>11. QED
    BY <1>2, <1>4, <1>10 DEF IInv

\* One more request is pending, and the bucket has paid for it.
LEMMA AdmitIInv ==
  ASSUME IInv, NEW r \in Request, Admit(r)
  PROVE  IInv'
  <1>1. /\ Refilled \in Nat /\ Refilled <= Full /\ Grain <= Refilled
        /\ tokens' = Refilled - Grain /\ unrefilled' = 0 /\ ahead' = ahead + Grain
        /\ savedAhead' = savedAhead
    BY FullType DEF IInv, Typed, Admit, Enough, Refilled, AtMost
  <1>2. Refilled' = Refilled - Grain
    BY <1>1, FullType DEF Refilled, AtMost
  <1>3. Typed'
    BY <1>1, FullType DEF IInv, Typed, Admit, Goto
  <1>4. BucketPays'
    BY <1>1, <1>2, FullType DEF IInv, Typed, BucketPays
  <1>5. r \notin Pending /\ Pending' = Pending \cup {r}
    BY DEF Pending, Admit, Goto, IInv, Typed
  <1>6. Cardinality(Pending') = Cardinality(Pending) + 1
    BY <1>5, PendingType, FS_AddElement
  <1> DEFINE p == Cardinality(Pending) * Grain
             q == Cardinality(Request) * Grain
  <1>7. p \in Nat /\ q \in Nat /\ Cardinality(Pending') * Grain = p + Grain
    BY <1>6, PendingType, Product, FullType
  <1> HIDE DEF p, q
  <1>8. savedAhead + p + Refilled <= Full + q
    BY DEF IInv, PendingPays, p, q
  <1>9. savedAhead' + (p + Grain) + Refilled' <= Full + q
    BY <1>1, <1>2, <1>7, <1>8, FullType DEF IInv, Typed
  <1>10. PendingPays'
    BY <1>7, <1>9 DEF PendingPays, q
  <1>11. QED
    BY <1>3, <1>4, <1>10 DEF IInv

\* A pending request ends, and may have inserted a row.
LEMMA EndIInv ==
  ASSUME IInv, NEW r \in Pending, Goto(r, "idle"),
         savedAhead' \in {savedAhead, savedAhead + Grain},
         UNCHANGED <<tokens, unrefilled, ahead>>
  PROVE  IInv'
  <1>1. r \in Request /\ Pending' = Pending \ {r}
    BY DEF Pending, Goto, IInv, Typed
  <1>2. Cardinality(Pending') = Cardinality(Pending) - 1 /\ Cardinality(Pending') \in Nat
    BY <1>1, PendingType, FS_RemoveElement, FS_CardinalityType
  <1>3. Typed' /\ BucketPays' /\ Refilled' = Refilled
    BY <1>1, FullType DEF IInv, Typed, BucketPays, Refilled, Goto
  <1> DEFINE p == Cardinality(Pending') * Grain
             q == Cardinality(Request) * Grain
  <1>4. p \in Nat /\ q \in Nat /\ Cardinality(Pending) * Grain = p + Grain
    <2>1. Cardinality(Pending) = Cardinality(Pending') + 1
      BY <1>2, PendingType
    <2>2. QED
      BY <1>2, <2>1, PendingType, Product, FullType
  <1> HIDE DEF p, q
  <1>5. savedAhead + (p + Grain) + Refilled <= Full + q
    BY <1>4 DEF IInv, PendingPays, q
  <1>6. Refilled \in Nat
    BY FullType DEF IInv, Typed, Refilled, AtMost
  <1>7. savedAhead' + p + Refilled <= Full + q
    <2>1. savedAhead \in Nat
      BY DEF IInv, Typed
    <2>2. CASE savedAhead' = savedAhead
      BY <1>4, <1>5, <1>6, <2>1, <2>2, FullType
    <2>3. CASE savedAhead' = savedAhead + Grain
      BY <1>4, <1>5, <1>6, <2>1, <2>3, FullType
    <2>4. QED
      BY <2>2, <2>3
  <1>8. PendingPays'
    BY <1>3, <1>7 DEF PendingPays, p, q
  <1>9. QED
    BY <1>3, <1>8 DEF IInv

\* What leaves the pending requests and the level of the bucket as they are.
LEMMA QuietIInv ==
  ASSUME IInv, Typed', Pending' = Pending, Refilled' = Refilled,
         UNCHANGED <<ahead, savedAhead>>
  PROVE  IInv'
  BY DEF IInv, BucketPays, PendingPays

LEMMA NextIInv ==
  ASSUME IInv, [Next]_vars
  PROVE  IInv'
  <1>1. ASSUME NEW r \in Request, Arrive(r) \/ Serve(r) PROVE IInv'
    <2>1. CASE Arrive(r)
      <3>1. Typed' /\ Refilled' = Refilled
        BY <2>1 DEF Arrive, Goto, IInv, Typed, Refilled
      <3>2. Pending' = Pending
        BY <2>1 DEF Arrive, Goto, IInv, Typed, Pending
      <3>3. QED
        BY <2>1, <3>1, <3>2, QuietIInv DEF Arrive
    <2>2. CASE Refuse(r)
      <3>1. Typed' /\ Refilled' = Refilled
        BY <2>2, FullType DEF Refuse, Goto, IInv, Typed, Refilled, AtMost
      <3>2. Pending' = Pending
        BY <2>2 DEF Refuse, Goto, IInv, Typed, Pending
      <3>3. QED
        BY <2>2, <3>1, <3>2, QuietIInv DEF Refuse
    <2>3. CASE Validate(r)
      <3>1. r \in Pending
        BY <2>3 DEF Validate, Pending
      <3>2. CASE Goto(r, "idle")
        BY <2>3, <3>1, <3>2, EndIInv DEF Validate
      <3>3. CASE Goto(r, "saving")
        <4>1. Typed' /\ Refilled' = Refilled
          BY <2>3, <3>3 DEF Validate, Goto, IInv, Typed, Refilled
        <4>2. Pending' = Pending
          BY <2>3, <3>3 DEF Validate, Goto, IInv, Typed, Pending
        <4>3. QED
          BY <2>3, <4>1, <4>2, QuietIInv DEF Validate
      <3>4. QED
        BY <2>3, <3>2, <3>3 DEF Validate
    <2>4. CASE Save(r)
      <3>1. r \in Pending
        BY <2>4 DEF Save, Pending
      <3>2. QED
        BY <2>4, <3>1, EndIInv DEF Save
    <2>5. QED
      BY <1>1, <2>1, <2>2, <2>3, <2>4, AdmitIInv DEF Serve
  <1>2. CASE UNCHANGED vars
    <2>1. Typed' /\ Pending' = Pending /\ Refilled' = Refilled
      BY <1>2 DEF vars, IInv, Typed, Pending, Refilled
    <2>2. QED
      BY <1>2, <2>1, QuietIInv DEF vars
  <1>3. QED
    BY <1>1, <1>2, ElapseIInv DEF Next

THEOREM Invariance == Spec => []IInv
  BY InitIInv, NextIInv, PTL DEF Spec

\* The bucket keeps its level, and every request its place.
THEOREM TypeCorrect == Spec => []TypeOK
  <1>1. IInv => TypeOK
    BY DEF IInv, Typed, TypeOK
  <1>2. QED
    BY <1>1, Invariance, PTL

\* No span of time holds more admissions than the rate allows and a burst.
THEOREM AdmissionsAreBounded == Spec => []RateIsBounded
  <1>1. IInv => RateIsBounded
    BY FullType DEF IInv, Typed, BucketPays, RateIsBounded, Refilled, AtMost
  <1>2. QED
    BY <1>1, Invariance, PTL

\* Nor more insertions than that and the requests in flight.
THEOREM InsertionsAreBounded == Spec => []WritePressureIsBounded
  <1>1. IInv => WritePressureIsBounded
    <2> SUFFICES ASSUME IInv PROVE WritePressureIsBounded
      OBVIOUS
    <2> DEFINE p == Cardinality(Pending) * Grain
               q == Cardinality(Request) * Grain
    <2>1. p \in Nat /\ q \in Nat
      BY PendingType, Product, FullType
    <2> HIDE DEF p, q
    <2>2. savedAhead + p + Refilled <= Full + q
      BY DEF IInv, PendingPays, p, q
    <2>3. Refilled \in Nat
      BY FullType DEF IInv, Typed, Refilled, AtMost
    <2>4. savedAhead <= Full + q
      BY <2>1, <2>2, <2>3, FullType DEF IInv, Typed
    <2>5. QED
      BY <2>4 DEF WritePressureIsBounded, q
  <1>2. QED
    BY <1>1, Invariance, PTL

-------------------------------------------------------------------------------
(* With the table of events, the limiter is what it was.                     *)

\* Nothing that is done to the events moves a token or a request.
THEOREM RumImplementsIngest == RumSpec => Spec
  <1>1. RumInit => Init
    BY DEF RumInit
  <1>2. ASSUME [RumNext]_rumVars PROVE [Next]_vars
    <2>1. CASE GrowOlder
      BY <2>1 DEF GrowOlder, Next
    <2>2. CASE PurgeOldRUMEvents
      BY <2>2 DEF PurgeOldRUMEvents
    <2>3. ASSUME NEW r \in Request, Arrive(r) PROVE Next
      BY <2>3 DEF Next
    <2>4. ASSUME NEW r \in Request, ServeEvent(r) PROVE Next
      <3>1. Serve(r)
        BY <2>4 DEF ServeEvent, ValidateEvent, SaveEvent, Serve
      <3>2. QED
        BY <3>1 DEF Next
    <2>5. CASE UNCHANGED rumVars
      BY <2>5 DEF rumVars
    <2>6. QED
      BY <1>2, <2>1, <2>2, <2>3, <2>4, <2>5 DEF RumNext
  <1>3. QED
    BY <1>1, <1>2, PTL DEF RumSpec, Spec

\* So the rate is bounded, and the insertions into the table are.
THEOREM RumIsBounded == RumSpec => [](RateIsBounded /\ WritePressureIsBounded)
  BY RumImplementsIngest, AdmissionsAreBounded, InsertionsAreBounded, PTL

TableTyped == /\ stamp \in [Request -> Age]
              /\ table \in [Metric -> [Age -> Nat]]

\* Every age is within the horizon, and no count of events is below nothing.
THEOREM RumTypeCorrect == RumSpec => []RumTypeOK
  <1> USE DEF TableTyped
  <1>0. Horizon \in Nat /\ Limit \in Nat /\ 0 \in Age /\ Age \subseteq Nat
    BY LimitAssumption DEF Age
  <1>1. RumInit => TableTyped
    BY <1>0 DEF RumInit
  <1>2. ASSUME TableTyped, [RumNext]_rumVars PROVE TableTyped'
    <2>1. CASE GrowOlder
      <3>1. \A r \in Request : AtMost(stamp[r] + 1, Horizon) \in Age
        BY <1>0, <1>2 DEF AtMost, Age
      <3>2. ASSUME NEW m \in Metric PROVE Older(table[m]) \in [Age -> Nat]
        <4>1. \A a \in Age : a # 0 => a - 1 \in Age
          BY <1>0 DEF Age
        <4>2. \A a \in Age : table[m][a] \in Nat
          BY <1>2
        <4>3. \A a \in Age : (IF a = 0 THEN 0
                               ELSE IF a = Horizon
                                    THEN AtMost(table[m][a] + table[m][a - 1], Limit)
                                    ELSE table[m][a - 1]) \in Nat
          BY <1>0, <4>1, <4>2 DEF AtMost
        <4>4. QED
          BY <4>3 DEF Older
      <3>3. QED
        BY <2>1, <3>1, <3>2 DEF GrowOlder
    <2>2. CASE PurgeOldRUMEvents
      BY <1>0, <1>2, <2>2 DEF PurgeOldRUMEvents
    <2>3. ASSUME NEW r \in Request, Arrive(r) /\ UNCHANGED <<stamp, table>>
          PROVE  TableTyped'
      BY <1>2, <2>3
    <2>4. ASSUME NEW r \in Request, ServeEvent(r) PROVE TableTyped'
      <3>1. CASE ValidateEvent(r)
        BY <1>0, <1>2, <3>1 DEF ValidateEvent
      <3>2. CASE SaveEvent(r)
        <4>1. stamp' = stamp /\ stamp[r] \in Age
          BY <1>2, <3>2 DEF SaveEvent
        <4>2. CASE UNCHANGED table
          BY <1>2, <4>1, <4>2
        <4>3. ASSUME NEW m \in Metric,
                     table' = [table EXCEPT ![m][stamp[r]] =
                                 IF stamp[r] = Horizon THEN AtMost(@ + 1, Limit) ELSE @ + 1]
              PROVE  TableTyped'
          <5> DEFINE count == IF stamp[r] = Horizon
                              THEN AtMost(table[m][stamp[r]] + 1, Limit)
                              ELSE table[m][stamp[r]] + 1
          <5>0. table[m] \in [Age -> Nat] /\ table[m][stamp[r]] \in Nat
            BY <1>2, <4>1
          <5>1. count \in Nat
            BY <1>0, <5>0 DEF AtMost
          <5>2. [table[m] EXCEPT ![stamp[r]] = count] \in [Age -> Nat]
            BY <5>0, <5>1
          <5>3. table' = [table EXCEPT ![m] = [table[m] EXCEPT ![stamp[r]] = count]]
            BY <4>3, <5>0
          <5> HIDE DEF count
          <5>4. QED
            BY <1>2, <4>1, <5>2, <5>3
        <4>4. QED
          BY <3>2, <4>2, <4>3 DEF SaveEvent
      <3>3. QED
        BY <1>2, <2>4, <3>1, <3>2 DEF ServeEvent
    <2>5. CASE UNCHANGED rumVars
      BY <1>2, <2>5 DEF rumVars
    <2>6. QED
      BY <1>2, <2>1, <2>2, <2>3, <2>4, <2>5 DEF RumNext
  <1>3. TypeOK /\ TableTyped => RumTypeOK
    BY DEF RumTypeOK
  <1> HIDE DEF TableTyped
  <1>4. RumSpec => []TableTyped
    BY <1>1, <1>2, PTL DEF RumSpec
  <1>5. QED
    BY <1>3, <1>4, RumImplementsIngest, TypeCorrect, PTL

-------------------------------------------------------------------------------
(* The summary                                                               *)

\* The requests whose event may still get an age of a at most.
Coming(a) ==
    {r \in Request : phase[r] = "admitted" \/ (phase[r] = "saving" /\ stamp[r] <= a)}

\* The events that are stored with such an age, and those to come.
Load(a) == EventsIn(0 .. a) + Cardinality(Coming(a))

\* They have come from the bucket in the last a units, but for a burst and for
\* what every request may have had in hand before.
WindowPays ==
    \A a \in Age : a < Horizon =>
        Load(a) * Grain + Refilled <= Full + a + Cardinality(Request) * Grain

LEMMA StoredMember ==
  ASSUME NEW ages
  PROVE  \A e : e \in Stored(ages) <=>
            \E m \in Metric, a \in ages : \E n \in 1 .. table[m][a] : e = <<m, a, n>>
  <1> SUFFICES ASSUME NEW e
               PROVE  e \in Stored(ages) <=>
                        \E m \in Metric, a \in ages : \E n \in 1 .. table[m][a] : e = <<m, a, n>>
    OBVIOUS
  <1> DEFINE cell(m, a) == {<<m, a, n>> : n \in 1 .. table[m][a]}
  <1>1. Stored(ages) = UNION {cell(m, a) : m \in Metric, a \in ages}
    BY DEF Stored
  <1>2. \A m, a : e \in cell(m, a) <=> \E n \in 1 .. table[m][a] : e = <<m, a, n>>
    OBVIOUS
  <1> HIDE DEF cell
  <1>3. e \in Stored(ages) <=> \E m \in Metric, a \in ages : e \in cell(m, a)
    BY <1>1
  <1>4. QED
    BY <1>2, <1>3

LEMMA StoredMemberNext ==
  ASSUME NEW ages
  PROVE  \A e : e \in Stored(ages)' <=>
            \E m \in Metric, a \in ages : \E n \in 1 .. table'[m][a] : e = <<m, a, n>>
  <1>1. (\A e : e \in Stored(ages) <=>
            \E m \in Metric, a \in ages : \E n \in 1 .. table[m][a] : e = <<m, a, n>>)'
    <2>1. \A e : e \in Stored(ages) <=>
             \E m \in Metric, a \in ages : \E n \in 1 .. table[m][a] : e = <<m, a, n>>
      BY StoredMember
    <2>2. QED
      BY <2>1, PTL
  <1>2. QED
    BY <1>1

LEMMA StoredFinite ==
  ASSUME TableTyped, NEW ages \in SUBSET Age
  PROVE  IsFiniteSet(Stored(ages)) /\ EventsIn(ages) \in Nat
  <1> DEFINE cell(p) == {<<p[1], p[2], n>> : n \in 1 .. table[p[1]][p[2]]}
             cells == {{<<m, a, n>> : n \in 1 .. table[m][a]} : m \in Metric, a \in ages}
             f == [p \in Metric \X ages |-> cell(p)]
  <1>1. IsFiniteSet(Metric \X ages)
    <2>1. Age = 0 .. Horizon /\ Horizon \in Int /\ 0 \in Int
      BY LimitAssumption DEF Age
    <2>2. IsFiniteSet(Age)
      BY <2>1, FS_Interval
    <2>3. IsFiniteSet(ages)
      BY <2>2, FS_Subset
    <2>4. QED
      BY <2>3, MetricAssumption, FS_Product
  <1>2. f \in Surjection(Metric \X ages, cells)
    <2>1. \A p \in Metric \X ages : cell(p) \in cells
      OBVIOUS
    <2>2. ASSUME NEW c \in cells PROVE \E p \in Metric \X ages : cell(p) = c
      <3>2. PICK m \in Metric, a \in ages : c = {<<m, a, n>> : n \in 1 .. table[m][a]}
        OBVIOUS
      <3>3. <<m, a>> \in Metric \X ages /\ cell(<<m, a>>) = c
        BY <3>2
      <3>4. QED
        BY <3>3
    <2> HIDE DEF cell, cells
    <2>3. QED
      BY <2>1, <2>2 DEF Surjection
  <1>3. IsFiniteSet(cells)
    BY <1>1, <1>2, FS_Surjection
  <1>4. ASSUME NEW c \in cells PROVE IsFiniteSet(c)
    <2>1. PICK m \in Metric, a \in ages : c = {<<m, a, n>> : n \in 1 .. table[m][a]}
      OBVIOUS
    <2>2. table[m][a] \in Nat
      BY DEF TableTyped
    <2> DEFINE g == [n \in 1 .. table[m][a] |-> <<m, a, n>>]
    <2>3. g \in Surjection(1 .. table[m][a], c)
      BY <2>1 DEF Surjection
    <2>4. IsFiniteSet(1 .. table[m][a])
      BY <2>2, FS_Interval
    <2> HIDE DEF g
    <2>5. QED
      BY <2>3, <2>4, FS_Surjection
  <1>5. Stored(ages) = UNION cells
    BY DEF Stored
  <1> HIDE DEF cells
  <1>6. IsFiniteSet(UNION cells)
    <2>1. \A c \in cells : IsFiniteSet(c)
      BY <1>4
    <2>2. QED
      BY <1>3, <2>1, FS_UNION
  <1>7. IsFiniteSet(Stored(ages))
    BY <1>5, <1>6
  <1>8. QED
    BY <1>7, FS_CardinalityType DEF EventsIn

LEMMA ComingFinite ==
  ASSUME NEW a
  PROVE  /\ IsFiniteSet(Coming(a)) /\ Cardinality(Coming(a)) \in Nat
         /\ Cardinality(Coming(a)) <= Cardinality(Request) /\ Cardinality(Request) \in Nat
  BY RequestAssumption, FS_Subset, FS_CardinalityType, Coming(a) \subseteq Request DEF Coming

LEMMA LoadType ==
  ASSUME TableTyped, NEW a \in Age
  PROVE  EventsIn(0 .. a) \in Nat /\ Load(a) \in Nat /\ 0 .. a \in SUBSET Age
  <1>1. 0 .. a \in SUBSET Age
    BY LimitAssumption DEF Age
  <1>2. EventsIn(0 .. a) \in Nat
    BY <1>1, StoredFinite
  <1>3. Cardinality(Coming(a)) \in Nat
    BY ComingFinite
  <1>4. QED
    BY <1>1, <1>2, <1>3 DEF Load

LEMMA LoadTypeNext == TableTyped' => (\A a \in Age : Load(a) \in Nat)'
  <1>1. TableTyped => \A a \in Age : Load(a) \in Nat
    BY LoadType
  <1>2. QED
    BY <1>1, PTL

\* Fewer events to come, or removed ones, weigh less.
LEMMA LessLoad ==
  ASSUME TableTyped, NEW a \in Age,
         Stored(0 .. a)' \in SUBSET Stored(0 .. a), Coming(a)' \in SUBSET Coming(a)
  PROVE  Load(a)' <= Load(a)
  <1>1. /\ IsFiniteSet(Stored(0 .. a)')
        /\ Cardinality(Stored(0 .. a)') <= Cardinality(Stored(0 .. a))
    BY LoadType, StoredFinite, FS_Subset
  <1>2. Cardinality(Coming(a)') <= Cardinality(Coming(a))
    BY ComingFinite, FS_Subset
  <1>3. /\ Cardinality(Stored(0 .. a)') \in Nat /\ Cardinality(Stored(0 .. a)) \in Nat
        /\ Cardinality(Coming(a)') \in Nat /\ Cardinality(Coming(a)) \in Nat
    <2>1. IsFiniteSet(Stored(0 .. a)) /\ IsFiniteSet(Coming(a)) /\ IsFiniteSet(Coming(a)')
      BY LoadType, StoredFinite, ComingFinite, FS_Subset
    <2>2. QED
      BY <1>1, <2>1, FS_CardinalityType
  <1>4. /\ Load(a) = Cardinality(Stored(0 .. a)) + Cardinality(Coming(a))
        /\ Load(a)' = Cardinality(Stored(0 .. a)') + Cardinality(Coming(a)')
    BY DEF Load, EventsIn
  <1>5. QED
    BY <1>1, <1>2, <1>3, <1>4

LEMMA LessPays ==
  ASSUME WindowPays, TableTyped, TableTyped', Typed, Typed', Refilled' = Refilled,
         \A a \in Age : a < Horizon => Load(a)' <= Load(a)
  PROVE  WindowPays'
  <1> SUFFICES ASSUME NEW a \in Age, a < Horizon
               PROVE  Load(a)' * Grain + Refilled' <= Full + a + Cardinality(Request) * Grain
    BY DEF WindowPays, Age, Full
  <1> DEFINE l == Load(a) * Grain
             k == Load(a)' * Grain
             q == Cardinality(Request) * Grain
  <1>1. Load(a)' <= Load(a) /\ Load(a) \in Nat /\ Load(a)' \in Nat
    BY LoadType, LoadTypeNext
  <1>2. k \in Nat /\ l \in Nat /\ k <= l /\ q \in Nat
    BY <1>1, Product, PendingType, FullType
  <1>3. l + Refilled <= Full + a + q
    BY DEF WindowPays
  <1>4. Refilled \in Nat /\ a \in Nat /\ Full \in Nat
    BY FullType, LimitAssumption DEF Typed, Refilled, AtMost, Age
  <1> HIDE DEF l, k, q
  <1>5. k + Refilled <= Full + a + q
    BY <1>2, <1>3, <1>4
  <1>6. QED
    BY <1>5 DEF k, q

LEMMA InitPays == RumInit => WindowPays
  <1> SUFFICES ASSUME RumInit, NEW a \in Age, a < Horizon
               PROVE  Load(a) * Grain + Refilled <= Full + a + Cardinality(Request) * Grain
    BY DEF WindowPays
  <1>1. Load(a) = 0
    <2>1. Coming(a) = {}
      BY DEF RumInit, Init, Coming
    <2>2. \A m \in Metric, b \in 0 .. a : 1 .. table[m][b] = {}
      BY LimitAssumption DEF RumInit, Age
    <2>3. Stored(0 .. a) = {}
      <3>1. SUFFICES ASSUME NEW e \in Stored(0 .. a) PROVE FALSE
        OBVIOUS
      <3>2. \A d : d \in Stored(0 .. a) <=>
               \E m \in Metric, b \in 0 .. a : \E n \in 1 .. table[m][b] : d = <<m, b, n>>
        BY StoredMember
      <3>3. QED
        BY <2>2, <3>1, <3>2
    <2>4. QED
      BY <2>1, <2>3, FS_EmptySet DEF Load, EventsIn
  <1>2. Refilled = Full /\ a \in Nat
    BY FullType, LimitAssumption DEF RumInit, Init, Refilled, AtMost, Age
  <1> DEFINE q == Cardinality(Request) * Grain
  <1>3. q \in Nat /\ Load(a) * Grain = 0
    BY <1>1, PendingType, FullType
  <1> HIDE DEF q
  <1>4. 0 + Refilled <= Full + a + q
    BY <1>2, <1>3, FullType
  <1>5. QED
    BY <1>3, <1>4 DEF q

\* What is younger than Horizon grows older by one, event by event.
LEMMA StoredGrowsOlder ==
  ASSUME TableTyped, GrowOlder, NEW a \in Age, a < Horizon
  PROVE  /\ a = 0 => Stored(0 .. a)' = {}
         /\ a > 0 => EventsIn(0 .. a)' = EventsIn(0 .. (a - 1))
  <1>0. a \in Nat /\ Horizon \in Nat /\ Age = 0 .. Horizon
    BY LimitAssumption DEF Age
  <1>1. \A m \in Metric, b \in 0 .. a :
           table'[m][b] = IF b = 0 THEN 0 ELSE table[m][b - 1]
    BY <1>0 DEF GrowOlder, Older
  <1>2. \A e : e \in Stored(0 .. a)' <=>
            \E m \in Metric, b \in 0 .. a : \E n \in 1 .. table'[m][b] : e = <<m, b, n>>
    BY StoredMemberNext
  <1>3. CASE a = 0
    <2>1. \A m \in Metric, b \in 0 .. a : 1 .. table'[m][b] = {}
      BY <1>1, <1>3
    <2>2. QED
      BY <1>2, <1>3, <2>1
  <1>4. CASE a > 0
    <2> DEFINE S == Stored(0 .. (a - 1))
               T == Stored(0 .. a)'
               f == [e \in S |-> <<e[1], e[2] + 1, e[3]>>]
    <2>1. \A e : e \in S <=>
            \E m \in Metric, b \in 0 .. (a - 1) : \E n \in 1 .. table[m][b] : e = <<m, b, n>>
      BY StoredMember
    <2>2. \A e \in S : f[e] = <<e[1], e[2] + 1, e[3]>> /\ e[2] \in 0 .. (a - 1) /\ e = <<e[1], e[2], e[3]>>
      <3>1. TAKE e \in S
      <3>2. PICK m \in Metric, b \in 0 .. (a - 1) : \E n \in 1 .. table[m][b] : e = <<m, b, n>>
        BY <2>1
      <3>3. QED
        BY <3>2
    <2>3. ASSUME NEW e \in S PROVE f[e] \in T
      <3>1. PICK m \in Metric, b \in 0 .. (a - 1) : \E n \in 1 .. table[m][b] : e = <<m, b, n>>
        BY <2>1
      <3>2. PICK n \in 1 .. table[m][b] : e = <<m, b, n>>
        BY <3>1
      <3>3. b + 1 \in 0 .. a /\ b + 1 # 0 /\ (b + 1) - 1 = b
        BY <1>0
      <3>4. n \in 1 .. table'[m][b + 1]
        BY <1>1, <3>2, <3>3
      <3>5. f[e] = <<m, b + 1, n>>
        BY <3>2
      <3>6. QED
        BY <1>2, <3>3, <3>4, <3>5
    <2>4. ASSUME NEW d \in T PROVE \E e \in S : f[e] = d
      <3>1. PICK m \in Metric, b \in 0 .. a : \E n \in 1 .. table'[m][b] : d = <<m, b, n>>
        BY <1>2
      <3>2. PICK n \in 1 .. table'[m][b] : d = <<m, b, n>>
        BY <3>1
      <3>3. b # 0
        BY <1>1, <3>2
      <3>4. b - 1 \in 0 .. (a - 1) /\ (b - 1) + 1 = b
        BY <1>0, <3>3
      <3>5. n \in 1 .. table[m][b - 1]
        BY <1>1, <3>2, <3>3
      <3>6. <<m, b - 1, n>> \in S
        BY <2>1, <3>4, <3>5
      <3>7. f[<<m, b - 1, n>>] = d
        BY <3>2, <3>4, <3>6
      <3>8. QED
        BY <3>6, <3>7
    <2>5. \A d, e \in S : f[d] = f[e] => d = e
      <3>1. TAKE d, e \in S
      <3>2. d[2] \in Int /\ e[2] \in Int
        <4>1. d[2] \in 0 .. (a - 1) /\ e[2] \in 0 .. (a - 1)
          BY <2>2
        <4>2. a - 1 \in Int
          BY <1>0
        <4> DEFINE i == d[2]
                   j == e[2]
        <4> HIDE DEF i, j
        <4>3. i \in 0 .. (a - 1) /\ j \in 0 .. (a - 1) => i \in Int /\ j \in Int
          BY <4>2
        <4>4. QED
          BY <4>1, <4>3 DEF i, j
      <3>3. HAVE f[d] = f[e]
      <3>4. d[1] = e[1] /\ d[2] + 1 = e[2] + 1 /\ d[3] = e[3]
        BY <2>2, <3>3
      <3>5. d[2] = e[2]
        BY <3>2, <3>4
      <3>6. QED
        BY <2>2, <3>4, <3>5
    <2>6. DOMAIN f = S
      OBVIOUS
    <2> HIDE DEF S, T, f
    <2>7. f \in Bijection(S, T)
      <3>1. f \in [S -> T]
        BY <2>3, <2>6 DEF f
      <3>2. QED
        BY <2>4, <2>5, <3>1 DEF Bijection, Injection, Surjection, IsInjective
    <2>8. IsFiniteSet(S)
      <3>1. 0 .. (a - 1) \in SUBSET Age
        BY <1>0
      <3>2. QED
        BY <3>1, StoredFinite DEF S
    <2>9. Cardinality(T) = Cardinality(S)
      BY <2>7, <2>8, FS_Bijection DEF ExistsBijection
    <2>10. QED
      BY <1>4, <2>9 DEF S, T, EventsIn
  <1>5. QED
    BY <1>0, <1>3, <1>4

\* What the requests have to come only loses members, and the bucket keeps its
\* level.
LEMMA GrowOlderPays ==
  ASSUME WindowPays, TableTyped, TableTyped', Typed, Typed', GrowOlder
  PROVE  WindowPays'
  <1> SUFFICES ASSUME NEW a \in Age, a < Horizon
               PROVE  Load(a)' * Grain + Refilled' <= Full + a + Cardinality(Request) * Grain
    BY DEF WindowPays, Age, Full
  <1>1. /\ Refilled \in Nat /\ Refilled' \in Nat
        /\ Refilled' <= Refilled + 1 /\ Refilled' <= Full
    BY FullType DEF Typed, GrowOlder, Elapse, Refilled, AtMost
  <1>2. a \in Nat /\ Horizon \in Nat
    BY LimitAssumption DEF Age
  <1> DEFINE q == Cardinality(Request) * Grain
             k == Load(a)' * Grain
  <1>3. q \in Nat
    BY PendingType, FullType
  <1>4. CASE a = 0
    <2>1. Load(a)' = Cardinality(Coming(a)')
      <3>1. Stored(0 .. a)' = {} /\ Cardinality({}) = 0
        BY <1>4, StoredGrowsOlder, FS_EmptySet
      <3>2. Coming(a)' \subseteq Request
        BY DEF Coming
      <3>3. Cardinality(Coming(a)') \in Nat
        BY <3>2, RequestAssumption, FS_Subset, FS_CardinalityType
      <3>4. EventsIn(0 .. a)' = 0
        BY <3>1 DEF EventsIn
      <3>5. Load(a)' = EventsIn(0 .. a)' + Cardinality(Coming(a)')
        BY DEF Load
      <3>6. QED
        BY <3>3, <3>4, <3>5
    <2>2. Coming(a)' \subseteq Request
      BY DEF Coming
    <2>3. /\ Cardinality(Coming(a)') \in Nat /\ Cardinality(Request) \in Nat
          /\ Cardinality(Coming(a)') <= Cardinality(Request)
      BY <2>2, RequestAssumption, FS_Subset, FS_CardinalityType
    <2>4. k \in Nat /\ k <= q
      BY <2>1, <2>3, Product, FullType
    <2> HIDE DEF k, q
    <2>5. k + Refilled' <= Full + a + q
      <3>1. \A i, j, c, d, e \in Nat : i <= j /\ c <= d => i + c <= d + e + j
        OBVIOUS
      <3>2. QED
        BY <1>1, <1>2, <1>3, <2>4, <3>1, FullType
    <2>6. QED
      BY <2>5 DEF k, q
  <1>5. CASE a > 0
    <2>1. a - 1 \in Age /\ a - 1 \in Nat /\ a - 1 < Horizon
      BY <1>2, <1>5 DEF Age
    <2>2. Coming(a)' = Coming(a - 1)
      <3>1. \A r \in Request : stamp'[r] <= a <=> stamp[r] <= a - 1
        <4>1. \A r \in Request : stamp[r] \in Nat
          BY LimitAssumption DEF TableTyped, Age
        <4>2. \A r \in Request : stamp'[r] = AtMost(stamp[r] + 1, Horizon)
          BY DEF GrowOlder
        <4>3. QED
          BY <1>2, <4>1, <4>2 DEF AtMost
      <3>2. phase' = phase
        BY DEF GrowOlder, Elapse
      <3>3. QED
        BY <3>1, <3>2 DEF Coming
    <2>3. Load(a)' = Load(a - 1)
      <3>1. EventsIn(0 .. a)' = EventsIn(0 .. (a - 1))
        BY <1>5, StoredGrowsOlder
      <3>2. QED
        BY <2>2, <3>1 DEF Load
    <2>4. k = Load(a - 1) * Grain /\ k \in Nat
      <3>1. Load(a - 1) \in Nat
        BY <2>1, LoadType
      <3>2. QED
        BY <2>3, <3>1, FullType
    <2>5. Load(a - 1) * Grain + Refilled <= Full + (a - 1) + q
      BY <2>1 DEF WindowPays
    <2>6. k + Refilled <= Full + (a - 1) + q
      BY <2>4, <2>5
    <2> HIDE DEF k, q
    <2>7. k + Refilled' <= Full + a + q
      BY <1>1, <1>2, <1>3, <2>1, <2>4, <2>6, FullType
    <2>8. QED
      BY <2>7 DEF k, q
  <1>6. QED
    BY <1>2, <1>4, <1>5

\* The bucket pays for one more event to come.
LEMMA AdmitPays ==
  ASSUME WindowPays, TableTyped, Typed, NEW r \in Request, Admit(r),
         UNCHANGED <<stamp, table>>
  PROVE  WindowPays'
  <1> SUFFICES ASSUME NEW a \in Age, a < Horizon
               PROVE  Load(a)' * Grain + Refilled' <= Full + a + Cardinality(Request) * Grain
    BY DEF WindowPays, Age, Full
  <1>1. /\ Refilled \in Nat /\ Grain <= Refilled /\ Refilled' = Refilled - Grain
    BY FullType DEF Typed, Admit, Enough, Refilled, AtMost
  <1>2. a \in Nat
    BY LimitAssumption DEF Age
  <1>3. Load(a)' = Load(a) + 1 /\ Load(a) \in Nat
    <2>1. r \notin Coming(a) /\ Coming(a)' = Coming(a) \cup {r}
      BY DEF Coming, Admit, Goto, Typed
    <2>2. Cardinality(Coming(a)') = Cardinality(Coming(a)) + 1
      BY <2>1, ComingFinite, FS_AddElement
    <2>3. EventsIn(0 .. a)' = EventsIn(0 .. a)
      BY DEF EventsIn, Stored
    <2>4. Load(a)' = EventsIn(0 .. a) + (Cardinality(Coming(a)) + 1)
      BY <2>2, <2>3 DEF Load
    <2>5. EventsIn(0 .. a) \in Nat /\ Cardinality(Coming(a)) \in Nat
      BY LoadType, ComingFinite
    <2>6. QED
      BY <2>4, <2>5, LoadType DEF Load
  <1> DEFINE q == Cardinality(Request) * Grain
             l == Load(a) * Grain
  <1>4. q \in Nat /\ l \in Nat /\ Load(a)' * Grain = l + Grain
    BY <1>3, PendingType, Product, FullType
  <1>5. l + Refilled <= Full + a + q
    BY DEF WindowPays
  <1> HIDE DEF l, q
  <1>6. (l + Grain) + Refilled' <= Full + a + q
    BY <1>1, <1>2, <1>4, <1>5, FullType
  <1>7. QED
    BY <1>4, <1>6 DEF q

\* An event that is stored was to come.
LEMMA SaveLoad ==
  ASSUME TableTyped, Typed, NEW r \in Request, SaveEvent(r), NEW a \in Age, a < Horizon
  PROVE  Load(a)' <= Load(a)
  <1>1. /\ phase[r] = "saving" /\ stamp' = stamp
        /\ phase' = [phase EXCEPT ![r] = "idle"] /\ stamp[r] \in Age
    BY DEF SaveEvent, Save, Goto, TableTyped
  <1>2. a \in Nat /\ Horizon \in Nat /\ stamp[r] \in Nat
    BY <1>1, LimitAssumption DEF Age
  <1>3. Coming(a)' = Coming(a) \ {r}
    BY <1>1 DEF Coming, Typed
  <1>4. CASE UNCHANGED table
    <2>1. Stored(0 .. a)' = Stored(0 .. a)
      BY <1>4 DEF Stored
    <2>2. QED
      BY <1>3, <2>1, LessLoad
  <1>5. ASSUME NEW m \in Metric,
               table' = [table EXCEPT ![m][stamp[r]] =
                           IF stamp[r] = Horizon THEN AtMost(@ + 1, Limit) ELSE @ + 1]
        PROVE  Load(a)' <= Load(a)
    <2> DEFINE s == stamp[r]
               c == table[m][s]
    <2>0. /\ c \in Nat /\ s \in Nat
          /\ \A k \in Metric, b \in 0 .. a :
                table'[k][b] = IF k = m /\ b = s THEN c + 1 ELSE table[k][b]
      <3>1. \A b \in 0 .. a : b \in Age /\ b # Horizon
        BY <1>2 DEF Age
      <3>2. c \in Nat
        BY <1>1 DEF TableTyped
      <3>3. ASSUME NEW k \in Metric, NEW b \in 0 .. a
            PROVE  table'[k][b] = IF k = m /\ b = s THEN c + 1 ELSE table[k][b]
        BY <1>1, <1>5, <3>1 DEF TableTyped
      <3>4. QED
        BY <1>2, <3>2, <3>3
    <2> HIDE DEF s, c
    <2>1. \A e : e \in Stored(0 .. a) <=>
             \E k \in Metric, b \in 0 .. a : \E n \in 1 .. table[k][b] : e = <<k, b, n>>
      BY StoredMember
    <2>2. \A e : e \in Stored(0 .. a)' <=>
             \E k \in Metric, b \in 0 .. a : \E n \in 1 .. table'[k][b] : e = <<k, b, n>>
      BY StoredMemberNext
    <2>3. CASE s \notin 0 .. a
      <3>1. \A k \in Metric, b \in 0 .. a : table'[k][b] = table[k][b]
        BY <2>0, <2>3
      <3>2. Stored(0 .. a)' \subseteq Stored(0 .. a)
        BY <2>1, <2>2, <3>1
      <3>3. QED
        BY <1>3, <3>2, LessLoad
    <2>4. CASE s \in 0 .. a
      <3> DEFINE e == <<m, s, c + 1>>
      <3>0. c = table[m][s]
        BY DEF c, s
      <3>1. e \notin Stored(0 .. a)
        <4>1. ASSUME e \in Stored(0 .. a) PROVE FALSE
          <5>0. PICK k \in Metric, b \in 0 .. a : \E n \in 1 .. table[k][b] : e = <<k, b, n>>
            BY <2>1, <4>1
          <5>1. PICK n \in 1 .. table[k][b] : e = <<k, b, n>>
            BY <5>0
          <5>2. k = m /\ b = s /\ n = c + 1
            BY <5>1
          <5>3. c + 1 \in 1 .. c
            BY <3>0, <5>1, <5>2
          <5>4. QED
            BY <2>0, <5>3
        <4>2. QED
          BY <4>1
      <3>2. Stored(0 .. a)' \subseteq Stored(0 .. a) \cup {e}
        <4>1. SUFFICES ASSUME NEW d \in Stored(0 .. a)', d # e
                       PROVE  d \in Stored(0 .. a)
          OBVIOUS
        <4>0. PICK k \in Metric, b \in 0 .. a : \E n \in 1 .. table'[k][b] : d = <<k, b, n>>
          BY <2>2, <4>1
        <4>2. PICK n \in 1 .. table'[k][b] : d = <<k, b, n>>
          BY <4>0
        <4>3. n \in 1 .. table[k][b]
          <5>1. CASE k = m /\ b = s
            <6>1. n \in 1 .. (c + 1) /\ n # c + 1
              BY <2>0, <4>1, <4>2, <5>1
            <6>2. n \in 1 .. c
              BY <2>0, <6>1
            <6>3. QED
              BY <3>0, <5>1, <6>2
          <5>2. CASE ~(k = m /\ b = s)
            BY <2>0, <4>2, <5>2
          <5>3. QED
            BY <5>1, <5>2
        <4>4. QED
          BY <2>1, <4>2, <4>3
      <3> HIDE DEF e
      <3> DEFINE S == Stored(0 .. a)
                 T == Stored(0 .. a)'
                 C == Coming(a)
      <3>3. IsFiniteSet(S) /\ Cardinality(S) \in Nat
        BY LoadType, StoredFinite, FS_CardinalityType
      <3>4. /\ IsFiniteSet(S \cup {e}) /\ Cardinality(S \cup {e}) = Cardinality(S) + 1
        BY <3>1, <3>3, FS_AddElement
      <3>5. IsFiniteSet(T) /\ Cardinality(T) <= Cardinality(S) + 1 /\ Cardinality(T) \in Nat
        BY <3>2, <3>4, FS_Subset, FS_CardinalityType
      <3>6. r \in C
        BY <1>1, <1>2, <2>4 DEF Coming, s
      <3>7. /\ Cardinality(C) \in Nat /\ Cardinality(C \ {r}) = Cardinality(C) - 1
        BY <3>6, ComingFinite, FS_RemoveElement
      <3>8. /\ Load(a) = Cardinality(S) + Cardinality(C)
            /\ Load(a)' = Cardinality(T) + Cardinality(C \ {r})
        BY <1>3 DEF Load, EventsIn
      <3> HIDE DEF S, T, C
      <3>9. QED
        BY <3>3, <3>5, <3>7, <3>8
    <2>5. QED
      BY <2>3, <2>4
  <1>6. QED
    BY <1>4, <1>5 DEF SaveEvent

\* What leaves the events as they are and admits none.
LEMMA QuietLoad ==
  ASSUME TableTyped, UNCHANGED table, NEW a \in Age, Coming(a)' \subseteq Coming(a)
  PROVE  Load(a)' <= Load(a)
  <1>1. Stored(0 .. a)' = Stored(0 .. a)
    BY DEF Stored
  <1>2. QED
    BY <1>1, LessLoad

LEMMA NextPays ==
  ASSUME WindowPays, TableTyped, TableTyped', Typed, Typed', [RumNext]_rumVars
  PROVE  WindowPays'
  <1>0. \A a \in Age : a \in Nat
    BY LimitAssumption DEF Age
  <1>1. CASE PurgeOldRUMEvents
    <2>1. Refilled' = Refilled
      BY <1>1 DEF PurgeOldRUMEvents, vars, Refilled
    <2>2. ASSUME NEW a \in Age, a < Horizon PROVE Load(a)' <= Load(a)
      <3>1. Coming(a)' = Coming(a)
        BY <1>1 DEF PurgeOldRUMEvents, vars, Coming
      <3>2. \A e : e \in Stored(0 .. a) <=>
               \E k \in Metric, b \in 0 .. a : \E n \in 1 .. table[k][b] : e = <<k, b, n>>
        BY StoredMember
      <3>3. \A e : e \in Stored(0 .. a)' <=>
               \E k \in Metric, b \in 0 .. a : \E n \in 1 .. table'[k][b] : e = <<k, b, n>>
        BY StoredMemberNext
      <3>4. \A k \in Metric, b \in 0 .. a :
               \A n \in 1 .. table'[k][b] : n \in 1 .. table[k][b]
        <4>1. \A b \in 0 .. a : b \in Age
          BY LimitAssumption DEF Age
        <4>2. \A k \in Metric, b \in 0 .. a : table'[k][b] = 0 \/ table'[k][b] = table[k][b]
          BY <1>1, <4>1 DEF PurgeOldRUMEvents
        <4>3. QED
          BY <4>2
      <3>5. Stored(0 .. a)' \subseteq Stored(0 .. a)
        BY <3>2, <3>3, <3>4
      <3>6. QED
        BY <3>1, <3>5, LessLoad
    <2>3. QED
      BY <2>1, <2>2, LessPays
  <1>2. ASSUME NEW r \in Request, Arrive(r) /\ UNCHANGED <<stamp, table>> PROVE WindowPays'
    <2>1. Refilled' = Refilled
      BY <1>2 DEF Arrive, Refilled
    <2>2. \A a \in Age : Coming(a)' \subseteq Coming(a)
      BY <1>2 DEF Arrive, Goto, Coming, Typed
    <2>3. QED
      BY <1>2, <2>1, <2>2, QuietLoad, LessPays
  <1>3. ASSUME NEW r \in Request, ServeEvent(r) PROVE WindowPays'
    <2>1. CASE Admit(r) /\ UNCHANGED <<stamp, table>>
      BY <2>1, AdmitPays
    <2>2. CASE Refuse(r) /\ UNCHANGED <<stamp, table>>
      <3>1. Refilled' = Refilled
        BY <2>2, FullType DEF Refuse, Refilled, AtMost, Typed
      <3>2. \A a \in Age : Coming(a)' \subseteq Coming(a)
        BY <2>2 DEF Refuse, Goto, Coming, Typed
      <3>3. QED
        BY <2>2, <3>1, <3>2, QuietLoad, LessPays
    <2>3. CASE ValidateEvent(r)
      <3>1. Refilled' = Refilled
        BY <2>3 DEF ValidateEvent, Validate, Refilled
      <3>2. ASSUME NEW a \in Age PROVE Coming(a)' \subseteq Coming(a)
        <4>1. phase[r] = "admitted" /\ r \in Coming(a)
          BY <2>3 DEF ValidateEvent, Validate, Coming
        <4>2. \A q \in Request : q # r => phase'[q] = phase[q] /\ stamp'[q] = stamp[q]
          BY <2>3 DEF ValidateEvent, Validate, Goto, Typed, TableTyped
        <4>3. QED
          BY <4>1, <4>2 DEF Coming
      <3>3. QED
        BY <2>3, <3>1, <3>2, QuietLoad, LessPays DEF ValidateEvent
    <2>4. CASE SaveEvent(r)
      <3>1. Refilled' = Refilled
        BY <2>4 DEF SaveEvent, Save, Refilled
      <3>2. QED
        BY <2>4, <3>1, SaveLoad, LessPays
    <2>5. QED
      BY <1>3, <2>1, <2>2, <2>3, <2>4 DEF ServeEvent
  <1>4. CASE UNCHANGED rumVars
    <2>1. Refilled' = Refilled
      BY <1>4 DEF rumVars, vars, Refilled
    <2>2. \A a \in Age : Coming(a)' \subseteq Coming(a)
      BY <1>4 DEF rumVars, vars, Coming
    <2>3. QED
      BY <1>4, <2>1, <2>2, QuietLoad, LessPays DEF rumVars
  <1>5. QED
    BY <1>1, <1>2, <1>3, <1>4, GrowOlderPays DEF RumNext

\* The last a units of time have paid for what is stored and at most that old.
THEOREM WindowsArePaidFor == RumSpec => []WindowPays
  <1>1. IInv => Typed
    BY DEF IInv
  <1>2. RumTypeOK => TableTyped
    BY DEF RumTypeOK, TableTyped
  <1>3. WindowPays /\ TableTyped /\ TableTyped' /\ Typed /\ Typed' /\ [RumNext]_rumVars
          => WindowPays'
    BY NextPays
  <1>4. QED
    BY <1>1, <1>2, <1>3, InitPays, RumTypeCorrect, RumImplementsIngest, Invariance, PTL
       DEF RumSpec

\* Where the LIMIT is that of everything up to an age, it cuts nothing there.
LEMMA NothingIsCut ==
  ASSUME TableTyped, NEW a \in Age, EventsIn(0 .. a) <= Limit, NEW w
  PROVE  ~(SelectedFirst(w, a) < EventsIn({a}))
  <1>0. a \in Nat /\ Age = 0 .. Horizon
    BY LimitAssumption DEF Age
  <1> DEFINE S == Stored(0 .. (a - 1))
             T == Stored({a})
  <1>1. /\ IsFiniteSet(S) /\ IsFiniteSet(T)
        /\ Cardinality(S) \in Nat /\ Cardinality(T) \in Nat
    <2>1. 0 .. (a - 1) \in SUBSET Age /\ {a} \in SUBSET Age
      BY <1>0, LimitAssumption
    <2>2. QED
      BY <2>1, StoredFinite, FS_CardinalityType
  <1>2. \A e : e \in S <=>
           \E m \in Metric, b \in 0 .. (a - 1) : \E n \in 1 .. table[m][b] : e = <<m, b, n>>
    BY StoredMember
  <1>3. \A e : e \in T <=>
           \E m \in Metric, b \in {a} : \E n \in 1 .. table[m][b] : e = <<m, b, n>>
    BY StoredMember
  <1>4. \A e : e \in Stored(0 .. a) <=>
           \E m \in Metric, b \in 0 .. a : \E n \in 1 .. table[m][b] : e = <<m, b, n>>
    BY StoredMember
  <1> HIDE DEF S, T
  <1>5. \A b : b \in 0 .. a <=> b \in 0 .. (a - 1) \/ b = a
    BY <1>0
  <1>6. a \notin 0 .. (a - 1)
    BY <1>0
  <1>7. S \cap T = {}
    BY <1>2, <1>3, <1>6
  <1>8. Stored(0 .. a) = S \cup T
    BY <1>2, <1>3, <1>4, <1>5
  <1>9. Cardinality(S \cup T) = Cardinality(S) + Cardinality(T)
    <2>1. Cardinality(S \cup T)
            = Cardinality(S) + Cardinality(T) - Cardinality(S \cap T)
      BY <1>1, FS_Union
    <2>2. Cardinality(S \cap T) = 0
      BY <1>7, FS_EmptySet
    <2>3. QED
      BY <1>1, <2>1, <2>2
  <1>10. Cardinality(S) + Cardinality(T) <= Limit
    BY <1>8, <1>9 DEF EventsIn
  <1>11. SelectedFirst(w, a) = Limit - Cardinality(S) /\ EventsIn({a}) = Cardinality(T)
    BY DEF SelectedFirst, EventsIn, S, T
  <1>12. QED
    BY <1>1, <1>10, <1>11, LimitAssumption

\* So the windows that the rate leaves room for are given back whole.
THEOREM SummariesAreOfAll == RumSpec => []SummaryIsOfAll
  <1>1. ASSUME WindowPays, TableTyped, Typed PROVE SummaryIsOfAll
    <2> SUFFICES ASSUME NEW w \in Window, NEW a \in 0 .. w, a <= Covered, a < Horizon
                 PROVE  GetRUMValues(w)[a] = {[m \in Metric |-> table[m][a]]}
      BY DEF SummaryIsOfAll
    <2>1. a \in Age /\ a \in Nat
      BY LimitAssumption DEF Window, Age
    <2>2. EventsIn(0 .. a) <= Limit
      <3> DEFINE l == Load(a) * Grain
                 q == Cardinality(Request) * Grain
                 n == EventsIn(0 .. a)
                 g == Limit * Grain
      <3>1. l + Refilled <= Full + a + q
        BY <1>1, <2>1 DEF WindowPays
      <3>2. q \in Nat /\ g \in Nat /\ Limit \in Nat
        BY PendingType, FullType, LimitAssumption
      <3>3. /\ n \in Nat /\ Load(a) \in Nat /\ n <= Load(a)
        <4>1. n \in Nat /\ Cardinality(Coming(a)) \in Nat
          BY <1>1, <2>1, LoadType, ComingFinite
        <4>2. QED
          BY <4>1 DEF Load
      <3>4. l \in Nat /\ n * Grain \in Nat /\ n * Grain <= l
        BY <3>3, Product, FullType
      <3>5. Refilled \in Nat
        BY <1>1, FullType DEF Typed, Refilled, AtMost
      <3>6. a <= g - Full - q
        BY DEF Covered
      <3>7. n * Grain <= g
        <4> HIDE DEF l, q, n, g
        <4>1. QED
          BY <2>1, <3>1, <3>2, <3>4, <3>5, <3>6, FullType
      <3>8. ~(Limit + 1 <= n)
        <4>1. SUFFICES ASSUME Limit + 1 <= n PROVE FALSE
          OBVIOUS
        <4> HIDE DEF n
        <4>2. (Limit + 1) * Grain <= n * Grain /\ (Limit + 1) * Grain = g + Grain
          <5>1. \A i, j, k \in Nat : i <= j => i * k <= j * k
            OBVIOUS
          <5>2. Limit + 1 \in Nat /\ Grain \in Nat
            BY <3>2, FullType
          <5>3. (Limit + 1) * Grain = g + Grain
            BY <3>2, <5>2
          <5>4. QED
            BY <3>3, <4>1, <5>1, <5>2, <5>3
        <4> HIDE DEF g
        <4>3. QED
          BY <3>2, <3>4, <3>7, <4>2, FullType
      <3> HIDE DEF n
      <3>9. n <= Limit
        BY <3>2, <3>3, <3>8
      <3>10. QED
        BY <3>9 DEF n
    <2>3. ~(SelectedFirst(w, a) < EventsIn({a}))
      BY <1>1, <2>1, <2>2, NothingIsCut
    <2>4. QED
      BY <2>3 DEF GetRUMValues
  <1>2. IInv => Typed
    BY DEF IInv
  <1>3. RumTypeOK => TableTyped
    BY DEF RumTypeOK, TableTyped
  <1>4. WindowPays /\ TableTyped /\ Typed => SummaryIsOfAll
    BY <1>1
  <1>5. QED
    BY <1>2, <1>3, <1>4, WindowsArePaidFor, RumTypeCorrect, RumImplementsIngest, Invariance,
       PTL
===============================================================================
