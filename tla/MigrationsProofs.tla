---------------------------- MODULE MigrationsProofs ---------------------------
(***************************************************************************)
(* Any number of processes may open the database together: what they read  *)
(* outside of a transaction stays good enough.                             *)
(***************************************************************************)
EXTENDS Migrations, TLAPS

\* A transaction is open where the lock is held.
WriterIsInTransaction ==
    \A p \in Process : pc[p] \in {"record", "commit"} <=> writer = p

\* Everything before the next migration of a process is applied.
LoopIsBehind ==
    \A p \in Process : pc[p] \in {"loop", "record", "commit"} => 1 .. (next[p] - 1) \subseteq versions

\* A row about to be committed is new.
CommitIsNew == \A p \in Process : pc[p] = "commit" => next[p] \notin versions

\* A migration that runs is one of the list.
RunsOneOfTheList ==
    \A p \in Process : pc[p] \in {"record", "commit"} => next[p] <= Latest

AppliedPrefix == schema = versions /\ \E n \in 0 .. Latest : versions = 1 .. n

IInv ==
    /\ TypeOK
    /\ AppliedPrefix
    /\ WriterIsInTransaction
    /\ LoopIsBehind
    /\ CommitIsNew
    /\ RunsOneOfTheList
    /\ OpenIsComplete

-------------------------------------------------------------------------------

\* The maximum of a prefix is its end.
LEMMA MaxOfPrefix ==
    ASSUME NEW n \in Nat, versions = 1 .. n
    PROVE  CurrentVersion = n
<1>1. \A y \in 1 .. n \cup {0} : n >= y
  OBVIOUS
<1>2. n \in 1 .. n \cup {0}
  OBVIOUS
<1> QED
  BY <1>1, <1>2 DEF CurrentVersion, Max

\* AppliedPrefix is what the property says.
LEMMA PrefixFollows == AppliedPrefix => PrefixIsApplied
<1> SUFFICES ASSUME AppliedPrefix PROVE PrefixIsApplied
  OBVIOUS
<1>1. PICK n \in 0 .. Latest : versions = 1 .. n
  BY DEF AppliedPrefix
<1>2. CurrentVersion = n
  BY <1>1, MaxOfPrefix, LatestAssumption
<1> QED
  BY <1>1, <1>2 DEF AppliedPrefix, PrefixIsApplied

LEMMA InitHolds == Init => IInv
<1> SUFFICES ASSUME Init PROVE IInv
  OBVIOUS
<1>1. TypeOK /\ AppliedPrefix
  BY LatestAssumption, FaultsAssumption DEF Init, TypeOK, AppliedPrefix
<1>2. WriterIsInTransaction
  BY ProcessAssumption DEF Init, WriterIsInTransaction
<1> QED
  BY <1>1, <1>2 DEF Init, IInv, LoopIsBehind, CommitIsNew, RunsOneOfTheList, OpenIsComplete

\* Giving up rolls back and returns the lock.
LEMMA AbortPreserves ==
    ASSUME IInv, NEW p \in Process, Abort(p), faults' \in 0 .. Faults
    PROVE  IInv'
<1> USE DEF Abort, Goto
<1>1. TypeOK' /\ AppliedPrefix'
  BY DEF IInv, TypeOK, AppliedPrefix
<1>2. WriterIsInTransaction'
  BY ProcessAssumption DEF IInv, TypeOK, WriterIsInTransaction
<1>3. LoopIsBehind' /\ CommitIsNew' /\ RunsOneOfTheList'
  BY DEF IInv, TypeOK, LoopIsBehind, CommitIsNew, RunsOneOfTheList
<1>4. OpenIsComplete'
  BY DEF IInv, TypeOK, OpenIsComplete
<1> QED
  BY <1>1, <1>2, <1>3, <1>4 DEF IInv

LEMMA StepPreserves == IInv /\ [Next]_vars => IInv'
<1> SUFFICES ASSUME IInv, [Next]_vars PROVE IInv'
  OBVIOUS
<1> USE DEF Goto
<1>1. ASSUME NEW p \in Process, Start(p) \/ CreateTable(p) \/ Exit(p) PROVE IInv'
  <2>1. TypeOK' /\ AppliedPrefix'
    BY <1>1 DEF Start, CreateTable, Exit, IInv, TypeOK, AppliedPrefix
  <2>2. WriterIsInTransaction' /\ LoopIsBehind' /\ CommitIsNew' /\ RunsOneOfTheList'
    BY <1>1 DEF Start, CreateTable, Exit, IInv, TypeOK, WriterIsInTransaction, LoopIsBehind,
                CommitIsNew, RunsOneOfTheList
  <2>3. OpenIsComplete'
    BY <1>1 DEF Start, CreateTable, Exit, IInv, TypeOK, OpenIsComplete
  <2> QED
    BY <2>1, <2>2, <2>3 DEF IInv
<1>2. ASSUME NEW p \in Process, ReadVersion(p) PROVE IInv'
  <2>1. PICK n \in 0 .. Latest : versions = 1 .. n
    BY DEF IInv, AppliedPrefix
  <2>2. next' = [next EXCEPT ![p] = n + 1]
    <3>1. CurrentVersion = n
      BY <2>1, MaxOfPrefix, LatestAssumption
    <3> QED
      BY <1>2, <3>1 DEF ReadVersion, FirstPending
  <2>3. TypeOK' /\ AppliedPrefix'
    BY <1>2, <2>2, LatestAssumption DEF ReadVersion, IInv, TypeOK, AppliedPrefix
  <2>4. WriterIsInTransaction' /\ CommitIsNew' /\ RunsOneOfTheList' /\ OpenIsComplete'
    BY <1>2, <2>2 DEF ReadVersion, IInv, TypeOK, WriterIsInTransaction, CommitIsNew,
                      RunsOneOfTheList, OpenIsComplete
  <2>5. LoopIsBehind'
    BY <1>2, <2>1, <2>2 DEF ReadVersion, IInv, TypeOK, LoopIsBehind
  <2> QED
    BY <2>3, <2>4, <2>5 DEF IInv
<1>3. ASSUME NEW p \in Process, ApplySQL(p) PROVE IInv'
  <2>1. CASE Abort(p)
    BY <1>3, <2>1, AbortPreserves DEF ApplySQL, IInv, TypeOK
  <2>2. CASE ~Abort(p)
    <3>1. TypeOK' /\ AppliedPrefix'
      BY <1>3, <2>2 DEF ApplySQL, SchemaAfterExec, IInv, TypeOK, AppliedPrefix
    <3>2. WriterIsInTransaction'
      BY <1>3, <2>2, ProcessAssumption DEF ApplySQL, IInv, TypeOK, WriterIsInTransaction
    <3>3. LoopIsBehind' /\ CommitIsNew' /\ RunsOneOfTheList' /\ OpenIsComplete'
      BY <1>3, <2>2 DEF ApplySQL, SchemaAfterExec, IInv, TypeOK, LoopIsBehind, CommitIsNew,
                        RunsOneOfTheList, OpenIsComplete
    <3> QED
      BY <3>1, <3>2, <3>3 DEF IInv
  <2> QED
    BY <2>1, <2>2
<1>4. ASSUME NEW p \in Process, RecordVersion(p) PROVE IInv'
  <2>1. CASE Abort(p)
    BY <1>4, <2>1, AbortPreserves DEF RecordVersion, IInv, TypeOK
  <2>2. CASE ~Abort(p)
    <3>1. TypeOK' /\ AppliedPrefix' /\ WriterIsInTransaction'
      BY <1>4, <2>2 DEF RecordVersion, IInv, TypeOK, AppliedPrefix, WriterIsInTransaction
    <3>2. LoopIsBehind' /\ CommitIsNew' /\ RunsOneOfTheList' /\ OpenIsComplete'
      BY <1>4, <2>2 DEF RecordVersion, IInv, TypeOK, LoopIsBehind, CommitIsNew,
                        RunsOneOfTheList, OpenIsComplete
    <3> QED
      BY <3>1, <3>2 DEF IInv
  <2> QED
    BY <2>1, <2>2
<1>5. ASSUME NEW p \in Process, Commit(p) PROVE IInv'
  <2>1. PICK n \in 0 .. Latest : versions = 1 .. n
    BY DEF IInv, AppliedPrefix
  <2>2. next[p] = n + 1 /\ next[p] <= Latest
    <3>1. 1 .. (next[p] - 1) \subseteq 1 .. n /\ next[p] \notin 1 .. n
      BY <1>5, <2>1 DEF Commit, IInv, LoopIsBehind, CommitIsNew
    <3>2. next[p] \in 1 .. Latest + 1 /\ next[p] <= Latest
      BY <1>5 DEF Commit, IInv, TypeOK, RunsOneOfTheList
    <3>3. next[p] - 1 \in 1 .. (next[p] - 1) \/ next[p] = 1
      BY <3>2, LatestAssumption
    <3> QED
      BY <3>1, <3>2, <3>3, LatestAssumption
  <2>3. schema' = 1 .. (n + 1) /\ versions' = 1 .. (n + 1)
    BY <1>5, <2>1, <2>2, LatestAssumption DEF Commit, IInv, AppliedPrefix
  <2>4. TypeOK' /\ AppliedPrefix'
    BY <1>5, <2>2, <2>3, LatestAssumption DEF Commit, IInv, TypeOK, AppliedPrefix
  <2>5. WriterIsInTransaction'
    BY <1>5, ProcessAssumption DEF Commit, IInv, TypeOK, WriterIsInTransaction
  <2>6. \A q \in Process \ {p} : pc[q] \notin {"record", "commit"} /\ pc'[q] = pc[q] /\ next'[q] = next[q]
    BY <1>5 DEF Commit, IInv, TypeOK, WriterIsInTransaction
  <2>7. pc'[p] = "loop" /\ next'[p] = n + 2
    BY <1>5, <2>2 DEF Commit, IInv, TypeOK
  <2>8. LoopIsBehind'
    BY <2>1, <2>3, <2>6, <2>7, LatestAssumption DEF IInv, LoopIsBehind
  <2>9. CommitIsNew' /\ RunsOneOfTheList'
    BY <2>6, <2>7 DEF CommitIsNew, RunsOneOfTheList
  <2>10. OpenIsComplete'
    <3> SUFFICES ASSUME NEW q \in Process, pc'[q] = "open" PROVE schema' = 1 .. Latest
      BY DEF OpenIsComplete
    <3>1. q # p /\ pc[q] = "open"
      BY <2>6, <2>7
    <3>2. 1 .. n = 1 .. Latest
      BY <2>1, <3>1 DEF IInv, AppliedPrefix, OpenIsComplete
    <3>3. n + 1 \in 1 .. Latest /\ n + 1 \notin 1 .. n
      BY <2>2, LatestAssumption
    <3> QED
      BY <3>2, <3>3
  <2> QED
    BY <2>4, <2>5, <2>8, <2>9, <2>10 DEF IInv
<1>6. ASSUME NEW p \in Process, Finish(p) PROVE IInv'
  <2>1. TypeOK' /\ AppliedPrefix' /\ WriterIsInTransaction'
    BY <1>6 DEF Finish, IInv, TypeOK, AppliedPrefix, WriterIsInTransaction
  <2>2. LoopIsBehind' /\ CommitIsNew' /\ RunsOneOfTheList'
    BY <1>6 DEF Finish, IInv, TypeOK, LoopIsBehind, CommitIsNew, RunsOneOfTheList
  <2>3. schema = 1 .. Latest
    <3>1. next[p] = Latest + 1
      BY <1>6, LatestAssumption DEF Finish, IInv, TypeOK
    <3>2. 1 .. Latest \subseteq versions
      BY <1>6, <3>1, LatestAssumption DEF Finish, IInv, LoopIsBehind
    <3> QED
      BY <3>2 DEF IInv, TypeOK, AppliedPrefix
  <2>4. OpenIsComplete'
    BY <1>6, <2>3 DEF Finish, OpenIsComplete
  <2> QED
    BY <2>1, <2>2, <2>4 DEF IInv
<1>7. ASSUME NEW p \in Process, Busy(p) \/ Fail(p) PROVE IInv'
  <2>1. Abort(p) /\ faults' \in 0 .. Faults
    BY <1>7, FaultsAssumption DEF Busy, Fail, IInv, TypeOK
  <2> QED
    BY <2>1, AbortPreserves
<1>8. CASE UNCHANGED vars
  BY <1>8 DEF vars, IInv, TypeOK, AppliedPrefix, WriterIsInTransaction, LoopIsBehind, CommitIsNew,
              RunsOneOfTheList, OpenIsComplete
<1> QED
  BY <1>1, <1>2, <1>3, <1>4, <1>5, <1>6, <1>7, <1>8 DEF Next, Run

THEOREM Invariance == Spec => []IInv
<1> QED
  BY InitHolds, StepPreserves, PTL DEF Spec

\* Every variable keeps its type, and the versions stay in the list.
THEOREM TypeCorrect == Spec => []TypeOK
<1>1. IInv => TypeOK
  BY DEF IInv
<1> QED
  BY <1>1, Invariance, PTL

\* For any number of processes and migrations: what has taken effect is what is
\* recorded, without a gap below the maximum.
THEOREM PrefixAlways == Spec => []PrefixIsApplied
<1>1. IInv => PrefixIsApplied
  BY PrefixFollows DEF IInv
<1> QED
  BY <1>1, Invariance, PTL

\* NewStore never succeeds on an incomplete schema.
THEOREM CompleteWhenOpen == Spec => []OpenIsComplete
<1>1. IInv => OpenIsComplete
  BY DEF IInv
<1> QED
  BY <1>1, Invariance, PTL
===============================================================================
