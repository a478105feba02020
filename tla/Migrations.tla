------------------------------ MODULE Migrations -------------------------------
(***************************************************************************)
(* The schema migrations that NewStore runs (internal/store/migrations and *)
(* initSchema of internal/store/store.go) on a database file that several  *)
(* processes may open at once: the daemon, and "loadstar run -db".  The    *)
(* version is read outside of the transactions that depend on it.  SQLite  *)
(* has one writer at a time, and undoes what a writer did not commit.      *)
(***************************************************************************)
EXTENDS Naturals, FiniteSets, FiniteSetsExt

CONSTANTS
    Process,     \* the processes that open the database
    NoProcess,   \* no process
    Latest,      \* the last version of the list, 7 in the code
    Repeatable,  \* the versions whose SQL may run again: IF NOT EXISTS only
    Faults       \* bound on crashes and failures of the disk

ASSUME ProcessAssumption == NoProcess \notin Process
ASSUME LatestAssumption == Latest \in Nat /\ Repeatable \subseteq 1 .. Latest
ASSUME FaultsAssumption == Faults \in Nat

VARIABLES
    schema,    \* the versions whose SQL is committed
    versions,  \* the rows of schema_migrations
    writer,    \* the process whose transaction holds the write lock
    pc,        \* where each process stands in NewStore
    next,      \* the migration each process is about to apply
    faults     \* faults that may still happen

vars == <<schema, versions, writer, pc, next, faults>>

TypeOK ==
    /\ schema \subseteq 1 .. Latest
    /\ versions \subseteq 1 .. Latest
    /\ writer \in Process \cup {NoProcess}
    /\ pc \in [Process -> {"stopped", "create", "read", "loop", "record", "commit", "open"}]
    /\ next \in [Process -> 1 .. Latest + 1]
    /\ faults \in 0 .. Faults

\* A new file, or one that a release with fewer migrations has written.
Init ==
    /\ \E n \in 0 .. Latest : schema = 1 .. n /\ versions = 1 .. n
    /\ writer = NoProcess
    /\ pc = [p \in Process |-> "stopped"]
    /\ next = [p \in Process |-> 1]
    /\ faults = Faults

Goto(p, l) == pc' = [pc EXCEPT ![p] = l]

\* NewStore returns the error, and the process exits; an open transaction is
\* rolled back.
Abort(p) ==
    /\ Goto(p, "stopped")
    /\ writer' = IF writer = p THEN NoProcess ELSE writer
    /\ UNCHANGED <<schema, versions, next>>

\* SELECT COALESCE(MAX(version), 0)
CurrentVersion == Max(versions \cup {0})

\* Faulty variant: off by one.
FirstPendingSkipping(current) == current + 2

\* Faulty variant: m.Version >= currentVersion.
FirstPendingAgain(current) == IF current = 0 THEN 1 ELSE current

\* The first migration with m.Version > currentVersion.
FirstPending(current) == current + 1

\* Faulty variant: the SQL runs on the database, not in the transaction.
SchemaAfterExecOutside(v) == schema \cup {v}

\* What the other processes see when the SQL of v has run in a transaction.
SchemaAfterExec(v) == schema

\* ALTER TABLE ... ADD COLUMN fails when the column is there.
SQLFails(v) == v \in schema \ Repeatable

Start(p) ==
    /\ pc[p] = "stopped"
    /\ Goto(p, "create")
    /\ UNCHANGED <<schema, versions, writer, next, faults>>

\* CREATE TABLE IF NOT EXISTS schema_migrations
CreateTable(p) ==
    /\ pc[p] = "create"
    /\ writer = NoProcess
    /\ Goto(p, "read")
    /\ UNCHANGED <<schema, versions, writer, next, faults>>

ReadVersion(p) ==
    /\ pc[p] = "read"
    /\ next' = [next EXCEPT ![p] = FirstPending(CurrentVersion)]
    /\ Goto(p, "loop")
    /\ UNCHANGED <<schema, versions, writer, faults>>

\* BeginTx and the SQL of the migration.
ApplySQL(p) ==
    /\ pc[p] = "loop"
    /\ next[p] <= Latest
    /\ writer = NoProcess
    /\ \/ SQLFails(next[p]) /\ Abort(p)
       \/ /\ ~SQLFails(next[p])
          /\ schema' = SchemaAfterExec(next[p])
          /\ writer' = p
          /\ Goto(p, "record")
          /\ UNCHANGED <<versions, next>>
    /\ UNCHANGED faults

\* INSERT INTO schema_migrations, whose key is the version.
RecordVersion(p) ==
    /\ pc[p] = "record"
    /\ \/ next[p] \in versions /\ Abort(p)
       \/ next[p] \notin versions /\ Goto(p, "commit") /\ UNCHANGED <<schema, versions, writer, next>>
    /\ UNCHANGED faults

Commit(p) ==
    /\ pc[p] = "commit"
    /\ schema' = schema \cup {next[p]}
    /\ versions' = versions \cup {next[p]}
    /\ writer' = NoProcess
    /\ next' = [next EXCEPT ![p] = @ + 1]
    /\ Goto(p, "loop")
    /\ UNCHANGED faults

\* Run returns nil: NewStore succeeds.
Finish(p) ==
    /\ pc[p] = "loop"
    /\ next[p] > Latest
    /\ Goto(p, "open")
    /\ UNCHANGED <<schema, versions, writer, next, faults>>

\* The wait for another's transaction times out.
Busy(p) ==
    /\ pc[p] \in {"create", "loop"}
    /\ writer # NoProcess
    /\ Abort(p)
    /\ UNCHANGED faults

\* A statement fails, or the process is killed.
Fail(p) ==
    /\ pc[p] # "stopped"
    /\ faults > 0
    /\ faults' = faults - 1
    /\ Abort(p)

\* The command ends.
Exit(p) ==
    /\ pc[p] = "open"
    /\ Goto(p, "stopped")
    /\ UNCHANGED <<schema, versions, writer, next, faults>>

Run(p) ==
    \/ CreateTable(p) \/ ReadVersion(p) \/ ApplySQL(p) \/ RecordVersion(p)
    \/ Commit(p) \/ Finish(p) \/ Busy(p)

Next == \E p \in Process : Start(p) \/ Run(p) \/ Fail(p) \/ Exit(p)

Spec == Init /\ [][Next]_vars

\* A process that runs goes on, and one that failed is started again.
FairSpec == Spec /\ \A p \in Process : WF_vars(Start(p)) /\ WF_vars(Run(p))

-------------------------------------------------------------------------------
(* Properties                                                                *)

\* What a process decides from MAX(version) alone is right: at every moment,
\* between any two steps of any process, the migrations that took effect are
\* those that are recorded, and no version below the maximum is missing.
PrefixIsApplied == schema = versions /\ versions = 1 .. CurrentVersion

\* NewStore returns a store only on the complete schema, whoever applied it.
OpenIsComplete == \A p \in Process : pc[p] = "open" => schema = 1 .. Latest

\* However the processes race and whatever the crashes leave behind, a process
\* that is started again until it succeeds does.
StoreOpens == \A p \in Process : <>(pc[p] = "open")
===============================================================================
