--------------------------- MODULE MigrationRunner ---------------------------
(***************************************************************************)
(* migrations/runner.go and recorder.go: runs of the migrate command, each *)
(* a process of its own, against one database that the application uses at *)
(* the same time.  A run is a sequence of database calls; between any two  *)
(* it may be interrupted, and other runs may take steps.                   *)
(*                                                                         *)
(* The database has one writer: the first statement of a transaction takes *)
(* the lock, and COMMIT or ROLLBACK gives it back.  A statement that finds *)
(* it taken fails (SQLITE_BUSY: the DSN sets no busy timeout).             *)
(***************************************************************************)
EXTENDS MigrationTx

CONSTANTS
    Migs,             \* migrations.Registry.All(): [app, ops] in order
    Runner,           \* processes that run migrate
    None,             \* no process
    Projects,         \* [migs, runners, faults]: which of Migs a project gets to
                      \* have, who migrates, and a bound on interrupted runs
    RowId, Value      \* rows the application may insert, values it stores

\* MakeMigrations writes no migration without operations.
ASSUME MigsAssumption ==
    /\ Migs \in Seq(Range(Migs))
    /\ \A i \in DOMAIN Migs :
          /\ Migs[i].ops # <<>> /\ Migs[i].ops \in Seq(Range(Migs[i].ops))
          /\ \A k \in DOMAIN Migs[i].ops : IsOperation(Migs[i].ops[k])
ASSUME ProjectsAssumption ==
    \A pr \in Projects : /\ pr.migs \subseteq DOMAIN Migs
                         /\ pr.runners \subseteq Runner /\ pr.faults \in Nat
ASSUME NoneAssumption == None \notin Runner

VARIABLES
    dialect,          \* the dialect of the database, for good
    project,          \* the project this is
    deployed,         \* which of Migs the released program contains
    tables, recorded, \* the committed tables, and the tracking rows in order
    tracking,         \* whether the tracking table exists
    tx,               \* the open transaction: who, and what it sees
    proc,             \* the local variables of Apply in each process
    faults

vars == <<dialect, project, deployed, tables, recorded, tracking, tx, proc, faults>>

Log == INSTANCE MigrationLog

Index == DOMAIN Migs
Listed(D) == InOrder(D)
Replay(D) ==
    LET migs == Listed(D) IN
    StateFromMigrations([i \in DOMAIN migs |-> Migs[migs[i]].ops])

\* makemigrations writes what Diff finds between the state of the app's earlier
\* migrations and the registry, and puts all models into the one app: another
\* app brings migrations of models that are its own.
ASSUME SoundAssumption ==
    \A pr \in Projects : \A i \in pr.migs :
        SoundAll(Migs[i].ops,
                 Replay({j \in pr.migs : j < i /\ Migs[j].app = Migs[i].app}))
ASSUME AppsAssumption ==
    \A i, j \in DOMAIN Migs : \A k \in DOMAIN Migs[i].ops, l \in DOMAIN Migs[j].ops :
        Migs[i].ops[k].model = Migs[j].ops[l].model => Migs[i].app = Migs[j].app

NoTx == [by |-> None, tables |-> <<>>, recorded |-> <<>>]
Idle == [pc |-> "idle", migs |-> <<>>, applied |-> {}, at |-> 1,
         ps |-> NewProjectState, op |-> 1, stmt |-> 1]

\* The migration a run is at, and the operation it is at in that one.
More(p)  == proc[p].at <= Len(proc[p].migs)
Mig(p)   == proc[p].migs[proc[p].at]
Ops(p)   == Migs[Mig(p)].ops
InOps(p) == proc[p].op <= Len(Ops(p))
Op(p)    == Ops(p)[proc[p].op]

TypeOK ==
    /\ deployed \subseteq Index
    /\ recorded \in Seq(Index)
    /\ tracking \in BOOLEAN
    /\ tx.by \in Runner \cup {None} /\ tx.recorded \in Seq(Index)
    /\ dialect \in Dialects /\ project \in Projects
    /\ faults \in 0 .. project.faults
    /\ \A p \in Runner :
          /\ proc[p].pc \in {"idle", "ensure", "scan", "loop", "tx", "commit"}
          /\ proc[p].migs \in Seq(Index)
          /\ proc[p].applied \subseteq Index
          /\ proc[p].at \in 1 .. Len(proc[p].migs) + 1
          /\ proc[p].pc \in {"tx", "commit"} => More(p)
          /\ proc[p].pc = "tx" => proc[p].op \in 1 .. Len(Ops(p)) + 1
          /\ proc[p].stmt \in 1 .. 4

Init ==
    /\ dialect \in Dialects /\ project \in Projects
    /\ deployed = {} /\ tables = <<>> /\ recorded = <<>>
    /\ tracking = FALSE
    /\ tx = NoTx
    /\ proc = [p \in Runner |-> Idle]
    /\ faults = 0

-----------------------------------------------------------------------------
(* The transaction                                                         *)

CanWrite(p) == tx.by \in {None, p}

\* What a transaction of p reads and writes.
Seen(p) == IF tx.by = p THEN tx
           ELSE [by |-> p, tables |-> tables, recorded |-> recorded]

Rollback(p) == tx' = IF tx.by = p THEN NoTx ELSE tx

-----------------------------------------------------------------------------
(* One run of migrate                                                      *)

Start(p) ==
    /\ proc[p].pc = "idle"
    /\ proc' = [proc EXCEPT ![p] = [Idle EXCEPT !.pc = "ensure", !.migs = Listed(deployed)]]
    /\ UNCHANGED <<deployed, tables, recorded, tracking, tx, faults>>

\* CREATE TABLE IF NOT EXISTS for the tracking table.
EnsureTable(p) ==
    /\ proc[p].pc = "ensure"
    /\ tracking' = TRUE
    /\ proc' = [proc EXCEPT ![p].pc = "scan"]
    /\ UNCHANGED <<deployed, tables, recorded, tx, faults>>

\* Fault: the last of the tracking rows is not read.
AppliedSetButLast(p) ==
    /\ proc[p].pc = "scan" /\ tracking
    /\ proc' = [proc EXCEPT ![p].pc = "loop",
                            ![p].applied = ToSet(SubSeq(recorded, 1, Len(recorded) - 1))]
    /\ UNCHANGED <<deployed, tables, recorded, tracking, tx, faults>>

\* AppliedSet, read once and outside any transaction.
AppliedSet(p) ==
    /\ proc[p].pc = "scan" /\ tracking
    /\ proc' = [proc EXCEPT ![p].pc = "loop", ![p].applied = ToSet(recorded)]
    /\ UNCHANGED <<deployed, tables, recorded, tracking, tx, faults>>

\* Faults: the state does not follow what is skipped, or two are skipped.
SkipWithoutApply(p) ==
    /\ proc[p].pc = "loop" /\ More(p) /\ Mig(p) \in proc[p].applied
    /\ proc' = [proc EXCEPT ![p].at = @ + 1]
    /\ UNCHANGED <<deployed, tables, recorded, tracking, tx, faults>>
SkipTwo(p) ==
    /\ proc[p].pc = "loop" /\ More(p) /\ Mig(p) \in proc[p].applied
    /\ proc' = [proc EXCEPT ![p].ps = ApplyAll(@, Ops(p)), ![p].at = @ + 2]
    /\ UNCHANGED <<deployed, tables, recorded, tracking, tx, faults>>

Skip(p) ==
    /\ proc[p].pc = "loop" /\ More(p) /\ Mig(p) \in proc[p].applied
    /\ proc' = [proc EXCEPT ![p].ps = ApplyAll(@, Ops(p)), ![p].at = @ + 1]
    /\ UNCHANGED <<deployed, tables, recorded, tracking, tx, faults>>

BeginTx(p) ==
    /\ proc[p].pc = "loop" /\ More(p) /\ Mig(p) \notin proc[p].applied
    /\ proc' = [proc EXCEPT ![p].pc = "tx", ![p].op = 1, ![p].stmt = 1]
    /\ UNCHANGED <<deployed, tables, recorded, tracking, tx, faults>>

\* The loop over statements, and, after the last of an operation, its Apply.
Statements(p) == SQL(Op(p), proc[p].ps)
AfterStatement(p) ==
    IF proc[p].stmt < Len(Statements(p))
    THEN [proc EXCEPT ![p].stmt = @ + 1]
    ELSE [proc EXCEPT ![p].stmt = 1, ![p].op = @ + 1, ![p].ps = ApplyOp(@, Op(p))]

\* Fault: the error of a statement is not looked at.
ExecIgnoresErrors(p) ==
    /\ proc[p].pc = "tx" /\ InOps(p) /\ Renders(Op(p), proc[p].ps)
    /\ LET st == Statements(p)[proc[p].stmt] IN
       tx' = IF CanWrite(p) /\ CanRun(dialect, st, Seen(p).tables)
             THEN [Seen(p) EXCEPT !.tables = Run(st, @)] ELSE tx
    /\ proc' = AfterStatement(p)
    /\ UNCHANGED <<deployed, tables, recorded, tracking, faults>>

ExecStatement(p) ==
    /\ proc[p].pc = "tx" /\ InOps(p) /\ Renders(Op(p), proc[p].ps)
    /\ LET st == Statements(p)[proc[p].stmt] IN
       /\ CanWrite(p) /\ CanRun(dialect, st, Seen(p).tables)
       /\ tx' = [Seen(p) EXCEPT !.tables = Run(st, @)]
    /\ proc' = AfterStatement(p)
    /\ UNCHANGED <<deployed, tables, recorded, tracking, faults>>

\* op.SQL returns an error, or the database rejects the statement: Rollback,
\* and Apply returns.
StatementFails(p) ==
    /\ proc[p].pc = "tx" /\ InOps(p)
    /\ Renders(Op(p), proc[p].ps) =>
          ~(CanWrite(p) /\ CanRun(dialect, Statements(p)[proc[p].stmt], Seen(p).tables))
    /\ Rollback(p)
    /\ proc' = [proc EXCEPT ![p] = Idle]
    /\ UNCHANGED <<deployed, tables, recorded, tracking, faults>>

\* Fault: the tracking row is inserted with db, not with tx.
RecordOutsideTx(p) ==
    /\ proc[p].pc = "tx" /\ ~InOps(p)
    /\ recorded' = Append(recorded, Mig(p))
    /\ tx' = [tx EXCEPT !.recorded = Append(recorded, Mig(p))]
    /\ proc' = [proc EXCEPT ![p].pc = "commit"]
    /\ UNCHANGED <<deployed, tables, tracking, faults>>

\* The transaction of p has the lock since its first statement.
RecordApplied(p) ==
    /\ proc[p].pc = "tx" /\ ~InOps(p)
    /\ tx' = [tx EXCEPT !.recorded = Append(@, Mig(p))]
    /\ proc' = [proc EXCEPT ![p].pc = "commit"]
    /\ UNCHANGED <<deployed, tables, recorded, tracking, faults>>

Commit(p) ==
    /\ proc[p].pc = "commit"
    /\ tables' = tx.tables /\ recorded' = tx.recorded
    /\ tx' = NoTx
    /\ proc' = [proc EXCEPT ![p].pc = "loop", ![p].at = @ + 1]
    /\ UNCHANGED <<deployed, tracking, faults>>

Finish(p) ==
    /\ proc[p].pc = "loop" /\ ~More(p)
    /\ proc' = [proc EXCEPT ![p] = Idle]
    /\ UNCHANGED <<deployed, tables, recorded, tracking, tx, faults>>

\* The process dies, or a call fails and Apply returns its error after a
\* rollback.  A COMMIT that fails although the database took it is a Commit
\* with an interruption after it.
Interrupt(p) ==
    /\ proc[p].pc # "idle" /\ faults < project.faults
    /\ faults' = faults + 1
    /\ Rollback(p)
    /\ proc' = [proc EXCEPT ![p] = Idle]
    /\ UNCHANGED <<deployed, tables, recorded, tracking>>

-----------------------------------------------------------------------------
(* The rest of the world                                                   *)

Deploy(i) ==
    /\ i \in project.migs \ deployed
    /\ \A j \in project.migs : j < i /\ Migs[j].app = Migs[i].app => j \in deployed
    /\ deployed' = deployed \cup {i}
    /\ UNCHANGED <<tables, recorded, tracking, tx, proc, faults>>

Insert(t, r) ==
    /\ tx.by = None
    /\ Log!Insert(t, r)
    /\ UNCHANGED <<tracking, tx, proc, faults>>

-----------------------------------------------------------------------------
Step(p) ==
    /\ p \in project.runners /\ UNCHANGED <<dialect, project>>
    /\ \/ Start(p) \/ EnsureTable(p) \/ AppliedSet(p) \/ Finish(p)
       \/ Skip(p) \/ BeginTx(p)
       \/ ExecStatement(p) \/ StatementFails(p)
       \/ RecordApplied(p) \/ Commit(p)

Next ==
    \/ \E p \in Runner : Step(p)
    \/ /\ UNCHANGED <<dialect, project>>
       /\ \/ \E p \in Runner : Interrupt(p)
          \/ \E i \in Index : Deploy(i)
          \/ \E t \in DOMAIN tables, r \in RowId : Insert(t, r)

Spec == Init /\ [][Next]_vars

\* migrate is run again and again, and a run that is not interrupted takes its
\* steps.  A process can always take one (TLC would report a deadlock where one
\* cannot), so this is weak fairness of Step(p) without an ENABLED to evaluate.
FairSpec == Spec /\ \A p \in Runner : p \in project.runners => []<><<Step(p)>>_vars

-----------------------------------------------------------------------------
(* Correctness                                                             *)

\* Whatever was interrupted where, the tables are those of the state that the
\* recorded migrations add up to, in the order of the registry: no half-applied
\* migration, no record of one that was not applied, and no leftover of one.
SchemaMatchesRecords == Matches(tables, Replay(ToSet(recorded)))

\* Apply runs "every migration in migs that is not yet recorded as applied":
\* none is ever applied a second time.  Two runs at once break it.
AppliedOnce == IsInjective(recorded)

\* At most one run is under way.
RunsApart ==
    \A p, q \in Runner : proc[p].pc # "idle" /\ proc[q].pc # "idle" => p = q

\* One run of migrate at a time, of whatever process and interrupted wherever,
\* applies nothing a second time, although Apply reads what is applied once,
\* before its loop, and a migration may well be one the database would take twice.
AppliedOnceApart == []RunsApart => []AppliedOnce

\* Every run is a run of the abstract log, in which a migration and its
\* tracking row take effect in one step.
ImplementsMigrationLog == Log!Spec

\* A migration that is deployed is applied in the end, however often migrate
\* was interrupted before: no interruption leaves a state in which a migration
\* that would apply no longer does.
Converges == \A i \in Index : i \in deployed ~> i \in ToSet(recorded)

=============================================================================
