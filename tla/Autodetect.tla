----------------------------- MODULE Autodetect -----------------------------
(***************************************************************************)
(* The developer's loop around migrations/: the models change, the command *)
(* makemigrations diffs them against the migrations written so far, and    *)
(* migrate applies the pending ones.  One process, no crashes: these are   *)
(* the subject of MigrationRunner.                                         *)
(***************************************************************************)
EXTENDS MigrationTx, MigrationFile

CONSTANTS
    ProjectStates,    \* the states the registered models may be in
    MaxMigrations,    \* bound on the migrations written
    RowId, Value      \* rows the application may insert, values it stores

VARIABLES
    dialect,          \* the dialect of the database, for good
    registry,         \* StateFromRegistry: the models the program declares
    migs,             \* the migrations written for the app
    applied,          \* how many of them the database records as applied
    tables            \* the database

vars == <<dialect, registry, migs, applied, tables>>

Applied(n) == StateFromMigrations(SubSeq(migs, 1, n))

TypeOK ==
    /\ dialect \in Dialects
    /\ registry \in ProjectStates
    /\ Len(migs) <= MaxMigrations
    /\ applied \in 0 .. Len(migs)
    /\ \A t \in DOMAIN tables : \A r \in DOMAIN tables[t].rows :
          DOMAIN tables[t].rows[r] = ColumnsOf(tables[t])

Init ==
    /\ dialect \in Dialects
    /\ registry \in ProjectStates
    /\ migs = <<>>
    /\ applied = 0
    /\ tables = <<>>

-----------------------------------------------------------------------------
(* Applying migrations                                                     *)

\* The n-th migration in its transaction.
AttemptNth(n, db) == Attempt(dialect, migs[n], Applied(n - 1), db)

\* Apply goes through the pending migrations and stops at one that fails,
\* whose transaction is rolled back.
RECURSIVE MigrateFrom(_, _)
MigrateFrom(n, db) ==
    IF n > Len(migs) \/ ~AttemptNth(n, db).ok
    THEN [applied |-> n - 1, tables |-> db]
    ELSE MigrateFrom(n + 1, AttemptNth(n, db).tables)

-----------------------------------------------------------------------------
(* Actions                                                                 *)

EditModels ==
    /\ registry' \in ProjectStates \ {registry}
    /\ UNCHANGED <<migs, applied, tables>>

\* makemigrations: the changes become the next migration, which is written to
\* a file and compiled into the program.
MakeMigrations ==
    LET ops == Diff(StateFromMigrations(migs), registry) IN
    /\ ops # <<>>
    /\ Len(migs) < MaxMigrations
    /\ migs' = Append(migs, WrittenAndCompiled(ops))
    /\ UNCHANGED <<registry, applied, tables>>

\* Apply: what is not yet applied, in order.
Migrate ==
    LET end == MigrateFrom(applied + 1, tables) IN
    /\ applied < Len(migs)
    /\ applied' = end.applied
    /\ tables' = end.tables
    /\ UNCHANGED <<registry, migs>>

\* The application stores a row; a nullable column may stay NULL.
Insert(t, r) ==
    /\ t \in DOMAIN tables /\ r \notin DOMAIN tables[t].rows
    /\ \E row \in [ColumnsOf(tables[t]) -> {Value, Null}] :
          /\ \A c \in ColumnsOf(tables[t]) :
                row[c] = Null => ColumnOf(tables[t], c).null
          /\ tables' = [tables EXCEPT ![t].rows = With(@, r, row)]
    /\ UNCHANGED <<registry, migs, applied>>

Next ==
    /\ UNCHANGED dialect
    /\ \/ EditModels
       \/ MakeMigrations
       \/ Migrate
       \/ \E t \in DOMAIN tables, r \in RowId : Insert(t, r)

Spec == Init /\ [][Next]_vars

-----------------------------------------------------------------------------
(* Correctness                                                             *)

SameFields(m, n) == ToSet(m.fields) = ToSet(n.fields)

\* "the ordered operations that transform the old project state into the new
\* one": replaying all migrations right after makemigrations gives the models
\* the program declares, field for field.  (Their order may differ.)
ReplayReachesModels ==
    [][ migs' # migs =>
          LET ps == StateFromMigrations(migs') IN
          /\ ModelNames(ps) = ModelNames(registry)
          /\ \A n \in ModelNames(ps) : SameFields(ps.models[n], registry.models[n])
      ]_vars

\* Apply and SQL of every operation agree: whatever was migrated, and wherever
\* a migration failed half-way, the database has exactly the tables and columns
\* of the state the applied migrations add up to, and no __new table is left.
DatabaseMatchesHistory == Matches(tables, Applied(applied))

\* A migration that changes a table keeps its rows, and in each row the value
\* of every field whose column stays the same.
SurvivingDataKept ==
    [][ applied' = applied + 1 =>
          LET old == Applied(applied)
              new == Applied(applied') IN
          \A n \in ModelNames(old) \cap ModelNames(new) :
             LET t == tables[old.models[n].table]
                 u == tables'[new.models[n].table]
                 kept == Columns(SelectSeq(old.models[n].fields,
                            LAMBDA f : /\ HasField(new.models[n], f.name)
                                       /\ FieldByName(new.models[n], f.name).column = f.column))
             IN /\ DOMAIN t.rows = DOMAIN u.rows
                /\ \A r \in DOMAIN t.rows, c \in kept : u.rows[r][c] = t.rows[r][c]
      ]_vars

\* DetectPotentialRenames warns of as many renames as there can be: each pair
\* is a removed and an added field of one type, no field is in two pairs, and
\* no removed field is left with an added one of its type.
RenamesDetected ==
    LET old == StateFromMigrations(migs) IN
    \A n \in ModelNames(old) \cap ModelNames(registry) :
        LET om == old.models[n]
            nm == registry.models[n]
            pairs == PotentialRenames(om, nm)
            removed == {f \in ToSet(om.fields) : ~HasField(nm, f.name)}
            added   == {f \in ToSet(nm.fields) : ~HasField(om, f.name)}
        IN /\ \A p \in pairs : \E f \in removed, g \in added :
                 p = <<f.name, g.name>> /\ SameType(f, g)
           /\ \A p, q \in pairs : p[1] = q[1] <=> p[2] = q[2]
           /\ \A f \in removed, g \in added :
                 SameType(f, g) => \E p \in pairs : p[1] = f.name \/ p[2] = g.name

=============================================================================
