---------------------------- MODULE MigrationLog ----------------------------
(***************************************************************************)
(* What migrations.Apply promises: "schema changes plus the tracking-row   *)
(* insert are atomic", each migration takes effect once, as a whole, and   *)
(* on the state that the migrations listed before it add up to.            *)
(***************************************************************************)
EXTENDS MigrationTx

CONSTANTS
    Migs,             \* migrations.Registry.All(): [app, ops] in order
    RowId, Value      \* rows the application may insert, values it stores

VARIABLES
    dialect,          \* the dialect of the database, for good
    deployed,         \* which of Migs the released program contains
    tables,           \* the database
    recorded          \* the tracking rows, in the order they were inserted

vars == <<dialect, deployed, tables, recorded>>

Index == DOMAIN Migs

\* Registry.All of a program that contains the migrations in D.
Listed(D) == InOrder(D)
Replay(D) ==
    LET migs == Listed(D) IN
    StateFromMigrations([i \in DOMAIN migs |-> Migs[migs[i]].ops])

Init == dialect \in Dialects /\ deployed = {} /\ tables = <<>> /\ recorded = <<>>

-----------------------------------------------------------------------------
\* A release adds a migration.
Deploy(i) ==
    /\ i \in Index \ deployed
    /\ deployed' = deployed \cup {i}
    /\ UNCHANGED <<tables, recorded>>

Apply(i) ==
    LET before == {j \in ToSet(recorded) : j < i}
        end == Attempt(dialect, Migs[i].ops, Replay(before), tables)
    IN /\ i \in deployed \ ToSet(recorded)
       /\ end.ok
       /\ tables' = end.tables
       /\ recorded' = Append(recorded, i)
       /\ UNCHANGED deployed

\* The application stores a row; a nullable column may stay NULL.
Insert(t, r) ==
    /\ t \in DOMAIN tables /\ r \notin DOMAIN tables[t].rows
    /\ \E row \in [ColumnsOf(tables[t]) -> {Value, Null}] :
          /\ \A c \in ColumnsOf(tables[t]) :
                row[c] = Null => ColumnOf(tables[t], c).null
          /\ tables' = [tables EXCEPT ![t].rows = With(@, r, row)]
    /\ UNCHANGED <<deployed, recorded>>

Next ==
    /\ UNCHANGED dialect
    /\ \/ \E i \in Index : Deploy(i) \/ Apply(i)
       \/ \E t \in DOMAIN tables, r \in RowId : Insert(t, r)

Spec == Init /\ [][Next]_vars
=============================================================================
