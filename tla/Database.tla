------------------------------ MODULE Database ------------------------------
(***************************************************************************)
(* The tables of a SQLite or PostgreSQL database, and what the statements  *)
(* of Schema do to them.  A table is [cols, fks, rows], rows a function on *)
(* the identities of its rows; a row gives each column a value or Null.    *)
(*                                                                         *)
(* This is not code of the repository: it is what migrations/runner.go     *)
(* relies on.                                                              *)
(***************************************************************************)
EXTENDS Schema

CONSTANTS
    Dialects,         \* those to run on: "sqlite", "postgres"
    Null,             \* SQL NULL
    Generated         \* what an AUTOINCREMENT or BIGSERIAL column fills in

ASSUME DialectsAssumption == Dialects \subseteq {"sqlite", "postgres"}

ColumnsOf(t) == {t.cols[i].column : i \in DOMAIN t.cols}
ColumnOf(t, c) ==
    t.cols[CHOOSE i \in DOMAIN t.cols : t.cols[i].column = c]

\* PostgreSQL assigns across types only towards text, SQLite always.
Assignable(dialect, from, to) == dialect = "sqlite" \/ from = to \/ to = "text"

\* What a column that an INSERT leaves out gets.
Default(col) == IF col.type = "auto" THEN Generated ELSE Null

CopiedRow(st, into, row) ==
    [c \in ColumnsOf(into) |->
        IF c \in st.cols THEN row[c] ELSE Default(ColumnOf(into, c))]

-----------------------------------------------------------------------------
\* A foreign key of another table refers to this one.
ReferencedBy(tables, name) ==
    {t \in DOMAIN tables \ {name} : \E c \in ColumnsOf(tables[t]) :
        <<c, name>> \in tables[t].fks}

CanCreate(dialect, st, tables) ==
    /\ st.table \notin DOMAIN tables
    /\ \A i, j \in DOMAIN st.cols :
          st.cols[i].column = st.cols[j].column => i = j
    /\ dialect = "postgres" =>
          \A fk \in st.fks : fk[2] \in DOMAIN tables \cup {st.table}

CanCopy(dialect, st, tables) ==
    /\ {st.table, st.from} \subseteq DOMAIN tables
    /\ LET into == tables[st.table]
           from == tables[st.from] IN
       /\ st.cols \subseteq ColumnsOf(into) \cap ColumnsOf(from)
       /\ \A c \in st.cols :
             Assignable(dialect, ColumnOf(from, c).type, ColumnOf(into, c).type)
       /\ \A r \in DOMAIN from.rows : \A c \in ColumnsOf(into) :
            CopiedRow(st, into, from.rows[r])[c] = Null => ColumnOf(into, c).null

CanDrop(dialect, st, tables) ==
    /\ st.table \in DOMAIN tables
    /\ dialect = "postgres" => ReferencedBy(tables, st.table) = {}

CanRename(st, tables) == st.table \in DOMAIN tables /\ st.to \notin DOMAIN tables

CanAddColumn(st, tables) ==
    /\ st.table \in DOMAIN tables
    /\ st.col.column \notin ColumnsOf(tables[st.table])
    /\ st.col.null

\* Whether a database of the dialect accepts the statement.
CanRun(dialect, st, tables) ==
    CASE st.do = "create"    -> CanCreate(dialect, st, tables)
      [] st.do = "copy"      -> CanCopy(dialect, st, tables)
      [] st.do = "drop"      -> CanDrop(dialect, st, tables)
      [] st.do = "rename"    -> CanRename(st, tables)
      [] st.do = "addcolumn" -> CanAddColumn(st, tables)

Without(tables, name) == Restrict(tables, DOMAIN tables \ {name})

WithColumn(t, col) ==
    [t EXCEPT !.cols = Append(@, col),
              !.rows = [r \in DOMAIN @ |-> With(@[r], col.column, Null)]]

\* The tables after a statement the database accepts.
Run(st, tables) ==
    CASE st.do = "create" ->
            With(tables, st.table, [cols |-> st.cols, fks |-> st.fks, rows |-> <<>>])
      [] st.do = "copy" ->
            [tables EXCEPT ![st.table].rows =
                [r \in DOMAIN tables[st.from].rows |->
                    CopiedRow(st, tables[st.table], tables[st.from].rows[r])]]
      [] st.do = "drop" -> Without(tables, st.table)
      [] st.do = "rename" ->
            With(Without(tables, st.table), st.to, tables[st.table])
      [] st.do = "addcolumn" ->
            [tables EXCEPT ![st.table] = WithColumn(@, st.col)]

-----------------------------------------------------------------------------
(* The tables a project state describes                                    *)

DescribedTables(ps) == {ps.models[n].table : n \in ModelNames(ps)}

TableMatches(t, fields) ==
    t.cols = [i \in DOMAIN fields |-> ColumnDef(fields[i])]

Matches(tables, ps) ==
    /\ DOMAIN tables = DescribedTables(ps)
    /\ \A n \in ModelNames(ps) :
          TableMatches(tables[ps.models[n].table], ps.models[n].fields)

=============================================================================
