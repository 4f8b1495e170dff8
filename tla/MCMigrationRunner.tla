-------------------------- MODULE MCMigrationRunner --------------------------
(* Migrations for model checking MigrationRunner: an app with authors, one   *)
(* of whose migrations rebuilds the table, and an app with books.            *)
EXTENDS MigrationRunner

CONSTANTS v1, p1, p2
MCRowId == {1}
MCValue == v1
MCRunner == {p1, p2}

Field(name, type, null, ref) ==
    [name |-> name, column |-> name, type |-> type, null |-> null, ref |-> ref]
Id == Field("id", "auto", FALSE, NoRef)
X(type) == Field("x", type, TRUE, NoRef)
Y == Field("y", "int", TRUE, NoRef)

Initial(app, name, table, fields) ==
    [app |-> app, ops |-> <<CreateModel(name, table, <<Id>> \o fields)>>]
Authors == Initial("people", "Author", "author", <<X("int")>>)
Books   == Initial("library", "Book", "book",
                   <<Field("author", "int", TRUE, "author")>>)
People(ops) == [app |-> "people", ops |-> ops]

\* Every kind of operation, two of them in one migration.
MCMigs ==
    <<Authors,
      People(<<AddField("Author", Y)>>),
      People(<<AlterField("Author", X("text"))>>),
      People(<<RemoveField("Author", "x"),
               CreateModel("Note", "note", <<Id>>)>>),
      People(<<DeleteModel("Note")>>),
      Books>>

\* One process that migrates and is interrupted twice; two at once, one of
\* them interrupted, where each migration creates a table or adds a column.
MCProjects ==
    {[migs |-> {1, 3, 4, 5, 6}, runners |-> {p1}, faults |-> 2],
     [migs |-> {1, 2}, runners |-> {p1, p2}, faults |-> 1]}

\* Two at once, and a migration that rebuilds its table.
MCOverlapping ==
    {[migs |-> {1, 3}, runners |-> {p1, p2}, faults |-> 0]}

=============================================================================
