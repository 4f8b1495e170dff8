---------------------------- MODULE MigrationFile ----------------------------
(***************************************************************************)
(* migrations/writer.go: a migration as the Go file that makemigrations    *)
(* writes, and as the program has it again once the file is compiled in.   *)
(* The literal of a field state names only what is not zero, and Go gives  *)
(* the rest its zero value.  Quoting and layout are left out.  Two files   *)
(* of one app declare the same variable (writer.go:35); the developer is   *)
(* taken to rename it in the second, as the compiler demands.              *)
(***************************************************************************)
EXTENDS Schema

\* A fault: that a column takes NULL is not written.
WrittenKeysWithoutNull(f) == {"name", "column", "type"} \cup (IF f.ref # NoRef THEN {"ref"} ELSE {})

\* fieldStateParts: the keys of the literal.
WrittenKeys(f) ==
    {"name", "column", "type"} \cup (IF f.null THEN {"null"} ELSE {})
        \cup (IF f.ref # NoRef THEN {"ref"} ELSE {})

RenderField(f) == [k \in WrittenKeys(f) |-> f[k]]

\* What the compiler makes of the literal.
CompileField(src) ==
    [name |-> src["name"], column |-> src["column"], type |-> src["type"],
     null |-> "null" \in DOMAIN src,
     ref |-> IF "ref" \in DOMAIN src THEN src["ref"] ELSE NoRef]

Reread(f) == CompileField(RenderField(f))

\* renderOperation, and the operation that its literal stands for.
RereadOperation(op) ==
    CASE op.op = "CreateModel" ->
             [op EXCEPT !.fields = [i \in DOMAIN op.fields |-> Reread(op.fields[i])]]
      [] op.op \in {"AddField", "AlterField"} -> [op EXCEPT !.field = Reread(op.field)]
      [] op.op \in {"DeleteModel", "RemoveField"} -> op

\* WriteMigration, and the migration that init() registers from its file.
WrittenAndCompiled(ops) == [i \in DOMAIN ops |-> RereadOperation(ops[i])]
=============================================================================
