------------------------------- MODULE Schema -------------------------------
(***************************************************************************)
(* migrations/: project states, the five schema operations, the SQL they   *)
(* render against the state before them, and the autodetector.             *)
(*                                                                         *)
(* A field state is [name, column, type, null, ref]: type stands for Kind, *)
(* PrimaryKey, Unique and MaxLength, ref for the four Rel fields, being    *)
(* the referenced table or NoRef.  A model state is [table, fields], a     *)
(* project state is [models, order] with models a function on names.       *)
(***************************************************************************)
EXTENDS SequencesExt, Increasing

CONSTANT NoRef

\* A map with one entry set.
With(f, key, value) ==
    [k \in DOMAIN f \cup {key} |-> IF k = key THEN value ELSE f[k]]

-----------------------------------------------------------------------------
(* Project states                                                          *)

HasField(m, name) == \E i \in DOMAIN m.fields : m.fields[i].name = name

FieldIndex(m, name) == Min({i \in DOMAIN m.fields : m.fields[i].name = name})
FieldByName(m, name) == m.fields[FieldIndex(m, name)]

SameType(f, g) == f.type = g.type /\ f.null = g.null /\ f.ref = g.ref

NewProjectState == [models |-> <<>>, order |-> <<>>]

ModelNames(ps) == DOMAIN ps.models

-----------------------------------------------------------------------------
(* Operations: Apply                                                       *)

CreateModel(name, table, fields) ==
    [op |-> "CreateModel", model |-> name, table |-> table, fields |-> fields]
DeleteModel(name)        == [op |-> "DeleteModel", model |-> name]
AddField(name, field)    == [op |-> "AddField", model |-> name, field |-> field]
RemoveField(name, fname) == [op |-> "RemoveField", model |-> name, name |-> fname]
AlterField(name, field)  == [op |-> "AlterField", model |-> name, field |-> field]

IsOperation(op) ==
    \/ op.op = "CreateModel" /\ op.fields \in Seq(Range(op.fields))
    \/ op.op \in {"DeleteModel", "AddField", "RemoveField", "AlterField"}

WithFields(ps, name, fields) == [ps EXCEPT !.models[name].fields = fields]

ApplyCreateModel(op, ps) ==
    [models |-> With(ps.models, op.model, [table |-> op.table, fields |-> op.fields]),
     order  |-> IF Contains(ps.order, op.model)
                THEN ps.order ELSE Append(ps.order, op.model)]

ApplyDeleteModel(op, ps) ==
    [models |-> Restrict(ps.models, ModelNames(ps) \ {op.model}),
     order  |-> RemoveFirst(ps.order, op.model)]

ApplyAddField(op, ps) ==
    WithFields(ps, op.model, Append(ps.models[op.model].fields, op.field))

ApplyRemoveField(op, ps) ==
    LET m == ps.models[op.model] IN
    IF HasField(m, op.name)
    THEN WithFields(ps, op.model, RemoveAt(m.fields, FieldIndex(m, op.name)))
    ELSE ps

ApplyAlterField(op, ps) ==
    LET m == ps.models[op.model] IN
    IF HasField(m, op.field.name)
    THEN WithFields(ps, op.model,
            ReplaceAt(m.fields, FieldIndex(m, op.field.name), op.field))
    ELSE ps

ApplyOp(ps, op) ==
    CASE op.op = "CreateModel" -> ApplyCreateModel(op, ps)
      [] op.op = "DeleteModel" -> ApplyDeleteModel(op, ps)
      [] op.op = "AddField"    -> ApplyAddField(op, ps)
      [] op.op = "RemoveField" -> ApplyRemoveField(op, ps)
      [] op.op = "AlterField"  -> ApplyAlterField(op, ps)

Operations == INSTANCE LeftFold WITH Step <- ApplyOp
ApplyAll(ps, ops) == Operations!Fold(ps, ops)

\* What Diff writes creates models and adds fields that are not there.
Sound(op, ps) ==
    /\ op.op = "CreateModel" =>
          /\ op.model \notin ModelNames(ps)
          /\ \A i, j \in DOMAIN op.fields : op.fields[i].name = op.fields[j].name => i = j
    /\ op.op = "AddField" /\ op.model \in ModelNames(ps) =>
          ~HasField(ps.models[op.model], op.field.name)
SoundAll(ops, ps) ==
    \A k \in DOMAIN ops : Sound(ops[k], Operations!Held(ps, ops)[k - 1])

\* A migration is its sequence of operations.
Migrations == INSTANCE LeftFold WITH Step <- ApplyAll
StateFromMigrations(migs) == Migrations!Fold(NewProjectState, migs)

-----------------------------------------------------------------------------
(* Operations: SQL, as the statements it renders                           *)

TmpTable(table) == table \o "__new"

\* ColumnType renders the type and NOT NULL of a field.
ColumnDef(f) == [column |-> f.column, type |-> f.type, null |-> f.null]
Columns(fields) == {fields[i].column : i \in DOMAIN fields}

Create(table, fields) ==
    [do |-> "create", table |-> table,
     cols |-> [i \in DOMAIN fields |-> ColumnDef(fields[i])],
     fks |-> {<<f.column, f.ref>> : f \in {g \in ToSet(fields) : g.ref # NoRef}}]
Copy(into, from, cols) ==
    [do |-> "copy", table |-> into, from |-> from, cols |-> cols]
Drop(table)        == [do |-> "drop", table |-> table]
Rename(table, to)  == [do |-> "rename", table |-> table, to |-> to]
AddColumn(table, f) == [do |-> "addcolumn", table |-> table, col |-> ColumnDef(f)]

\* Faults: the rebuild forgets to carry the rows over, or the new table keeps
\* its temporary name.
RebuildTableWithoutCopy(table, oldFields, newFields) ==
    <<Create(TmpTable(table), newFields), Drop(table),
      Rename(TmpTable(table), table)>>
RebuildTableWithoutRename(table, oldFields, newFields) ==
    <<Create(TmpTable(table), newFields),
      Copy(TmpTable(table), table, Columns(oldFields) \cap Columns(newFields)),
      Drop(table)>>

\* rebuildTableSQL: the temporary table takes the columns common to both.
RebuildTable(table, oldFields, newFields) ==
    LET common == Columns(oldFields) \cap Columns(newFields)
        tmp == TmpTable(table)
    IN <<Create(tmp, newFields)>>
       \o (IF common = {} THEN <<>> ELSE <<Copy(tmp, table, common)>>)
       \o <<Drop(table), Rename(tmp, table)>>

\* The newFields that RemoveField collects.
FieldsBut(fields, name) == At(fields, {i \in DOMAIN fields : fields[i].name # name})

\* Whether SQL renders the operation at all against the state ps.
Renders(op, ps) ==
    CASE op.op = "CreateModel" -> TRUE
      [] op.op = "DeleteModel" -> op.model \in ModelNames(ps)
      [] op.op = "AddField"    -> op.model \in ModelNames(ps) /\ op.field.null
      [] op.op = "RemoveField" -> /\ op.model \in ModelNames(ps)
                                  /\ HasField(ps.models[op.model], op.name)
      [] op.op = "AlterField"  -> /\ op.model \in ModelNames(ps)
                                  /\ HasField(ps.models[op.model], op.field.name)

SQL(op, ps) ==
    CASE op.op = "CreateModel" -> <<Create(op.table, op.fields)>>
      [] op.op = "DeleteModel" -> <<Drop(ps.models[op.model].table)>>
      [] op.op = "AddField"    ->
            <<AddColumn(ps.models[op.model].table, op.field)>>
      [] op.op = "RemoveField" ->
            RebuildTable(ps.models[op.model].table, ps.models[op.model].fields,
                FieldsBut(ps.models[op.model].fields, op.name))
      [] op.op = "AlterField"  ->
            RebuildTable(ps.models[op.model].table, ps.models[op.model].fields,
                ApplyAlterField(op, ps).models[op.model].fields)

-----------------------------------------------------------------------------
(* The autodetector                                                        *)

NewFields(om, nm) == SelectSeq(nm.fields, LAMBDA f : ~HasField(om, f.name))

\* Fault: fields are compared by their types only, as for a rename.
ChangedTypes(om, nm) ==
    SelectSeq(nm.fields,
        LAMBDA f : HasField(om, f.name) /\ ~SameType(FieldByName(om, f.name), f))
Changed(om, nm) ==
    SelectSeq(nm.fields,
        LAMBDA f : HasField(om, f.name) /\ FieldByName(om, f.name) # f)

\* The field changes of one model, in the order Diff emits them.
FieldChanges(name, om, nm) ==
    LET added   == NewFields(om, nm)
        altered == Changed(om, nm)
        removed == NewFields(nm, om)
    IN [i \in DOMAIN added   |-> AddField(name, added[i])]
       \o [i \in DOMAIN altered |-> AlterField(name, altered[i])]
       \o [i \in DOMAIN removed |-> RemoveField(name, removed[i].name)]

Diff(old, new) ==
    LET created == SelectSeq(new.order, LAMBDA n : n \notin ModelNames(old))
        kept    == SelectSeq(new.order, LAMBDA n : n \in ModelNames(old))
        deleted == SelectSeq(old.order, LAMBDA n : n \notin ModelNames(new))
    IN [i \in DOMAIN created |->
            CreateModel(created[i], new.models[created[i]].table,
                        new.models[created[i]].fields)]
       \o FlattenSeq([i \in DOMAIN kept |->
            FieldChanges(kept[i], old.models[kept[i]], new.models[kept[i]])])
       \o [i \in DOMAIN deleted |-> DeleteModel(deleted[i])]

\* Fault: two removed fields may claim the same added one.
PotentialRenamesUnclaimed(om, nm) ==
    {<<x[1].name, NewFields(om, nm)[x[2]].name>> :
        x \in {x \in ToSet(NewFields(nm, om)) \X DOMAIN NewFields(om, nm) :
                  SameType(x[1], NewFields(om, nm)[x[2]])}}

\* DetectPotentialRenames for one model: each removed field claims the first
\* added field of its type that no earlier one has claimed.
PotentialRenames(om, nm) ==
    LET added   == NewFields(om, nm)
        removed == NewFields(nm, om)
        Claim(claims, f) ==
            LET free == {i \in DOMAIN added : /\ i \notin Range(claims)
                                              /\ SameType(f, added[i])}
            IN IF free = {} THEN claims ELSE (f.name :> Min(free)) @@ claims
        claims == FoldLeft(Claim, <<>>, removed)
    IN {<<from, added[claims[from]].name>> : from \in DOMAIN claims}

=============================================================================
