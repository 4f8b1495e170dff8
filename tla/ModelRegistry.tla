---------------------------- MODULE ModelRegistry ----------------------------
(***************************************************************************)
(* orm/field.go and orm/registry.go: from the declaration of a Go struct   *)
(* to the model the registry keeps.  A struct is [type, name, table,       *)
(* fields, choices]: its identity, its Go name, the table of its Meta (""  *)
(* when it has none), its fields in order, and the fields Choices names.   *)
(* A declared field is [name, type, to, tags], where to is the type a      *)
(* foreign key refers to and a tag is [opt, arg].                          *)
(***************************************************************************)
EXTENDS Naturals, Sequences, FiniteSets, SequencesExt, Increasing

CONSTANT Snake    \* toSnakeCase on the names in use: field name -> column

ColumnOf(d) == IF d.type = "fk" THEN Snake[d.name] \o "_id" ELSE Snake[d.name]

KindOf == [string |-> "Char", int |-> "Int", bool |-> "Bool", time |-> "DateTime",
           fk |-> "Int", other |-> "none"]

Skipped(d) == d.type = "skipped"   \* unexported, or tagged "-"

(* What Go and toSnakeCase see to: the fields of a struct have names of    *)
(* their own, a column is never "", and only a foreign key refers.         *)
Declaration ==
    {d \in [name : STRING, type : DOMAIN KindOf \cup {"skipped"}, to : STRING,
            tags : Seq([opt : STRING, arg : STRING])] :
        /\ d.type = "fk" <=> d.to # ""
        /\ Skipped(d) \/ ColumnOf(d) \in STRING \ {""}}

GoStruct ==
    {s \in [type : STRING, name : STRING, table : STRING, fields : Seq(Declaration),
            choices : SUBSET STRING] :
        \A i, j \in DOMAIN s.fields : s.fields[i].name = s.fields[j].name => i = j}

Inferred(d) ==
    [name |-> d.name, column |-> ColumnOf(d), kind |-> KindOf[d.type],
     pk |-> FALSE, null |-> FALSE, unique |-> FALSE,
     maxLength |-> IF d.type = "string" THEN 255 ELSE 0,
     rel |-> d.to, target |-> "", onDelete |-> "do_nothing", default |-> FALSE,
     autoNow |-> FALSE, autoNowAdd |-> FALSE, choices |-> FALSE]

(* parseDefault. *)
Defaults(kind, raw) ==
    CASE kind = "Int" -> raw = "3"
      [] kind = "Bool" -> raw \in {"true", "false"}
      [] kind \in {"Char", "Text"} -> TRUE
      [] OTHER -> FALSE

Options == {"pk", "null", "unique", "type", "column", "max_length",
            "auto_now_add", "auto_now", "default"}

(* applyTagOption: the tags that a field does not take. *)
Refused(f, t) ==
    \/ t.opt \notin Options
    \/ t.opt = "type" /\ f.kind # "Char"
    \/ t.opt = "column" /\ t.arg = ""
    \/ t.opt = "max_length" /\ t.arg = "0"
    \/ t.opt \in {"auto_now", "auto_now_add"} /\ f.kind # "DateTime"
    \/ t.opt = "default" /\ ~Defaults(f.kind, t.arg)

OnDeleteTags == {"cascade", "set_null", "restrict", "do_nothing"}

(* applyRelationTagOption. *)
RefusedRelation(f, t) ==
    \/ t.opt \notin {"null", "unique", "column", "on_delete"}
    \/ t.opt = "column" /\ t.arg = ""
    \/ t.opt = "on_delete" /\ t.arg \notin OnDeleteTags

(* What a tag that is taken does to the field. *)
Effect(f, t) ==
    CASE t.opt = "pk"           -> [f EXCEPT !.pk = TRUE]
      [] t.opt = "null"         -> [f EXCEPT !.null = TRUE]
      [] t.opt = "unique"       -> [f EXCEPT !.unique = TRUE]
      [] t.opt = "type"         -> [f EXCEPT !.kind = "Text", !.maxLength = 0]
      [] t.opt = "column"       -> [f EXCEPT !.column = t.arg]
      [] t.opt = "max_length"   -> [f EXCEPT !.maxLength = 5]
      [] t.opt = "auto_now_add" -> [f EXCEPT !.autoNowAdd = TRUE]
      [] t.opt = "auto_now"     -> [f EXCEPT !.autoNow = TRUE]
      [] t.opt = "default"      -> [f EXCEPT !.default = TRUE]
      [] t.opt = "on_delete"    -> [f EXCEPT !.onDelete = t.arg]

(* A fault: set_null is accepted on a column that takes no NULL. *)
ContradictoryNowOnly(f) == f.autoNow /\ f.autoNowAdd

(* The checks after the last tag. *)
Contradictory(f) ==
    \/ f.rel # "" /\ f.onDelete = "set_null" /\ ~f.null
    \/ f.autoNow /\ f.autoNowAdd

Refuses(f, t) == IF f.rel = "" THEN Refused(f, t) ELSE RefusedRelation(f, t)

(* One tag after the other, up to the first that is refused. *)
ReadTag(s, t) ==
    IF s.err \/ Refuses(s.field, t) THEN [err |-> TRUE, field |-> s.field]
    ELSE [err |-> FALSE, field |-> Effect(s.field, t)]

Tags == INSTANCE LeftFold WITH Step <- ReadTag

(* parseStructField: a field, or an error. *)
Parse(d) ==
    LET parsed == Tags!Fold([err |-> d.type = "other", field |-> Inferred(d)], d.tags)
    IN  [err |-> parsed.err \/ Contradictory(parsed.field), field |-> parsed.field]

-----------------------------------------------------------------------------
(* The registry: [models, frozen]. *)

EmptyRegistry == [models |-> <<>>, frozen |-> FALSE]

Lower == [Article |-> "article", Author |-> "author"]

(* The fields that resolve to the primary key: the tagged ones, or an      *)
(* integer field named ID.                                                 *)
KeyFields(fields) ==
    LET tagged == {i \in DOMAIN fields : fields[i].pk}
    IN  IF tagged # {} THEN tagged
        ELSE {i \in DOMAIN fields : fields[i].name = "ID" /\ fields[i].kind = "Int"}

(* A fault: a key that is tagged is not promoted to an automatic one. *)
PromotedUntagged(f) ==
    [f EXCEPT !.pk = TRUE, !.kind = IF @ = "Int" /\ ~f.pk THEN "Auto" ELSE @]

Promoted(f) == [f EXCEPT !.pk = TRUE, !.kind = IF @ = "Int" THEN "Auto" ELSE @]

(* The choices name fields that exist, and strings. *)
ChoicesFit(fields, choices) ==
    \A c \in choices : \E i \in DOMAIN fields :
        fields[i].name = c /\ fields[i].kind = "Char"

Kept(fields) == At(fields, {i \in DOMAIN fields : ~Skipped(fields[i])})

(* Registry.Register: the registry after it, unchanged by an error. *)
Register(reg, s) ==
    LET kept == Kept(s.fields)
        plain == [i \in DOMAIN kept |-> Parse(kept[i]).field]
        keys == KeyFields(plain)
        fields == [i \in DOMAIN kept |->
                      [(IF i \in keys THEN Promoted(plain[i]) ELSE plain[i])
                          EXCEPT !.choices = plain[i].name \in s.choices]]
        ok == /\ ~reg.frozen
              /\ \A i \in DOMAIN reg.models : reg.models[i].name # s.name
              /\ \A i \in DOMAIN kept : ~Parse(kept[i]).err
              /\ Cardinality(keys) = 1
              /\ \A i \in keys : ~plain[i].default
              /\ \A i, j \in DOMAIN fields : fields[i].column = fields[j].column => i = j
              /\ ChoicesFit(fields, s.choices)
    IN  IF ok
        THEN [err |-> FALSE,
              reg |-> [reg EXCEPT !.models = Append(@,
                          [type |-> s.type, name |-> s.name,
                           table |-> IF s.table = "" THEN Lower[s.name] ELSE s.table,
                           fields |-> fields, pk |-> CHOOSE i \in keys : TRUE])]]
        ELSE [err |-> TRUE, reg |-> reg]

Types(reg) == {reg.models[i].type : i \in DOMAIN reg.models}

(* A fault: the last model registered is not looked at. *)
DanglingButLast(reg) ==
    \E i \in 1 .. Len(reg.models) - 1 : \E j \in DOMAIN reg.models[i].fields :
        reg.models[i].fields[j].rel \notin Types(reg) \cup {""}

(* A relation to a type that was never registered. *)
Dangling(reg) ==
    \E i \in DOMAIN reg.models : \E j \in DOMAIN reg.models[i].fields :
        reg.models[i].fields[j].rel \notin Types(reg) \cup {""}

Linked(m) == [m EXCEPT !.fields = [j \in DOMAIN m.fields |->
                 [m.fields[j] EXCEPT !.target = m.fields[j].rel]]]

(* Registry.Resolve links every relation to its target. *)
Resolve(reg) ==
    IF Dangling(reg) THEN [err |-> TRUE, reg |-> reg]
    ELSE [err |-> FALSE,
          reg |-> [reg EXCEPT !.models = [i \in DOMAIN reg.models |-> Linked(reg.models[i])]]]

Freeze(reg) == [reg EXCEPT !.frozen = TRUE]

-----------------------------------------------------------------------------
(* What a frozen registry promises. *)

(***************************************************************************)
(* A model has one primary key, an integer one is automatic and has no     *)
(* default; columns are distinct; strings have a length, and what depends  *)
(* on the kind of a field is on fields of that kind only.                  *)
(***************************************************************************)
ConsistentModel(m) ==
    /\ {i \in DOMAIN m.fields : m.fields[i].pk} = {m.pk}
    /\ m.fields[m.pk].kind # "Int" /\ ~m.fields[m.pk].default
    /\ \A i, j \in DOMAIN m.fields : i # j => /\ m.fields[i].name # m.fields[j].name
                                              /\ m.fields[i].column # m.fields[j].column
    /\ \A i \in DOMAIN m.fields :
           LET f == m.fields[i]
           IN  /\ f.column # ""
               /\ f.kind = "Auto" => i = m.pk
               /\ f.kind = "Char" => f.maxLength > 0
               /\ f.choices => f.kind = "Char"
               /\ f.autoNow \/ f.autoNowAdd => f.kind = "DateTime" /\ ~f.default
               /\ ~(f.autoNow /\ f.autoNowAdd)
               /\ f.onDelete = "set_null" => f.null /\ f.rel # ""

(* Closed: every relation leads to a model of the same registry. *)
Consistent(reg) ==
    /\ reg.frozen
    /\ \A i \in DOMAIN reg.models : ConsistentModel(reg.models[i])
    /\ \A i, j \in DOMAIN reg.models : reg.models[i].name = reg.models[j].name => i = j
    /\ \A i \in DOMAIN reg.models : \A j \in DOMAIN reg.models[i].fields :
           LET f == reg.models[i].fields[j]
           IN  f.rel # "" => f.target \in Types(reg)

(***************************************************************************)
(* When a declaration is meant to be accepted, said of its tags as a set   *)
(* rather than one after the other (the doc comments of field.go and       *)
(* registry.go:31-37).                                                     *)
(***************************************************************************)
TagsOf(d) == ToSet(d.tags)
Opts(d) == {t.opt : t \in TagsOf(d)}
LastTags(d, opt) ==
    {k \in DOMAIN d.tags : /\ d.tags[k].opt = opt
                           /\ \A l \in DOMAIN d.tags : d.tags[l].opt = opt => l <= k}
TextTags(d) == {i \in DOMAIN d.tags : d.tags[i].opt = "type"}

WellTagged(d) ==
    /\ \A t \in TagsOf(d) : /\ t.opt = "column" => t.arg # ""
                            /\ t.opt = "max_length" => t.arg # "0"
    /\ CASE d.type = "fk" ->
              /\ Opts(d) \subseteq {"null", "unique", "column", "on_delete"}
              /\ \A t \in TagsOf(d) : t.opt = "on_delete" => t.arg \in OnDeleteTags
              /\ \A k \in LastTags(d, "on_delete") :
                     d.tags[k].arg = "set_null" => "null" \in Opts(d)
         [] d.type = "string" ->
              /\ Opts(d) \subseteq Options \ {"auto_now", "auto_now_add"}
              /\ Cardinality(TextTags(d)) <= 1
         [] d.type \in {"int", "bool"} ->
              /\ Opts(d) \subseteq Options \ {"auto_now", "auto_now_add", "type"}
              /\ \A t \in TagsOf(d) : t.opt = "default" => Defaults(KindOf[d.type], t.arg)
         [] d.type = "time" ->
              /\ Opts(d) \subseteq Options \ {"type", "default"}
              /\ ~({"auto_now", "auto_now_add"} \subseteq Opts(d))
         [] OTHER -> FALSE

DeclaredColumn(d) ==
    IF "column" \notin Opts(d) THEN ColumnOf(d)
    ELSE d.tags[CHOOSE k \in LastTags(d, "column") : TRUE].arg

WellDeclared(s) ==
    LET kept == {d \in ToSet(s.fields) : ~Skipped(d)}
        tagged == {d \in kept : "pk" \in Opts(d)}
        named == {d \in kept : d.name = "ID" /\ d.type \in {"int", "fk"}}
        key == IF tagged = {} THEN named ELSE tagged
    IN  /\ \A d \in kept : WellTagged(d)
        /\ \A d, e \in kept : DeclaredColumn(d) = DeclaredColumn(e) => d = e
        /\ Cardinality(key) = 1
        /\ \A d \in key : "default" \notin Opts(d)
        /\ \A c \in s.choices : \E d \in kept :
               d.name = c /\ d.type = "string" /\ TextTags(d) = {}
=============================================================================
