-------------------------- MODULE ApplicationProofs --------------------------
(***************************************************************************)
(* What New promises, for every plan of calls and every declaration.       *)
(***************************************************************************)
EXTENDS Application, FiniteSetTheorems, SequenceTheorems, TLAPS

Reads  == INSTANCE LeftFoldProofs WITH Step <- ReadTag
Taking == INSTANCE LeftFoldProofs WITH Step <- Admit

-----------------------------------------------------------------------------
(* The tags of a field                                                     *)

Tag == [opt : STRING, arg : STRING]
Kinds == {"Char", "Text", "Int", "Auto", "Bool", "DateTime", "none"}
Unset == {""}
Field == [name : STRING, column : STRING, kind : Kinds, pk : BOOLEAN, null : BOOLEAN,
          unique : BOOLEAN, maxLength : Nat, rel : STRING, target : Unset,
          onDelete : OnDeleteTags, default : BOOLEAN, autoNow : BOOLEAN, autoNowAdd : BOOLEAN,
          choices : BOOLEAN]

\* What a tag that is taken changes, field by field.
TagChanges(f, t, g) ==
    /\ g.name = f.name /\ g.rel = f.rel /\ g.target = f.target /\ g.choices = f.choices
    /\ g.pk <=> f.pk \/ t.opt = "pk"
    /\ g.null <=> f.null \/ t.opt = "null"
    /\ g.default <=> f.default \/ t.opt = "default"
    /\ g.autoNow <=> f.autoNow \/ t.opt = "auto_now"
    /\ g.autoNowAdd <=> f.autoNowAdd \/ t.opt = "auto_now_add"
    /\ g.kind = IF t.opt = "type" THEN "Text" ELSE f.kind
    /\ t.opt # "type" /\ f.maxLength > 0 => g.maxLength > 0
    /\ g.column = IF t.opt = "column" THEN t.arg ELSE f.column
    /\ g.onDelete = IF t.opt = "on_delete" THEN t.arg ELSE f.onDelete

LEMMA EffectOf ==
    ASSUME NEW f \in Field, NEW t \in Tag, ~ Refuses(f, t)
    PROVE  Effect(f, t) \in Field /\ TagChanges(f, t, Effect(f, t))
<1>1. /\ t.opt \in Options \cup {"on_delete"} /\ t.arg \in STRING
      /\ t.opt = "on_delete" => t.arg \in OnDeleteTags
  BY DEF Refuses, Refused, RefusedRelation, Options, Tag
<1>2. CASE t.opt = "pk"
  <2>1. Effect(f, t) = [f EXCEPT !.pk = TRUE]
    BY <1>2 DEF Effect
  <2> QED
    BY <1>1, <1>2, <2>1 DEF Field, Kinds, TagChanges
<1>3. CASE t.opt = "null"
  <2>1. Effect(f, t) = [f EXCEPT !.null = TRUE]
    BY <1>3 DEF Effect
  <2> QED
    BY <1>1, <1>3, <2>1 DEF Field, Kinds, TagChanges
<1>4. CASE t.opt = "unique"
  <2>1. Effect(f, t) = [f EXCEPT !.unique = TRUE]
    BY <1>4 DEF Effect
  <2> QED
    BY <1>1, <1>4, <2>1 DEF Field, Kinds, TagChanges
<1>5. CASE t.opt = "type"
  <2> DEFINE g == [f EXCEPT !.kind = "Text"]
             none == 0
  <2>1. Effect(f, t) = [g EXCEPT !.maxLength = none] /\ none \in Nat
    BY <1>5 DEF Effect
  <2>2. g \in Field /\ g.kind = "Text" /\ TagChanges(f, t, g)
    BY <1>1, <1>5 DEF Field, Kinds, TagChanges
  <2> HIDE DEF g, none
  <2> QED
    BY <1>1, <1>5, <2>1, <2>2 DEF Field, TagChanges
<1>6. CASE t.opt = "column"
  <2>1. Effect(f, t) = [f EXCEPT !.column = t.arg]
    BY <1>6 DEF Effect
  <2> QED
    BY <1>1, <1>6, <2>1 DEF Field, Kinds, TagChanges
<1>7. CASE t.opt = "max_length"
  <2> DEFINE length == 5
  <2>1. length \in Nat /\ length > 0
    OBVIOUS
  <2>2. Effect(f, t) = [f EXCEPT !.maxLength = length]
    BY <1>7 DEF Effect
  <2> HIDE DEF length
  <2> QED
    BY <1>1, <1>7, <2>1, <2>2 DEF Field, TagChanges
<1>8. CASE t.opt = "auto_now_add"
  <2>1. Effect(f, t) = [f EXCEPT !.autoNowAdd = TRUE]
    BY <1>8 DEF Effect
  <2> QED
    BY <1>1, <1>8, <2>1 DEF Field, Kinds, TagChanges
<1>9. CASE t.opt = "auto_now"
  <2>1. Effect(f, t) = [f EXCEPT !.autoNow = TRUE]
    BY <1>9 DEF Effect
  <2> QED
    BY <1>1, <1>9, <2>1 DEF Field, Kinds, TagChanges
<1>10. CASE t.opt = "default"
  <2>1. Effect(f, t) = [f EXCEPT !.default = TRUE]
    BY <1>10 DEF Effect
  <2> QED
    BY <1>1, <1>10, <2>1 DEF Field, Kinds, TagChanges
<1>11. CASE t.opt = "on_delete"
  <2>1. Effect(f, t) = [f EXCEPT !.onDelete = t.arg]
    BY <1>11 DEF Effect
  <2> QED
    BY <1>1, <1>11, <2>1 DEF Field, Kinds, TagChanges
<1> QED
  BY <1>1, <1>2, <1>3, <1>4, <1>5, <1>6, <1>7, <1>8, <1>9, <1>10, <1>11 DEF Options

\* An option among the first n tags, and the last of those tags that has it.
Upto(d, m, opt) == \E k \in 1 .. m : d.tags[k].opt = opt

LastOf(d, m, opt, k) ==
    /\ k \in 1 .. m /\ d.tags[k].opt = opt
    /\ \A l \in 1 .. m : d.tags[l].opt = opt => l <= k

\* A tag that is refused, told from the declaration alone.
Bad(d, k) ==
    LET t == d.tags[k]
    IN  IF d.type = "fk"
        THEN \/ t.opt \notin {"null", "unique", "column", "on_delete"}
             \/ t.opt = "column" /\ t.arg = ""
             \/ t.opt = "on_delete" /\ t.arg \notin OnDeleteTags
        ELSE \/ t.opt \notin Options
             \/ t.opt = "type" /\ (d.type # "string" \/ Upto(d, k - 1, "type"))
             \/ t.opt = "column" /\ t.arg = ""
             \/ t.opt = "max_length" /\ t.arg = "0"
             \/ t.opt \in {"auto_now", "auto_now_add"} /\ d.type # "time"
             \/ t.opt = "default" /\ ~Defaults(KindOf[d.type], t.arg)

\* What is left of the first n tags in a field, when each was taken.
Holds(d, m, f) ==
    /\ f \in Field
    /\ Upto(d, m, "type") => d.type = "string"
    /\ f.name = d.name /\ f.rel = d.to /\ f.target = "" /\ ~f.choices
    /\ f.pk <=> Upto(d, m, "pk")
    /\ f.null <=> Upto(d, m, "null")
    /\ f.default <=> Upto(d, m, "default")
    /\ f.autoNow <=> Upto(d, m, "auto_now")
    /\ f.autoNowAdd <=> Upto(d, m, "auto_now_add")
    /\ f.kind = IF Upto(d, m, "type") THEN "Text" ELSE KindOf[d.type]
    /\ f.kind = "Char" => f.maxLength > 0
    /\ ~Upto(d, m, "on_delete") => f.onDelete = "do_nothing"
    /\ \A k \in 1 .. m : LastOf(d, m, "on_delete", k) => f.onDelete = d.tags[k].arg
    /\ ~Upto(d, m, "column") => f.column = ColumnOf(d)
    /\ \A k \in 1 .. m : LastOf(d, m, "column", k) => f.column = d.tags[k].arg

\* A field that is declared but not skipped.
IsKept(d) == d \in Declaration /\ ~Skipped(d)

LEMMA KindIs ==
    ASSUME NEW d, IsKept(d)
    PROVE  /\ d.type \in {"string", "int", "bool", "time", "fk", "other"}
           /\ d.name \in STRING /\ d.to \in STRING /\ d.tags \in Seq(Tag)
           /\ d.type = "fk" <=> d.to # ""
           /\ ColumnOf(d) \in STRING \ {""}
           /\ KindOf[d.type] \in Kinds \ {"Text", "Auto"}
           /\ KindOf[d.type] = "Char" <=> d.type = "string"
           /\ KindOf[d.type] = "DateTime" <=> d.type = "time"
           /\ KindOf[d.type] = "Int" <=> d.type \in {"int", "fk"}
<1>1. DOMAIN KindOf = {"string", "int", "bool", "time", "fk", "other"}
  BY DEF KindOf
<1>2. d.type \in DOMAIN KindOf /\ d.name \in STRING /\ d.to \in STRING /\ d.tags \in Seq(Tag)
  BY DEF IsKept, Declaration, Skipped, Tag
<1>3. (d.type = "fk" <=> d.to # "") /\ ColumnOf(d) \in STRING \ {""}
  BY DEF IsKept, Declaration
<1>4. /\ KindOf["string"] = "Char" /\ KindOf["int"] = "Int" /\ KindOf["bool"] = "Bool"
      /\ KindOf["time"] = "DateTime" /\ KindOf["fk"] = "Int" /\ KindOf["other"] = "none"
  BY DEF KindOf
<1> QED
  BY <1>1, <1>2, <1>3, <1>4 DEF Kinds

LEMMA HoldsAtFirst ==
    ASSUME NEW d, IsKept(d)
    PROVE  Holds(d, 0, Inferred(d))
<1>1. /\ d.name \in STRING /\ d.to \in STRING /\ ColumnOf(d) \in STRING
      /\ KindOf[d.type] \in Kinds
      /\ KindOf[d.type] = "Char" <=> d.type = "string"
  BY KindIs
<1>2. Inferred(d) \in Field
  <2> DEFINE length == IF d.type = "string" THEN 255 ELSE 0
             no == FALSE
             to == d.to
             name == d.name
             kind == KindOf[d.type]
             column == ColumnOf(d)
             none == ""
             nothing == "do_nothing"
  <2>1. /\ length \in Nat /\ no \in BOOLEAN /\ nothing \in OnDeleteTags /\ none \in Unset
        /\ to \in STRING /\ name \in STRING /\ column \in STRING /\ kind \in Kinds
    BY <1>1 DEF OnDeleteTags, Unset
  <2>2. Inferred(d) = [name |-> name, column |-> column, kind |-> kind,
                       pk |-> no, null |-> no, unique |-> no, maxLength |-> length,
                       rel |-> to, target |-> none, onDelete |-> nothing,
                       default |-> no, autoNow |-> no, autoNowAdd |-> no, choices |-> no]
    BY DEF Inferred
  <2> HIDE DEF length, no, to, name, kind, column, none, nothing
  <2> QED
    BY <2>1, <2>2 DEF Field
<1>3. \A opt : ~ Upto(d, 0, opt)
  BY DEF Upto
<1>4. \A k : k \notin 1 .. 0
  OBVIOUS
<1>5. /\ ~ Inferred(d).pk /\ ~ Inferred(d).null /\ ~ Inferred(d).default
      /\ ~ Inferred(d).autoNow /\ ~ Inferred(d).autoNowAdd /\ ~ Inferred(d).choices
      /\ Inferred(d).name = d.name /\ Inferred(d).rel = d.to /\ Inferred(d).target = ""
      /\ Inferred(d).kind = KindOf[d.type] /\ Inferred(d).onDelete = "do_nothing"
      /\ Inferred(d).column = ColumnOf(d)
      /\ d.type = "string" => Inferred(d).maxLength > 0
  BY DEF Inferred
<1> QED
  BY <1>1, <1>2, <1>3, <1>4, <1>5 DEF Holds

LEMMA RefusedIfBad ==
    ASSUME NEW d, IsKept(d), NEW k \in 1 .. Len(d.tags), NEW f, Holds(d, k - 1, f),
           d.type # "other"
    PROVE  Refuses(f, d.tags[k]) <=> Bad(d, k)
<1> DEFINE t == d.tags[k]
<1>1. f.rel = "" <=> d.type # "fk"
  BY KindIs DEF Holds
<1>2. CASE d.type = "fk"
  BY <1>1, <1>2 DEF Refuses, RefusedRelation, Bad
<1>3. CASE d.type # "fk"
  <2>1. f.kind = IF Upto(d, k - 1, "type") THEN "Text" ELSE KindOf[d.type]
    BY DEF Holds
  <2>2. Upto(d, k - 1, "type") => d.type = "string"
    BY DEF Holds
  <2>3. f.kind = "Char" <=> d.type = "string" /\ ~ Upto(d, k - 1, "type")
    BY <2>1, KindIs
  <2>4. f.kind = "DateTime" <=> d.type = "time"
    BY <2>1, <2>2, KindIs
  <2>5. Defaults(f.kind, t.arg) <=> Defaults(KindOf[d.type], t.arg)
    <3>1. CASE Upto(d, k - 1, "type")
      BY <3>1, <2>1, <2>2, KindIs DEF Defaults
    <3>2. CASE ~ Upto(d, k - 1, "type")
      BY <3>2, <2>1
    <3> QED
      BY <3>1, <3>2
  <2> QED
    BY <1>1, <1>3, <2>3, <2>4, <2>5 DEF Refuses, Refused, Bad
<1> QED
  BY <1>2, <1>3

LEMMA TagsTyped ==
    ASSUME NEW d, IsKept(d)
    PROVE  /\ Len(d.tags) \in Nat /\ DOMAIN d.tags = 1 .. Len(d.tags)
           /\ \A k \in 1 .. Len(d.tags) : d.tags[k] \in Tag
<1>1. d.tags \in Seq(Tag)
  BY KindIs
<1> QED
  BY <1>1, LenProperties, ElementOfSeq

LEMMA TagTaken ==
    ASSUME NEW d, IsKept(d), NEW k \in 1 .. Len(d.tags), NEW f, Holds(d, k - 1, f),
           d.type # "other", ~ Bad(d, k)
    PROVE  Holds(d, k, Effect(f, d.tags[k]))
<1> DEFINE t == d.tags[k]
           g == Effect(f, t)
<1>0. t \in Tag /\ Len(d.tags) \in Nat
  BY TagsTyped
<1>1. f \in Field /\ k \in Nat /\ 1 .. k = (1 .. k - 1) \cup {k}
  <2>1. f \in Field
    BY DEF Holds
  <2> QED
    BY <1>0, <2>1
<1>2. ~ Refuses(f, t)
  BY RefusedIfBad
<1>3. g \in Field /\ TagChanges(f, t, g)
  BY <1>0, <1>1, <1>2, EffectOf
<1>4. \A opt : Upto(d, k, opt) <=> Upto(d, k - 1, opt) \/ t.opt = opt
  BY <1>1 DEF Upto
<1>5. \A opt : \A l \in 1 .. k :
          LastOf(d, k, opt, l) => IF t.opt = opt THEN l = k ELSE LastOf(d, k - 1, opt, l)
  BY <1>1 DEF LastOf
<1>6. t.opt = "type" => d.type = "string"
  BY KindIs DEF Bad
<1> HIDE DEF g
<1>7. /\ g.pk <=> Upto(d, k, "pk")
      /\ g.null <=> Upto(d, k, "null")
      /\ g.default <=> Upto(d, k, "default")
      /\ g.autoNow <=> Upto(d, k, "auto_now")
      /\ g.autoNowAdd <=> Upto(d, k, "auto_now_add")
  BY <1>3, <1>4 DEF Holds, TagChanges
<1>8. /\ Upto(d, k, "type") => d.type = "string"
      /\ g.kind = IF Upto(d, k, "type") THEN "Text" ELSE KindOf[d.type]
      /\ g.kind = "Char" => g.maxLength > 0
  BY <1>3, <1>4, <1>6 DEF Holds, TagChanges
<1>9. /\ ~Upto(d, k, "on_delete") => g.onDelete = "do_nothing"
      /\ ~Upto(d, k, "column") => g.column = ColumnOf(d)
  BY <1>3, <1>4 DEF Holds, TagChanges
<1>10. ASSUME NEW l \in 1 .. k
       PROVE  /\ LastOf(d, k, "on_delete", l) => g.onDelete = d.tags[l].arg
              /\ LastOf(d, k, "column", l) => g.column = d.tags[l].arg
  <2>1. \A opt : LastOf(d, k - 1, opt, l) => l \in 1 .. k - 1
    BY DEF LastOf
  <2>2. LastOf(d, k, "on_delete", l) => g.onDelete = d.tags[l].arg
    <3>1. CASE t.opt = "on_delete"
      BY <1>3, <1>5, <3>1 DEF TagChanges
    <3>2. CASE t.opt # "on_delete"
      BY <1>3, <1>5, <2>1, <3>2 DEF TagChanges, Holds
    <3> QED
      BY <3>1, <3>2
  <2>3. LastOf(d, k, "column", l) => g.column = d.tags[l].arg
    <3>1. CASE t.opt = "column"
      BY <1>3, <1>5, <3>1 DEF TagChanges
    <3>2. CASE t.opt # "column"
      BY <1>3, <1>5, <2>1, <3>2 DEF TagChanges, Holds
    <3> QED
      BY <3>1, <3>2
  <2> QED
    BY <2>2, <2>3
<1>11. g.name = d.name /\ g.rel = d.to /\ g.target = "" /\ ~g.choices
  BY <1>3 DEF Holds, TagChanges
<1>12. Holds(d, k, g)
  BY <1>3, <1>7, <1>8, <1>9, <1>10, <1>11 DEF Holds
<1> QED
  BY <1>12 DEF g

\* What Parse holds when it has read the tags.
Untagged(d) == [err |-> d.type = "other", field |-> Inferred(d)]
Reading(d) == Reads!Held(Untagged(d), d.tags)

LEMMA TagsRead ==
    ASSUME NEW d, IsKept(d)
    PROVE  \A m \in 0 .. Len(d.tags) :
               /\ Reading(d)[m].err \in BOOLEAN
               /\ Reading(d)[m].err <=> d.type = "other" \/ \E k \in 1 .. m : Bad(d, k)
               /\ ~ Reading(d)[m].err => Holds(d, m, Reading(d)[m].field)
<1> DEFINE h == Reading(d)
           Right(m) == /\ h[m].err \in BOOLEAN
                       /\ h[m].err <=> d.type = "other" \/ \E k \in 1 .. m : Bad(d, k)
                       /\ ~ h[m].err => Holds(d, m, h[m].field)
           Good == {m \in 0 .. Len(d.tags) : Right(m)}
<1>1. Len(d.tags) \in Nat
  BY TagsTyped
<1>2. /\ h[0] = Untagged(d)
      /\ \A m \in 1 .. Len(d.tags) : h[m] = ReadTag(h[m - 1], d.tags[m])
  BY <1>1, Reads!HeldSteps DEF Reading
<1> HIDE DEF h
<1>3. 0 \in Good
  <2>1. h[0].field = Inferred(d)
    BY <1>2 DEF Untagged
  <2>2. h[0].err \in BOOLEAN /\ (h[0].err <=> d.type = "other")
    <3> DEFINE other == d.type = "other"
    <3>1. h[0] = [err |-> other, field |-> Inferred(d)] /\ other \in BOOLEAN
      BY <1>2 DEF Untagged
    <3>2. other <=> d.type = "other"
      OBVIOUS
    <3> HIDE DEF other
    <3>3. h[0].err = other
      BY <3>1
    <3> QED
      BY <3>1, <3>2, <3>3
  <2>3. Right(0)
    BY <2>1, <2>2, HoldsAtFirst
  <2> QED
    BY <1>1, <2>3
<1>4. ASSUME NEW m \in 1 .. Len(d.tags), m - 1 \in Good
      PROVE  m \in Good
  <2>1. m - 1 \in 0 .. Len(d.tags) /\ 1 .. m = (1 .. m - 1) \cup {m} /\ Right(m - 1)
    BY <1>1, <1>4
  <2>2. CASE h[m - 1].err
    <3>1. h[m] = [err |-> TRUE, field |-> h[m - 1].field]
      BY <1>2, <2>2 DEF ReadTag
    <3>2. h[m].err /\ h[m].err \in BOOLEAN
      BY <3>1
    <3>3. d.type = "other" \/ \E k \in 1 .. m - 1 : Bad(d, k)
      BY <2>1, <2>2
    <3>4. Right(m)
      BY <2>1, <3>2, <3>3
    <3> QED
      BY <3>4
  <2>3. CASE ~ h[m - 1].err
    <3>1. d.type # "other" /\ Holds(d, m - 1, h[m - 1].field)
      BY <2>1, <2>3
    <3>2. Refuses(h[m - 1].field, d.tags[m]) <=> Bad(d, m)
      BY <3>1, RefusedIfBad
    <3>3. CASE Bad(d, m)
      <4>1. h[m] = [err |-> TRUE, field |-> h[m - 1].field]
        BY <1>2, <3>2, <3>3 DEF ReadTag
      <4>2. h[m].err /\ h[m].err \in BOOLEAN
        BY <4>1
      <4>3. Right(m)
        BY <2>1, <3>3, <4>2
      <4> QED
        BY <4>3
    <3>4. CASE ~ Bad(d, m)
      <4>1. h[m] = [err |-> FALSE, field |-> Effect(h[m - 1].field, d.tags[m])]
        BY <1>2, <2>3, <3>2, <3>4 DEF ReadTag
      <4>2. /\ ~ h[m].err /\ h[m].err \in BOOLEAN
            /\ h[m].field = Effect(h[m - 1].field, d.tags[m])
        BY <4>1
      <4>3. Holds(d, m, h[m].field)
        BY <3>1, <3>4, <4>2, TagTaken
      <4> QED
        BY <2>1, <2>3, <3>4, <4>2, <4>3
    <3> QED
      BY <3>3, <3>4
  <2> QED
    BY <2>2, <2>3
<1>5. \A m \in 0 .. Len(d.tags) : m \in Good
  <2> HIDE DEF Good
  <2> QED
    BY <1>1, <1>3, <1>4, Reads!Reaches
<1> QED
  BY <1>5 DEF h

\* Of the tags with an option there is a last one.
LEMMA LastThere ==
    ASSUME NEW d, NEW m \in Nat, NEW opt, Upto(d, m, opt)
    PROVE  \E k \in 1 .. m : LastOf(d, m, opt, k)
<1> DEFINE S == {k \in 1 .. m : d.tags[k].opt = opt}
           T == {m - k : k \in S}
<1>1. T \subseteq Nat /\ T # {}
  BY DEF Upto
<1>2. \A k \in S : m - k \in T /\ k \in 1 .. m /\ d.tags[k].opt = opt
  OBVIOUS
<1>3. \A x \in T : \E k \in S : x = m - k
  OBVIOUS
<1>4. \A l \in 1 .. m : d.tags[l].opt = opt => l \in S
  OBVIOUS
<1> HIDE DEF S, T
<1>5. PICK x \in T : \A y \in T : x <= y
  BY <1>1, Reads!Smallest
<1>6. PICK k \in S : x = m - k
  BY <1>3
<1>7. \A l \in 1 .. m : d.tags[l].opt = opt => l <= k
  <2> SUFFICES ASSUME NEW l \in 1 .. m, d.tags[l].opt = opt
               PROVE  l <= k
    OBVIOUS
  <2>1. m - k <= m - l
    BY <1>2, <1>4, <1>5, <1>6
  <2> QED
    BY <2>1, <1>2
<1> QED
  BY <1>2, <1>7 DEF LastOf

\* A finite set that has at most one member.
LEMMA AtMostOne ==
    ASSUME NEW S, IsFiniteSet(S)
    PROVE  /\ Cardinality(S) <= 1 <=> \A x, y \in S : x = y
           /\ Cardinality(S) = 1 <=> S # {} /\ \A x, y \in S : x = y
           /\ Cardinality(S) \in Nat
<1>1. Cardinality(S) \in Nat
  BY FS_CardinalityType
<1>2. Cardinality(S) = 1 <=> \E x : S = {x}
  BY FS_Singleton
<1>3. Cardinality(S) = 0 <=> S = {}
  BY FS_EmptySet
<1>4. (\E x : S = {x}) <=> S # {} /\ \A x, y \in S : x = y
  <2>1. ASSUME NEW x, S = {x}
        PROVE  S # {} /\ \A y, z \in S : y = z
    BY <2>1
  <2>2. ASSUME NEW x \in S, \A y, z \in S : y = z
        PROVE  S = {x}
    BY <2>2
  <2> QED
    BY <2>1, <2>2
<1> QED
  BY <1>1, <1>2, <1>3, <1>4

\* The tags of a declaration as a set, and as a list.
LEMMA TagsAsSet ==
    ASSUME NEW d, IsKept(d)
    PROVE  /\ \A opt : opt \in Opts(d) <=> Upto(d, Len(d.tags), opt)
           /\ TagsOf(d) = {d.tags[k] : k \in 1 .. Len(d.tags)}
           /\ \A opt : LastTags(d, opt) =
                           {k \in 1 .. Len(d.tags) : LastOf(d, Len(d.tags), opt, k)}
           /\ IsFiniteSet(TextTags(d))
           /\ TextTags(d) = {k \in 1 .. Len(d.tags) : d.tags[k].opt = "type"}
<1>1. DOMAIN d.tags = 1 .. Len(d.tags) /\ Len(d.tags) \in Nat
  BY TagsTyped
<1>2. TagsOf(d) = {d.tags[k] : k \in 1 .. Len(d.tags)}
  BY <1>1 DEF TagsOf, ToSet
<1>3. TextTags(d) = {k \in 1 .. Len(d.tags) : d.tags[k].opt = "type"}
  BY <1>1 DEF TextTags
<1>4. IsFiniteSet(TextTags(d))
  <2>1. IsFiniteSet(1 .. Len(d.tags)) /\ TextTags(d) \in SUBSET (1 .. Len(d.tags))
    BY <1>1, <1>3, FS_Interval
  <2> QED
    BY <2>1, FS_Subset
<1>5. \A opt : opt \in Opts(d) <=> Upto(d, Len(d.tags), opt)
  BY <1>2 DEF Opts, Upto
<1>6. \A opt : LastTags(d, opt) =
                   {k \in 1 .. Len(d.tags) : LastOf(d, Len(d.tags), opt, k)}
  BY <1>1 DEF LastTags, LastOf
<1> QED
  BY <1>2, <1>3, <1>4, <1>5, <1>6

NoneBad(d) == \A k \in 1 .. Len(d.tags) : ~ Bad(d, k)

\* What the tags must be besides, once each of them was taken.
Agreeing(d) ==
    /\ \A k \in LastTags(d, "on_delete") :
           d.type = "fk" /\ d.tags[k].arg = "set_null" => "null" \in Opts(d)
    /\ d.type = "time" => ~({"auto_now", "auto_now_add"} \subseteq Opts(d))

LEMMA WellTaggedForeign ==
    ASSUME NEW d, IsKept(d), d.type = "fk"
    PROVE  WellTagged(d) <=> NoneBad(d) /\ Agreeing(d)
<1>1. WellTagged(d) <=>
          /\ \A t \in TagsOf(d) : /\ t.opt = "column" => t.arg # ""
                                  /\ t.opt = "max_length" => t.arg # "0"
                                  /\ t.opt \in {"null", "unique", "column", "on_delete"}
                                  /\ t.opt = "on_delete" => t.arg \in OnDeleteTags
          /\ \A k \in LastTags(d, "on_delete") :
                 d.tags[k].arg = "set_null" => "null" \in Opts(d)
  BY DEF WellTagged, Opts
<1>2. NoneBad(d) <=>
          \A t \in TagsOf(d) : /\ t.opt = "column" => t.arg # ""
                               /\ t.opt \in {"null", "unique", "column", "on_delete"}
                               /\ t.opt = "on_delete" => t.arg \in OnDeleteTags
  <2> DEFINE Fits(t) == /\ t.opt = "column" => t.arg # ""
                        /\ t.opt \in {"null", "unique", "column", "on_delete"}
                        /\ t.opt = "on_delete" => t.arg \in OnDeleteTags
  <2>1. TagsOf(d) = {d.tags[k] : k \in 1 .. Len(d.tags)}
    BY TagsAsSet
  <2>2. ASSUME NEW k \in 1 .. Len(d.tags)
        PROVE  ~ Bad(d, k) <=> Fits(d.tags[k])
    BY DEF Bad
  <2> HIDE DEF Fits
  <2>3. NoneBad(d) <=> \A t \in TagsOf(d) : Fits(t)
    BY <2>1, <2>2 DEF NoneBad
  <2> QED
    BY <2>3 DEF Fits
<1> QED
  BY <1>1, <1>2 DEF Agreeing

\* Only one tag turns a string into a text.
LEMMA TextOnce ==
    ASSUME NEW d, IsKept(d)
    PROVE  Cardinality(TextTags(d)) <= 1 <=>
               \A k \in 1 .. Len(d.tags) : d.tags[k].opt = "type" => ~ Upto(d, k - 1, "type")
<1>1. /\ IsFiniteSet(TextTags(d)) /\ Len(d.tags) \in Nat
      /\ TextTags(d) = {k \in 1 .. Len(d.tags) : d.tags[k].opt = "type"}
  BY TagsAsSet, TagsTyped
<1>2. Cardinality(TextTags(d)) <= 1 <=> \A k, l \in TextTags(d) : k = l
  BY <1>1, AtMostOne
<1>3. ASSUME \A k, l \in TextTags(d) : k = l,
             NEW k \in 1 .. Len(d.tags), d.tags[k].opt = "type", Upto(d, k - 1, "type")
      PROVE  FALSE
  <2>1. PICK l \in 1 .. k - 1 : d.tags[l].opt = "type"
    BY <1>3 DEF Upto
  <2>2. l \in 1 .. Len(d.tags) /\ l # k
    BY <1>1
  <2> QED
    BY <1>1, <1>3, <2>1, <2>2
<1>4. ASSUME \A k \in 1 .. Len(d.tags) : d.tags[k].opt = "type" => ~ Upto(d, k - 1, "type"),
             NEW k \in TextTags(d), NEW l \in TextTags(d)
      PROVE  k = l
  <2>1. /\ k \in 1 .. Len(d.tags) /\ d.tags[k].opt = "type" /\ ~ Upto(d, k - 1, "type")
        /\ l \in 1 .. Len(d.tags) /\ d.tags[l].opt = "type" /\ ~ Upto(d, l - 1, "type")
    BY <1>1, <1>4
  <2>2. ~ (l < k)
    BY <2>1, <1>1 DEF Upto
  <2>3. ~ (k < l)
    BY <2>1, <1>1 DEF Upto
  <2> QED
    BY <1>1, <2>1, <2>2, <2>3
<1> QED
  BY <1>2, <1>3, <1>4

LEMMA WellTaggedString ==
    ASSUME NEW d, IsKept(d), d.type = "string"
    PROVE  WellTagged(d) <=> NoneBad(d) /\ Agreeing(d)
<1>1. WellTagged(d) <=>
          /\ \A t \in TagsOf(d) : /\ t.opt = "column" => t.arg # ""
                                  /\ t.opt = "max_length" => t.arg # "0"
                                  /\ t.opt \in Options \ {"auto_now", "auto_now_add"}
          /\ Cardinality(TextTags(d)) <= 1
  BY DEF WellTagged, Opts
<1>3. \A raw : Defaults(KindOf[d.type], raw)
  BY KindIs DEF Defaults
<1>4. NoneBad(d) <=>
          /\ \A t \in TagsOf(d) : /\ t.opt = "column" => t.arg # ""
                                  /\ t.opt = "max_length" => t.arg # "0"
                                  /\ t.opt \in Options \ {"auto_now", "auto_now_add"}
          /\ \A k \in 1 .. Len(d.tags) : d.tags[k].opt = "type" => ~ Upto(d, k - 1, "type")
  <2> DEFINE Fits(t) == /\ t.opt = "column" => t.arg # ""
                        /\ t.opt = "max_length" => t.arg # "0"
                        /\ t.opt \in Options \ {"auto_now", "auto_now_add"}
  <2>1. TagsOf(d) = {d.tags[k] : k \in 1 .. Len(d.tags)}
    BY TagsAsSet
  <2>2. ASSUME NEW k \in 1 .. Len(d.tags)
        PROVE  ~ Bad(d, k) <=>
                   Fits(d.tags[k]) /\ (d.tags[k].opt = "type" => ~ Upto(d, k - 1, "type"))
    BY <1>3 DEF Bad
  <2> HIDE DEF Fits
  <2>3. NoneBad(d) <=>
            /\ \A t \in TagsOf(d) : Fits(t)
            /\ \A k \in 1 .. Len(d.tags) : d.tags[k].opt = "type" => ~ Upto(d, k - 1, "type")
    BY <2>1, <2>2 DEF NoneBad
  <2> QED
    BY <2>3 DEF Fits
<1>5. Agreeing(d)
  BY DEF Agreeing
<1> QED
  BY <1>1, <1>4, <1>5, TextOnce

LEMMA WellTaggedOther ==
    ASSUME NEW d, IsKept(d), d.type \in {"int", "bool", "time"}
    PROVE  WellTagged(d) <=> NoneBad(d) /\ Agreeing(d)
<1>1. CASE d.type \in {"int", "bool"}
  <2>1. WellTagged(d) <=>
            \A t \in TagsOf(d) : /\ t.opt = "column" => t.arg # ""
                                 /\ t.opt = "max_length" => t.arg # "0"
                                 /\ t.opt \in Options \ {"auto_now", "auto_now_add", "type"}
                                 /\ t.opt = "default" => Defaults(KindOf[d.type], t.arg)
    BY <1>1 DEF WellTagged, Opts
  <2>2. NoneBad(d) <=>
            \A t \in TagsOf(d) : /\ t.opt = "column" => t.arg # ""
                                 /\ t.opt = "max_length" => t.arg # "0"
                                 /\ t.opt \in Options \ {"auto_now", "auto_now_add", "type"}
                                 /\ t.opt = "default" => Defaults(KindOf[d.type], t.arg)
    <3> DEFINE Fits(t) == /\ t.opt = "column" => t.arg # ""
                          /\ t.opt = "max_length" => t.arg # "0"
                          /\ t.opt \in Options \ {"auto_now", "auto_now_add", "type"}
                          /\ t.opt = "default" => Defaults(KindOf[d.type], t.arg)
    <3>1. TagsOf(d) = {d.tags[k] : k \in 1 .. Len(d.tags)}
      BY TagsAsSet
    <3>2. ASSUME NEW k \in 1 .. Len(d.tags)
          PROVE  ~ Bad(d, k) <=> Fits(d.tags[k])
      BY <1>1 DEF Bad
    <3> HIDE DEF Fits
    <3>3. NoneBad(d) <=> \A t \in TagsOf(d) : Fits(t)
      BY <3>1, <3>2 DEF NoneBad
    <3> QED
      BY <3>3 DEF Fits
  <2> QED
    BY <1>1, <2>1, <2>2 DEF Agreeing
<1>2. CASE d.type = "time"
  <2>1. WellTagged(d) <=>
            /\ \A t \in TagsOf(d) : /\ t.opt = "column" => t.arg # ""
                                    /\ t.opt = "max_length" => t.arg # "0"
                                    /\ t.opt \in Options \ {"type", "default"}
            /\ ~({"auto_now", "auto_now_add"} \subseteq Opts(d))
    BY <1>2 DEF WellTagged, Opts
  <2>2. \A raw : ~ Defaults(KindOf[d.type], raw)
    BY <1>2, KindIs DEF Defaults
  <2>3. NoneBad(d) <=>
            \A t \in TagsOf(d) : /\ t.opt = "column" => t.arg # ""
                                 /\ t.opt = "max_length" => t.arg # "0"
                                 /\ t.opt \in Options \ {"type", "default"}
    <3> DEFINE Fits(t) == /\ t.opt = "column" => t.arg # ""
                          /\ t.opt = "max_length" => t.arg # "0"
                          /\ t.opt \in Options \ {"type", "default"}
    <3>1. TagsOf(d) = {d.tags[k] : k \in 1 .. Len(d.tags)}
      BY TagsAsSet
    <3>2. ASSUME NEW k \in 1 .. Len(d.tags)
          PROVE  ~ Bad(d, k) <=> Fits(d.tags[k])
      BY <1>2, <2>2 DEF Bad
    <3> HIDE DEF Fits
    <3>3. NoneBad(d) <=> \A t \in TagsOf(d) : Fits(t)
      BY <3>1, <3>2 DEF NoneBad
    <3> QED
      BY <3>3 DEF Fits
  <2> QED
    BY <1>2, <2>1, <2>3 DEF Agreeing
<1> QED
  BY <1>1, <1>2

\* The field that is made of a well tagged declaration.
FieldOf(d, f) ==
    /\ f \in Field
    /\ f.name = d.name /\ f.rel = d.to /\ f.target = "" /\ ~ f.choices
    /\ f.pk <=> "pk" \in Opts(d)
    /\ f.default <=> "default" \in Opts(d)
    /\ f.kind = "Int" <=> d.type \in {"int", "fk"}
    /\ f.kind = "Char" <=> d.type = "string" /\ TextTags(d) = {}
    /\ f.kind # "Auto"
    /\ f.kind = "Char" => f.maxLength > 0
    /\ f.column = DeclaredColumn(d) /\ f.column # ""
    /\ f.autoNow \/ f.autoNowAdd => f.kind = "DateTime" /\ ~ f.default
    /\ ~ (f.autoNow /\ f.autoNowAdd)
    /\ f.onDelete = "set_null" => f.null /\ f.rel # ""

LEMMA ColumnRead ==
    ASSUME NEW d, IsKept(d), NoneBad(d), NEW f, Holds(d, Len(d.tags), f)
    PROVE  f.column = DeclaredColumn(d) /\ (d.type # "other" => f.column # "")
<1>1. Len(d.tags) \in Nat /\ ("column" \in Opts(d) <=> Upto(d, Len(d.tags), "column"))
  BY TagsTyped, TagsAsSet
<1>2. CASE ~ Upto(d, Len(d.tags), "column")
  <2>1. f.column = ColumnOf(d)
    BY <1>2 DEF Holds
  <2> QED
    BY <1>1, <1>2, <2>1, KindIs DEF DeclaredColumn
<1>3. CASE Upto(d, Len(d.tags), "column")
  <2>1. PICK k \in 1 .. Len(d.tags) : LastOf(d, Len(d.tags), "column", k)
    BY <1>1, <1>3, LastThere
  <2>2. LastTags(d, "column") = {k}
    <3>1. LastTags(d, "column") = {l \in 1 .. Len(d.tags) : LastOf(d, Len(d.tags), "column", l)}
      BY TagsAsSet
    <3>2. \A l \in 1 .. Len(d.tags) : LastOf(d, Len(d.tags), "column", l) => l = k
      BY <1>1, <2>1 DEF LastOf
    <3> QED
      BY <2>1, <3>1, <3>2
  <2>3. DeclaredColumn(d) = d.tags[k].arg
    BY <1>1, <1>3, <2>2 DEF DeclaredColumn
  <2>4. f.column = d.tags[k].arg
    BY <2>1 DEF Holds
  <2>5. d.tags[k].opt = "column"
    BY <2>1 DEF LastOf
  <2>6. d.type # "other" => d.tags[k].arg # ""
    BY <2>5 DEF NoneBad, Bad
  <2> QED
    BY <2>3, <2>4, <2>6
<1> QED
  BY <1>2, <1>3

LEMMA OptionsTaken ==
    ASSUME NEW d, IsKept(d), NoneBad(d), d.type # "other"
    PROVE  /\ d.type = "fk" => /\ "type" \notin Opts(d) /\ "default" \notin Opts(d)
                               /\ "auto_now" \notin Opts(d) /\ "auto_now_add" \notin Opts(d)
           /\ d.type # "fk" => "on_delete" \notin Opts(d)
           /\ d.type # "time" => "auto_now" \notin Opts(d) /\ "auto_now_add" \notin Opts(d)
           /\ d.type = "time" => "default" \notin Opts(d)
           /\ d.type # "string" => "type" \notin Opts(d)
<1>1. \A opt : opt \in Opts(d) => \E k \in 1 .. Len(d.tags) : d.tags[k].opt = opt /\ ~ Bad(d, k)
  BY TagsAsSet DEF NoneBad, Upto
<1>2. d.type = "time" => \A raw : ~ Defaults(KindOf[d.type], raw)
  BY KindIs DEF Defaults
<1> QED
  BY <1>1, <1>2, KindIs, ZenonT(60) DEF Bad, Options

LEMMA Contradicts ==
    ASSUME NEW d, IsKept(d), NoneBad(d), d.type # "other", NEW f, Holds(d, Len(d.tags), f)
    PROVE  /\ ~ Contradictory(f) <=> Agreeing(d)
           /\ f.onDelete = "set_null" => d.type = "fk"
<1> DEFINE m == Len(d.tags)
<1>1. /\ m \in Nat
      /\ \A opt : opt \in Opts(d) <=> Upto(d, m, opt)
      /\ LastTags(d, "on_delete") = {k \in 1 .. m : LastOf(d, m, "on_delete", k)}
  BY TagsTyped, TagsAsSet
<1>2. (f.rel # "" <=> d.type = "fk") /\ (f.null <=> "null" \in Opts(d))
  BY <1>1, KindIs DEF Holds
<1>3. f.onDelete = "set_null" <=> \E k \in LastTags(d, "on_delete") : d.tags[k].arg = "set_null"
  <2>1. CASE ~ Upto(d, m, "on_delete")
    <3>1. f.onDelete = "do_nothing"
      BY <2>1 DEF Holds
    <3>2. LastTags(d, "on_delete") = {}
      BY <1>1, <2>1 DEF LastOf, Upto
    <3> QED
      BY <3>1, <3>2
  <2>2. CASE Upto(d, m, "on_delete")
    <3>1. PICK k \in 1 .. m : LastOf(d, m, "on_delete", k)
      BY <1>1, <2>2, LastThere
    <3>2. \A l \in LastTags(d, "on_delete") : f.onDelete = d.tags[l].arg
      BY <1>1 DEF Holds
    <3> QED
      BY <1>1, <3>1, <3>2
  <2> QED
    BY <2>1, <2>2
<1>4. f.onDelete = "set_null" => d.type = "fk"
  <2>1. f.onDelete = "set_null" => "on_delete" \in Opts(d)
    BY <1>1, <1>3 DEF LastOf, Upto
  <2> QED
    BY <2>1, OptionsTaken
<1>5. (f.autoNow <=> "auto_now" \in Opts(d)) /\ (f.autoNowAdd <=> "auto_now_add" \in Opts(d))
  BY <1>1 DEF Holds
<1>6. f.autoNow \/ f.autoNowAdd => d.type = "time"
  BY <1>5, OptionsTaken
<1>7. ~ (f.rel # "" /\ f.onDelete = "set_null" /\ ~ f.null) <=>
          \A k \in LastTags(d, "on_delete") :
              d.type = "fk" /\ d.tags[k].arg = "set_null" => "null" \in Opts(d)
  BY <1>2, <1>3
<1>8. ~ (f.autoNow /\ f.autoNowAdd) <=>
          (d.type = "time" => ~({"auto_now", "auto_now_add"} \subseteq Opts(d)))
  BY <1>5, <1>6
<1> QED
  BY <1>4, <1>7, <1>8 DEF Contradictory, Agreeing

\* Parse takes a declaration if and only if it is well tagged.
LEMMA ParseReads ==
    ASSUME NEW d, IsKept(d)
    PROVE  /\ Parse(d).err <=> ~ WellTagged(d)
           /\ WellTagged(d) => FieldOf(d, Parse(d).field)
<1> DEFINE m == Len(d.tags)
           last == Reading(d)[m]
           err == last.err \/ Contradictory(last.field)
<1>1. m \in Nat /\ m \in 0 .. m
  BY TagsTyped
<1>2. Tags!Fold(Untagged(d), d.tags) = last
  BY DEF Tags!Fold, Tags!Held, Reading, Reads!Held
<1>3. Parse(d) = [err |-> err, field |-> last.field]
  BY <1>2 DEF Parse, Untagged
<1>4. /\ last.err <=> d.type = "other" \/ ~ NoneBad(d)
      /\ ~ last.err => Holds(d, m, last.field)
  BY <1>1, TagsRead DEF NoneBad
<1>5. err \in BOOLEAN /\ (err <=> last.err \/ Contradictory(last.field))
  OBVIOUS
<1>6. Parse(d).err = err /\ Parse(d).field = last.field
  <2> HIDE DEF err
  <2> QED
    BY <1>3, <1>5
<1>7. d.type = "other" => ~ WellTagged(d)
  BY DEF WellTagged
<1>8. d.type # "other" => (WellTagged(d) <=> NoneBad(d) /\ Agreeing(d))
  BY KindIs, WellTaggedForeign, WellTaggedString, WellTaggedOther
<1> HIDE DEF last
<1>9. err <=> ~ WellTagged(d)
  <2>1. CASE d.type = "other" \/ ~ NoneBad(d)
    BY <1>4, <1>5, <1>7, <1>8, <2>1
  <2>2. CASE d.type # "other" /\ NoneBad(d)
    BY <1>4, <1>5, <1>8, <2>2, Contradicts
  <2> QED
    BY <2>1, <2>2
<1>10. ASSUME WellTagged(d)
       PROVE  FieldOf(d, last.field)
  <2> DEFINE f == last.field
  <2>1. d.type # "other" /\ NoneBad(d) /\ Holds(d, m, f) /\ ~ Contradictory(f)
    BY <1>4, <1>5, <1>7, <1>8, <1>9, <1>10
  <2>2. /\ f.column = DeclaredColumn(d) /\ f.column # ""
        /\ f.onDelete = "set_null" => d.type = "fk"
    BY <2>1, ColumnRead, Contradicts
  <2>3. \A opt : opt \in Opts(d) <=> Upto(d, m, opt)
    BY TagsAsSet
  <2> HIDE DEF f
  <2>4. /\ f \in Field
        /\ f.name = d.name /\ f.rel = d.to /\ f.target = "" /\ ~ f.choices
        /\ f.pk <=> "pk" \in Opts(d)
        /\ f.default <=> "default" \in Opts(d)
        /\ f.autoNow <=> "auto_now" \in Opts(d)
        /\ f.autoNowAdd <=> "auto_now_add" \in Opts(d)
        /\ f.kind = IF "type" \in Opts(d) THEN "Text" ELSE KindOf[d.type]
        /\ f.kind = "Char" => f.maxLength > 0
    BY <2>1, <2>3 DEF Holds
  <2>5. "type" \in Opts(d) <=> TextTags(d) # {}
    BY <2>3, TagsAsSet DEF Upto
  <2>6. /\ f.kind = "Int" <=> d.type \in {"int", "fk"}
        /\ f.kind = "Char" <=> d.type = "string" /\ TextTags(d) = {}
        /\ f.kind = "DateTime" <=> d.type = "time"
        /\ f.kind # "Auto"
    BY <2>1, <2>4, <2>5, KindIs, OptionsTaken
  <2>7. f.autoNow \/ f.autoNowAdd => f.kind = "DateTime" /\ ~ f.default
    BY <2>1, <2>4, <2>6, OptionsTaken
  <2>8. /\ ~ (f.autoNow /\ f.autoNowAdd)
        /\ f.onDelete = "set_null" => f.null /\ f.rel # ""
    BY <2>1, <2>2, <2>4, KindIs DEF Contradictory
  <2>9. FieldOf(d, f)
    BY <2>2, <2>4, <2>6, <2>7, <2>8 DEF FieldOf
  <2> QED
    BY <2>9 DEF f
<1> QED
  BY <1>6, <1>9, <1>10

-----------------------------------------------------------------------------
(* The fields of a model                                                   *)

\* An instance of a module has operators of its own that say the same.
LEMMA SameSets ==
    /\ \A S : Reads!IsFiniteSet(S) <=> IsFiniteSet(S)
    /\ \A S : Reads!Cardinality(S) = Cardinality(S)
    /\ \A S : Reads!InOrder(S) = InOrder(S)
<1>1. \A S : Reads!IsFiniteSet(S) <=> IsFiniteSet(S)
  BY DEF Reads!IsFiniteSet, IsFiniteSet
<1>2. \A S : Reads!Cardinality(S) = Cardinality(S)
  BY DEF Reads!Cardinality, Cardinality, Reads!IsFiniteSet, IsFiniteSet
<1>3. \A S : Reads!InOrder(S) = InOrder(S)
  BY DEF Reads!InOrder, InOrder, Reads!Cardinality, Cardinality, Reads!IsFiniteSet, IsFiniteSet
<1> QED
  BY <1>1, <1>2, <1>3

\* The members of a sequence that are at some of its positions.
LEMMA AtLists ==
    ASSUME NEW s, Len(s) \in Nat, NEW S \in SUBSET (1 .. Len(s))
    PROVE  /\ Cardinality(S) \in Nat
           /\ \A k \in 1 .. Cardinality(S) : \E i \in S : At(s, S)[k] = s[i]
           /\ \A i \in S : \E k \in 1 .. Cardinality(S) : At(s, S)[k] = s[i]
           /\ (\A i, l \in S : s[i] = s[l] => i = l) =>
                  \A j, k \in 1 .. Cardinality(S) : At(s, S)[j] = At(s, S)[k] => j = k
<1>1. Reads!Cardinality(S) = Cardinality(S) /\ Reads!InOrder(S) = InOrder(S)
  BY SameSets
<1>2. Reads!At(s, S) = At(s, S)
  BY <1>1 DEF Reads!At, At
<1>3. Reads!Lists(Reads!At(s, S), s, S, Reads!Cardinality(S))
  BY Reads!AtLists
<1>4. Reads!Lists(At(s, S), s, S, Cardinality(S))
  BY <1>1, <1>2, <1>3
<1> QED
  BY <1>4 DEF Reads!Lists

LEMMA AtDomain ==
    ASSUME NEW s, NEW S
    PROVE  DOMAIN At(s, S) = 1 .. Cardinality(S)
  BY DEF At

Size(s) == Cardinality({i \in DOMAIN s.fields : ~ Skipped(s.fields[i])})

LEMMA KeptFields ==
    ASSUME NEW s \in GoStruct
    PROVE  /\ Size(s) \in Nat
           /\ \A k \in 1 .. Size(s) : IsKept(Kept(s.fields)[k])
           /\ {d \in ToSet(s.fields) : ~ Skipped(d)} =
                  {Kept(s.fields)[k] : k \in 1 .. Size(s)}
           /\ \A j, k \in 1 .. Size(s) :
                  Kept(s.fields)[j].name = Kept(s.fields)[k].name => j = k
<1> DEFINE fs == s.fields
           S == {i \in DOMAIN fs : ~ Skipped(fs[i])}
           K == Kept(fs)
<1>1. fs \in Seq(Declaration) /\ \A i, j \in DOMAIN fs : fs[i].name = fs[j].name => i = j
  BY DEF GoStruct
<1>2. Len(fs) \in Nat /\ DOMAIN fs = 1 .. Len(fs) /\ \A i \in 1 .. Len(fs) : fs[i] \in Declaration
  BY <1>1, LenProperties, ElementOfSeq
<1>3. S \in SUBSET (1 .. Len(fs))
  BY <1>2
<1>4. K = At(fs, S) /\ Size(s) = Cardinality(S)
  BY DEF Kept, Size
<1>5. \A i, l \in S : fs[i].name = fs[l].name => i = l
  BY <1>1
<1>6. \A i \in S : IsKept(fs[i])
  BY <1>2 DEF IsKept
<1>7. {d \in ToSet(fs) : ~ Skipped(d)} = {fs[i] : i \in S}
  BY DEF ToSet
<1> HIDE DEF S, fs, K
<1>8. \A i, l \in S : fs[i] = fs[l] => i = l
  BY <1>5
<1>9. /\ Size(s) \in Nat
      /\ \A k \in 1 .. Size(s) : \E i \in S : K[k] = fs[i]
      /\ \A i \in S : \E k \in 1 .. Size(s) : K[k] = fs[i]
      /\ \A j, k \in 1 .. Size(s) : K[j] = K[k] => j = k
  <2>1. Len(fs) \in Nat
    BY <1>2
  <2>2. /\ Cardinality(S) \in Nat
        /\ \A k \in 1 .. Cardinality(S) : \E i \in S : At(fs, S)[k] = fs[i]
        /\ \A i \in S : \E k \in 1 .. Cardinality(S) : At(fs, S)[k] = fs[i]
        /\ (\A i, l \in S : fs[i] = fs[l] => i = l) =>
               \A j, k \in 1 .. Cardinality(S) : At(fs, S)[j] = At(fs, S)[k] => j = k
    BY <2>1, <1>3, AtLists
  <2> QED
    BY <2>2, <1>4, <1>8
<1>10. \A k \in 1 .. Size(s) : IsKept(K[k])
  BY <1>6, <1>9
<1>11. \A j, k \in 1 .. Size(s) : K[j].name = K[k].name => j = k
  BY <1>5, <1>9
<1>12. {fs[i] : i \in S} = {K[k] : k \in 1 .. Size(s)}
  BY <1>9
<1> QED
  BY <1>7, <1>9, <1>10, <1>11, <1>12 DEF K, fs

LEMMA KeptDomain ==
    ASSUME NEW s
    PROVE  DOMAIN Kept(s.fields) = 1 .. Size(s)
  BY AtDomain DEF Kept, Size

\* What Register makes of a field: the key is promoted, and the choices are noted.
MadeOf(f, key, chosen) == [(IF key THEN Promoted(f) ELSE f) EXCEPT !.choices = chosen]

LEMMA Makes ==
    ASSUME NEW f \in Field, NEW key \in BOOLEAN, NEW chosen \in BOOLEAN, NEW g,
           g = MadeOf(f, key, chosen)
    PROVE  /\ g \in Field
           /\ g.name = f.name /\ g.column = f.column /\ g.rel = f.rel /\ g.null = f.null
           /\ g.maxLength = f.maxLength /\ g.onDelete = f.onDelete /\ g.default = f.default
           /\ g.autoNow = f.autoNow /\ g.autoNowAdd = f.autoNowAdd
           /\ g.target = f.target
           /\ g.pk <=> key \/ f.pk
           /\ g.choices <=> chosen
           /\ g.kind = IF key /\ f.kind = "Int" THEN "Auto" ELSE f.kind
<1> DEFINE yes == TRUE
           kind == IF f.kind = "Int" THEN "Auto" ELSE f.kind
           p == [f EXCEPT !.pk = yes]
           q == [p EXCEPT !.kind = kind]
<1>1. yes \in BOOLEAN /\ yes /\ kind \in Kinds
  BY DEF Field, Kinds
<1>2. Promoted(f) = q
  <2>1. p.kind = f.kind
    BY DEF Field
  <2> QED
    BY <2>1 DEF Promoted, Field
<1> HIDE DEF yes, kind
<1>3. p \in Field /\ p = [f EXCEPT !.pk = yes]
  BY <1>1 DEF Field
<1> HIDE DEF p
<1>4. q \in Field /\ q = [p EXCEPT !.kind = kind]
  BY <1>1, <1>3 DEF Field
<1> HIDE DEF q
<1>5. CASE key
  <2>1. g = [q EXCEPT !.choices = chosen]
    BY <1>2, <1>5 DEF MadeOf
  <2>2. /\ g \in Field /\ g.choices = chosen
        /\ g.name = q.name /\ g.column = q.column /\ g.rel = q.rel /\ g.null = q.null
        /\ g.maxLength = q.maxLength /\ g.onDelete = q.onDelete /\ g.default = q.default
        /\ g.autoNow = q.autoNow /\ g.autoNowAdd = q.autoNowAdd
        /\ g.target = q.target /\ g.pk = q.pk /\ g.kind = q.kind
    BY <1>4, <2>1 DEF Field
  <2>3. /\ q.kind = kind
        /\ q.name = p.name /\ q.column = p.column /\ q.rel = p.rel /\ q.null = p.null
        /\ q.maxLength = p.maxLength /\ q.onDelete = p.onDelete /\ q.default = p.default
        /\ q.autoNow = p.autoNow /\ q.autoNowAdd = p.autoNowAdd
        /\ q.target = p.target /\ q.pk = p.pk
    BY <1>3, <1>4 DEF Field
  <2>4. /\ p.pk = yes
        /\ p.name = f.name /\ p.column = f.column /\ p.rel = f.rel /\ p.null = f.null
        /\ p.maxLength = f.maxLength /\ p.onDelete = f.onDelete /\ p.default = f.default
        /\ p.autoNow = f.autoNow /\ p.autoNowAdd = f.autoNowAdd /\ p.target = f.target
    BY <1>3 DEF Field
  <2> QED
    BY <1>1, <1>5, <2>2, <2>3, <2>4 DEF kind
<1>6. CASE ~ key
  <2>1. g = [f EXCEPT !.choices = chosen]
    BY <1>6 DEF MadeOf
  <2> QED
    BY <1>6, <2>1 DEF Field
<1> QED
  BY <1>5, <1>6

\* What a struct must be, said of the positions of its fields.
KeysOf(s) ==
    LET tagged == {i \in 1 .. Size(s) : "pk" \in Opts(Kept(s.fields)[i])}
    IN  IF tagged # {} THEN tagged
        ELSE {i \in 1 .. Size(s) : Kept(s.fields)[i].name = "ID"
                                   /\ Kept(s.fields)[i].type \in {"int", "fk"}}

Fits(s) ==
    LET K == Kept(s.fields)
        N == 1 .. Size(s)
    IN  /\ \A i \in N : WellTagged(K[i])
        /\ \A i, j \in N : DeclaredColumn(K[i]) = DeclaredColumn(K[j]) => i = j
        /\ Cardinality(KeysOf(s)) = 1
        /\ \A i \in KeysOf(s) : "default" \notin Opts(K[i])
        /\ \A c \in s.choices : \E i \in N :
               K[i].name = c /\ K[i].type = "string" /\ TextTags(K[i]) = {}

LEMMA KeysFinite ==
    ASSUME NEW s \in GoStruct
    PROVE  IsFiniteSet(KeysOf(s)) /\ KeysOf(s) \in SUBSET (1 .. Size(s))
<1>1. KeysOf(s) \in SUBSET (1 .. Size(s))
  BY DEF KeysOf
<1>2. IsFiniteSet(1 .. Size(s))
  BY KeptFields, FS_Interval
<1> QED
  BY <1>1, <1>2, FS_Subset

LEMMA FitsIfWellDeclared ==
    ASSUME NEW s \in GoStruct
    PROVE  WellDeclared(s) <=> Fits(s)
<1> DEFINE K == Kept(s.fields)
           N == 1 .. Size(s)
           kept == {d \in ToSet(s.fields) : ~ Skipped(d)}
           tagged == {d \in kept : "pk" \in Opts(d)}
           named == {d \in kept : d.name = "ID" /\ d.type \in {"int", "fk"}}
           key == IF tagged = {} THEN named ELSE tagged
           keys == KeysOf(s)
<1>1. /\ kept = {K[i] : i \in N}
      /\ \A i, j \in N : K[i].name = K[j].name => i = j
  BY KeptFields
<1>2. WellDeclared(s) <=>
          /\ \A d \in kept : WellTagged(d)
          /\ \A d, e \in kept : DeclaredColumn(d) = DeclaredColumn(e) => d = e
          /\ Cardinality(key) = 1
          /\ \A d \in key : "default" \notin Opts(d)
          /\ \A c \in s.choices : \E d \in kept :
                 d.name = c /\ d.type = "string" /\ TextTags(d) = {}
  BY DEF WellDeclared
<1>3. Fits(s) <=>
          /\ \A i \in N : WellTagged(K[i])
          /\ \A i, j \in N : DeclaredColumn(K[i]) = DeclaredColumn(K[j]) => i = j
          /\ Cardinality(keys) = 1
          /\ \A i \in keys : "default" \notin Opts(K[i])
          /\ \A c \in s.choices : \E i \in N :
                 K[i].name = c /\ K[i].type = "string" /\ TextTags(K[i]) = {}
  BY DEF Fits
<1>4. keys = IF {i \in N : K[i] \in tagged} # {} THEN {i \in N : K[i] \in tagged}
             ELSE {i \in N : K[i] \in named}
  BY <1>1 DEF KeysOf
<1> HIDE DEF K, N, keys
<1>5. tagged \subseteq kept /\ named \subseteq kept
  OBVIOUS
<1> HIDE DEF tagged, named, kept
<1>6. key = {K[i] : i \in keys} /\ keys \subseteq N
  BY <1>1, <1>4, <1>5
<1>7. \A i, j \in N : K[i] = K[j] => i = j
  BY <1>1
<1>8. Cardinality(key) = 1 <=> Cardinality(keys) = 1
  <2>1. IsFiniteSet(keys)
    BY KeysFinite DEF keys
  <2>2. IsFiniteSet(key)
    <3> DEFINE f == [i \in keys |-> K[i]]
    <3>1. f \in Surjection(keys, key)
      BY <1>6 DEF Surjection
    <3> QED
      BY <2>1, <3>1, FS_Surjection
  <2>3. (Cardinality(keys) = 1 <=> keys # {} /\ \A i, j \in keys : i = j)
    BY <2>1, AtMostOne
  <2>4. (Cardinality(key) = 1 <=> key # {} /\ \A d, e \in key : d = e)
    <3> HIDE DEF key
    <3> QED
      BY <2>2, AtMostOne
  <2>5. key # {} <=> keys # {}
    BY <1>6
  <2>6. (\A d, e \in key : d = e) <=> \A i, j \in keys : i = j
    <3> HIDE DEF key
    <3> QED
      BY <1>6, <1>7, SMTT(30)
  <2> QED
    BY <2>3, <2>4, <2>5, <2>6
<1> HIDE DEF key
<1>9. (\A d \in kept : WellTagged(d)) <=> \A i \in N : WellTagged(K[i])
  BY <1>1
<1>10. (\A d, e \in kept : DeclaredColumn(d) = DeclaredColumn(e) => d = e) <=>
           \A i, j \in N : DeclaredColumn(K[i]) = DeclaredColumn(K[j]) => i = j
  BY <1>1, <1>7
<1>11. (\A d \in key : "default" \notin Opts(d)) <=>
           \A i \in keys : "default" \notin Opts(K[i])
  BY <1>6
<1>12. (\A c \in s.choices : \E d \in kept :
            d.name = c /\ d.type = "string" /\ TextTags(d) = {}) <=>
       (\A c \in s.choices : \E i \in N :
            K[i].name = c /\ K[i].type = "string" /\ TextTags(K[i]) = {})
  <2>1. ASSUME NEW c
        PROVE  (\E d \in kept : d.name = c /\ d.type = "string" /\ TextTags(d) = {}) <=>
               \E i \in N : K[i].name = c /\ K[i].type = "string" /\ TextTags(K[i]) = {}
    BY <1>1
  <2> QED
    BY <2>1
<1> QED
  BY <1>2, <1>3, <1>8, <1>9, <1>10, <1>11, <1>12

\* What Register works with.
Plain(s) == [i \in DOMAIN Kept(s.fields) |-> Parse(Kept(s.fields)[i]).field]

Made(s) == [i \in DOMAIN Kept(s.fields) |->
               MadeOf(Plain(s)[i], i \in KeyFields(Plain(s)), Plain(s)[i].name \in s.choices)]

Entry(s) == [type |-> s.type, name |-> s.name,
             table |-> IF s.table = "" THEN Lower[s.name] ELSE s.table,
             fields |-> Made(s), pk |-> CHOOSE i \in KeyFields(Plain(s)) : TRUE]

Accepted(reg, s) ==
    LET plain == Plain(s)
        keys == KeyFields(plain)
        fields == Made(s)
    IN  /\ ~reg.frozen
        /\ \A i \in DOMAIN reg.models : reg.models[i].name # s.name
        /\ \A i \in DOMAIN Kept(s.fields) : ~Parse(Kept(s.fields)[i]).err
        /\ Cardinality(keys) = 1
        /\ \A i \in keys : ~plain[i].default
        /\ \A i, j \in DOMAIN fields : fields[i].column = fields[j].column => i = j
        /\ ChoicesFit(fields, s.choices)

LEMMA RegisterIs ==
    ASSUME NEW reg, NEW s \in GoStruct
    PROVE  Register(reg, s) =
               IF Accepted(reg, s)
               THEN [err |-> FALSE, reg |-> [reg EXCEPT !.models = Append(@, Entry(s))]]
               ELSE [err |-> TRUE, reg |-> reg]
  BY DEF Register, Accepted, Entry, Made, MadeOf, Plain

AllTagged(s) == \A i \in 1 .. Size(s) : WellTagged(Kept(s.fields)[i])

LEMMA PlainIs ==
    ASSUME NEW s \in GoStruct
    PROVE  /\ AllTagged(s) <=>
                  \A i \in DOMAIN Kept(s.fields) : ~ Parse(Kept(s.fields)[i]).err
           /\ AllTagged(s) =>
                  \A i \in 1 .. Size(s) : FieldOf(Kept(s.fields)[i], Plain(s)[i])
<1> DEFINE K == Kept(s.fields)
<1>1. DOMAIN K = 1 .. Size(s)
  BY KeptDomain
<1>2. \A i \in 1 .. Size(s) : IsKept(K[i])
  BY KeptFields
<1>3. \A i \in 1 .. Size(s) : /\ Parse(K[i]).err <=> ~ WellTagged(K[i])
                              /\ WellTagged(K[i]) => FieldOf(K[i], Parse(K[i]).field)
  BY <1>2, ParseReads
<1>4. \A i \in 1 .. Size(s) : Plain(s)[i] = Parse(K[i]).field
  BY <1>1 DEF Plain
<1> HIDE DEF K
<1>5. AllTagged(s) <=> \A i \in 1 .. Size(s) : WellTagged(K[i])
  BY DEF AllTagged, K
<1>6. AllTagged(s) <=> \A i \in DOMAIN K : ~ Parse(K[i]).err
  BY <1>1, <1>3, <1>5
<1>7. AllTagged(s) => \A i \in 1 .. Size(s) : FieldOf(K[i], Plain(s)[i])
  BY <1>3, <1>4, <1>5
<1> QED
  BY <1>6, <1>7 DEF K

LEMMA KeysAgree ==
    ASSUME NEW s \in GoStruct, AllTagged(s)
    PROVE  KeyFields(Plain(s)) = KeysOf(s)
<1> DEFINE K == Kept(s.fields)
           p == Plain(s)
<1>1. DOMAIN p = 1 .. Size(s)
  BY KeptDomain DEF Plain
<1>2. \A i \in 1 .. Size(s) : FieldOf(K[i], p[i])
  BY PlainIs
<1> HIDE DEF K, p
<1>3. \A i \in 1 .. Size(s) : /\ p[i].name = K[i].name
                              /\ p[i].pk <=> "pk" \in Opts(K[i])
                              /\ p[i].kind = "Int" <=> K[i].type \in {"int", "fk"}
  BY <1>2 DEF FieldOf
<1>4. {i \in DOMAIN p : p[i].pk} = {i \in 1 .. Size(s) : "pk" \in Opts(K[i])}
  BY <1>1, <1>3
<1>5. {i \in DOMAIN p : p[i].name = "ID" /\ p[i].kind = "Int"} =
          {i \in 1 .. Size(s) : K[i].name = "ID" /\ K[i].type \in {"int", "fk"}}
  BY <1>1, <1>3
<1> QED
  BY <1>4, <1>5 DEF KeyFields, KeysOf, K, p

\* A field of the model, made of the one that Parse reads.
MadeFrom(s, i, f, g) ==
    /\ f \in Field /\ g \in Field
    /\ FieldOf(Kept(s.fields)[i], f)
    /\ g.name = f.name /\ g.column = f.column /\ g.rel = f.rel /\ g.null = f.null
    /\ g.maxLength = f.maxLength /\ g.onDelete = f.onDelete /\ g.default = f.default
    /\ g.autoNow = f.autoNow /\ g.autoNowAdd = f.autoNowAdd
    /\ g.target = f.target
    /\ g.pk <=> i \in KeysOf(s) \/ f.pk
    /\ g.choices <=> f.name \in s.choices
    /\ g.kind = IF i \in KeysOf(s) /\ f.kind = "Int" THEN "Auto" ELSE f.kind

LEMMA MadeDomain ==
    ASSUME NEW s
    PROVE  DOMAIN Made(s) = 1 .. Size(s)
  BY KeptDomain DEF Made

LEMMA MadeIs ==
    ASSUME NEW s \in GoStruct, AllTagged(s), NEW i \in 1 .. Size(s)
    PROVE  MadeFrom(s, i, Plain(s)[i], Made(s)[i])
<1> DEFINE f == Plain(s)[i]
           key == i \in KeyFields(Plain(s))
           chosen == f.name \in s.choices
<1>1. FieldOf(Kept(s.fields)[i], f)
  BY PlainIs
<1>2. f \in Field /\ key \in BOOLEAN /\ chosen \in BOOLEAN
  <2>1. f \in Field
    BY <1>1 DEF FieldOf
  <2>2. key \in BOOLEAN /\ chosen \in BOOLEAN
    OBVIOUS
  <2> QED
    BY <2>1, <2>2
<1>3. Made(s)[i] = MadeOf(f, key, chosen)
  BY KeptDomain DEF Made
<1>4. key <=> i \in KeysOf(s)
  BY KeysAgree
<1>5. chosen <=> f.name \in s.choices
  OBVIOUS
<1> HIDE DEF f, key, chosen
<1> DEFINE g == Made(s)[i]
<1>6. /\ g \in Field
      /\ g.name = f.name /\ g.column = f.column /\ g.rel = f.rel /\ g.null = f.null
      /\ g.maxLength = f.maxLength /\ g.onDelete = f.onDelete /\ g.default = f.default
      /\ g.autoNow = f.autoNow /\ g.autoNowAdd = f.autoNowAdd
      /\ g.target = f.target
      /\ g.pk <=> key \/ f.pk
      /\ g.choices <=> chosen
      /\ g.kind = IF key /\ f.kind = "Int" THEN "Auto" ELSE f.kind
  <2> HIDE DEF g
  <2>1. g = MadeOf(f, key, chosen)
    BY <1>3 DEF g
  <2> QED
    BY <1>2, <2>1, Makes
<1> HIDE DEF g
<1>7. MadeFrom(s, i, f, g)
  BY <1>1, <1>2, <1>4, <1>5, <1>6 DEF MadeFrom
<1> QED
  BY <1>7 DEF f, g

LEMMA AcceptedWhen ==
    ASSUME NEW reg, NEW s \in GoStruct
    PROVE  Accepted(reg, s) <=>
               /\ ~ reg.frozen
               /\ \A i \in DOMAIN reg.models : reg.models[i].name # s.name
               /\ WellDeclared(s)
<1> DEFINE K == Kept(s.fields)
           N == 1 .. Size(s)
           p == Plain(s)
           g == Made(s)
           keys == KeyFields(p)
<1>1. Accepted(reg, s) <=>
          /\ ~ reg.frozen
          /\ \A i \in DOMAIN reg.models : reg.models[i].name # s.name
          /\ AllTagged(s)
          /\ Cardinality(keys) = 1
          /\ \A i \in keys : ~ p[i].default
          /\ \A i, j \in N : g[i].column = g[j].column => i = j
          /\ ChoicesFit(g, s.choices)
  BY PlainIs, MadeDomain DEF Accepted
<1>2. WellDeclared(s) <=> Fits(s)
  BY FitsIfWellDeclared
<1>3. CASE ~ AllTagged(s)
  BY <1>1, <1>2, <1>3 DEF Fits, AllTagged
<1>4. CASE AllTagged(s)
  <2>1. keys = KeysOf(s)
    BY <1>4, KeysAgree
  <2>2. \A i \in N : MadeFrom(s, i, p[i], g[i])
    BY <1>4, MadeIs
  <2>3. KeysOf(s) \subseteq N
    BY KeysFinite
  <2>4. DOMAIN g = N
    BY MadeDomain
  <2> HIDE DEF p, g, keys, N
  <2>5. \A i \in N : /\ p[i].default <=> "default" \in Opts(K[i])
                     /\ g[i].column = DeclaredColumn(K[i])
                     /\ g[i].name = K[i].name
                     /\ g[i].kind = "Char" <=> K[i].type = "string" /\ TextTags(K[i]) = {}
    <3> SUFFICES ASSUME NEW i \in N
                 PROVE  /\ p[i].default <=> "default" \in Opts(K[i])
                        /\ g[i].column = DeclaredColumn(K[i])
                        /\ g[i].name = K[i].name
                        /\ g[i].kind = "Char" <=> K[i].type = "string" /\ TextTags(K[i]) = {}
      OBVIOUS
    <3>1. MadeFrom(s, i, p[i], g[i])
      BY <2>2
    <3>2. FieldOf(K[i], p[i])
      BY <3>1 DEF MadeFrom
    <3>3. g[i].kind = "Char" <=> p[i].kind = "Char"
      BY <3>1 DEF MadeFrom
    <3>4. g[i].column = p[i].column /\ g[i].name = p[i].name
      BY <3>1 DEF MadeFrom
    <3> QED
      BY <3>2, <3>3, <3>4 DEF FieldOf
  <2>6. (\A i \in keys : ~ p[i].default) <=> \A i \in KeysOf(s) : "default" \notin Opts(K[i])
    BY <2>1, <2>3, <2>5
  <2>7. (\A i, j \in N : g[i].column = g[j].column => i = j) <=>
            \A i, j \in N : DeclaredColumn(K[i]) = DeclaredColumn(K[j]) => i = j
    BY <2>5
  <2>8. ChoicesFit(g, s.choices) <=>
            \A c \in s.choices : \E i \in N :
                K[i].name = c /\ K[i].type = "string" /\ TextTags(K[i]) = {}
    BY <2>4, <2>5 DEF ChoicesFit
  <2>9. Fits(s) <=>
            /\ AllTagged(s)
            /\ \A i, j \in N : DeclaredColumn(K[i]) = DeclaredColumn(K[j]) => i = j
            /\ Cardinality(KeysOf(s)) = 1
            /\ \A i \in KeysOf(s) : "default" \notin Opts(K[i])
            /\ \A c \in s.choices : \E i \in N :
                   K[i].name = c /\ K[i].type = "string" /\ TextTags(K[i]) = {}
    BY DEF Fits, AllTagged, N
  <2> QED
    BY <1>1, <1>2, <1>4, <2>1, <2>6, <2>7, <2>8, <2>9
<1> QED
  BY <1>3, <1>4

LEMMA EntryFields ==
    ASSUME NEW s
    PROVE  /\ Entry(s).type = s.type /\ Entry(s).name = s.name /\ Entry(s).fields = Made(s)
           /\ Entry(s).pk = CHOOSE i \in KeyFields(Plain(s)) : TRUE
  BY DEF Entry

\* The model of a struct that is well declared keeps what a frozen registry promises.
LEMMA EntryConsistent ==
    ASSUME NEW s \in GoStruct, WellDeclared(s)
    PROVE  ConsistentModel(Entry(s))
<1> DEFINE K == Kept(s.fields)
           N == 1 .. Size(s)
           p == Plain(s)
           g == Made(s)
           e == Entry(s)
<1>1. Fits(s) /\ AllTagged(s)
  BY FitsIfWellDeclared DEF Fits, AllTagged
<1>2. KeysOf(s) \subseteq N /\ IsFiniteSet(KeysOf(s)) /\ Cardinality(KeysOf(s)) = 1
  BY <1>1, KeysFinite DEF Fits
<1>3. PICK k : KeysOf(s) = {k}
  BY <1>2, FS_Singleton
<1>4. e.fields = g /\ e.pk = k
  <2>1. KeyFields(p) = {k}
    BY <1>1, <1>3, KeysAgree
  <2> QED
    BY <2>1, EntryFields
<1>5. \A i \in N : MadeFrom(s, i, p[i], g[i])
  BY <1>1, MadeIs
<1>6. DOMAIN g = N /\ k \in N
  BY <1>2, <1>3, MadeDomain
<1>7. \A i, j \in N : K[i].name = K[j].name => i = j
  BY KeptFields
<1>8. /\ \A i, j \in N : DeclaredColumn(K[i]) = DeclaredColumn(K[j]) => i = j
      /\ \A i \in KeysOf(s) : "default" \notin Opts(K[i])
      /\ \A c \in s.choices : \E i \in N :
             K[i].name = c /\ K[i].type = "string" /\ TextTags(K[i]) = {}
  BY <1>1 DEF Fits
<1>9. k \in KeysOf(s) /\ \A i \in N : "pk" \in Opts(K[i]) => i \in KeysOf(s)
  <2>1. ASSUME NEW i \in N, "pk" \in Opts(K[i])
        PROVE  i \in KeysOf(s)
    BY <2>1 DEF KeysOf
  <2> QED
    BY <1>3, <2>1
<1> HIDE DEF K, N, p, g, e
<1>10. ASSUME NEW i \in N
       PROVE  /\ g[i].name = K[i].name /\ g[i].column = DeclaredColumn(K[i])
              /\ g[i].column # ""
              /\ g[i].pk <=> i = k
              /\ g[i].kind = "Auto" => i = k
              /\ i = k => g[i].kind # "Int" /\ ~ g[i].default
              /\ g[i].kind = "Char" => g[i].maxLength > 0
              /\ g[i].kind = "Char" <=> K[i].type = "string" /\ TextTags(K[i]) = {}
              /\ g[i].choices <=> K[i].name \in s.choices
              /\ g[i].autoNow \/ g[i].autoNowAdd => g[i].kind = "DateTime" /\ ~ g[i].default
              /\ ~ (g[i].autoNow /\ g[i].autoNowAdd)
              /\ g[i].onDelete = "set_null" => g[i].null /\ g[i].rel # ""
  <2> DEFINE f == p[i]
             h == g[i]
  <2>1. MadeFrom(s, i, f, h)
    BY <1>5
  <2>2. FieldOf(K[i], f)
    BY <2>1 DEF MadeFrom, K
  <2> HIDE DEF f, h
  <2>3. /\ h.name = f.name /\ h.column = f.column /\ h.rel = f.rel /\ h.null = f.null
        /\ h.maxLength = f.maxLength /\ h.onDelete = f.onDelete /\ h.default = f.default
        /\ h.autoNow = f.autoNow /\ h.autoNowAdd = f.autoNowAdd
        /\ h.pk <=> i = k \/ f.pk
        /\ h.choices <=> f.name \in s.choices
        /\ h.kind = IF i = k /\ f.kind = "Int" THEN "Auto" ELSE f.kind
    BY <2>1, <1>3 DEF MadeFrom
  <2>4. /\ h.name = K[i].name /\ h.column = DeclaredColumn(K[i]) /\ h.column # ""
        /\ h.choices <=> K[i].name \in s.choices
        /\ h.kind = "Char" => h.maxLength > 0
        /\ h.kind = "Char" <=> K[i].type = "string" /\ TextTags(K[i]) = {}
        /\ h.kind = "Auto" => i = k
        /\ i = k => h.kind # "Int"
    BY <2>2, <2>3 DEF FieldOf
  <2>5. h.pk <=> i = k
    BY <1>3, <1>9, <2>2, <2>3 DEF FieldOf
  <2>6. i = k => ~ h.default
    BY <1>8, <1>9, <2>2, <2>3 DEF FieldOf
  <2>7. h.autoNow \/ h.autoNowAdd => h.kind = "DateTime" /\ ~ h.default
    BY <2>2, <2>3 DEF FieldOf
  <2>8. /\ ~ (h.autoNow /\ h.autoNowAdd)
        /\ h.onDelete = "set_null" => h.null /\ h.rel # ""
    BY <2>2, <2>3 DEF FieldOf
  <2> QED
    BY <2>4, <2>5, <2>6, <2>7, <2>8 DEF h
<1>11. {i \in N : g[i].pk} = {k}
  BY <1>6, <1>10
<1>12. \A i, j \in N : i # j => g[i].name # g[j].name /\ g[i].column # g[j].column
  <2>1. \A i \in N : g[i].name = K[i].name /\ g[i].column = DeclaredColumn(K[i])
    BY <1>10
  <2> QED
    BY <1>7, <1>8, <2>1
<1>13. \A i \in N : g[i].choices => g[i].kind = "Char"
  <2> SUFFICES ASSUME NEW i \in N, g[i].choices
               PROVE  g[i].kind = "Char"
    OBVIOUS
  <2>1. K[i].name \in s.choices
    BY <1>10
  <2>2. PICK j \in N : K[j].name = K[i].name /\ K[j].type = "string" /\ TextTags(K[j]) = {}
    BY <1>8, <2>1
  <2>3. j = i
    BY <1>7, <2>2
  <2> QED
    BY <1>10, <2>2, <2>3
<1>14. ConsistentModel(e)
  <2>1. DOMAIN e.fields = N /\ e.fields = g /\ e.pk = k
    BY <1>4, <1>6
  <2>2. {i \in DOMAIN e.fields : e.fields[i].pk} = {e.pk}
    BY <1>11, <2>1
  <2>3. e.fields[e.pk].kind # "Int" /\ ~ e.fields[e.pk].default
    BY <1>6, <1>10, <2>1
  <2>4. \A i, j \in DOMAIN e.fields :
            i # j => /\ e.fields[i].name # e.fields[j].name
                     /\ e.fields[i].column # e.fields[j].column
    BY <1>12, <2>1
  <2>5. ASSUME NEW i \in DOMAIN e.fields
        PROVE  LET f == e.fields[i]
               IN  /\ f.column # ""
                   /\ f.kind = "Auto" => i = e.pk
                   /\ f.kind = "Char" => f.maxLength > 0
                   /\ f.choices => f.kind = "Char"
                   /\ f.autoNow \/ f.autoNowAdd => f.kind = "DateTime" /\ ~f.default
                   /\ ~(f.autoNow /\ f.autoNowAdd)
                   /\ f.onDelete = "set_null" => f.null /\ f.rel # ""
    BY <1>10, <1>13, <2>1
  <2> QED
    BY <2>2, <2>3, <2>4, <2>5 DEF ConsistentModel
<1> QED
  BY <1>14 DEF e

-----------------------------------------------------------------------------
(* The registry of an application                                          *)

\* What the foreign keys of a model refer to.
Rels(m) == {m.fields[j].rel : j \in DOMAIN m.fields} \ {""}

LEMMA EntryRels ==
    ASSUME NEW s \in GoStruct, WellDeclared(s)
    PROVE  /\ Rels(Entry(s)) = {d.to : d \in {x \in ToSet(s.fields) : x.type = "fk"}}
           /\ \A j \in 1 .. Size(s) : Made(s)[j] \in Field
<1> DEFINE K == Kept(s.fields)
           N == 1 .. Size(s)
           g == Made(s)
           fk == {x \in ToSet(s.fields) : x.type = "fk"}
<1>1. AllTagged(s)
  BY FitsIfWellDeclared DEF Fits, AllTagged
<1>2. \A i \in N : MadeFrom(s, i, Plain(s)[i], g[i])
  BY <1>1, MadeIs
<1>3. DOMAIN g = N /\ Entry(s).fields = g
  BY MadeDomain, EntryFields
<1>4. {d \in ToSet(s.fields) : ~ Skipped(d)} = {K[k] : k \in N} /\ \A k \in N : IsKept(K[k])
  BY KeptFields
<1> HIDE DEF N, g
<1>5. \A i \in N : g[i].rel = K[i].to /\ g[i] \in Field
  <2> SUFFICES ASSUME NEW i \in N
               PROVE  g[i].rel = K[i].to /\ g[i] \in Field
    OBVIOUS
  <2> DEFINE f == Plain(s)[i]
             h == g[i]
  <2>1. MadeFrom(s, i, f, h)
    BY <1>2
  <2> HIDE DEF f, h
  <2>2. h \in Field /\ h.rel = f.rel /\ FieldOf(K[i], f)
    BY <2>1 DEF MadeFrom
  <2>3. f.rel = K[i].to
    BY <2>2 DEF FieldOf
  <2> QED
    BY <2>2, <2>3 DEF h
<1> HIDE DEF K
<1>6. \A k \in N : K[k].type = "fk" <=> K[k].to # ""
  BY <1>4, KindIs
<1>7. \A d \in fk : \E k \in N : d = K[k]
  BY <1>4 DEF Skipped
<1>8. \A k \in N : K[k].type = "fk" => K[k] \in fk
  BY <1>4
<1>9. \A d \in fk : d.type = "fk"
  OBVIOUS
<1> HIDE DEF fk
<1>10. Rels(Entry(s)) = {g[j].rel : j \in N} \ {""}
  BY <1>3 DEF Rels
<1>11. {g[j].rel : j \in N} \ {""} = {d.to : d \in fk}
  <2>1. ASSUME NEW j \in N, g[j].rel # ""
        PROVE  g[j].rel \in {d.to : d \in fk}
    <3>1. K[j] \in fk /\ g[j].rel = K[j].to
      BY <1>5, <1>6, <1>8, <2>1
    <3> QED
      BY <3>1
  <2>2. ASSUME NEW d \in fk
        PROVE  d.to \in {g[j].rel : j \in N} /\ d.to # ""
    <3>1. PICK k \in N : d = K[k]
      BY <1>7
    <3>2. d.to = g[k].rel /\ d.to # ""
      BY <1>5, <1>6, <1>9, <3>1
    <3> QED
      BY <3>2
  <2> QED
    BY <2>1, <2>2
<1> QED
  BY <1>5, <1>10, <1>11 DEF N, g, fk

\* Linking a model changes nothing but the targets of its fields.
LEMMA LinkedFields ==
    ASSUME NEW s \in GoStruct, WellDeclared(s)
    PROVE  /\ Linked(Entry(s)).type = s.type /\ Linked(Entry(s)).name = s.name
           /\ Linked(Entry(s)).pk = Entry(s).pk
           /\ Linked(Entry(s)).fields = [j \in 1 .. Size(s) |->
                  [Made(s)[j] EXCEPT !.target = Made(s)[j].rel]]
<1> DEFINE linked == [j \in 1 .. Size(s) |-> [Made(s)[j] EXCEPT !.target = Made(s)[j].rel]]
           table == IF s.table = "" THEN Lower[s.name] ELSE s.table
           key == CHOOSE i \in KeyFields(Plain(s)) : TRUE
           fields == Made(s)
           e == [type |-> s.type, name |-> s.name, table |-> table, fields |-> fields, pk |-> key]
<1>1. Entry(s) = e
  BY DEF Entry
<1>2. DOMAIN fields = 1 .. Size(s)
  BY MadeDomain
<1>3. Linked(e) = [e EXCEPT !.fields = linked]
  BY <1>2 DEF Linked
<1> HIDE DEF linked, table, key, fields
<1>4. /\ [e EXCEPT !.fields = linked].type = s.type
      /\ [e EXCEPT !.fields = linked].name = s.name
      /\ [e EXCEPT !.fields = linked].pk = e.pk
      /\ [e EXCEPT !.fields = linked].fields = linked
  OBVIOUS
<1> QED
  BY <1>1, <1>3, <1>4 DEF linked

LEMMA LinkedConsistent ==
    ASSUME NEW s \in GoStruct, WellDeclared(s)
    PROVE  /\ ConsistentModel(Linked(Entry(s)))
           /\ \A j \in DOMAIN Linked(Entry(s)).fields :
                  /\ Linked(Entry(s)).fields[j].target = Linked(Entry(s)).fields[j].rel
                  /\ Linked(Entry(s)).fields[j].rel \in Rels(Entry(s)) \cup {""}
<1> DEFINE N == 1 .. Size(s)
           g == Made(s)
           e == Entry(s)
           l == Linked(e)
           h == [j \in N |-> [g[j] EXCEPT !.target = g[j].rel]]
<1>1. ConsistentModel(e)
  BY EntryConsistent
<1>2. e.fields = g /\ DOMAIN g = N
  BY EntryFields, MadeDomain
<1>3. l.fields = h /\ l.pk = e.pk
  BY LinkedFields
<1>4. \A j \in N : g[j] \in Field
  BY EntryRels
<1> HIDE DEF N, g, e, l
<1>5. DOMAIN h = N /\ \A j \in N : h[j] = [g[j] EXCEPT !.target = g[j].rel]
  OBVIOUS
<1> HIDE DEF h
<1>6. ASSUME NEW j \in N
      PROVE  /\ h[j].target = g[j].rel
             /\ h[j].name = g[j].name /\ h[j].column = g[j].column /\ h[j].kind = g[j].kind
             /\ h[j].pk = g[j].pk /\ h[j].null = g[j].null /\ h[j].maxLength = g[j].maxLength
             /\ h[j].rel = g[j].rel /\ h[j].onDelete = g[j].onDelete
             /\ h[j].default = g[j].default /\ h[j].autoNow = g[j].autoNow
             /\ h[j].autoNowAdd = g[j].autoNowAdd /\ h[j].choices = g[j].choices
  <2> DEFINE f == g[j]
             to == g[j].rel
  <2>1. f \in Field /\ h[j] = [f EXCEPT !.target = to]
    BY <1>4, <1>5
  <2> HIDE DEF f, to
  <2>2. /\ h[j].target = to
        /\ h[j].name = f.name /\ h[j].column = f.column /\ h[j].kind = f.kind
        /\ h[j].pk = f.pk /\ h[j].null = f.null /\ h[j].maxLength = f.maxLength
        /\ h[j].rel = f.rel /\ h[j].onDelete = f.onDelete
        /\ h[j].default = f.default /\ h[j].autoNow = f.autoNow
        /\ h[j].autoNowAdd = f.autoNowAdd /\ h[j].choices = f.choices
    BY <2>1 DEF Field
  <2> QED
    BY <2>2 DEF f, to
<1>7. /\ {i \in N : g[i].pk} = {e.pk}
      /\ g[e.pk].kind # "Int" /\ ~g[e.pk].default
  BY <1>1, <1>2 DEF ConsistentModel
<1>11. \A i, j \in N : i # j => g[i].name # g[j].name /\ g[i].column # g[j].column
  BY <1>1, <1>2 DEF ConsistentModel
<1>12. ASSUME NEW i \in N
       PROVE  /\ g[i].column # ""
              /\ g[i].kind = "Auto" => i = e.pk
              /\ g[i].kind = "Char" => g[i].maxLength > 0
              /\ g[i].choices => g[i].kind = "Char"
              /\ g[i].autoNow \/ g[i].autoNowAdd => g[i].kind = "DateTime" /\ ~g[i].default
              /\ ~(g[i].autoNow /\ g[i].autoNowAdd)
              /\ g[i].onDelete = "set_null" => g[i].null /\ g[i].rel # ""
  BY <1>1, <1>2 DEF ConsistentModel
<1>8. {i \in N : h[i].pk} = {e.pk} /\ e.pk \in N
  <2>1. {i \in N : h[i].pk} = {i \in N : g[i].pk}
    BY <1>6
  <2> QED
    BY <1>7, <2>1
<1>9. ConsistentModel(l)
  <2>1. h[e.pk].kind # "Int" /\ ~h[e.pk].default
    BY <1>6, <1>7, <1>8
  <2>2. \A i, j \in N : i # j => h[i].name # h[j].name /\ h[i].column # h[j].column
    <3>1. \A j \in N : h[j].name = g[j].name /\ h[j].column = g[j].column
      BY <1>6
    <3> QED
      BY <1>11, <3>1
  <2>3. ASSUME NEW i \in N
        PROVE  /\ h[i].column # ""
               /\ h[i].kind = "Auto" => i = e.pk
               /\ h[i].kind = "Char" => h[i].maxLength > 0
               /\ h[i].choices => h[i].kind = "Char"
               /\ h[i].autoNow \/ h[i].autoNowAdd => h[i].kind = "DateTime" /\ ~h[i].default
               /\ ~(h[i].autoNow /\ h[i].autoNowAdd)
               /\ h[i].onDelete = "set_null" => h[i].null /\ h[i].rel # ""
    BY <1>6, <1>12, ZenonT(60)
  <2> QED
    BY <1>3, <1>5, <1>8, <2>1, <2>2, <2>3, Zenon DEF ConsistentModel
<1>10. \A j \in DOMAIN l.fields :
           l.fields[j].target = l.fields[j].rel /\ l.fields[j].rel \in Rels(e) \cup {""}
  <2>1. \A j \in N : h[j].target = g[j].rel /\ h[j].rel = g[j].rel
    BY <1>6
  <2>2. \A j \in N : g[j].rel \in Rels(e) \cup {""}
    BY <1>2 DEF Rels
  <2> QED
    BY <1>3, <1>5, <2>1, <2>2
<1> QED
  BY <1>9, <1>10 DEF l, e

\* A sequence and one more member.
LEMMA OneMore ==
    ASSUME NEW m \in Nat, NEW S, NEW f, \A k \in 1 .. m + 1 : f[k] \in S
    PROVE  Append([k \in 1 .. m |-> f[k]], f[m + 1]) = [k \in 1 .. m + 1 |-> f[k]]
<1> DEFINE s == [k \in 1 .. m |-> f[k]]
           t == [k \in 1 .. m + 1 |-> f[k]]
<1>1. s \in Seq(S) /\ t \in Seq(S) /\ Len(s) = m /\ Len(t) = m + 1
  <2>1. s \in [1 .. m -> S] /\ t \in [1 .. m + 1 -> S]
    OBVIOUS
  <2> HIDE DEF s, t
  <2> QED
    BY <2>1, SeqDef, LenProperties
<1>2. /\ Append(s, f[m + 1]) \in Seq(S) /\ Len(Append(s, f[m + 1])) = m + 1
      /\ \A k \in 1 .. m : Append(s, f[m + 1])[k] = s[k]
      /\ Append(s, f[m + 1])[m + 1] = f[m + 1]
  <2>1. f[m + 1] \in S
    OBVIOUS
  <2> HIDE DEF s
  <2> QED
    BY <1>1, <2>1, AppendProperties
<1>3. \A k \in 1 .. m + 1 : Append(s, f[m + 1])[k] = t[k]
  <2>1. \A k \in 1 .. m : s[k] = f[k]
    OBVIOUS
  <2>2. \A k \in 1 .. m + 1 : t[k] = f[k]
    OBVIOUS
  <2> HIDE DEF s, t
  <2> QED
    BY <1>2, <2>1, <2>2
<1> HIDE DEF s, t
<1>4. Append(s, f[m + 1]) = t
  BY <1>1, <1>2, <1>3, SeqEqual
<1> QED
  BY <1>4 DEF s, t

\* The registry with the models of the first m structs.
Registry(ms, m) == [models |-> [k \in 1 .. m |-> Entry(ms[k])], frozen |-> FALSE]

Registering(ms) == Taking!Held([err |-> FALSE, reg |-> EmptyRegistry], ms)

\* A struct that Register refuses, told from the structs alone.
Misfit(ms, k) == ~ WellDeclared(ms[k]) \/ \E j \in 1 .. k - 1 : ms[j].name = ms[k].name

LEMMA RegistersAll ==
    ASSUME NEW ms \in Seq(GoStruct)
    PROVE  \A m \in 0 .. Len(ms) :
               /\ Registering(ms)[m].err \in BOOLEAN
               /\ Registering(ms)[m].err <=> \E k \in 1 .. m : Misfit(ms, k)
               /\ ~ Registering(ms)[m].err => Registering(ms)[m].reg = Registry(ms, m)
<1> DEFINE h == Registering(ms)
           Right(m) == /\ h[m].err \in BOOLEAN
                       /\ h[m].err <=> \E k \in 1 .. m : Misfit(ms, k)
                       /\ ~ h[m].err => h[m].reg = Registry(ms, m)
           Good == {m \in 0 .. Len(ms) : Right(m)}
<1>1. Len(ms) \in Nat /\ \A k \in 1 .. Len(ms) : ms[k] \in GoStruct
  BY LenProperties, ElementOfSeq
<1>2. /\ h[0] = [err |-> FALSE, reg |-> EmptyRegistry]
      /\ \A m \in 1 .. Len(ms) : h[m] = Admit(h[m - 1], ms[m])
  BY <1>1, Taking!HeldSteps DEF Registering
<1> HIDE DEF h
<1>3. 0 \in Good
  <2>1. h[0].err \in BOOLEAN /\ ~ h[0].err /\ h[0].reg = EmptyRegistry
    BY <1>2
  <2>2. EmptyRegistry = Registry(ms, 0)
    <3>1. [k \in 1 .. 0 |-> Entry(ms[k])] = << >>
      <4> DEFINE f == [k \in 1 .. 0 |-> Entry(ms[k])]
      <4>1. f \in [1 .. 0 -> {0}]
        OBVIOUS
      <4> HIDE DEF f
      <4>2. f \in Seq({0}) /\ Len(f) = 0 /\ << >> \in Seq({0}) /\ Len(<< >>) = 0
        BY <4>1, SeqDef, LenProperties, EmptySeq
      <4>3. f = << >>
        BY <4>2, SeqEqual
      <4> QED
        BY <4>3 DEF f
    <3> QED
      BY <3>1 DEF EmptyRegistry, Registry
  <2>3. Right(0)
    BY <2>1, <2>2
  <2> QED
    BY <1>1, <2>3
<1>4. ASSUME NEW m \in 1 .. Len(ms), m - 1 \in Good
      PROVE  m \in Good
  <2>1. m - 1 \in 0 .. Len(ms) /\ 1 .. m = (1 .. m - 1) \cup {m} /\ Right(m - 1) /\ m \in Nat
    BY <1>1, <1>4
  <2>2. ms[m] \in GoStruct /\ h[m] = Admit(h[m - 1], ms[m])
    BY <1>1, <1>2
  <2>3. CASE h[m - 1].err
    <3>1. h[m] = h[m - 1]
      BY <2>2, <2>3 DEF Admit
    <3>2. Right(m)
      BY <2>1, <2>3, <3>1
    <3> QED
      BY <3>2
  <2>4. CASE ~ h[m - 1].err
    <3> DEFINE r == Registry(ms, m - 1)
               e == Entry(ms[m])
    <3>1. h[m] = Register(r, ms[m])
      BY <2>1, <2>2, <2>4 DEF Admit
    <3>2. Accepted(r, ms[m]) <=> ~ Misfit(ms, m)
      <4>1. ~ r.frozen /\ DOMAIN r.models = 1 .. m - 1
        BY DEF Registry
      <4>2. \A k \in 1 .. m - 1 : r.models[k].name = ms[k].name
        BY EntryFields DEF Registry
      <4> HIDE DEF r
      <4> QED
        BY <2>2, <4>1, <4>2, AcceptedWhen DEF Misfit
    <3>3. h[m] = IF ~ Misfit(ms, m)
                 THEN [err |-> FALSE, reg |-> [r EXCEPT !.models = Append(@, e)]]
                 ELSE [err |-> TRUE, reg |-> r]
      <4> HIDE DEF r
      <4> QED
        BY <2>2, <3>1, <3>2, RegisterIs
    <3>4. [r EXCEPT !.models = Append(@, e)] = Registry(ms, m)
      <4> DEFINE entry == [k \in 1 .. m |-> Entry(ms[k])]
                 E == {entry[k] : k \in 1 .. m}
                 before == [k \in 1 .. m - 1 |-> Entry(ms[k])]
                 no == FALSE
                 longer == Append(before, e)
      <4>1. \A k \in 1 .. (m - 1) + 1 : entry[k] \in E
        BY <2>1
      <4>2. m - 1 \in Nat /\ (m - 1) + 1 = m
        BY <2>1
      <4>3. before = [k \in 1 .. m - 1 |-> entry[k]] /\ entry[m] = e
        BY <2>1
      <4>4. entry = [k \in 1 .. m |-> entry[k]]
        OBVIOUS
      <4>5. /\ r = [models |-> before, frozen |-> no]
            /\ Registry(ms, m) = [models |-> entry, frozen |-> no]
        BY DEF Registry
      <4> HIDE DEF entry, E, before, r, e, no
      <4>6. longer = entry
        BY <4>1, <4>2, <4>3, <4>4, OneMore
      <4>7. [r EXCEPT !.models = Append(@, e)] = [r EXCEPT !.models = longer]
        BY <4>5
      <4> HIDE DEF longer
      <4>8. [r EXCEPT !.models = longer] = [models |-> longer, frozen |-> no]
        BY <4>5
      <4> QED
        BY <4>5, <4>6, <4>7, <4>8
    <3> HIDE DEF r, e
    <3>5. CASE Misfit(ms, m)
      <4>1. h[m].err \in BOOLEAN /\ h[m].err
        BY <3>3, <3>5
      <4>2. Right(m)
        BY <2>1, <3>5, <4>1
      <4> QED
        BY <4>2
    <3>6. CASE ~ Misfit(ms, m)
      <4>1. h[m].err \in BOOLEAN /\ ~ h[m].err /\ h[m].reg = Registry(ms, m)
        BY <3>3, <3>4, <3>6
      <4>2. Right(m)
        BY <2>1, <2>4, <3>6, <4>1
      <4> QED
        BY <4>2
    <3> QED
      BY <3>5, <3>6
  <2> QED
    BY <2>3, <2>4
<1>5. \A m \in 0 .. Len(ms) : m \in Good
  <2> HIDE DEF Good
  <2> QED
    BY <1>1, <1>3, <1>4, Reads!Reaches
<1> QED
  BY <1>5 DEF h

\* What New makes of the structs that the apps declare.
Resolved(ms) ==
    LET all == Admits!Fold([err |-> FALSE, reg |-> EmptyRegistry], ms)
    IN  IF all.err THEN all ELSE Resolve(all.reg)

LinkedModels(ms) == [k \in 1 .. Len(ms) |-> Linked(Entry(ms[k]))]

TypesOf(ms) == {ms[k].type : k \in 1 .. Len(ms)}

\* Structs of which each is well declared, and with a name of its own.
Registrable(ms) ==
    /\ \A k \in 1 .. Len(ms) : WellDeclared(ms[k])
    /\ \A i, j \in 1 .. Len(ms) : ms[i].name = ms[j].name => i = j

\* A foreign key of one of them leads to one of them.
Closed(ms) ==
    \A k \in 1 .. Len(ms) : \A d \in ToSet(ms[k].fields) : d.type = "fk" => d.to \in TypesOf(ms)

LEMMA FitParts ==
    ASSUME NEW ms \in Seq(GoStruct)
    PROVE  /\ DeclarationsFit(ms) <=> Registrable(ms) /\ Closed(ms)
           /\ {m.type : m \in ToSet(ms)} = TypesOf(ms)
<1>1. DOMAIN ms = 1 .. Len(ms)
  BY LenProperties
<1>2. ToSet(ms) = {ms[k] : k \in 1 .. Len(ms)}
  BY <1>1 DEF ToSet
<1>3. {m.type : m \in ToSet(ms)} = TypesOf(ms)
  BY <1>2 DEF TypesOf
<1>4. (\A m \in ToSet(ms) : WellDeclared(m)) <=> \A k \in 1 .. Len(ms) : WellDeclared(ms[k])
  BY <1>2
<1>5. (\A m \in ToSet(ms) : \A d \in ToSet(m.fields) :
            d.type = "fk" => d.to \in {x.type : x \in ToSet(ms)})
      <=> Closed(ms)
  BY <1>2, <1>3 DEF Closed
<1> QED
  BY <1>1, <1>3, <1>4, <1>5 DEF DeclarationsFit, Registrable

LEMMA MisfitsNone ==
    ASSUME NEW ms \in Seq(GoStruct)
    PROVE  Registrable(ms) <=> ~ \E k \in 1 .. Len(ms) : Misfit(ms, k)
<1>0. Len(ms) \in Nat
  BY LenProperties
<1>1. ASSUME Registrable(ms), NEW k \in 1 .. Len(ms), Misfit(ms, k)
      PROVE  FALSE
  <2>1. PICK j \in 1 .. k - 1 : ms[j].name = ms[k].name
    BY <1>1 DEF Registrable, Misfit
  <2>2. j \in 1 .. Len(ms) /\ j # k
    BY <1>0
  <2> QED
    BY <1>1, <2>1, <2>2 DEF Registrable
<1>2. ASSUME \A k \in 1 .. Len(ms) : ~ Misfit(ms, k)
      PROVE  Registrable(ms)
  <2>1. \A k \in 1 .. Len(ms) : WellDeclared(ms[k])
    BY <1>2 DEF Misfit
  <2>2. \A i, j \in 1 .. Len(ms) : i < j => ms[i].name # ms[j].name
    <3> TAKE i, j \in 1 .. Len(ms)
    <3> HAVE i < j
    <3>1. i \in 1 .. j - 1
      BY <1>0
    <3> QED
      BY <1>2, <3>1 DEF Misfit
  <2>3. \A i, j \in 1 .. Len(ms) : ms[i].name = ms[j].name => i = j
    <3> TAKE i, j \in 1 .. Len(ms)
    <3>1. i \in Nat /\ j \in Nat
      BY <1>0
    <3>2. i < j \/ j < i \/ i = j
      BY <3>1
    <3> QED
      BY <2>2, <3>2
  <2> QED
    BY <2>1, <2>3 DEF Registrable
<1> QED
  BY <1>1, <1>2

LEMMA AllRegistered ==
    ASSUME NEW ms \in Seq(GoStruct)
    PROVE  LET all == Admits!Fold([err |-> FALSE, reg |-> EmptyRegistry], ms)
           IN  /\ all.err <=> ~ Registrable(ms)
               /\ ~ all.err => all.reg = Registry(ms, Len(ms))
<1> DEFINE base == [err |-> FALSE, reg |-> EmptyRegistry]
           all == Admits!Fold(base, ms)
<1>1. all = Registering(ms)[Len(ms)]
  BY DEF Admits!Fold, Admits!Held, Registering, Taking!Held
<1>2. Len(ms) \in 0 .. Len(ms)
  BY LenProperties
<1> HIDE DEF all
<1>3. /\ all.err <=> \E k \in 1 .. Len(ms) : Misfit(ms, k)
      /\ ~ all.err => all.reg = Registry(ms, Len(ms))
  BY <1>1, <1>2, RegistersAll
<1>4. all.err <=> ~ Registrable(ms)
  BY <1>3, MisfitsNone
<1> QED
  BY <1>3, <1>4 DEF all

\* The types of the registry, and the relations that lead out of it.
LEMMA DanglingIs ==
    ASSUME NEW ms \in Seq(GoStruct), Registrable(ms)
    PROVE  /\ Types(Registry(ms, Len(ms))) = TypesOf(ms)
           /\ Dangling(Registry(ms, Len(ms))) <=> ~ Closed(ms)
<1> DEFINE reg == Registry(ms, Len(ms))
           N == 1 .. Len(ms)
<1>1. reg.models = [k \in N |-> Entry(ms[k])]
  BY DEF Registry
<1>2. DOMAIN reg.models = N /\ \A k \in N : reg.models[k] = Entry(ms[k])
  BY <1>1
<1>0. \A k \in N : ms[k] \in GoStruct /\ WellDeclared(ms[k])
  BY ElementOfSeq DEF Registrable
<1>3. \A k \in N : Entry(ms[k]).type = ms[k].type
  BY EntryFields
<1> HIDE DEF reg
<1>4. Types(reg) = TypesOf(ms)
  BY <1>2, <1>3 DEF Types, TypesOf
<1>5. \A k \in N : Rels(Entry(ms[k])) = {d.to : d \in {x \in ToSet(ms[k].fields) : x.type = "fk"}}
  BY <1>0, EntryRels
<1>6. ASSUME NEW k \in N, NEW j \in DOMAIN reg.models[k].fields,
             reg.models[k].fields[j].rel \notin Types(reg) \cup {""}
      PROVE  ~ Closed(ms)
  <2> DEFINE to == reg.models[k].fields[j].rel
  <2>1. to \in Rels(Entry(ms[k])) /\ to \notin TypesOf(ms)
    BY <1>2, <1>4, <1>6 DEF Rels
  <2> HIDE DEF to
  <2>2. to \in {d.to : d \in {x \in ToSet(ms[k].fields) : x.type = "fk"}}
    BY <1>5, <2>1
  <2>3. PICK d \in ToSet(ms[k].fields) : d.type = "fk" /\ d.to \notin TypesOf(ms)
    BY <2>1, <2>2
  <2> QED
    BY <2>3 DEF Closed
<1>7. ASSUME NEW k \in N, NEW d \in ToSet(ms[k].fields), d.type = "fk", d.to \notin TypesOf(ms)
      PROVE  \E j \in DOMAIN reg.models[k].fields :
                 reg.models[k].fields[j].rel \notin Types(reg) \cup {""}
  <2>1. d.to \in Rels(Entry(ms[k]))
    BY <1>5, <1>7
  <2>2. PICK j \in DOMAIN Entry(ms[k]).fields :
            Entry(ms[k]).fields[j].rel = d.to /\ d.to # ""
    BY <2>1 DEF Rels
  <2> QED
    BY <1>2, <1>4, <1>7, <2>2
<1>8. Dangling(reg) => ~ Closed(ms)
  <2> SUFFICES ASSUME Dangling(reg) PROVE ~ Closed(ms)
    OBVIOUS
  <2>1. PICK k \in DOMAIN reg.models : \E j \in DOMAIN reg.models[k].fields :
            reg.models[k].fields[j].rel \notin Types(reg) \cup {""}
    BY DEF Dangling
  <2> QED
    BY <1>2, <1>6, <2>1
<1>9. ~ Closed(ms) => Dangling(reg)
  <2> SUFFICES ASSUME ~ Closed(ms) PROVE Dangling(reg)
    OBVIOUS
  <2>1. PICK k \in N : \E d \in ToSet(ms[k].fields) : d.type = "fk" /\ d.to \notin TypesOf(ms)
    BY DEF Closed
  <2>2. \E j \in DOMAIN reg.models[k].fields :
            reg.models[k].fields[j].rel \notin Types(reg) \cup {""}
    BY <1>7, <2>1
  <2> QED
    BY <1>2, <2>2 DEF Dangling
<1> QED
  BY <1>4, <1>8, <1>9 DEF reg

LEMMA ResolvedIs ==
    ASSUME NEW ms \in Seq(GoStruct)
    PROVE  /\ Resolved(ms).err <=> ~ DeclarationsFit(ms)
           /\ ~ Resolved(ms).err =>
                  Resolved(ms).reg = [models |-> LinkedModels(ms), frozen |-> FALSE]
<1> DEFINE all == Admits!Fold([err |-> FALSE, reg |-> EmptyRegistry], ms)
           reg == Registry(ms, Len(ms))
<1>1. /\ all.err <=> ~ Registrable(ms)
      /\ ~ all.err => all.reg = reg
  BY AllRegistered
<1>2. Resolved(ms) = IF all.err THEN all ELSE Resolve(all.reg)
  BY DEF Resolved
<1>3. DeclarationsFit(ms) <=> Registrable(ms) /\ Closed(ms)
  BY FitParts
<1> HIDE DEF all, reg
<1>4. CASE ~ Registrable(ms)
  BY <1>1, <1>2, <1>3, <1>4
<1>5. CASE Registrable(ms)
  <2>1. Resolved(ms) = Resolve(reg)
    BY <1>1, <1>2, <1>5
  <2>2. Dangling(reg) <=> ~ Closed(ms)
    BY <1>5, DanglingIs DEF reg
  <2>3. CASE Dangling(reg)
    <3>1. Resolved(ms) = [err |-> TRUE, reg |-> reg]
      BY <2>1, <2>3 DEF Resolve
    <3> QED
      BY <1>3, <2>2, <2>3, <3>1
  <2>4. CASE ~ Dangling(reg)
    <3> DEFINE models == [i \in DOMAIN reg.models |-> Linked(reg.models[i])]
               before == [k \in 1 .. Len(ms) |-> Entry(ms[k])]
               no == FALSE
    <3>1. Resolved(ms) = [err |-> FALSE, reg |-> [reg EXCEPT !.models = models]]
      BY <2>1, <2>4 DEF Resolve
    <3>2. reg = [models |-> before, frozen |-> no]
      BY DEF reg, Registry
    <3>3. models = LinkedModels(ms)
      <4>1. reg.models = before
        BY <3>2
      <4> QED
        BY <4>1 DEF LinkedModels
    <3> HIDE DEF models, before, no
    <3>4. [reg EXCEPT !.models = models] = [models |-> models, frozen |-> no]
      BY <3>2
    <3>5. Resolved(ms).reg = [models |-> LinkedModels(ms), frozen |-> no] /\ ~ Resolved(ms).err
      BY <3>1, <3>3, <3>4
    <3> QED
      BY <1>3, <1>5, <2>2, <2>4, <3>5 DEF no
  <2> QED
    BY <2>3, <2>4
<1> QED
  BY <1>4, <1>5

\* The registry New freezes.
LEMMA FrozenIs ==
    ASSUME NEW ms \in Seq(GoStruct), DeclarationsFit(ms)
    PROVE  /\ Consistent(Freeze(Resolved(ms).reg))
           /\ Types(Freeze(Resolved(ms).reg)) = {m.type : m \in ToSet(ms)}
<1> DEFINE reg == Freeze(Resolved(ms).reg)
           models == LinkedModels(ms)
           no == FALSE
           yes == TRUE
           N == 1 .. Len(ms)
<1>1. Resolved(ms).reg = [models |-> models, frozen |-> no]
  BY ResolvedIs
<1>2. Registrable(ms) /\ Closed(ms) /\ {m.type : m \in ToSet(ms)} = TypesOf(ms)
  BY FitParts
<1>3. reg = [Resolved(ms).reg EXCEPT !.frozen = yes]
  BY DEF Freeze
<1>4. models = [k \in N |-> Linked(Entry(ms[k]))]
  BY DEF LinkedModels
<1> HIDE DEF reg, models, no, yes
<1>5. reg.models = models /\ reg.frozen = yes
  BY <1>1, <1>3
<1>6. DOMAIN models = N
  BY <1>4
<1>7. \A k \in N : models[k] = Linked(Entry(ms[k]))
  BY <1>4
<1>8. \A k \in N : ms[k] \in GoStruct /\ WellDeclared(ms[k])
  BY <1>2, ElementOfSeq DEF Registrable
<1>9. \A k \in N : models[k].type = ms[k].type /\ models[k].name = ms[k].name
  BY <1>7, <1>8, LinkedFields
<1>10. Types(reg) = TypesOf(ms)
  BY <1>5, <1>6, <1>9 DEF Types, TypesOf
<1>11. \A k \in N : ConsistentModel(models[k])
  BY <1>7, <1>8, LinkedConsistent
<1>12. \A i, j \in N : models[i].name = models[j].name => i = j
  BY <1>2, <1>9 DEF Registrable
<1>13. ASSUME NEW k \in N, NEW j \in DOMAIN models[k].fields, models[k].fields[j].rel # ""
       PROVE  models[k].fields[j].target \in TypesOf(ms)
  <2> DEFINE f == models[k].fields[j]
  <2>1. f.target = f.rel /\ f.rel \in Rels(Entry(ms[k])) \cup {""}
    BY <1>7, <1>8, LinkedConsistent, ZenonT(60)
  <2>2. Rels(Entry(ms[k])) = {d.to : d \in {x \in ToSet(ms[k].fields) : x.type = "fk"}}
    BY <1>8, EntryRels
  <2>3. f.rel \in TypesOf(ms)
    BY <1>2, <1>13, <2>1, <2>2 DEF Closed
  <2> QED
    BY <2>1, <2>3
<1>14. /\ \A i \in DOMAIN reg.models : ConsistentModel(reg.models[i])
       /\ \A i, j \in DOMAIN reg.models : reg.models[i].name = reg.models[j].name => i = j
  BY <1>5, <1>6, <1>11, <1>12
<1>15. \A i \in DOMAIN reg.models : \A j \in DOMAIN reg.models[i].fields :
           reg.models[i].fields[j].rel # "" => reg.models[i].fields[j].target \in Types(reg)
  BY <1>5, <1>6, <1>10, <1>13
<1>16. reg.frozen
  BY <1>5 DEF yes
<1>17. Consistent(reg)
  BY <1>14, <1>15, <1>16, Zenon DEF Consistent
<1> QED
  BY <1>2, <1>10, <1>17 DEF reg

-----------------------------------------------------------------------------
(* What the apps provide, put together                                     *)

Join(a, b) == a \o b

Joining == INSTANCE LeftFoldProofs WITH Step <- Join

\* How a sequence of sequences is put together, from the left.
Flattens(g, f) ==
    \A i \in 1 .. Len(f) : g[i] = IF i = 1 THEN f[i] ELSE g[i - 1] \o f[i]

LEMMA FlattenSteps ==
    ASSUME NEW S, NEW f \in Seq(Seq(S))
    PROVE  \E g : Flattens(g, f) /\ FlattenSeq(f) = IF Len(f) = 0 THEN f ELSE g[Len(f)]
<1> DEFINE m == Len(f)
           h == Joining!Held(<< >>, f)
           g == [i \in 1 .. m |-> h[i]]
           Solves(x) == x = [i \in 1 .. m |-> IF i = 1 THEN f[i] ELSE x[i - 1] \o f[i]]
           last == CHOOSE x : Solves(x)
<1>1. m \in Nat /\ \A i \in 1 .. m : f[i] \in Seq(S)
  BY LenProperties, ElementOfSeq
<1>2. FlattenSeq(f) = IF m = 0 THEN f ELSE last[m]
  BY DEF FlattenSeq
<1>3. h[0] = << >> /\ \A i \in 1 .. m : h[i] = Join(h[i - 1], f[i])
  BY <1>1, Joining!HeldSteps
<1> HIDE DEF h
<1>4. h[0] = << >> /\ \A i \in 1 .. m : h[i] = h[i - 1] \o f[i]
  BY <1>3 DEF Join
<1>5. ASSUME NEW i \in 1 .. m
      PROVE  g[i] = IF i = 1 THEN f[i] ELSE g[i - 1] \o f[i]
  <2>1. CASE i = 1
    <3>1. h[i] = << >> \o f[i]
      <4>1. i - 1 = 0 /\ h[0] = << >>
        BY <1>4, <2>1
      <4>2. h[i] = h[i - 1] \o f[i]
        BY <1>4
      <4> QED
        BY <4>1, <4>2
    <3>2. h[i] = f[i]
      BY <1>1, <3>1, ConcatEmptySeq
    <3> QED
      BY <2>1, <3>2
  <2>2. CASE i # 1
    <3>1. i - 1 \in 1 .. m
      BY <1>1, <2>2
    <3>2. g[i - 1] = h[i - 1] /\ g[i] = h[i]
      BY <3>1
    <3> QED
      BY <1>4, <2>2, <3>2
  <2> QED
    BY <2>1, <2>2
<1>6. Solves(last)
  <2>1. Solves(g)
    BY <1>5
  <2> HIDE DEF g, Solves
  <2> QED
    BY <2>1
<1> HIDE DEF last, g
<1>7. Flattens(last, f)
  BY <1>6 DEF Flattens
<1> QED
  BY <1>2, <1>7

\* A sequence of sequences makes one sequence.
LEMMA Flattened ==
    ASSUME NEW S, NEW f \in Seq(Seq(S))
    PROVE  FlattenSeq(f) \in Seq(S)
<1> DEFINE m == Len(f)
<1>1. m \in Nat /\ \A i \in 1 .. m : f[i] \in Seq(S)
  BY LenProperties, ElementOfSeq
<1>2. PICK g : Flattens(g, f) /\ FlattenSeq(f) = IF m = 0 THEN f ELSE g[m]
  BY FlattenSteps
<1>3. \A i \in 0 .. m : i = 0 \/ g[i] \in Seq(S)
  <2> DEFINE Good == {i \in 0 .. m : i = 0 \/ g[i] \in Seq(S)}
  <2>1. 0 \in Good
    BY <1>1
  <2>2. ASSUME NEW i \in 1 .. m, i - 1 \in Good
        PROVE  i \in Good
    <3>1. i \in 0 .. m /\ f[i] \in Seq(S) /\ g[i] = IF i = 1 THEN f[i] ELSE g[i - 1] \o f[i]
      BY <1>1, <1>2 DEF Flattens
    <3>2. CASE i = 1
      BY <3>1, <3>2
    <3>3. CASE i # 1
      <4>1. i - 1 # 0
        BY <1>1, <3>3
      <4>2. g[i - 1] \in Seq(S)
        BY <2>2, <4>1
      <4>3. g[i] \in Seq(S)
        BY <3>1, <3>3, <4>2, ConcatProperties
      <4> QED
        BY <3>1, <4>3
    <3> QED
      BY <3>2, <3>3
  <2>3. \A i \in 0 .. m : i \in Good
    <3> HIDE DEF Good
    <3> QED
      BY <1>1, <2>1, <2>2, Joining!Reaches
  <2> QED
    BY <2>3
<1>4. CASE m = 0
  <2>1. f = << >>
    BY <1>4, EmptySeq
  <2> QED
    BY <1>2, <1>4, <2>1, EmptySeq
<1>5. CASE m # 0
  BY <1>1, <1>2, <1>3, <1>5
<1> QED
  BY <1>4, <1>5

\* The members of two sequences in their places.
Joins(c, a, b, S) ==
    /\ c \in Seq(S) /\ Len(c) = Len(a) + Len(b)
    /\ \A i \in 1 .. Len(a) : c[i] = a[i]
    /\ \A i \in 1 .. Len(b) : c[Len(a) + i] = b[i]

LEMMA Joined ==
    ASSUME NEW S, NEW a \in Seq(S), NEW b \in Seq(S)
    PROVE  Joins(a \o b, a, b, S)
<1> DEFINE c == a \o b
<1>1. Len(a) \in Nat /\ Len(b) \in Nat
  BY LenProperties
<1>2. /\ c \in Seq(S) /\ Len(c) = Len(a) + Len(b)
      /\ \A i \in 1 .. Len(a) + Len(b) : c[i] = IF i <= Len(a) THEN a[i] ELSE b[i - Len(a)]
  BY ConcatProperties
<1> HIDE DEF c
<1>3. \A i \in 1 .. Len(a) : c[i] = a[i]
  BY <1>1, <1>2
<1>4. ASSUME NEW i \in 1 .. Len(b)
      PROVE  c[Len(a) + i] = b[i]
  <2>1. /\ Len(a) + i \in 1 .. Len(a) + Len(b) /\ ~ (Len(a) + i <= Len(a))
        /\ Len(a) + i - Len(a) = i
    BY <1>1
  <2>2. c[Len(a) + i] = b[Len(a) + i - Len(a)]
    BY <1>2, <2>1
  <2> QED
    BY <2>1, <2>2
<1> QED
  BY <1>2, <1>3, <1>4 DEF Joins, c

\* Where every sequence but the last has one member, a member keeps its place.
LEMMA FlattenedInPlace ==
    ASSUME NEW S, NEW f \in Seq(Seq(S)), Len(f) # 0,
           \A i \in 1 .. Len(f) - 1 : Len(f[i]) = 1
    PROVE  LET m == Len(f)
           IN  /\ Len(FlattenSeq(f)) = m - 1 + Len(f[m])
               /\ \A i \in 1 .. m - 1 : FlattenSeq(f)[i] = f[i][1]
               /\ \A i \in 1 .. Len(f[m]) : FlattenSeq(f)[m - 1 + i] = f[m][i]
<1> DEFINE m == Len(f)
           Right(i, x) == /\ x \in Seq(S) /\ Len(x) = i
                          /\ \A k \in 1 .. i : x[k] = f[k][1]
<1>1. m \in Nat \ {0} /\ \A i \in 1 .. m : f[i] \in Seq(S) /\ Len(f[i]) \in Nat
  BY LenProperties, ElementOfSeq
<1>2. PICK g : Flattens(g, f) /\ FlattenSeq(f) = g[m]
  BY FlattenSteps
<1>3. \A i \in 1 .. m : g[i] = IF i = 1 THEN f[i] ELSE g[i - 1] \o f[i]
  BY <1>2 DEF Flattens
<1>4. \A i \in 0 .. m - 1 : i = 0 \/ Right(i, g[i])
  <2> DEFINE Good == {i \in 0 .. m - 1 : i = 0 \/ Right(i, g[i])}
  <2>1. 0 \in Good
    BY <1>1
  <2>2. ASSUME NEW i \in 1 .. m - 1, i - 1 \in Good
        PROVE  i \in Good
    <3>1. /\ i \in 0 .. m - 1 /\ i \in 1 .. m /\ i \in Nat
          /\ f[i] \in Seq(S) /\ Len(f[i]) = 1
      BY <1>1
    <3>2. CASE i = 1
      <4>1. g[i] = f[i]
        BY <1>3, <3>1, <3>2
      <4>2. Right(i, g[i])
        BY <3>1, <3>2, <4>1
      <4> QED
        BY <3>1, <4>2
    <3>3. CASE i # 1
      <4>1. i - 1 # 0 /\ i - 1 \in Nat
        BY <3>1, <3>3
      <4>2. Right(i - 1, g[i - 1])
        BY <2>2, <4>1
      <4>3. g[i] = g[i - 1] \o f[i]
        BY <1>3, <3>1, <3>3
      <4>4. Joins(g[i], g[i - 1], f[i], S)
        <5>1. g[i - 1] \in Seq(S) /\ f[i] \in Seq(S)
          BY <3>1, <4>2
        <5> QED
          BY <4>3, <5>1, Joined
      <4>5. g[i] \in Seq(S) /\ Len(g[i]) = i
        BY <3>1, <4>1, <4>2, <4>4 DEF Joins
      <4>6. ASSUME NEW k \in 1 .. i
            PROVE  g[i][k] = f[k][1]
        <5>1. CASE k = i
          <6>1. 1 \in 1 .. Len(f[i]) /\ Len(g[i - 1]) + 1 = i
            BY <3>1, <4>1, <4>2
          <6>2. g[i][i] = f[i][1]
            BY <4>4, <6>1 DEF Joins
          <6> QED
            BY <5>1, <6>2
        <5>2. CASE k # i
          <6>1. k \in 1 .. i - 1 /\ k \in 1 .. Len(g[i - 1])
            BY <3>1, <4>2, <5>2
          <6> QED
            BY <4>2, <4>4, <6>1 DEF Joins
        <5> QED
          BY <5>1, <5>2
      <4> QED
        BY <3>1, <4>5, <4>6
    <3> QED
      BY <3>2, <3>3
  <2>3. m - 1 \in Nat
    BY <1>1
  <2>4. \A i \in 0 .. m - 1 : i \in Good
    <3> HIDE DEF Good
    <3> QED
      BY <2>1, <2>2, <2>3, Joining!Reaches
  <2> QED
    BY <2>4
<1>5. CASE m = 1
  <2>1. FlattenSeq(f) = f[m]
    BY <1>1, <1>2, <1>3, <1>5
  <2> QED
    BY <1>1, <1>5, <2>1
<1>6. CASE m # 1
  <2>1. m - 1 \in 0 .. m - 1 /\ m - 1 # 0 /\ m \in 1 .. m /\ m - 1 \in Nat
    BY <1>1, <1>6
  <2>2. Right(m - 1, g[m - 1])
    BY <1>4, <2>1
  <2>3. FlattenSeq(f) = g[m - 1] \o f[m]
    BY <1>2, <1>3, <1>6, <2>1
  <2>4. f[m] \in Seq(S) /\ Len(f[m]) \in Nat
    BY <1>1, <2>1
  <2>5. Joins(FlattenSeq(f), g[m - 1], f[m], S) /\ Len(g[m - 1]) = m - 1
    BY <2>2, <2>3, <2>4, Joined
  <2>6. /\ Len(FlattenSeq(f)) = m - 1 + Len(f[m])
        /\ \A i \in 1 .. m - 1 : FlattenSeq(f)[i] = g[m - 1][i]
        /\ \A i \in 1 .. Len(f[m]) : FlattenSeq(f)[m - 1 + i] = f[m][i]
    BY <2>5 DEF Joins
  <2> QED
    BY <2>2, <2>6
<1> QED
  BY <1>5, <1>6

LEMMA Provided ==
    ASSUME NEW apps \in Seq(Config)
    PROVE  /\ Declared(apps) \in Seq(GoStruct)
           /\ FlattenSeq([i \in DOMAIN apps |-> apps[i].routes]) \in Seq(RouteSet)
<1>1. Len(apps) \in Nat /\ DOMAIN apps = 1 .. Len(apps)
  BY LenProperties
<1>2. \A i \in 1 .. Len(apps) : /\ apps[i].models[2] \in Seq(GoStruct)
                                /\ apps[i].routes \in Seq(RouteSet)
  <2> TAKE i \in 1 .. Len(apps)
  <2>1. apps[i] \in Config
    BY ElementOfSeq
  <2>2. apps[i].models[2] \in Seq(GoStruct)
    <3>1. apps[i].models \in Optional(Seq(GoStruct))
      BY <2>1 DEF Config
    <3>2. << >> \in Seq(GoStruct)
      BY EmptySeq
    <3> QED
      BY <3>1, <3>2 DEF Optional, Without
  <2>3. apps[i].routes \in Seq(RouteSet)
    BY <2>1 DEF Config
  <2> QED
    BY <2>2, <2>3
<1>3. [i \in DOMAIN apps |-> apps[i].models[2]] \in Seq(Seq(GoStruct))
  <2>1. \A i \in 1 .. Len(apps) : apps[i].models[2] \in Seq(GoStruct)
    BY <1>2
  <2>2. [i \in 1 .. Len(apps) |-> apps[i].models[2]] \in [1 .. Len(apps) -> Seq(GoStruct)]
    BY <2>1
  <2> QED
    BY <1>1, <2>2, SeqDef
<1>4. [i \in DOMAIN apps |-> apps[i].routes] \in Seq(Seq(RouteSet))
  <2>2. [i \in 1 .. Len(apps) |-> apps[i].routes] \in [1 .. Len(apps) -> Seq(RouteSet)]
    BY <1>2
  <2> QED
    BY <1>1, <2>2, SeqDef
<1> QED
  BY <1>3, <1>4, Flattened DEF Declared

\* What NewRouterChecked makes of the routes.
LEMMA RouterIs ==
    ASSUME NEW routes \in Seq(RouteSet), NEW requests
    PROVE  /\ RouterOutcome(routes, requests) \in {"ok", "error", "panic"}
           /\ RouterOutcome(routes, requests) = "ok" <=>
                  NamesOnce(routes) /\ ~ Rejects(routes, requests)
           /\ RouterOutcome(routes, requests) = "panic" => Rejects(routes, requests)
<1> DEFINE D == DOMAIN routes
           conflicts == {j \in D :
                             \/ Malformed(routes[j].path)
                             \/ \E i \in 1 .. j - 1 : Conflict(routes[i], routes[j], requests)}
           repeats == {j \in D : routes[j].name # << >> /\ \E i \in 1 .. j - 1 :
                           routes[i].name = routes[j].name}
           first == {j \in conflicts \cup repeats : \A k \in conflicts \cup repeats : j <= k}
           rejects == Rejects(routes, requests)
<1>1. D = 1 .. Len(routes) /\ Len(routes) \in Nat
  BY LenProperties
<1>2. RouterOutcome(routes, requests) =
          IF first = {} THEN "ok" ELSE IF first \subseteq conflicts THEN "panic" ELSE "error"
  BY DEF RouterOutcome
<1>3. first = {} <=> conflicts = {} /\ repeats = {}
  <2>1. conflicts \cup repeats \subseteq Nat
    BY <1>1
  <2> HIDE DEF conflicts, repeats
  <2> QED
    BY <2>1, Joining!Smallest
<1>4. first \subseteq conflicts /\ first # {} => conflicts # {}
  OBVIOUS
<1>5. \A i, j \in D : Conflict(routes[i], routes[j], requests)
                      <=> Conflict(routes[j], routes[i], requests)
  BY DEF Conflict
<1>6. \A i, j \in D : i # j => i \in 1 .. j - 1 \/ j \in 1 .. i - 1
  BY <1>1
<1>7. \A j \in D : \A i \in 1 .. j - 1 : i \in D /\ i # j
  BY <1>1
<1>8. conflicts # {} <=> rejects
  BY <1>5, <1>6, <1>7 DEF Rejects
<1>9. repeats = {} <=> NamesOnce(routes)
  <2>1. ASSUME NEW j \in repeats, NamesOnce(routes) PROVE FALSE
    BY <1>7, <2>1 DEF NamesOnce
  <2>2. ASSUME repeats = {}, NEW i \in D, NEW j \in D,
               routes[i].name # << >>, routes[i].name = routes[j].name
        PROVE  i = j
    BY <1>6, <2>2
  <2> QED
    BY <2>1, <2>2 DEF NamesOnce
<1> HIDE DEF conflicts, repeats, first, rejects
<1>10. /\ RouterOutcome(routes, requests) \in {"ok", "error", "panic"}
       /\ RouterOutcome(routes, requests) = "ok" <=> NamesOnce(routes) /\ ~ rejects
       /\ RouterOutcome(routes, requests) = "panic" => rejects
  BY <1>2, <1>3, <1>4, <1>8, <1>9
<1> QED
  BY <1>10 DEF rejects

-----------------------------------------------------------------------------
(* The URL of a name                                                       *)

\* The placeholders of a path, and their arguments.
LEMMA HolesAre ==
    ASSUME NEW path \in Seq(STRING)
    PROVE  /\ Cardinality(Holes(path)) \in Nat
           /\ \A h \in Holes(path) : Nth(path, h) \in 1 .. Cardinality(Holes(path))
<1> DEFINE H == Holes(path)
<1>1. Len(path) \in Nat /\ DOMAIN path = 1 .. Len(path)
  BY LenProperties
<1>2. H \subseteq 1 .. Len(path)
  BY <1>1 DEF Holes
<1>3. IsFiniteSet(1 .. Len(path))
  BY <1>1, FS_Interval
<1>4. IsFiniteSet(H)
  BY <1>2, <1>3, FS_Subset
<1>5. Cardinality(H) \in Nat
  BY <1>4, FS_CardinalityType
<1>6. ASSUME NEW h \in H
      PROVE  Nth(path, h) \in 1 .. Cardinality(H)
  <2> DEFINE before == {g \in H : g <= h}
  <2>1. h \in before
    BY <1>1, <1>2
  <2>2. before \subseteq H
    OBVIOUS
  <2>3. IsFiniteSet(before) /\ Cardinality(before) <= Cardinality(H)
    BY <1>4, <2>2, FS_Subset
  <2>4. Cardinality(before) \in Nat /\ Cardinality(before) # 0
    BY <2>1, <2>3, FS_CardinalityType, FS_EmptySet
  <2>5. Nth(path, h) = Cardinality(before)
    BY DEF Nth
  <2> HIDE DEF before
  <2> QED
    BY <1>5, <2>3, <2>4, <2>5
<1> QED
  BY <1>5, <1>6

Segment == {Blank, "7", "add"} \cup STRING

\* The anchor is no placeholder.
LEMMA PathIs ==
    ASSUME NEW route \in RouteSet
    PROVE  /\ DOMAIN PathOf(route) = 1 .. Len(route.path)
           /\ Holes(PathOf(route)) = Holes(route.path)
           /\ \A h : Nth(PathOf(route), h) = Nth(route.path, h)
<1> DEFINE p == route.path
           q == PathOf(route)
<1>1. DOMAIN p = 1 .. Len(p)
  BY LenProperties DEF RouteSet
<1>2. q = [i \in 1 .. Len(p) |-> IF p[i] = "{$}" THEN Blank ELSE p[i]]
  BY <1>1 DEF PathOf
<1> HIDE DEF p, q
<1>3. Blank \notin Placeholder
  BY Zenon DEF Blank, Placeholder
<1>4. "{$}" \notin Placeholder
  BY Zenon DEF Placeholder
<1>5. DOMAIN q = 1 .. Len(p)
  BY <1>2
<1>6. Holes(q) = Holes(p)
  <2>1. \A i \in 1 .. Len(p) : q[i] \in Placeholder <=> p[i] \in Placeholder
    BY <1>2, <1>3, <1>4
  <2> QED
    BY <1>1, <1>5, <2>1 DEF Holes
<1>7. \A h : Nth(q, h) = Nth(p, h)
  BY <1>6 DEF Nth
<1> QED
  BY <1>5, <1>6, <1>7 DEF p, q

Filled == {<<"7">>, <<"add">>, <<"7", "add">>}

\* An argument is one segment or two, and its first is not empty.
LEMMA FilledIs ==
    ASSUME NEW a \in Filled
    PROVE  a \in Seq(Segment) /\ Len(a) \in {1, 2} /\ a[1] # Blank
<1>1. "7" # Blank /\ "add" # Blank
  BY Zenon DEF Blank
<1>2. "7" \in Segment /\ "add" \in Segment
  BY DEF Segment
<1> DEFINE x == "7"
           y == "add"
<1>3. a \in {<<x>>, <<y>>, <<x, y>>}
  BY DEF Filled
<1> HIDE DEF x, y
<1>4. x \in Segment /\ y \in Segment /\ x # Blank /\ y # Blank
  BY <1>1, <1>2 DEF x, y
<1>5. CASE a = <<x>>
  BY <1>4, <1>5
<1>6. CASE a = <<y>>
  BY <1>4, <1>6
<1>7. CASE a = <<x, y>>
  BY <1>4, <1>7
<1> QED
  BY <1>3, <1>5, <1>6, <1>7

\* A part of the URL, for the segment s of the path.
PartFor(f, s) ==
    /\ f \in Seq(Segment) /\ Len(f) \in {1, 2}
    /\ s # "{p...}" => Len(f) = 1
    /\ s = "{p}" => f[1] # Blank
    /\ s = "{$}" => f[1] = Blank
    /\ s \notin {"{p}", "{p...}", "{$}"} => f[1] = s

LEMMA PartsAre ==
    ASSUME NEW route \in RouteSet, NEW args \in Arguments(route)
    PROVE  /\ Len(args) = Cardinality(Holes(PathOf(route)))
           /\ DOMAIN Parts(PathOf(route), args) = 1 .. Len(route.path)
           /\ \A i \in 1 .. Len(route.path) :
                  PartFor(Parts(PathOf(route), args)[i], route.path[i])
<1> DEFINE p == route.path
           q == PathOf(route)
           m == Len(p)
           f == Parts(q, args)
           H == Holes(p)
           c == Cardinality(H)
<1>1. /\ p \in Seq(STRING) /\ m \in Nat /\ DOMAIN p = 1 .. m
      /\ \A i \in 1 .. m : p[i] \in STRING
  BY LenProperties, ElementOfSeq DEF RouteSet
<1>2. /\ DOMAIN q = 1 .. m /\ Holes(q) = H
      /\ \A h : Nth(q, h) = Nth(p, h)
  BY PathIs
<1>3. c \in Nat /\ \A h \in H : Nth(p, h) \in 1 .. c
  BY <1>1, HolesAre
<1>4. args \in [1 .. c -> Filled] /\
      \A h \in H : p[h] = "{p}" => Len(args[Nth(p, h)]) = 1
  BY DEF Arguments, Filled
<1>5. \A i \in 1 .. m : i \in H <=> p[i] \in {"{p}", "{p...}"}
  BY <1>1 DEF Holes, Placeholder
<1>6. \A i \in 1 .. m : q[i] = IF p[i] = "{$}" THEN Blank ELSE p[i]
  BY <1>1 DEF PathOf
<1>7. DOMAIN f = 1 .. m /\
      \A i \in 1 .. m : f[i] = IF i \in H THEN args[Nth(p, i)] ELSE <<q[i]>>
  BY <1>2 DEF Parts
<1> HIDE DEF p, q, f, c, H, m
<1>8. Len(args) = c
  <2>1. DOMAIN args = 1 .. c
    BY <1>4
  <2>2. args \in Seq(Filled)
    BY <1>3, <1>4, SeqDef
  <2>3. DOMAIN args = 1 .. Len(args) /\ Len(args) \in Nat
    BY <2>2, LenProperties
  <2> HIDE DEF Filled
  <2> QED
    BY <1>3, <2>1, <2>3
<1>9. ASSUME NEW i \in 1 .. m
       PROVE  PartFor(f[i], p[i])
  <2>1. CASE i \in H
    <3>1. args[Nth(p, i)] \in Filled /\ f[i] = args[Nth(p, i)]
      BY <1>3, <1>4, <1>7, <2>1
    <3>2. f[i] \in Seq(Segment) /\ Len(f[i]) \in {1, 2} /\ f[i][1] # Blank
      BY <3>1, FilledIs
    <3>3. p[i] \in {"{p}", "{p...}"} /\ (p[i] = "{p}" => Len(f[i]) = 1)
      BY <1>4, <1>5, <2>1, <3>1
    <3> QED
      BY <3>2, <3>3 DEF PartFor
  <2>2. CASE i \notin H
    <3>1. f[i] = <<q[i]>> /\ p[i] \notin {"{p}", "{p...}"}
      BY <1>5, <1>7, <2>2
    <3>2. q[i] \in Segment /\ q[i] = IF p[i] = "{$}" THEN Blank ELSE p[i]
      BY <1>1, <1>6 DEF Segment
    <3> DEFINE x == q[i]
    <3>3. <<x>> \in Seq(Segment) /\ Len(<<x>>) = 1 /\ <<x>>[1] = x
      <4> HIDE DEF x
      <4>1. x \in Segment
        BY <3>2 DEF x
      <4> QED
        BY <4>1
    <3> HIDE DEF x
    <3>4. f[i] \in Seq(Segment) /\ Len(f[i]) = 1 /\ f[i][1] = x
      BY <3>1, <3>3 DEF x
    <3>5. x = IF p[i] = "{$}" THEN Blank ELSE p[i]
      BY <3>2 DEF x
    <3> QED
      BY <3>1, <3>4, <3>5 DEF PartFor
  <2> QED
    BY <2>1, <2>2
<1> QED
  BY <1>2, <1>8, <1>7, <1>9 DEF f, q, p, c, m, H

\* The URL for a route and arguments of the kind its placeholders take is one that
\* the route takes.
LEMMA UrlMatches ==
    ASSUME NEW route \in RouteSet, ~ Malformed(route.path), NEW args \in Arguments(route)
    PROVE  Matches(route, MethodFor(route), FlattenSeq(Parts(PathOf(route), args)))
<1> DEFINE p == route.path
           m == Len(p)
           f == Parts(PathOf(route), args)
           url == FlattenSeq(f)
<1>1. p \in Seq(STRING) /\ m \in Nat
  BY LenProperties DEF RouteSet
<1>2. m # 0
  <2>1. p # << >>
    BY DEF Malformed
  <2> QED
    BY <1>1, <2>1, EmptySeq
<1>3. \A i \in 1 .. m - 1 : p[i] # "{$}" /\ p[i] # "{p...}"
  BY DEF Malformed
<1>4. DOMAIN f = 1 .. m /\ \A i \in 1 .. m : PartFor(f[i], p[i])
  BY PartsAre
<1>5. f = [i \in 1 .. m |-> f[i]]
  BY <1>4 DEF Parts
<1> HIDE DEF p, f, m, url
<1>6. m \in Nat \ {0} /\ m \in 1 .. m /\ \A i \in 1 .. m - 1 : i \in 1 .. m
  BY <1>1, <1>2
<1>7. f \in Seq(Seq(Segment)) /\ Len(f) = m
  <2>1. \A i \in 1 .. m : f[i] \in Seq(Segment)
    BY <1>4 DEF PartFor
  <2>2. f \in [1 .. m -> Seq(Segment)]
    BY <1>5, <2>1
  <2>3. f \in Seq(Seq(Segment))
    BY <1>6, <2>2, SeqDef
  <2>4. DOMAIN f = 1 .. Len(f) /\ Len(f) \in Nat
    BY <2>3, LenProperties
  <2> QED
    BY <1>4, <1>6, <2>3, <2>4
<1>8. \A i \in 1 .. m - 1 : Len(f[i]) = 1
  BY <1>3, <1>4, <1>6 DEF PartFor
<1>9. /\ Len(url) = m - 1 + Len(f[m])
      /\ \A i \in 1 .. m - 1 : url[i] = f[i][1]
      /\ \A i \in 1 .. Len(f[m]) : url[m - 1 + i] = f[m][i]
  <2>1. Len(f) # 0 /\ \A i \in 1 .. Len(f) - 1 : Len(f[i]) = 1
    BY <1>6, <1>7, <1>8
  <2>2. /\ Len(url) = Len(f) - 1 + Len(f[Len(f)])
        /\ \A i \in 1 .. Len(f) - 1 : url[i] = f[i][1]
        /\ \A i \in 1 .. Len(f[Len(f)]) : url[Len(f) - 1 + i] = f[Len(f)][i]
    BY <1>7, <2>1, FlattenedInPlace DEF url
  <2> QED
    BY <1>7, <2>2
<1> DEFINE rest == p[m] \in {Blank, "{p...}"}
           seg(i) == IF p[i] = "{p}" THEN url[i] # Blank ELSE p[i] = url[i]
           size == Len(url)
           more == Len(f[m])
<1>10. PartFor(f[m], p[m])
  BY <1>4, <1>6
<1>11. more \in {1, 2} /\ (~ rest => more = 1) /\ size = m - 1 + more
  BY <1>9, <1>10 DEF PartFor
<1>12. (IF rest THEN size >= m ELSE size = m) /\ 1 \in 1 .. more /\ m - 1 + 1 = m
  <2> HIDE DEF more, size, rest
  <2> QED
    BY <1>6, <1>11
<1>13. url[m] = f[m][1]
  BY <1>9, <1>12
<1>14. ASSUME NEW i \in 1 .. m - 1
       PROVE  seg(i)
  <2>1. PartFor(f[i], p[i]) /\ url[i] = f[i][1]
    BY <1>4, <1>6, <1>9
  <2>2. p[i] # "{$}" /\ p[i] # "{p...}"
    BY <1>3
  <2> QED
    BY <2>1, <2>2 DEF PartFor
<1>15. rest \/ (IF p[m] = "{$}" THEN url[m] = Blank ELSE seg(m))
  BY <1>10, <1>13 DEF PartFor
<1>16. route.method \in {Blank, MethodFor(route)}
  BY DEF MethodFor
<1>17. Matches(route, MethodFor(route), url)
  BY <1>12, <1>14, <1>15, <1>16 DEF Matches, p, m
<1> QED
  BY <1>17 DEF url, f

\* A name that is used once is that of its route.
LEMMA NamesOneRoute ==
    ASSUME NEW routes \in Seq(RouteSet), NamesOnce(routes), NEW i \in DOMAIN routes,
           routes[i].name # << >>
    PROVE  /\ Known(routes, routes[i].name)
           /\ (CHOOSE j \in DOMAIN routes : routes[j].name = routes[i].name) = i
<1> DEFINE j == CHOOSE k \in DOMAIN routes : routes[k].name = routes[i].name
<1>1. j \in DOMAIN routes /\ routes[j].name = routes[i].name
  OBVIOUS
<1> HIDE DEF j
<1>2. j = i
  BY <1>1 DEF NamesOnce
<1> QED
  BY <1>2 DEF j, Known

\* Of the routes that take a request, one is more specific than all others.
LEMMA LeastServes ==
    ASSUME NEW routes \in Seq(RouteSet), NEW requests, ~ Rejects(routes, requests),
           NEW method, NEW url, <<method, url>> \in requests,
           NEW i \in DOMAIN routes, Matches(routes[i], method, url)
    PROVE  \E j \in DOMAIN routes :
               /\ Serves(routes, requests, j, method, url)
               /\ Taken(routes[j], requests) \subseteq Taken(routes[i], requests)
<1> DEFINE D == DOMAIN routes
           m == Len(routes)
           T(j) == Taken(routes[j], requests)
           J == {j \in D : Matches(routes[j], method, url)}
           Least(k) == \/ \A y \in J : ~ (y <= k)
                       \/ \E x \in J : \A y \in J : y <= k => T(x) \subseteq T(y)
<1>1. m \in Nat /\ D = 1 .. m
  BY LenProperties
<1>2. \A j \in J : <<method, url>> \in T(j)
  BY DEF Taken
<1>3. \A j, k \in J : T(j) \subseteq T(k) \/ T(k) \subseteq T(j)
  <2> SUFFICES ASSUME NEW j \in J, NEW k \in J, j # k
               PROVE  T(j) \subseteq T(k) \/ T(k) \subseteq T(j)
    OBVIOUS
  <2>1. ~ Conflict(routes[j], routes[k], requests)
    BY DEF Rejects
  <2>2. T(j) \cap T(k) # {}
    BY <1>2
  <2> QED
    BY <2>1, <2>2 DEF Conflict
<1> HIDE DEF T
<1>4. \A k \in 0 .. m : Least(k)
  <2> DEFINE Good == {k \in 0 .. m : Least(k)}
  <2>1. 0 \in Good
    BY <1>1
  <2>2. ASSUME NEW k \in 1 .. m, k - 1 \in Good
        PROVE  k \in Good
    <3>1. \A y \in J : y <= k <=> y <= k - 1 \/ y = k
      BY <1>1
    <3>2. CASE k \notin J
      <4>1. \A y \in J : y <= k => y <= k - 1
        BY <3>1, <3>2
      <4>2. Least(k)
        BY <2>2, <4>1
      <4> QED
        BY <1>1, <4>2
    <3>3. CASE k \in J /\ \A y \in J : ~ (y <= k - 1)
      <4>1. \A y \in J : y <= k => T(k) \subseteq T(y)
        BY <3>1, <3>3
      <4> QED
        BY <1>1, <3>3, <4>1
    <3>4. CASE k \in J /\ \E x \in J : \A y \in J : y <= k - 1 => T(x) \subseteq T(y)
      <4>1. PICK x \in J : \A y \in J : y <= k - 1 => T(x) \subseteq T(y)
        BY <3>4
      <4>2. CASE T(x) \subseteq T(k)
        <5>1. \A y \in J : y <= k => T(x) \subseteq T(y)
          BY <3>1, <4>1, <4>2
        <5> QED
          BY <1>1, <5>1
      <4>3. CASE T(k) \subseteq T(x)
        <5>1. \A y \in J : y <= k => T(k) \subseteq T(y)
          BY <3>1, <4>1, <4>3
        <5> QED
          BY <1>1, <3>4, <5>1
      <4> QED
        BY <1>3, <3>4, <4>2, <4>3
    <3> QED
      BY <2>2, <3>2, <3>3, <3>4
  <2>3. \A k \in 0 .. m : k \in Good
    <3> HIDE DEF Good
    <3> QED
      BY <1>1, <2>1, <2>2, Joining!Reaches
  <2> QED
    BY <2>3
<1>5. i \in J /\ \A y \in J : y <= m
  BY <1>1
<1>6. PICK x \in J : \A y \in J : T(x) \subseteq T(y)
  <2>1. Least(m)
    BY <1>1, <1>4
  <2> QED
    BY <1>5, <2>1
<1>7. Serves(routes, requests, x, method, url)
  BY <1>6 DEF Serves, T
<1> QED
  BY <1>5, <1>6, <1>7 DEF T

\* What Reverse makes of the name of a route is served as ReverseReaches says.
LEMMA Reversed ==
    ASSUME NEW routes \in Seq(RouteSet), NamesOnce(routes), ~ Rejects(routes, Requests),
           NEW i \in DOMAIN routes, NEW args \in Arguments(routes[i]), routes[i].name # << >>
    PROVE  LET got == ReverseURL(routes, routes[i].name, args)
               method == MethodFor(routes[i])
           IN  /\ ~ got.err
               /\ Matches(routes[i], method, got.url)
               /\ <<method, got.url>> \in Requests =>
                      \E j \in {k \in DOMAIN routes :
                                    Serves(routes, Requests, k, method, got.url)} :
                          Taken(routes[j], Requests) \subseteq Taken(routes[i], Requests)
<1> DEFINE url == FlattenSeq(Parts(PathOf(routes[i]), args))
           got == ReverseURL(routes, routes[i].name, args)
           method == MethodFor(routes[i])
<1>1. routes[i] \in RouteSet /\ ~ Malformed(routes[i].path)
  BY LenProperties, ElementOfSeq DEF Rejects
<1>2. Len(args) = Cardinality(Holes(PathOf(routes[i]))) /\ Matches(routes[i], method, url)
  BY <1>1, UrlMatches, PartsAre
<1>3. got = [err |-> FALSE, url |-> url]
  BY <1>2, NamesOneRoute DEF ReverseURL
<1> HIDE DEF url, got, method
<1>4. ~ got.err /\ got.url = url
  BY <1>3
<1>5. <<method, url>> \in Requests =>
          \E j \in DOMAIN routes :
              /\ Serves(routes, Requests, j, method, url)
              /\ Taken(routes[j], Requests) \subseteq Taken(routes[i], Requests)
  BY <1>2, LeastServes
<1> QED
  BY <1>2, <1>4, <1>5 DEF got, method

-----------------------------------------------------------------------------
(* A call of New                                                           *)

\* The hooks of the apps, and that none of them fails.
LEMMA HookedIs ==
    ASSUME NEW apps \in Seq(Config)
    PROVE  /\ Hooked(apps) \in Seq(Config)
           /\ \A k \in 1 .. Len(Hooked(apps)) : Hooked(apps)[k].ready \in {"ok", "fails"}
           /\ (\A k \in 1 .. Len(Hooked(apps)) : Hooked(apps)[k].ready = "ok") <=>
                  \A a \in ToSet(apps) : a.ready # "fails"
<1> DEFINE S == {i \in DOMAIN apps : apps[i].ready # "none"}
           todo == Hooked(apps)
<1>1. /\ Len(apps) \in Nat /\ DOMAIN apps = 1 .. Len(apps)
      /\ \A i \in 1 .. Len(apps) : apps[i] \in Config
  BY LenProperties, ElementOfSeq
<1>2. \A i \in 1 .. Len(apps) : apps[i].ready \in {"none", "ok", "fails"}
  BY <1>1 DEF Config
<1>3. S \in SUBSET (1 .. Len(apps))
  BY <1>1
<1>4. /\ Cardinality(S) \in Nat
      /\ \A k \in 1 .. Cardinality(S) : \E i \in S : todo[k] = apps[i]
      /\ \A i \in S : \E k \in 1 .. Cardinality(S) : todo[k] = apps[i]
  BY <1>1, <1>3, AtLists DEF Hooked
<1>5. \A i \in S : apps[i] \in Config /\ apps[i].ready \in {"ok", "fails"}
  BY <1>1, <1>2
<1>6. todo = [k \in 1 .. Cardinality(S) |-> todo[k]]
  <2>1. todo = [k \in 1 .. Cardinality(S) |-> apps[InOrder(S)[k]]]
    BY DEF Hooked, At
  <2> HIDE DEF S, todo
  <2> QED
    BY <2>1
<1>10. \A a \in ToSet(apps) : \E i \in 1 .. Len(apps) : a = apps[i]
  BY <1>1 DEF ToSet
<1>11. \A i \in S : apps[i] \in ToSet(apps)
  BY DEF ToSet
<1>12. \A i \in 1 .. Len(apps) : i \notin S => apps[i].ready = "none"
  BY <1>1
<1> HIDE DEF S, todo
<1>7. todo \in Seq(Config) /\ Len(todo) = Cardinality(S)
  <2>1. \A k \in 1 .. Cardinality(S) : todo[k] \in Config
    BY <1>4, <1>5
  <2>2. todo \in [1 .. Cardinality(S) -> Config]
    BY <1>6, <2>1
  <2>3. todo \in Seq(Config)
    BY <1>4, <2>2, SeqDef
  <2>4. DOMAIN todo = 1 .. Cardinality(S)
    BY <1>6
  <2> QED
    BY <1>4, <2>3, <2>4, LenProperties
<1>8. \A k \in 1 .. Cardinality(S) : todo[k].ready \in {"ok", "fails"}
  BY <1>4, <1>5
<1>9. (\A k \in 1 .. Cardinality(S) : todo[k].ready = "ok") <=>
          \A a \in ToSet(apps) : a.ready # "fails"
  <2>1. ASSUME \A k \in 1 .. Cardinality(S) : todo[k].ready = "ok", NEW a \in ToSet(apps)
        PROVE  a.ready # "fails"
    <3>1. PICK i \in 1 .. Len(apps) : a = apps[i]
      BY <1>10
    <3>2. CASE i \in S
      BY <1>4, <2>1, <3>1, <3>2
    <3>3. CASE i \notin S
      BY <1>12, <3>1, <3>3
    <3> QED
      BY <3>2, <3>3
  <2>2. ASSUME \A a \in ToSet(apps) : a.ready # "fails", NEW k \in 1 .. Cardinality(S)
        PROVE  todo[k].ready = "ok"
    <3>1. PICK i \in S : todo[k] = apps[i]
      BY <1>4
    <3> QED
      BY <1>8, <1>11, <2>2, <3>1
  <2> QED
    BY <2>1, <2>2
<1> QED
  BY <1>7, <1>8, <1>9 DEF todo

Run == [app : STRING, saw : Nat]
Steps == {"configure", "check", "register", "ready", "models", "open", "handler", "done"}

\* The hooks h of a call that have run.
HooksRight(call, c, h) ==
    /\ h \in Seq(Run) /\ Len(h) <= Len(Hooked(call.apps))
    /\ \A i \in 1 .. Len(h) : h[i] = [app |-> Hooked(call.apps)[i].name, saw |-> c]
    /\ h # << >> => call.key /\ NamesFit(call.apps)
    /\ \A i \in 1 .. Len(h) : i < Len(h) => Hooked(call.apps)[i].ready = "ok"

\* The hooks h are all there are, and none failed.
AllRan(call, h) ==
    /\ Len(h) = Len(Hooked(call.apps))
    /\ \A i \in 1 .. Len(Hooked(call.apps)) : Hooked(call.apps)[i].ready = "ok"

Results == {"", "ok", "error", "panic"}

\* The result r of a call and the application b it returned.
ResultRight(call, c, h, r, b) ==
    /\ r \in Results
    /\ r # "" => (r = "ok" <=> Valid(call))
    /\ r = "panic" => Panics(call)
    /\ r = "ok" => /\ AllRan(call, h) /\ b.settings = c /\ Consistent(b.models)
                   /\ b.routes = AllRoutes(call)
    /\ b # Nothing => r = "ok"

\* The registry of what a call has built.
Registered(call, l) ==
    /\ DeclarationsFit(Declared(call.apps)) /\ Consistent(l.models)
    /\ Types(l.models) = {m.type : m \in ToSet(Declared(call.apps))}

\* What a call that has come to at has seen to.
Stage(call, c, at, l, h, r, b) ==
    /\ at # "done" => r = "" /\ b = Nothing
    /\ at = "done" => r # ""
    /\ at \in {"configure", "check", "register"} => h = << >>
    /\ at \in {"register", "ready", "models", "open", "handler"} => call.key
    /\ at \in {"ready", "models", "open", "handler"} => NamesFit(call.apps)
    /\ at = "ready" => \A i \in 1 .. Len(h) : Hooked(call.apps)[i].ready = "ok"
    /\ at \in {"models", "open", "handler"} => AllRan(call, h)
    /\ at \in {"open", "handler"} => Registered(call, l)
    /\ at = "handler" => call.db \in {"none", "sqlite"} /\ (l.db <=> call.db = "sqlite")
    /\ at \notin {"configure", "done"} => l.settings = c

\* A call that ends in an error, or a panic.
LEMMA EndsInvalid ==
    ASSUME NEW call, NEW c, NEW l, NEW h, NEW how \in {"error", "panic"},
           ~ Valid(call), how = "panic" => Panics(call)
    PROVE  /\ ResultRight(call, c, h, how, Nothing)
           /\ Stage(call, c, "done", l, h, how, Nothing)
  BY DEF ResultRight, Results, Stage

\* A call that goes on.
LEMMA GoesOn ==
    ASSUME NEW call, NEW c, NEW h
    PROVE  ResultRight(call, c, h, "", Nothing)
  BY DEF ResultRight, Results

\* What makes a call invalid.
LEMMA Invalid ==
    ASSUME NEW call, call.apps \in Seq(Config)
    PROVE  /\ ~ call.key => ~ Valid(call)
           /\ ~ NamesFit(call.apps) => ~ Valid(call)
           /\ ~ DeclarationsFit(Declared(call.apps)) => ~ Valid(call)
           /\ call.db \notin {"none", "sqlite"} => ~ Valid(call)
           /\ \A i \in 1 .. Len(Hooked(call.apps)) :
                  Hooked(call.apps)[i].ready # "ok" => ~ Valid(call)
<1>1. \A i \in 1 .. Len(Hooked(call.apps)) :
          Hooked(call.apps)[i].ready # "ok" => \E a \in ToSet(call.apps) : a.ready = "fails"
  BY HookedIs
<1> QED
  BY <1>1, Zenon DEF Valid

LEMMA ValidIf ==
    ASSUME NEW call, call.apps \in Seq(Config), call.key, NamesFit(call.apps),
           \A i \in 1 .. Len(Hooked(call.apps)) : Hooked(call.apps)[i].ready = "ok",
           DeclarationsFit(Declared(call.apps)), call.db \in {"none", "sqlite"}
    PROVE  Valid(call) <=> NamesOnce(AllRoutes(call)) /\ ~ Panics(call)
<1>1. \A a \in ToSet(call.apps) : a.ready # "fails"
  BY HookedIs
<1> QED
  BY <1>1, Zenon DEF Valid

-----------------------------------------------------------------------------
(* The invariant                                                           *)

ShapeOf(l) ==
    l = [settings |-> l.settings, models |-> l.models, db |-> l.db,
         routes |-> l.routes, migrationsApp |-> l.migrationsApp]

Shape ==
    /\ plan \in Plans /\ n \in 1 .. Len(plan) /\ pc \in Steps
    /\ result \in [DOMAIN plan -> Results]
    /\ DOMAIN hooks = DOMAIN plan /\ DOMAIN built = DOMAIN plan
    /\ ShapeOf(local)

Calls ==
    \A c \in DOMAIN plan :
        /\ HooksRight(plan[c], c, hooks[c])
        /\ ResultRight(plan[c], c, hooks[c], result[c], built[c])
        /\ c > n => hooks[c] = << >> /\ result[c] = "" /\ built[c] = Nothing

Running == Stage(plan[n], n, pc, local, hooks[n], result[n], built[n])

\* The settings of the process are those of the call that runs.
Active ==
    /\ active.of \in 0 .. n
    /\ pc # "configure" => active.of = n
    /\ active.host = IF active.of = 0 THEN "" ELSE Host(plan[active.of])

\* The links are those of the last application that has routes.
Resolves ==
    /\ Routed = {} => resolver = 0
    /\ Routed # {} => resolver \in Routed /\ \A c \in Routed : c <= resolver

Paged == page.of \in 0 .. n /\ page.link \in 0 .. n

Inv == Shape /\ Calls /\ Running /\ Active /\ Resolves /\ Paged

LEMMA CallTyped ==
    ASSUME Shape
    PROVE  /\ Len(plan) \in Nat /\ DOMAIN plan = 1 .. Len(plan) /\ n \in DOMAIN plan /\ n \in Nat
           /\ \A c \in DOMAIN plan : /\ plan[c].apps \in Seq(Config)
                                     /\ plan[c].key \in BOOLEAN
                                     /\ plan[c].db \in {"none", "sqlite", "unopened", "mysql"}
<1>1. plan \in Seq(CallOfNew)
  BY PlansAssumption DEF Shape
<1>2. Len(plan) \in Nat /\ DOMAIN plan = 1 .. Len(plan)
  BY <1>1, LenProperties
<1>3. n \in DOMAIN plan /\ n \in Nat
  BY <1>2 DEF Shape
<1>4. ASSUME NEW c \in DOMAIN plan
      PROVE  /\ plan[c].apps \in Seq(Config) /\ plan[c].key \in BOOLEAN
             /\ plan[c].db \in {"none", "sqlite", "unopened", "mysql"}
  <2>1. plan[c] \in CallOfNew
    BY <1>1, <1>2, ElementOfSeq
  <2> QED
    BY <2>1 DEF CallOfNew
<1> QED
  BY <1>2, <1>3, <1>4

\* A step of New is about the call that runs.
Own ==
    /\ plan' = plan /\ n' = n /\ page' = page /\ pc' \in Steps /\ ShapeOf(local')
    /\ result' \in [DOMAIN plan -> Results]
    /\ DOMAIN hooks' = DOMAIN plan /\ DOMAIN built' = DOMAIN plan
    /\ \A c \in DOMAIN plan : c # n =>
           hooks'[c] = hooks[c] /\ result'[c] = result[c] /\ built'[c] = built[c]

\* What it does keeps what is asked of a call.
Advances ==
    /\ HooksRight(plan[n], n, hooks'[n])
    /\ ResultRight(plan[n], n, hooks'[n], result'[n], built'[n])
    /\ Stage(plan[n], n, pc', local', hooks'[n], result'[n], built'[n])

\* What holds of the call that runs, in one place.
LEMMA Now ==
    ASSUME Inv
    PROVE  /\ n \in DOMAIN plan /\ plan[n].apps \in Seq(Config) /\ plan[n].key \in BOOLEAN
           /\ plan[n].db \in {"none", "sqlite", "unopened", "mysql"}
           /\ HooksRight(plan[n], n, hooks[n])
           /\ Stage(plan[n], n, pc, local, hooks[n], result[n], built[n])
           /\ pc # "done" => result[n] = "" /\ built[n] = Nothing
           /\ result \in [DOMAIN plan -> Results]
           /\ DOMAIN hooks = DOMAIN plan /\ DOMAIN result = DOMAIN plan /\ DOMAIN built = DOMAIN plan
           /\ ShapeOf(local)
<1>1. n \in DOMAIN plan /\ plan[n].apps \in Seq(Config) /\ plan[n].key \in BOOLEAN
      /\ plan[n].db \in {"none", "sqlite", "unopened", "mysql"}
  BY CallTyped DEF Inv
<1>2. HooksRight(plan[n], n, hooks[n])
  BY <1>1 DEF Inv, Calls
<1>3. Stage(plan[n], n, pc, local, hooks[n], result[n], built[n])
  BY DEF Inv, Running
<1>4. pc # "done" => result[n] = "" /\ built[n] = Nothing
  BY <1>3 DEF Stage
<1> QED
  BY <1>1, <1>2, <1>3, <1>4 DEF Inv, Shape

\* Ending the call, in an error or a panic.
LEMMA EndsBadly ==
    ASSUME Inv, pc # "done", NEW how \in {"error", "panic"}, Ends(how), ~ Valid(plan[n]),
           how = "panic" => Panics(plan[n]),
           UNCHANGED <<plan, n, built, page>>, ShapeOf(local'),
           DOMAIN hooks' = DOMAIN plan, \A c \in DOMAIN plan : c # n => hooks'[c] = hooks[c],
           HooksRight(plan[n], n, hooks'[n])
    PROVE  Own /\ Advances
<1>1. result' = [result EXCEPT ![n] = how] /\ pc' = "done"
  BY DEF Ends
<1>2. n \in DOMAIN result /\ DOMAIN result = DOMAIN plan /\ DOMAIN built = DOMAIN plan
      /\ built[n] = Nothing /\ result \in [DOMAIN plan -> Results] /\ how \in Results
  BY Now DEF Results
<1>3. result'[n] = how /\ result' \in [DOMAIN plan -> Results]
      /\ \A c \in DOMAIN plan : c # n => result'[c] = result[c]
  BY <1>1, <1>2
<1>4. Own
  BY <1>1, <1>2, <1>3 DEF Own, Steps
<1>5. /\ ResultRight(plan[n], n, hooks'[n], how, Nothing)
      /\ Stage(plan[n], n, "done", local', hooks'[n], how, Nothing)
  BY EndsInvalid
<1>6. built'[n] = Nothing
  BY <1>2
<1> QED
  BY <1>1, <1>3, <1>4, <1>5, <1>6 DEF Advances

\* Going on with the call.
LEMMA Continues ==
    ASSUME Inv, pc # "done", NEW next \in Steps, next # "done", Goto(next),
           UNCHANGED <<plan, n, built, page>>, ShapeOf(local'),
           DOMAIN hooks' = DOMAIN plan, \A c \in DOMAIN plan : c # n => hooks'[c] = hooks[c],
           HooksRight(plan[n], n, hooks'[n]),
           Stage(plan[n], n, next, local', hooks'[n], "", Nothing)
    PROVE  Own /\ Advances
<1>1. result' = result /\ pc' = next
  BY DEF Goto
<1>2. result \in [DOMAIN plan -> Results] /\ DOMAIN built = DOMAIN plan
      /\ built[n] = Nothing /\ result[n] = ""
  BY Now
<1>3. Own
  BY <1>1, <1>2 DEF Own
<1>4. ResultRight(plan[n], n, hooks'[n], "", Nothing)
  BY GoesOn
<1>5. built'[n] = Nothing /\ result'[n] = ""
  BY <1>1, <1>2
<1> QED
  BY <1>1, <1>3, <1>4, <1>5 DEF Advances

LEMMA ConfigureAdvances ==
    ASSUME Inv, Configure
    PROVE  Own /\ Advances
<1> DEFINE no == FALSE
           one == ""
           zero == 0
           empty == << >>
           reg == EmptyRegistry
           of == active'.of
           l == [Nothing EXCEPT !.settings = of]
<1>1. pc = "configure" /\ of = n /\ local' = l /\ Goto("check")
      /\ UNCHANGED <<plan, n, resolver, hooks, built, page>>
  BY DEF Configure, Activated
<1>2. Nothing = [settings |-> zero, models |-> reg, db |-> no, routes |-> empty,
                 migrationsApp |-> one]
  BY DEF Nothing
<1> HIDE DEF no, one, zero, empty, reg, of
<1>3. l = [settings |-> of, models |-> reg, db |-> no, routes |-> empty, migrationsApp |-> one]
  BY <1>2
<1> HIDE DEF l
<1>4. ShapeOf(local') /\ local'.settings = n
  BY <1>1, <1>3 DEF ShapeOf
<1>5. /\ HooksRight(plan[n], n, hooks[n])
      /\ Stage(plan[n], n, "configure", local, hooks[n], result[n], built[n])
      /\ DOMAIN hooks = DOMAIN plan
  BY <1>1, Now
<1>6. Stage(plan[n], n, "check", local', hooks'[n], "", Nothing)
  BY <1>1, <1>4, <1>5 DEF Stage
<1> QED
  BY <1>1, <1>4, <1>5, <1>6, Continues DEF Steps

LEMMA CheckAdvances ==
    ASSUME Inv, Check
    PROVE  Own /\ Advances
<1>1. pc = "check" /\ UNCHANGED <<plan, n, active, resolver, hooks, local, built, page>>
  BY DEF Check
<1>2. plan[n].key \in BOOLEAN /\ HooksRight(plan[n], n, hooks'[n]) /\ ShapeOf(local')
      /\ DOMAIN hooks' = DOMAIN plan /\ plan[n].apps \in Seq(Config)
      /\ Stage(plan[n], n, "check", local, hooks[n], result[n], built[n])
  BY <1>1, Now
<1>3. CASE plan[n].key
  <2>1. Stage(plan[n], n, "register", local', hooks'[n], "", Nothing)
    BY <1>1, <1>2, <1>3 DEF Stage
  <2>2. Goto("register")
    BY <1>3 DEF Check, Call
  <2> QED
    BY <1>1, <1>2, <2>1, <2>2, Continues DEF Steps
<1>4. CASE ~ plan[n].key
  <2>1. ~ Valid(plan[n])
    BY <1>2, <1>4, Invalid
  <2>2. Ends("error")
    BY <1>4 DEF Check, Call
  <2> QED
    BY <1>1, <1>2, <2>1, <2>2, EndsBadly
<1> QED
  BY <1>2, <1>3, <1>4

LEMMA RegisterAppsAdvances ==
    ASSUME Inv, RegisterApps
    PROVE  Own /\ Advances
<1>1. pc = "register" /\ UNCHANGED <<plan, n, active, resolver, hooks, local, built, page>>
  BY DEF RegisterApps
<1>2. HooksRight(plan[n], n, hooks'[n]) /\ ShapeOf(local')
      /\ DOMAIN hooks' = DOMAIN plan /\ plan[n].apps \in Seq(Config)
      /\ Stage(plan[n], n, "register", local, hooks[n], result[n], built[n])
  BY <1>1, Now
<1>3. CASE NamesFit(plan[n].apps)
  <2>1. hooks'[n] = << >> /\ plan[n].key /\ local'.settings = n
    BY <1>1, <1>2 DEF Stage
  <2>2. Stage(plan[n], n, "ready", local', hooks'[n], "", Nothing)
    <3>1. Len(hooks'[n]) = 0
      BY <2>1
    <3> QED
      BY <1>3, <2>1, <3>1 DEF Stage
  <2>3. Goto("ready")
    BY <1>3 DEF RegisterApps, Call, Apps
  <2> QED
    BY <1>1, <1>2, <2>2, <2>3, Continues DEF Steps
<1>4. CASE ~ NamesFit(plan[n].apps)
  <2>1. ~ Valid(plan[n])
    BY <1>2, <1>4, Invalid
  <2>2. Ends("error")
    BY <1>4 DEF RegisterApps, Call, Apps
  <2> QED
    BY <1>1, <1>2, <2>1, <2>2, EndsBadly
<1> QED
  BY <1>3, <1>4

\* The hooks h, of which none failed, and one more.
RanWell(call, h) == \A i \in 1 .. Len(h) : Hooked(call.apps)[i].ready = "ok"

OneMoreHook(call, c, h) == Append(h, [app |-> Hooked(call.apps)[Len(h) + 1].name, saw |-> c])

LEMMA HookRuns ==
    ASSUME NEW call, call.apps \in Seq(Config), NEW c \in Nat, NEW h, HooksRight(call, c, h),
           call.key, NamesFit(call.apps), Len(h) # Len(Hooked(call.apps)),
           RanWell(call, h)
    PROVE  /\ HooksRight(call, c, OneMoreHook(call, c, h))
           /\ Len(h) + 1 \in 1 .. Len(Hooked(call.apps))
           /\ Len(OneMoreHook(call, c, h)) = Len(h) + 1
<1> DEFINE g == OneMoreHook(call, c, h)
           todo == Hooked(call.apps)
           name == todo[Len(h) + 1].name
           run == [app |-> name, saw |-> c]
<1>1. todo \in Seq(Config) /\ Len(todo) \in Nat
  BY HookedIs, LenProperties
<1>2. h \in Seq(Run) /\ Len(h) \in Nat /\ Len(h) <= Len(todo)
  BY LenProperties DEF HooksRight
<1>3. Len(h) + 1 \in 1 .. Len(todo)
  BY <1>1, <1>2
<1>4. name \in STRING
  <2>1. todo[Len(h) + 1] \in Config
    BY <1>1, <1>3, ElementOfSeq
  <2> QED
    BY <2>1 DEF Config
<1>5. run \in Run
  <2> HIDE DEF name
  <2> QED
    BY <1>4 DEF Run
<1>6. \A i \in 1 .. Len(h) : h[i] = [app |-> todo[i].name, saw |-> c]
  BY DEF HooksRight
<1>7. g = Append(h, run)
  BY DEF OneMoreHook
<1> HIDE DEF todo, g
<1>8. todo[Len(h) + 1].name = name
  OBVIOUS
<1> HIDE DEF name, run
<1>9. /\ g \in Seq(Run) /\ Len(g) = Len(h) + 1
      /\ \A i \in 1 .. Len(h) : g[i] = h[i]
      /\ g[Len(h) + 1] = run
  BY <1>2, <1>5, <1>7, AppendProperties
<1>10. \A i \in 1 .. Len(g) : g[i] = [app |-> todo[i].name, saw |-> c]
  <2>1. ASSUME NEW i \in 1 .. Len(g)
        PROVE  g[i] = [app |-> todo[i].name, saw |-> c]
    <3>1. CASE i = Len(h) + 1
      BY <1>8, <1>9, <3>1 DEF run
    <3>2. CASE i # Len(h) + 1
      <4>1. i \in 1 .. Len(h)
        BY <1>2, <1>9, <3>2
      <4> QED
        BY <1>6, <1>9, <4>1
    <3> QED
      BY <3>1, <3>2
  <2> QED
    BY <2>1
<1>11. \A i \in 1 .. Len(g) : i < Len(g) => todo[i].ready = "ok"
  BY <1>2, <1>9 DEF todo, RanWell
<1>12. Len(g) <= Len(todo)
  BY <1>1, <1>3, <1>9
<1> QED
  BY <1>3, <1>9, <1>10, <1>11, <1>12 DEF HooksRight, todo, g

LEMMA ReadyAdvances ==
    ASSUME Inv, Ready
    PROVE  Own /\ Advances
<1> DEFINE h == hooks[n]
           call == plan[n]
           todo == Hooked(call.apps)
           rest == todo[Len(h) + 1]
<1>1. pc = "ready" /\ UNCHANGED <<plan, n, active, resolver, local, built, page>>
  BY DEF Ready
<1>2. /\ HooksRight(call, n, h) /\ ShapeOf(local')
      /\ DOMAIN hooks = DOMAIN plan /\ call.apps \in Seq(Config) /\ n \in DOMAIN plan
      /\ Stage(call, n, "ready", local, h, result[n], built[n])
  BY <1>1, Now
<1>3. n \in Nat /\ active.of = n
  BY <1>1, CallTyped DEF Inv, Active
<1>4. call.key /\ NamesFit(call.apps) /\ local'.settings = n
  BY <1>1, <1>2 DEF Stage
<1>5. \A i \in 1 .. Len(h) : todo[i].ready = "ok"
  BY <1>2 DEF Stage
<1>6. CASE Len(h) = Len(todo)
  <2>1. Goto("models") /\ hooks' = hooks
    BY <1>6 DEF Ready, Call, Apps
  <2>2. AllRan(call, hooks'[n])
    BY <1>5, <1>6, <2>1 DEF AllRan
  <2>3. Stage(call, n, "models", local', hooks'[n], "", Nothing)
    BY <1>4, <2>2 DEF Stage
  <2> QED
    BY <1>1, <1>2, <2>1, <2>3, Continues DEF Steps
<1>7. CASE Len(h) # Len(todo)
  <2> DEFINE g == OneMoreHook(call, n, h)
  <2>1. /\ hooks' = [hooks EXCEPT ![n] = Append(@, [app |-> rest.name, saw |-> active.of])]
        /\ IF Fails(rest) THEN Ends("error") ELSE Goto("ready")
    BY <1>7 DEF Ready, Call, Apps
  <2>2. hooks' = [hooks EXCEPT ![n] = g]
    BY <1>3, <2>1 DEF OneMoreHook
  <2> HIDE DEF g
  <2>3. hooks'[n] = g /\ DOMAIN hooks' = DOMAIN plan
        /\ \A c \in DOMAIN plan : c # n => hooks'[c] = hooks[c]
    BY <1>2, <2>2
  <2>4. HooksRight(call, n, g) /\ Len(h) + 1 \in 1 .. Len(todo) /\ Len(g) = Len(h) + 1
    <3>1. RanWell(call, h)
      BY <1>5 DEF RanWell
    <3>2. HooksRight(call, n, h) /\ call.apps \in Seq(Config) /\ n \in Nat
      BY <1>2, <1>3
    <3>3. call.key /\ NamesFit(call.apps) /\ Len(h) # Len(Hooked(call.apps))
      BY <1>4, <1>7
    <3> HIDE DEF h, call
    <3> QED
      BY <3>1, <3>2, <3>3, HookRuns DEF g
  <2>5. CASE Fails(rest)
    <3>1. rest.ready # "ok"
      BY <2>5 DEF Fails
    <3>2. ~ Valid(call)
      BY <1>2, <2>4, <3>1, Invalid
    <3>3. Ends("error")
      BY <2>1, <2>5
    <3> QED
      BY <1>1, <1>2, <2>3, <2>4, <3>2, <3>3, EndsBadly
  <2>6. CASE ~ Fails(rest)
    <3>1. rest.ready = "ok"
      BY <1>2, <2>4, <2>6, HookedIs DEF Fails
    <3>2. \A i \in 1 .. Len(g) : todo[i].ready = "ok"
      <4>1. \A i \in 1 .. Len(g) : i \in 1 .. Len(h) \/ i = Len(h) + 1
        <5>1. Len(h) \in Nat
          BY <1>2, LenProperties DEF HooksRight
        <5> QED
          BY <2>4, <5>1
      <4> QED
        BY <1>5, <3>1, <4>1
    <3>3. Stage(call, n, "ready", local', g, "", Nothing)
      BY <1>4, <3>2 DEF Stage
    <3>4. Goto("ready")
      BY <2>1, <2>6
    <3> QED
      BY <1>1, <1>2, <2>3, <2>4, <3>3, <3>4, Continues DEF Steps
  <2> QED
    BY <2>5, <2>6
<1> QED
  BY <1>6, <1>7

LEMMA ModelsAdvances ==
    ASSUME Inv, Models
    PROVE  Own /\ Advances
<1> DEFINE call == plan[n]
           ms == Declared(call.apps)
           models == Freeze(Resolved(ms).reg)
           app == MigrationsApp(call.apps)
<1>1. pc = "models" /\ UNCHANGED <<plan, n, active, resolver, hooks, built, page>>
      /\ IF Resolved(ms).err THEN Ends("error") /\ UNCHANGED local
         ELSE Goto("open") /\ local' = [local EXCEPT !.models = models, !.migrationsApp = app]
  BY DEF Models, Call, Apps, Resolved
<1>2. /\ HooksRight(call, n, hooks'[n]) /\ ShapeOf(local)
      /\ DOMAIN hooks' = DOMAIN plan /\ call.apps \in Seq(Config)
      /\ Stage(call, n, "models", local, hooks[n], result[n], built[n])
  BY <1>1, Now
<1>3. ms \in Seq(GoStruct)
  BY <1>2, Provided
<1>4. Resolved(ms).err <=> ~ DeclarationsFit(ms)
  BY <1>3, ResolvedIs
<1>5. CASE Resolved(ms).err
  <2>1. ~ Valid(call)
    BY <1>2, <1>4, <1>5, Invalid
  <2>2. Ends("error") /\ local' = local
    BY <1>1, <1>5
  <2>3. ShapeOf(local')
    BY <1>2, <2>2
  <2> QED
    BY <1>1, <1>2, <2>1, <2>2, <2>3, EndsBadly
<1>6. CASE ~ Resolved(ms).err
  <2>1. Goto("open") /\ local' = [local EXCEPT !.models = models, !.migrationsApp = app]
    BY <1>1, <1>6
  <2>2. DeclarationsFit(ms) /\ Consistent(models) /\ Types(models) = {m.type : m \in ToSet(ms)}
    BY <1>3, <1>4, <1>6, FrozenIs
  <2>3. call.key /\ NamesFit(call.apps) /\ AllRan(call, hooks'[n]) /\ local.settings = n
    BY <1>1, <1>2 DEF Stage
  <2> HIDE DEF models, app
  <2>4. ShapeOf(local') /\ local'.models = models /\ local'.settings = local.settings
    <3> DEFINE s == local.settings
               b == local.models
               d == local.db
               r == local.routes
               a == local.migrationsApp
    <3>1. local = [settings |-> s, models |-> b, db |-> d, routes |-> r, migrationsApp |-> a]
      BY <1>2 DEF ShapeOf
    <3> HIDE DEF s, b, d, r, a
    <3>2. local' = [settings |-> s, models |-> models, db |-> d, routes |-> r,
                    migrationsApp |-> app]
      BY <2>1, <3>1
    <3> QED
      BY <3>1, <3>2 DEF ShapeOf
  <2>5. Registered(call, local')
    BY <2>2, <2>4 DEF Registered
  <2>6. Stage(call, n, "open", local', hooks'[n], "", Nothing)
    BY <2>3, <2>4, <2>5 DEF Stage
  <2> QED
    BY <1>1, <1>2, <2>1, <2>4, <2>6, Continues DEF Steps
<1> QED
  BY <1>5, <1>6

LEMMA OpenAdvances ==
    ASSUME Inv, Open
    PROVE  Own /\ Advances
<1> DEFINE call == plan[n]
           sqlite == call.db = "sqlite"
<1>1. pc = "open" /\ UNCHANGED <<plan, n, active, resolver, hooks, built, page>>
      /\ IF call.db \in {"none", "sqlite"}
         THEN Goto("handler") /\ local' = [local EXCEPT !.db = sqlite]
         ELSE Ends("error") /\ UNCHANGED local
  BY DEF Open, Call
<1>2. /\ HooksRight(call, n, hooks'[n]) /\ ShapeOf(local)
      /\ DOMAIN hooks' = DOMAIN plan /\ call.apps \in Seq(Config)
      /\ Stage(call, n, "open", local, hooks[n], result[n], built[n])
  BY <1>1, Now
<1>5. CASE call.db \notin {"none", "sqlite"}
  <2>1. ~ Valid(call)
    BY <1>2, <1>5, Invalid
  <2>2. Ends("error") /\ local' = local
    BY <1>1, <1>5
  <2>3. ShapeOf(local')
    BY <1>2, <2>2
  <2> QED
    BY <1>1, <1>2, <2>1, <2>2, <2>3, EndsBadly
<1>6. CASE call.db \in {"none", "sqlite"}
  <2>1. Goto("handler") /\ local' = [local EXCEPT !.db = sqlite]
    BY <1>1, <1>6
  <2>3. /\ call.key /\ NamesFit(call.apps) /\ AllRan(call, hooks'[n]) /\ local.settings = n
        /\ Registered(call, local)
    BY <1>1, <1>2 DEF Stage
  <2> HIDE DEF sqlite
  <2>4. ShapeOf(local') /\ local'.models = local.models /\ local'.settings = local.settings
        /\ local'.db = sqlite
    <3> DEFINE s == local.settings
               b == local.models
               d == local.db
               r == local.routes
               a == local.migrationsApp
    <3>1. local = [settings |-> s, models |-> b, db |-> d, routes |-> r, migrationsApp |-> a]
      BY <1>2 DEF ShapeOf
    <3> HIDE DEF s, b, d, r, a
    <3>2. local' = [settings |-> s, models |-> b, db |-> sqlite, routes |-> r,
                    migrationsApp |-> a]
      BY <2>1, <3>1
    <3> QED
      BY <3>1, <3>2 DEF ShapeOf
  <2>5. Registered(call, local')
    BY <2>3, <2>4 DEF Registered
  <2>6. local'.db <=> call.db = "sqlite"
    BY <2>4 DEF sqlite
  <2>7. Stage(call, n, "handler", local', hooks'[n], "", Nothing)
    BY <1>6, <2>3, <2>4, <2>5, <2>6 DEF Stage
  <2> QED
    BY <1>1, <1>2, <2>1, <2>4, <2>7, Continues DEF Steps
<1> QED
  BY <1>5, <1>6

LEMMA RoutesTyped ==
    ASSUME NEW call, call.apps \in Seq(Config)
    PROVE  AllRoutes(call) \in Seq(RouteSet)
<1> DEFINE own == FlattenSeq([i \in DOMAIN call.apps |-> call.apps[i].routes])
           more == IF call.db = "sqlite" /\ \E a \in ToSet(call.apps) : a.admin[1]
                   THEN AdminRoutes ELSE << >>
<1>1. own \in Seq(RouteSet) /\ more \in Seq(RouteSet)
  BY Provided, AdminRoutesAssumption, EmptySeq
<1>2. AllRoutes(call) = own \o more
  BY DEF AllRoutes
<1> HIDE DEF own, more
<1> QED
  BY <1>1, <1>2, ConcatProperties

\* The routes of the site, and when the admin panics.
LEMMA SiteIs ==
    ASSUME Inv, pc = "handler"
    PROVE  /\ Routes = AllRoutes(plan[n]) /\ Routes \in Seq(RouteSet)
           /\ HasAdmin /\ AdminPanics <=>
                  plan[n].db = "sqlite" /\ \E a \in ToSet(plan[n].apps) :
                      ~ (ToSet(a.admin[2]) \subseteq
                             {m.type : m \in ToSet(Declared(plan[n].apps))})
<1> DEFINE call == plan[n]
           apps == call.apps
           types == {m.type : m \in ToSet(Declared(apps))}
           own == FlattenSeq([i \in DOMAIN apps |-> apps[i].routes])
<1>1. /\ apps \in Seq(Config)
      /\ Stage(call, n, pc, local, hooks[n], result[n], built[n])
  BY Now
<1>2. /\ local.db <=> call.db = "sqlite"
      /\ Types(local.models) = types
  BY <1>1 DEF Stage, Registered
<1>3. DOMAIN apps = 1 .. Len(apps) /\ \A i \in DOMAIN apps : apps[i] \in Config
  BY <1>1, LenProperties, ElementOfSeq
<1>4. ToSet(apps) = {apps[i] : i \in DOMAIN apps}
  BY DEF ToSet
<1>5. HasAdmin <=> call.db = "sqlite" /\ \E a \in ToSet(apps) : a.admin[1]
  BY <1>2, <1>4 DEF HasAdmin, Call, Apps
<1>6. AdminPanics <=> \E a \in ToSet(apps) : ~ (ToSet(a.admin[2]) \subseteq types)
  BY <1>2, <1>4 DEF AdminPanics, Call, Apps
<1>7. ASSUME NEW a \in ToSet(apps), ~ a.admin[1]
      PROVE  ToSet(a.admin[2]) \subseteq types
  <2>1. a.admin \in Optional(Seq(STRING))
    BY <1>3, <1>4 DEF Config
  <2>2. a.admin[2] = << >>
    <3>1. a.admin = Without
      BY <1>7, <2>1 DEF Optional
    <3>2. Without[2] = << >>
      BY DEF Without
    <3> QED
      BY <3>1, <3>2
  <2>3. DOMAIN a.admin[2] = {}
    BY <2>2
  <2> QED
    BY <2>3 DEF ToSet
<1>8. HasAdmin /\ AdminPanics <=>
          call.db = "sqlite" /\ \E a \in ToSet(apps) : ~ (ToSet(a.admin[2]) \subseteq types)
  BY <1>5, <1>6, <1>7
<1>9. Routes = own \o (IF HasAdmin THEN AdminRoutes ELSE << >>)
  BY DEF Routes, Call, Apps
<1>10. AllRoutes(call) =
           own \o (IF call.db = "sqlite" /\ \E a \in ToSet(apps) : a.admin[1]
                   THEN AdminRoutes ELSE << >>)
  BY DEF AllRoutes
<1> HIDE DEF own
<1>11. Routes = AllRoutes(call)
  <2>1. CASE HasAdmin
    BY <1>5, <1>9, <1>10, <2>1
  <2>2. CASE ~ HasAdmin
    BY <1>5, <1>9, <1>10, <2>2
  <2> QED
    BY <2>1, <2>2
<1>12. Routes \in Seq(RouteSet)
  BY <1>1, <1>11, RoutesTyped
<1> QED
  BY <1>8, <1>11, <1>12

\* The outcome of the last step of New.
Outcome ==
    IF HasAdmin /\ AdminPanics THEN "panic" ELSE RouterOutcome(Routes, Requests)

LEMMA OutcomeIs ==
    ASSUME Inv, pc = "handler"
    PROVE  /\ Outcome \in {"ok", "error", "panic"}
           /\ Outcome = "ok" <=> Valid(plan[n])
           /\ Outcome = "panic" => Panics(plan[n])
<1> DEFINE call == plan[n]
           panics == HasAdmin /\ AdminPanics
           rejects == Rejects(Routes, Requests)
           outcome == RouterOutcome(Routes, Requests)
<1>1. /\ Routes = AllRoutes(call) /\ Routes \in Seq(RouteSet)
      /\ panics <=> call.db = "sqlite" /\ \E a \in ToSet(call.apps) :
                        ~ (ToSet(a.admin[2]) \subseteq
                               {m.type : m \in ToSet(Declared(call.apps))})
  BY SiteIs
<1>2. Panics(call) <=> panics \/ rejects
  BY <1>1 DEF Panics
<1>3. /\ outcome \in {"ok", "error", "panic"}
      /\ outcome = "ok" <=> NamesOnce(Routes) /\ ~ rejects
      /\ outcome = "panic" => rejects
  BY <1>1, RouterIs
<1>4. Outcome = IF panics THEN "panic" ELSE outcome
  BY DEF Outcome
<1>5. /\ call.apps \in Seq(Config)
      /\ Stage(call, n, pc, local, hooks[n], result[n], built[n])
  BY Now
<1>6. /\ call.key /\ NamesFit(call.apps) /\ call.db \in {"none", "sqlite"}
      /\ DeclarationsFit(Declared(call.apps))
      /\ \A i \in 1 .. Len(Hooked(call.apps)) : Hooked(call.apps)[i].ready = "ok"
  BY <1>5 DEF Stage, AllRan, Registered
<1>7. Valid(call) <=> NamesOnce(Routes) /\ ~ Panics(call)
  BY <1>1, <1>5, <1>6, ValidIf
<1> HIDE DEF panics, rejects, outcome, call
<1>8. /\ Outcome \in {"ok", "error", "panic"}
      /\ Outcome = "ok" <=> Valid(call)
      /\ Outcome = "panic" => Panics(call)
  BY <1>2, <1>3, <1>4, <1>7
<1> QED
  BY <1>8 DEF call

LEMMA HandlerAdvances ==
    ASSUME Inv, Handler
    PROVE  Own /\ Advances
<1> DEFINE call == plan[n]
           app == [local EXCEPT !.routes = Routes]
<1>1. /\ pc = "handler" /\ UNCHANGED <<plan, n, active, hooks, local, page>>
      /\ built' = IF Outcome = "ok" THEN [built EXCEPT ![n] = app] ELSE built
      /\ pc' = "done" /\ result' = [result EXCEPT ![n] = Outcome]
  BY DEF Handler, Outcome, Ends
<1>2. /\ HooksRight(call, n, hooks[n]) /\ ShapeOf(local) /\ n \in DOMAIN plan
      /\ Stage(call, n, "handler", local, hooks[n], result[n], built[n])
      /\ built[n] = Nothing
      /\ DOMAIN hooks = DOMAIN plan /\ DOMAIN result = DOMAIN plan /\ DOMAIN built = DOMAIN plan
      /\ result \in [DOMAIN plan -> Results]
  BY <1>1, Now
<1>3. /\ Outcome \in {"ok", "error", "panic"}
      /\ Outcome = "ok" <=> Valid(call)
      /\ Outcome = "panic" => Panics(call)
  BY <1>1, OutcomeIs
<1>4. AllRan(call, hooks[n]) /\ local.settings = n /\ Consistent(local.models)
  BY <1>2 DEF Stage, Registered
<1>5. app.settings = local.settings /\ app.models = local.models /\ app.routes = Routes
  <2> DEFINE s == local.settings
             b == local.models
             d == local.db
             r == local.routes
             a == local.migrationsApp
             routes == Routes
  <2>1. local = [settings |-> s, models |-> b, db |-> d, routes |-> r, migrationsApp |-> a]
    BY <1>2 DEF ShapeOf
  <2> HIDE DEF s, b, d, r, a, routes
  <2>2. [local EXCEPT !.routes = routes] =
            [settings |-> s, models |-> b, db |-> d, routes |-> routes, migrationsApp |-> a]
    BY <2>1
  <2>3. [local EXCEPT !.routes = routes].settings = s
        /\ [local EXCEPT !.routes = routes].models = b
        /\ [local EXCEPT !.routes = routes].routes = routes
    BY <2>2
  <2> QED
    BY <2>3 DEF s, b, routes
<1> HIDE DEF app
<1>6. result'[n] = Outcome /\ result' \in [DOMAIN plan -> Results]
      /\ \A c \in DOMAIN plan : c # n => result'[c] = result[c]
  <2>1. Outcome \in Results
    BY <1>3 DEF Results
  <2> QED
    BY <1>1, <1>2, <2>1
<1>7. built'[n] = (IF Outcome = "ok" THEN app ELSE Nothing) /\ DOMAIN built' = DOMAIN plan
      /\ \A c \in DOMAIN plan : c # n => built'[c] = built[c]
  BY <1>1, <1>2
<1>8. Own
  BY <1>1, <1>2, <1>6, <1>7 DEF Own, Steps
<1>9. Routes = AllRoutes(call)
  BY <1>1, SiteIs
<1>10. ResultRight(call, n, hooks[n], Outcome, built'[n])
  BY <1>3, <1>4, <1>5, <1>7, <1>9 DEF ResultRight, Results
<1>11. Stage(call, n, "done", local', hooks[n], Outcome, built'[n])
  BY <1>3 DEF Stage
<1> QED
  BY <1>1, <1>2, <1>6, <1>8, <1>10, <1>11 DEF Advances

-----------------------------------------------------------------------------
(* Every step                                                              *)

InNew == Configure \/ Check \/ RegisterApps \/ Ready \/ Models \/ Open \/ Handler

LEMMA NewAdvances ==
    ASSUME Inv, InNew
    PROVE  Own /\ Advances
  BY ConfigureAdvances, CheckAdvances, RegisterAppsAdvances, ReadyAdvances, ModelsAdvances,
     OpenAdvances, HandlerAdvances DEF InNew

\* The calls are all right after a step that is about one of them.
LEMMA CallsKept ==
    ASSUME Inv, Own, Advances
    PROVE  Shape' /\ Calls' /\ Running'
<1>1. plan' = plan /\ n' = n /\ pc' \in Steps /\ ShapeOf(local') /\ n \in DOMAIN plan
  BY Now DEF Own
<1>2. Shape'
  BY <1>1 DEF Shape, Inv, Own
<1>3. Running'
  BY <1>1 DEF Running, Advances
<1>4. ASSUME NEW c \in DOMAIN plan
      PROVE  /\ HooksRight(plan[c], c, hooks'[c])
             /\ ResultRight(plan[c], c, hooks'[c], result'[c], built'[c])
             /\ c > n => hooks'[c] = << >> /\ result'[c] = "" /\ built'[c] = Nothing
  <2>1. CASE c = n
    <3>1. ~ (n > n)
      BY CallTyped DEF Inv
    <3> QED
      BY <2>1, <3>1 DEF Advances
  <2>2. CASE c # n
    <3>1. hooks'[c] = hooks[c] /\ result'[c] = result[c] /\ built'[c] = built[c]
      BY <2>2 DEF Own
    <3>2. /\ HooksRight(plan[c], c, hooks[c])
          /\ ResultRight(plan[c], c, hooks[c], result[c], built[c])
          /\ c > n => hooks[c] = << >> /\ result[c] = "" /\ built[c] = Nothing
      BY DEF Inv, Calls
    <3> QED
      BY <3>1, <3>2
  <2> QED
    BY <2>1, <2>2
<1>5. Calls'
  BY <1>1, <1>4 DEF Calls
<1> QED
  BY <1>2, <1>3, <1>5

LEMMA ActiveKept ==
    ASSUME Inv, InNew
    PROVE  Active'
<1>1. n' = n /\ plan' = plan
  BY NewAdvances DEF Own
<1>2. n \in DOMAIN plan /\ n \in Nat /\ n \in 1 .. Len(plan)
  BY CallTyped DEF Inv, Shape
<1>3. CASE Configure
  <2> DEFINE host == Host(Call)
  <2>1. active' = [of |-> n, host |-> host]
    BY <1>3 DEF Configure, Activated
  <2> HIDE DEF host
  <2>2. active'.of = n /\ active'.host = host
    BY <2>1
  <2>3. n # 0 /\ n \in 0 .. n
    BY <1>2
  <2> QED
    BY <1>1, <2>2, <2>3 DEF Active, host, Call
<1>4. CASE ~ Configure
  <2>1. active' = active /\ pc # "configure"
    BY <1>4 DEF InNew, Check, RegisterApps, Ready, Models, Open, Handler
  <2> QED
    BY <1>1, <2>1 DEF Active, Inv
<1> QED
  BY <1>3, <1>4

LEMMA ResolvesKept ==
    ASSUME Inv, InNew
    PROVE  Resolves'
<1>1. Own /\ Advances
  BY NewAdvances
<1>2. /\ n' = n /\ plan' = plan /\ n \in DOMAIN plan /\ n \in Nat
      /\ \A c \in DOMAIN plan : c # n => result'[c] = result[c] /\ built'[c] = built[c]
  BY <1>1, CallTyped DEF Own, Inv
<1>3. pc # "done" /\ result[n] = ""
  BY Now DEF InNew, Configure, Check, RegisterApps, Ready, Models, Open, Handler
<1>4. n \notin Routed /\ \A c \in DOMAIN plan : c # n => (c \in Routed' <=> c \in Routed)
  BY <1>2, <1>3 DEF Routed
<1>5. Routed \subseteq DOMAIN plan /\ Routed' \subseteq DOMAIN plan
  BY <1>2 DEF Routed
<1>6. CASE n \notin Routed'
  <2>1. Routed' = Routed
    BY <1>4, <1>5, <1>6
  <2>2. resolver' = resolver
    <3>1. CASE Handler
      <4>1. pc = "handler" /\ result' = [result EXCEPT ![n] = Outcome]
            /\ resolver' = ResolverAfter(Outcome)
            /\ built' = IF Outcome = "ok" THEN [built EXCEPT ![n] = [local EXCEPT !.routes = Routes]]
                        ELSE built
        BY <3>1 DEF Handler, Outcome, Ends
      <4>2. CASE Outcome = "ok"
        <5>1. result'[n] = "ok" /\ built'[n] = [local EXCEPT !.routes = Routes]
          BY <4>1, <4>2, Now
        <5>2. built'[n].routes = << >>
          BY <1>2, <1>6, <5>1 DEF Routed
        <5>3. [local EXCEPT !.routes = Routes].routes = Routes
          BY Now DEF ShapeOf
        <5>4. Routes = << >>
          BY <5>1, <5>2, <5>3
        <5> QED
          BY <4>1, <5>4 DEF ResolverAfter
      <4>3. CASE Outcome # "ok"
        BY <4>1, <4>3 DEF ResolverAfter
      <4> QED
        BY <4>2, <4>3
    <3>2. CASE ~ Handler
      BY <3>2 DEF InNew, Configure, Check, RegisterApps, Ready, Models, Open
    <3> QED
      BY <3>1, <3>2
  <2> QED
    BY <2>1, <2>2 DEF Inv, Resolves
<1>7. CASE n \in Routed'
  <2>1. result'[n] = "ok" /\ built'[n].routes # << >>
    BY <1>7 DEF Routed
  <2>2. CASE Handler
    <3>1. pc = "handler" /\ result' = [result EXCEPT ![n] = Outcome]
          /\ resolver' = ResolverAfter(Outcome)
          /\ built' = IF Outcome = "ok" THEN [built EXCEPT ![n] = [local EXCEPT !.routes = Routes]]
                      ELSE built
      BY <2>2 DEF Handler, Outcome, Ends
    <3>2. Outcome = "ok"
      BY <2>1, <3>1, Now
    <3>3. built'[n] = [local EXCEPT !.routes = Routes]
      BY <3>1, <3>2, Now
    <3>4. [local EXCEPT !.routes = Routes].routes = Routes
      BY Now DEF ShapeOf
    <3>5. Routes # << >>
      BY <2>1, <3>3, <3>4
    <3>6. resolver' = n
      BY <3>1, <3>2, <3>5 DEF ResolverAfter
    <3>7. \A c \in Routed' : c <= n
      <4>1. \A c \in DOMAIN plan : c > n => result[c] = ""
        BY DEF Inv, Calls
      <4>2. \A c \in DOMAIN plan : c \in Nat
        BY CallTyped DEF Inv
      <4>3. \A c \in Routed : ~ (c > n)
        BY <4>1 DEF Routed
      <4>4. ASSUME NEW c \in Routed'
            PROVE  c <= n
        <5>1. c \in Nat
          BY <1>5, <4>2
        <5>2. CASE c = n
          BY <1>2, <5>2
        <5>3. CASE c # n
          <6>1. c \in Routed
            BY <1>4, <1>5, <5>3
          <6> QED
            BY <1>2, <4>3, <5>1, <6>1
        <5> QED
          BY <5>2, <5>3
      <4> QED
        BY <4>4
    <3> QED
      BY <1>7, <3>6, <3>7 DEF Resolves
  <2>3. CASE ~ Handler
    <3>1. result' = result \/ Ends("error")
      BY <2>3 DEF InNew, Configure, Check, RegisterApps, Ready, Models, Open, Goto
    <3>2. result'[n] # "ok"
      BY <1>3, <3>1, Now DEF Ends
    <3> QED
      BY <2>1, <3>2
  <2> QED
    BY <2>2, <2>3
<1> QED
  BY <1>6, <1>7

\* No call that is still to come has run a hook, or has a result.
LEMMA RoutedSoFar ==
    ASSUME Inv
    PROVE  \A c \in DOMAIN plan : c \in Nat /\ (result[c] # "" => c \in 1 .. n)
<1>1. /\ Len(plan) \in Nat /\ DOMAIN plan = 1 .. Len(plan) /\ n \in Nat
  BY CallTyped DEF Inv
<1>2. \A c \in DOMAIN plan : c > n => result[c] = ""
  BY DEF Inv, Calls
<1>3. ASSUME NEW c \in DOMAIN plan
      PROVE  c \in Nat /\ (result[c] # "" => c \in 1 .. n)
  <2>1. c \in Nat /\ 1 <= c
    BY <1>1
  <2>2. CASE result[c] = ""
    BY <2>1, <2>2
  <2>3. CASE result[c] # ""
    <3>1. ~ (c > n)
      BY <1>2, <2>3
    <3>2. c <= n
      BY <1>1, <2>1, <3>1
    <3>3. n \in Nat
      BY <1>1
    <3>4. c \in 1 .. n
      BY <2>1, <3>2, <3>3
    <3> QED
      BY <2>1, <3>4
  <2> QED
    BY <2>2, <2>3
<1> QED
  BY <1>3

LEMMA ResolverSoFar ==
    ASSUME Inv
    PROVE  resolver \in 0 .. n
<1>1. \A c \in Routed : c \in 1 .. n
  BY RoutedSoFar DEF Routed
<1>2. n \in Nat
  BY CallTyped DEF Inv
<1> QED
  BY <1>1, <1>2 DEF Inv, Resolves

LEMMA NoHooks ==
    ASSUME NEW call, call.apps \in Seq(Config), NEW c
    PROVE  HooksRight(call, c, << >>)
<1>1. << >> \in Seq(Run) /\ Len(<< >>) = 0
  BY EmptySeq
<1>2. Len(Hooked(call.apps)) \in Nat
  BY HookedIs, LenProperties
<1> QED
  BY <1>1, <1>2 DEF HooksRight

LEMMA NothingIs == ShapeOf(Nothing)
<1> DEFINE no == FALSE
           one == ""
           zero == 0
           empty == << >>
           reg == EmptyRegistry
<1>1. Nothing = [settings |-> zero, models |-> reg, db |-> no, routes |-> empty,
                 migrationsApp |-> one]
  BY DEF Nothing
<1> HIDE DEF no, one, zero, empty, reg
<1> QED
  BY <1>1 DEF ShapeOf

LEMMA InitInv ==
    ASSUME Init
    PROVE  Inv
<1>1. plan \in Plans /\ n = 1 /\ pc = "configure" /\ resolver = 0 /\ local = Nothing
  BY DEF Init
<1>2. plan \in Seq(CallOfNew) /\ plan # << >>
  BY <1>1, PlansAssumption
<1>3. n \in 1 .. Len(plan) /\ DOMAIN plan = 1 .. Len(plan) /\ n \in Nat
  BY <1>1, <1>2, EmptySeq, LenProperties
<1>4. \A c \in DOMAIN plan : hooks[c] = << >> /\ result[c] = "" /\ built[c] = Nothing
  BY DEF Init
<1>5. Shape
  <2>1. result \in [DOMAIN plan -> Results] /\ DOMAIN hooks = DOMAIN plan
        /\ DOMAIN built = DOMAIN plan
    BY DEF Init, Results
  <2> QED
    BY <1>1, <1>3, <2>1, NothingIs DEF Shape, Steps
<1>6. Calls
  <2>1. \A c \in DOMAIN plan : HooksRight(plan[c], c, << >>)
    BY <1>5, CallTyped, NoHooks
  <2>2. \A c \in DOMAIN plan : ResultRight(plan[c], c, << >>, "", Nothing)
    BY GoesOn
  <2> QED
    BY <1>4, <2>1, <2>2 DEF Calls
<1>7. Running
  BY <1>1, <1>3, <1>4 DEF Running, Stage
<1>8. Active
  <2> DEFINE none == ""
             zero == 0
  <2>1. active = [of |-> zero, host |-> none]
    BY DEF Init
  <2> HIDE DEF none, zero
  <2>2. active.of = zero /\ active.host = none
    BY <2>1
  <2>3. active.of = 0 /\ active.host = ""
    BY <2>2 DEF none, zero
  <2>4. 0 \in 0 .. n
    BY <1>3
  <2> QED
    BY <1>1, <2>3, <2>4 DEF Active
<1>9. Resolves
  BY <1>1, <1>4 DEF Resolves, Routed
<1>10. Paged
  <2> DEFINE no == FALSE
             zero == 0
  <2>1. page = [of |-> zero, own |-> no, link |-> zero]
    BY DEF Init, NoPage
  <2> HIDE DEF no, zero
  <2>2. page.of = zero /\ page.link = zero
    BY <2>1
  <2>3. 0 \in 0 .. n
    BY <1>3
  <2> QED
    BY <2>2, <2>3 DEF Paged, zero
<1> QED
  BY <1>5, <1>6, <1>7, <1>8, <1>9, <1>10 DEF Inv

LEMMA NextCallInv ==
    ASSUME Inv, NextCall
    PROVE  Inv'
<1>1. /\ n' = n + 1 /\ pc' = "configure" /\ local' = Nothing /\ n < Len(plan)
      /\ UNCHANGED <<plan, active, resolver, hooks, result, built, page>>
  BY DEF NextCall
<1>2. Len(plan) \in Nat /\ n \in Nat /\ DOMAIN plan = 1 .. Len(plan)
  BY CallTyped DEF Inv
<1>3. n + 1 \in DOMAIN plan /\ n + 1 > n
  BY <1>1, <1>2
<1>4. Shape'
  BY <1>1, <1>2, <1>3, NothingIs DEF Shape, Inv, Steps
<1>5. Calls'
  <2>1. \A c \in DOMAIN plan : c > n + 1 => c > n
    BY <1>2
  <2> QED
    BY <1>1, <2>1 DEF Calls, Inv
<1>6. Running'
  <2>1. hooks[n + 1] = << >> /\ result[n + 1] = "" /\ built[n + 1] = Nothing
    BY <1>3 DEF Inv, Calls
  <2> QED
    BY <1>1, <2>1 DEF Running, Stage
<1>7. Active'
  <2>3. active.of \in 0 .. n
    BY DEF Active, Inv
  <2>1. active.of \in 0 .. n + 1
    BY <1>2, <2>3
  <2>2. active.host = IF active.of = 0 THEN "" ELSE Host(plan[active.of])
    BY DEF Active, Inv
  <2> QED
    BY <1>1, <2>1, <2>2 DEF Active
<1>8. Resolves' /\ Paged'
  BY <1>1, <1>2 DEF Resolves, Routed, Paged, Inv
<1> QED
  BY <1>4, <1>5, <1>6, <1>7, <1>8 DEF Inv

\* Where the links of a page lead.
LEMMA RenderLinks ==
    ASSUME Inv, Render
    PROVE  /\ page'.of \in 1 .. n
           /\ IF page'.own THEN page'.link = page'.of
              ELSE page'.link \in Routed /\ \A c \in Routed : c <= page'.link
<1>1. PICK c \in DOMAIN plan, own \in BOOLEAN :
          /\ result[c] = "ok" /\ built[c].routes # << >>
          /\ page' = [of |-> c, own |-> own, link |-> ResolverFrom(c, own)]
  BY DEF Render
<1>2. page'.of = c /\ page'.own = own /\ page'.link = IF own THEN c ELSE resolver
  BY <1>1 DEF ResolverFrom
<1>3. c \in Routed /\ c \in 1 .. n
  BY <1>1, RoutedSoFar DEF Routed
<1>4. resolver \in Routed /\ \A d \in Routed : d <= resolver
  BY <1>3 DEF Inv, Resolves
<1> QED
  BY <1>2, <1>3, <1>4

LEMMA RenderInv ==
    ASSUME Inv, Render
    PROVE  Inv'
<1>1. UNCHANGED <<plan, n, pc, active, resolver, hooks, local, result, built>>
  BY DEF Render
<1>2. Shape' /\ Active'
  BY <1>1 DEF Shape, Active, Inv
<1>3. Calls'
  BY <1>1 DEF Calls, Inv
<1>4. Running' /\ Resolves'
  BY <1>1 DEF Running, Resolves, Routed, Inv
<1>5. Paged'
  <2>1. \A c \in Routed : c \in 1 .. n
    BY RoutedSoFar DEF Routed
  <2>2. n \in Nat
    BY CallTyped DEF Inv
  <2>3. page'.of \in 1 .. n /\ page'.link \in 1 .. n
    BY <2>1, RenderLinks
  <2> QED
    BY <1>1, <2>2, <2>3 DEF Paged
<1> QED
  BY <1>2, <1>3, <1>4, <1>5 DEF Inv

LEMMA NextInv ==
    ASSUME Inv, [Next]_vars
    PROVE  Inv'
<1>1. CASE InNew
  <2>1. Own /\ Advances
    BY <1>1, NewAdvances
  <2>2. Shape' /\ Calls' /\ Running'
    BY <2>1, CallsKept
  <2>3. Active' /\ Resolves'
    BY <1>1, ActiveKept, ResolvesKept
  <2>4. Paged'
    BY <2>1 DEF Own, Inv, Paged
  <2> QED
    BY <2>2, <2>3, <2>4 DEF Inv
<1>2. CASE NextCall
  BY <1>2, NextCallInv
<1>3. CASE Render
  BY <1>3, RenderInv
<1>4. CASE UNCHANGED vars
  <2>1. UNCHANGED <<plan, n, pc, active, resolver, hooks, local, result, built, page>>
    BY <1>4 DEF vars
  <2>2. Shape' /\ Active' /\ Paged'
    BY <2>1 DEF Shape, Active, Paged, Inv
  <2>3. Calls'
    BY <2>1 DEF Calls, Inv
  <2>4. Running' /\ Resolves'
    BY <2>1 DEF Running, Resolves, Routed, Inv
  <2> QED
    BY <2>2, <2>3, <2>4 DEF Inv
<1> QED
  BY <1>1, <1>2, <1>3, <1>4 DEF Next, InNew

LEMMA Invariant == Spec => []Inv
<1>1. Init => Inv
  BY InitInv
<1>2. Inv /\ [Next]_vars => Inv'
  BY NextInv
<1> QED
  BY <1>1, <1>2, PTL DEF Spec

-----------------------------------------------------------------------------
(* The theorems                                                            *)

\* The variables keep their types, and the settings of the process are those of
\* a call that was made, with their defaults.
THEOREM TypeCorrect == Spec => []TypeOK
<1>1. Inv => TypeOK
  <2> SUFFICES ASSUME Inv PROVE TypeOK
    OBVIOUS
  <2>1. /\ n \in 1 .. Len(plan) /\ pc \in Steps
        /\ result \in [DOMAIN plan -> Results]
    BY DEF Inv, Shape
  <2>2. \A c \in DOMAIN plan : built[c] # Nothing => result[c] = "ok"
    BY DEF Inv, Calls, ResultRight
  <2>3. active.host = "" <=> active.of = 0
    BY DEF Inv, Active, Host
  <2>4. active.of \in 0 .. n /\ active.host = IF active.of = 0 THEN "" ELSE Host(plan[active.of])
    BY DEF Inv, Active
  <2>5. page.of \in 0 .. n /\ page.link \in 0 .. n
    BY DEF Inv, Paged
  <2> QED
    BY <2>1, <2>2, <2>3, <2>4, <2>5, ResolverSoFar DEF TypeOK, Steps, Results
<1> QED
  BY <1>1, Invariant, PTL

\* The registry of an application that New returned is consistent and closed.
THEOREM FrozenIsConsistent == Spec => []FrozenConsistent
<1>1. Inv => FrozenConsistent
  BY DEF Inv, Calls, ResultRight, FrozenConsistent
<1> QED
  BY <1>1, Invariant, PTL

\* New returns an application for the calls that are valid as a whole, and panics
\* only for routes that conflict or for a model of the admin that is not declared.
THEOREM ReturnsExactlyIfValid == Spec => []ReturnsIfValid
<1>1. Inv => ReturnsIfValid
  BY DEF Inv, Calls, ResultRight, ReturnsIfValid
<1> QED
  BY <1>1, Invariant, PTL

\* The hooks run after all apps are registered, in order, once per call of New and
\* with its settings; an application that New returned has had them all.
THEOREM HooksRunInOrder == Spec => []HooksOrdered
<1>1. Inv => HooksOrdered
  <2> SUFFICES ASSUME Inv, NEW c \in DOMAIN plan
               PROVE  LET todo == Hooked(plan[c].apps)
                      IN  /\ Len(hooks[c]) <= Len(todo)
                          /\ \A i \in DOMAIN hooks[c] :
                                 hooks[c][i] = [app |-> todo[i].name, saw |-> c]
                          /\ hooks[c] # << >> => plan[c].key /\ NamesFit(plan[c].apps)
                          /\ \A i \in DOMAIN hooks[c] :
                                 i < Len(hooks[c]) => todo[i].ready = "ok"
                          /\ result[c] = "ok" => /\ Len(hooks[c]) = Len(todo)
                                                 /\ \A i \in DOMAIN todo : todo[i].ready = "ok"
                                                 /\ built[c].settings = c
    BY DEF HooksOrdered
  <2>1. /\ HooksRight(plan[c], c, hooks[c])
        /\ ResultRight(plan[c], c, hooks[c], result[c], built[c])
    BY DEF Inv, Calls
  <2>2. DOMAIN hooks[c] = 1 .. Len(hooks[c])
    BY <2>1, LenProperties DEF HooksRight
  <2>3. DOMAIN Hooked(plan[c].apps) = 1 .. Len(Hooked(plan[c].apps))
    <3>1. plan[c].apps \in Seq(Config)
      BY CallTyped DEF Inv
    <3> QED
      BY <3>1, HookedIs, LenProperties
  <2>4. result[c] = "ok" => AllRan(plan[c], hooks[c]) /\ built[c].settings = c
    BY <2>1 DEF ResultRight
  <2> QED
    BY <2>1, <2>2, <2>3, <2>4 DEF HooksRight, AllRan
<1> QED
  BY <1>1, Invariant, PTL

\* The URL that Reverse makes for a named route, with arguments of the kind its
\* placeholders take, is served by that route or by a more specific one.
THEOREM ReversedIsServed == Spec => []ReverseReaches
<1>1. Inv => ReverseReaches
  <2> SUFFICES ASSUME Inv, NEW c \in DOMAIN plan, result[c] = "ok",
                      NEW i \in DOMAIN built[c].routes,
                      NEW args \in Arguments(built[c].routes[i]),
                      built[c].routes[i].name # << >>
               PROVE  LET routes == built[c].routes
                          got == ReverseURL(routes, routes[i].name, args)
                          method == MethodFor(routes[i])
                      IN  /\ ~ got.err
                          /\ Matches(routes[i], method, got.url)
                          /\ <<method, got.url>> \in Requests =>
                                 \E j \in {k \in DOMAIN routes :
                                               Serves(routes, Requests, k, method, got.url)} :
                                     Taken(routes[j], Requests) \subseteq Taken(routes[i], Requests)
    BY DEF ReverseReaches
  <2>1. built[c].routes = AllRoutes(plan[c]) /\ Valid(plan[c])
    BY DEF Inv, Calls, ResultRight
  <2>2. AllRoutes(plan[c]) \in Seq(RouteSet)
    BY CallTyped, RoutesTyped DEF Inv
  <2>3. NamesOnce(AllRoutes(plan[c])) /\ ~ Rejects(AllRoutes(plan[c]), Requests)
    BY <2>1 DEF Valid, Panics
  <2> QED
    BY <2>1, <2>2, <2>3, Reversed
<1> QED
  BY <1>1, Invariant, PTL

\* The links of a page are those of the engine's own application, or of the latest
\* application returned that has routes.
THEOREM LinksAreOwn == Spec => LinksOwn
<1>1. Inv /\ [Next]_vars =>
          [page' # page =>
              IF page'.own THEN page'.link = page'.of
              ELSE page'.link \in Routed /\ \A c \in Routed : c <= page'.link]_vars
  <2> SUFFICES ASSUME Inv, Next, page' # page
               PROVE  IF page'.own THEN page'.link = page'.of
                      ELSE page'.link \in Routed /\ \A c \in Routed : c <= page'.link
    OBVIOUS
  <2>1. CASE InNew
    BY <2>1, NewAdvances DEF Own
  <2>2. CASE NextCall
    BY <2>2 DEF NextCall
  <2>3. CASE Render
    BY <2>3, RenderLinks
  <2> QED
    BY <2>1, <2>2, <2>3 DEF Next, InNew
<1> QED
  BY <1>1, Invariant, PTL DEF Spec, LinksOwn

=============================================================================
