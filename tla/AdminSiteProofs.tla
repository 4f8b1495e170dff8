--------------------------- MODULE AdminSiteProofs ---------------------------
(***************************************************************************)
(* What the admin's write views promise however their requests interleave, *)
(* for any model, staff, rows and number of requests.                      *)
(***************************************************************************)
EXTENDS AdminSite, FiniteSetTheorems, SequenceTheorems, TLAPS

Picks == INSTANCE LeftFoldProofs WITH Step <- Apply

-----------------------------------------------------------------------------
(* The fields of the form                                                  *)

\* An instance of a module has operators of its own that say the same.
LEMMA SameOrder ==
    /\ \A S : Picks!Cardinality(S) = Cardinality(S)
    /\ \A S : Picks!InOrder(S) = InOrder(S)
<1>1. \A S : Picks!Cardinality(S) = Cardinality(S)
  BY DEF Picks!Cardinality, Cardinality, Picks!IsFiniteSet, IsFiniteSet
<1>2. \A S : Picks!InOrder(S) = InOrder(S)
  BY DEF Picks!InOrder, InOrder, Picks!Cardinality, Cardinality, Picks!IsFiniteSet, IsFiniteSet
<1> QED
  BY <1>1, <1>2

\* What is picked from a list is in it.
LEMMA PickedFrom ==
    ASSUME NEW T, NEW s \in Seq(T), NEW S \in SUBSET (1 .. Len(s))
    PROVE  /\ At(s, S) \in Seq(T)
           /\ \A k \in DOMAIN At(s, S) : \E i \in S : At(s, S)[k] = s[i]
           /\ \A i \in S : \E k \in DOMAIN At(s, S) : At(s, S)[k] = s[i]
<1> DEFINE a == At(s, S)
           c == Cardinality(S)
<1>1. Picks!Lists(a, s, S, c)
  <2>1. Picks!Lists(Picks!At(s, S), s, S, Picks!Cardinality(S))
    BY Picks!AtLists, LenProperties
  <2>2. Picks!At(s, S) = At(s, S) /\ Picks!Cardinality(S) = Cardinality(S)
    BY SameOrder DEF Picks!At, At
  <2> QED
    BY <2>1, <2>2
<1>2. c \in Nat /\ DOMAIN a = 1 .. c
  BY <1>1 DEF Picks!Lists
<1>3. /\ \A k \in 1 .. c : \E i \in S : a[k] = s[i]
      /\ \A i \in S : \E k \in 1 .. c : a[k] = s[i]
  BY <1>1 DEF Picks!Lists
<1>4. \A i \in S : s[i] \in T
  BY ElementOfSeq
<1>5. \A k \in 1 .. c : a[k] \in T
  BY <1>3, <1>4
<1>6. a = [k \in 1 .. c |-> a[k]]
  BY DEF At
<1> HIDE DEF a, c
<1>7. a \in Seq(T)
  BY <1>2, <1>5, <1>6
<1> QED
  BY <1>2, <1>3, <1>7 DEF a

\* The fields of the model have names of their own.
LEMMA NamedOnce ==
    /\ DOMAIN Model = 1 .. Len(Model) /\ Len(Model) \in Nat /\ 1 \in DOMAIN Model
    /\ \A f, g \in Elements(Model) : f.name = g.name => f = g
    /\ \A f \in Elements(Model) : /\ f \in ModelField /\ f.name \in Names
                                  /\ FieldByName(Model, f.name) = f
    /\ \A name \in Names : /\ FieldByName(Model, name) \in Elements(Model)
                           /\ FieldByName(Model, name).name = name
<1>1. DOMAIN Model = 1 .. Len(Model) /\ Len(Model) \in Nat /\ 1 \in DOMAIN Model
  BY ModelAssumption, LenProperties, EmptySeq
<1>2. \A f, g \in Elements(Model) : f.name = g.name => f = g
  BY ModelAssumption DEF Elements
<1>3. \A f \in Elements(Model) : f \in ModelField /\ f.name \in Names
  BY <1>1, ModelAssumption, ElementOfSeq DEF Elements, Names
<1>4. \A name \in Names : \E f \in Elements(Model) : f.name = name
  BY DEF Names
<1>5. \A name \in Names : /\ FieldByName(Model, name) \in Elements(Model)
                          /\ FieldByName(Model, name).name = name
  BY <1>4 DEF FieldByName
<1> QED
  BY <1>1, <1>2, <1>3, <1>5

\* The fields of the form are made of fields of the model, by FormFieldFor.
LEMMA FormFieldsAre ==
    \A i \in DOMAIN EmptyForm :
        \E f \in Elements(Model) :
            HasFormField(f) /\ EmptyForm[i] = Apply(Options, FormFieldFor(f))
<1> DEFINE With == {i \in DOMAIN Model : HasFormField(Model[i])}
           built == At(Model, With)
           order == [i \in DOMAIN built |-> built[i].name]
           Kept == {i \in DOMAIN order : order[i] \notin Excluded}
           some == At(order, Kept)
           Known == {i \in DOMAIN some : some[i] \in Elements(order)}
           names == At(some, Known)
<1>1. EmptyForm =
          [i \in DOMAIN names |-> Apply(Options, FormFieldFor(FieldByName(Model, names[i])))]
  BY DEF EmptyForm, FromModel, IncludedNames, Pick, Options
<1>2. /\ built \in Seq(ModelField)
      /\ \A k \in DOMAIN built : \E i \in With : built[k] = Model[i]
  <2>1. With \in SUBSET (1 .. Len(Model))
    BY NamedOnce
  <2> HIDE DEF With
  <2> QED
    BY <2>1, PickedFrom, ModelAssumption
<1> HIDE DEF built
<1>3. order \in Seq(STRING) /\ DOMAIN order = DOMAIN built
  <2>1. DOMAIN built = 1 .. Len(built) /\ Len(built) \in Nat
    BY <1>2, LenProperties
  <2>2. \A i \in DOMAIN built : built[i] \in ModelField
    BY <1>2, <2>1, ElementOfSeq
  <2>3. \A i \in DOMAIN built : built[i].name \in STRING
    BY <2>2 DEF ModelField
  <2> QED
    BY <2>1, <2>3
<1>4. \A i \in DOMAIN order : order[i] = built[i].name
  OBVIOUS
<1> HIDE DEF order
<1>5. /\ some \in Seq(STRING)
      /\ \A k \in DOMAIN some : \E i \in Kept : some[k] = order[i]
  <2>1. Kept \in SUBSET (1 .. Len(order))
    BY <1>3, LenProperties
  <2> HIDE DEF Kept
  <2> QED
    BY <2>1, <1>3, PickedFrom
<1> HIDE DEF some
<1>6. \A k \in DOMAIN names : \E i \in Known : names[k] = some[i]
  <2>1. Known \in SUBSET (1 .. Len(some))
    BY <1>5, LenProperties
  <2> HIDE DEF Known
  <2> QED
    BY <2>1, <1>5, PickedFrom
<1> HIDE DEF names
<1>7. ASSUME NEW k \in DOMAIN names
      PROVE  \E f \in Elements(Model) : HasFormField(f) /\ names[k] = f.name
  <2>1. PICK i \in Known : names[k] = some[i]
    BY <1>6
  <2>2. PICK j \in Kept : some[i] = order[j]
    BY <1>5
  <2>3. PICK l \in With : built[j] = Model[l]
    BY <1>2, <1>3
  <2>4. names[k] = Model[l].name /\ HasFormField(Model[l]) /\ Model[l] \in Elements(Model)
    BY <2>1, <2>2, <2>3, <1>3, <1>4 DEF Elements
  <2> QED
    BY <2>4
<1> QED
  BY <1>1, <1>7, NamedOnce

\* A form field has its name and, for a foreign key, is a choice of nothing yet.
LEMMA FieldMade ==
    ASSUME NEW f \in ModelField, HasFormField(f)
    PROVE  LET ff == Apply(Options, FormFieldFor(f))
           IN  /\ DOMAIN ff = {"name", "required", "kind", "max", "choices", "widget"}
               /\ ff.name = f.name /\ (f.rel => ff.kind = "Choice" /\ ff.choices = <<>>)
<1> DEFINE made == FormFieldFor(f)
<1>1. /\ DOMAIN made = {"name", "required", "kind", "max", "choices", "widget"}
      /\ made.name = f.name /\ (f.rel => made.kind = "Choice" /\ made.choices = <<>>)
  <2>1. CASE f.rel
    BY <2>1 DEF FormFieldFor, Widget
  <2>2. CASE ~ f.rel /\ f.kind = "Char" /\ f.choices # << >>
    BY <2>2 DEF FormFieldFor
  <2>3. CASE ~ f.rel /\ f.kind = "Char" /\ f.choices = << >>
    BY <2>3 DEF FormFieldFor
  <2>4. CASE ~ f.rel /\ f.kind = "Text"
    BY <2>4 DEF FormFieldFor
  <2>5. CASE ~ f.rel /\ f.kind = "Int"
    BY <2>5 DEF FormFieldFor
  <2>6. CASE ~ f.rel /\ f.kind = "Bool"
    BY <2>6 DEF FormFieldFor
  <2>7. CASE ~ f.rel /\ f.kind = "DateTime"
    BY <2>7 DEF FormFieldFor
  <2> QED
    BY <2>1, <2>2, <2>3, <2>4, <2>5, <2>6, <2>7 DEF ModelField, HasFormField
<1> HIDE DEF made
<1> QED
  BY <1>1 DEF Apply, Options, made

LEMMA OnFormIs ==
    /\ \A name \in OnForm : \E f \in Elements(Model) : f.name = name /\ HasFormField(f)
    /\ OnForm \subseteq Names /\ AutoKey \in Names /\ AutoKey \notin OnForm
    /\ OnForm \cap Autos = {}
<1>1. \A name \in OnForm : \E f \in Elements(Model) : f.name = name /\ HasFormField(f)
  BY FormFieldsAre, FieldMade, NamedOnce DEF OnForm, Elements
<1>2. Model[1] \in Elements(Model) /\ ~ HasFormField(Model[1])
  BY NamedOnce, ModelAssumption DEF Elements, HasFormField
<1>3. OnForm \subseteq Names /\ AutoKey \in Names
  BY <1>1, <1>2, NamedOnce DEF AutoKey
<1>4. AutoKey \notin OnForm
  BY <1>1, <1>2, NamedOnce DEF AutoKey
<1>5. OnForm \cap Autos = {}
  BY <1>1, NamedOnce DEF HasFormField, Autos
<1> QED
  BY <1>1, <1>3, <1>4, <1>5

\* The form that a request makes: the fields on it, with the rows of the related
\* table as the choices of a foreign key, or none if they could not be loaded.
LEMMA FormMade ==
    ASSUME NEW failed
    PROVE  LET form == FormFor(failed)
           IN  /\ {ff.name : ff \in Elements(form)} = OnForm
               /\ \A ff \in Elements(form) : ff.name \in Related =>
                      ff.kind = "Choice" /\ ff.choices \in {<<>>, <<Blank>> \o owners}
<1> DEFINE form == FormFor(failed)
<1>1. \A i \in DOMAIN EmptyForm : \E f \in Elements(Model) :
          HasFormField(f) /\ EmptyForm[i] = Apply(Options, FormFieldFor(f))
  BY FormFieldsAre
<1>2. OnForm = {EmptyForm[i].name : i \in DOMAIN EmptyForm}
  BY DEF OnForm, Elements
<1>3. /\ DOMAIN form = DOMAIN EmptyForm
      /\ \A i \in DOMAIN EmptyForm :
             form[i] = IF EmptyForm[i].name \in Related \ failed
                       THEN WithChoices(EmptyForm[i], owners) ELSE EmptyForm[i]
  BY DEF FormFor
<1> HIDE DEF form
<1>4. ASSUME NEW i \in DOMAIN EmptyForm
      PROVE  /\ form[i].name = EmptyForm[i].name
             /\ EmptyForm[i].name \in Related =>
                    form[i].kind = "Choice" /\ form[i].choices \in {<<>>, <<Blank>> \o owners}
  <2> DEFINE ff == EmptyForm[i]
  <2>1. PICK f \in Elements(Model) : HasFormField(f) /\ ff = Apply(Options, FormFieldFor(f))
    BY <1>1
  <2>2. /\ DOMAIN ff = {"name", "required", "kind", "max", "choices", "widget"}
        /\ ff.name = f.name /\ (f.rel => ff.kind = "Choice" /\ ff.choices = <<>>)
    BY <2>1, FieldMade, NamedOnce
  <2>3. ff.name \in Related => ff.kind = "Choice" /\ ff.choices = <<>>
    BY <2>2, NamedOnce DEF Related
  <2>4. form[i] = IF ff.name \in Related \ failed THEN WithChoices(ff, owners) ELSE ff
    BY <1>3
  <2> HIDE DEF ff
  <2>5. CASE ff.name \in Related \ failed
    <3>1. form[i] = WithChoices(ff, owners)
      BY <2>4, <2>5
    <3>2. /\ form[i].name = ff.name /\ form[i].kind = ff.kind
          /\ form[i].choices = <<Blank>> \o owners
      BY <2>2, <3>1 DEF WithChoices
    <3> QED
      BY <2>3, <3>2 DEF ff
  <2>6. CASE ff.name \notin Related \ failed
    <3>1. form[i] = ff
      BY <2>4, <2>6
    <3> QED
      BY <2>3, <3>1 DEF ff
  <2> QED
    BY <2>5, <2>6
<1>5. Elements(form) = {form[i] : i \in DOMAIN EmptyForm}
  BY <1>3 DEF Elements
<1>6. {ff.name : ff \in Elements(form)} = OnForm
  <2>1. {ff.name : ff \in {form[i] : i \in DOMAIN EmptyForm}} = {form[i].name : i \in DOMAIN EmptyForm}
    OBVIOUS
  <2>2. {form[i].name : i \in DOMAIN EmptyForm} = {EmptyForm[i].name : i \in DOMAIN EmptyForm}
    BY <1>4
  <2> QED
    BY <1>2, <1>5, <2>1, <2>2
<1> QED
  BY <1>4, <1>5, <1>6 DEF form

-----------------------------------------------------------------------------
(* The values of the form                                                  *)

\* A clean value of a foreign key is one that the form offers, or none.
LEMMA CleanedAre ==
    ASSUME NEW data, NEW failed, owners \in Seq(STRING)
    PROVE  LET all == CleanedAll(FormFor(failed), data)
           IN  /\ DOMAIN all = OnForm
               /\ \A name \in Related :
                      all[name].type # "error" => all[name].is \in {Blank} \cup Elements(owners)
<1> DEFINE form == FormFor(failed)
           Field(name) == CHOOSE ff \in Elements(form) : ff.name = name
           all == CleanedAll(form, data)
<1>1. /\ DOMAIN all = OnForm
      /\ \A name \in OnForm : all[name] = Clean(Field(name), RawValue(Field(name), data))
  BY FormMade DEF CleanedAll
<1>2. \A name \in OnForm : Field(name) \in Elements(form) /\ Field(name).name = name
  <2>1. \A name \in OnForm : \E ff \in Elements(form) : ff.name = name
    BY FormMade
  <2> QED
    BY <2>1
<1>3. Elements(<<Blank>> \o owners) = {Blank} \cup Elements(owners)
  <2> DEFINE offered == <<Blank>> \o owners
  <2>0. /\ <<Blank>> \in Seq({Blank} \cup STRING) /\ Len(<<Blank>>) = 1 /\ <<Blank>>[1] = Blank
        /\ owners \in Seq({Blank} \cup STRING)
    OBVIOUS
  <2>1. /\ offered \in Seq({Blank} \cup STRING) /\ Len(offered) = 1 + Len(owners)
        /\ \A i \in 1 .. 1 + Len(owners) : offered[i] = IF i <= 1 THEN Blank ELSE owners[i - 1]
    BY <2>0, ConcatProperties
  <2>2. Len(owners) \in Nat /\ DOMAIN owners = 1 .. Len(owners)
    BY LenProperties
  <2> HIDE DEF offered
  <2>3. DOMAIN offered = 1 .. 1 + Len(owners)
    BY <2>1, LenProperties
  <2>4. ASSUME NEW i \in 1 .. 1 + Len(owners)
        PROVE  offered[i] \in {Blank} \cup Elements(owners)
    <3>1. i <= 1 \/ i - 1 \in DOMAIN owners
      BY <2>2
    <3> QED
      BY <2>1, <3>1 DEF Elements
  <2>5. 1 \in 1 .. 1 + Len(owners) /\ offered[1] = Blank
    BY <2>1, <2>2
  <2>6. ASSUME NEW i \in DOMAIN owners
        PROVE  \E j \in 1 .. 1 + Len(owners) : offered[j] = owners[i]
    <3>1. i + 1 \in 1 .. 1 + Len(owners) /\ ~ (i + 1 <= 1) /\ (i + 1) - 1 = i
      BY <2>2
    <3>2. offered[i + 1] = owners[i]
      BY <2>1, <3>1
    <3> QED
      BY <3>1, <3>2
  <2>7. Elements(offered) = {Blank} \cup Elements(owners)
    BY <2>3, <2>4, <2>5, <2>6 DEF Elements
  <2> QED
    BY <2>7 DEF offered
<1>4. \A ff \in Elements(form) : ff.name \in Related =>
          ff.kind = "Choice" /\ ff.choices \in {<<>>, <<Blank>> \o owners}
  BY FormMade
<1> HIDE DEF Field, all, form
<1>5. ASSUME NEW name \in Related, all[name].type # "error"
      PROVE  all[name].is \in {Blank} \cup Elements(owners)
  <2> DEFINE ff == Field(name)
             value == TrimSpace(RawValue(ff, data))
  <2>1. ff.kind = "Choice" /\ ff.choices \in {<<>>, <<Blank>> \o owners}
    BY <1>2, <1>4 DEF Related
  <2>2. Elements(ff.choices) \subseteq {Blank} \cup Elements(owners)
    <3>1. Elements(<<>>) = {}
      BY DEF Elements
    <3> HIDE DEF ff
    <3> QED
      BY <1>3, <2>1, <3>1
  <2>3. all[name] = Clean(ff, RawValue(ff, data))
    BY <1>1 DEF Related
  <2> HIDE DEF ff
  <2>4. all[name] = IF value = Blank THEN IF ff.required THEN Invalid("required") ELSE Text(Blank)
                    ELSE IF value \notin Elements(ff.choices) THEN Invalid("format")
                    ELSE Text(value)
    BY <2>1, <2>3 DEF Clean
  <2> HIDE DEF value
  <2>5. CASE value = Blank
    BY <1>5, <2>4, <2>5 DEF Invalid, Text, Value
  <2>6. CASE value # Blank /\ value \notin Elements(ff.choices)
    BY <1>5, <2>4, <2>6 DEF Invalid, Value
  <2>7. CASE value # Blank /\ value \in Elements(ff.choices)
    BY <2>2, <2>4, <2>7 DEF Text, Value
  <2> QED
    BY <2>5, <2>6, <2>7
<1> QED
  BY <1>1, <1>5 DEF all, form

\* A value that can be assigned to a field has the field's type.
LEMMA AssignedTyped ==
    ASSUME NEW f, NEW v, Assigned(f, v).type \notin {"error", "panic"}
    PROVE  Assigned(f, v).type = GoType(f)
<1>1. CASE f.rel
  BY <1>1 DEF Assigned, FkPK, GoType, Value, Invalid
<1>2. CASE ~ f.rel
  <2>1. Assigned(f, v) = SetScalar(GoType(f), v)
    BY <1>2 DEF Assigned
  <2>2. SetScalar(GoType(f), v).type \in {GoType(f), "error", "panic"}
    BY DEF SetScalar, Value, Invalid
  <2> QED
    BY <2>1, <2>2
<1> QED
  BY <1>1, <1>2

\* The key that a choice stands for is that of a related row, or none.
LEMMA AssignedChosen ==
    ASSUME NEW f, f.rel, NEW v, v.is \in {Blank} \cup Elements(owners),
           Elements(owners) \subseteq Elements(Owners), Assigned(f, v).type # "error"
    PROVE  Assigned(f, v).is \in {"0"} \cup Elements(owners)
  BY RowsAssumption DEF Assigned, FkPK, Value, Invalid

\* What the fields of the form become when a submission is stored.
Becomes(cleaned) == [name \in OnForm |-> Assigned(FieldByName(Model, name), cleaned[name])]

\* PopulateStruct sets the fields of the form, each to a value of its type, and no other.
LEMMA Populated ==
    ASSUME NEW cleaned, DOMAIN cleaned = OnForm, NEW obj, DOMAIN obj = Names,
           PopulateStruct(Model, cleaned, obj).outcome = "ok"
    PROVE  /\ PopulateStruct(Model, cleaned, obj).obj =
                  [name \in Names |-> IF name \in OnForm THEN Becomes(cleaned)[name] ELSE obj[name]]
           /\ \A f \in Elements(Model) : f.name \in OnForm =>
                  Becomes(cleaned)[f.name].type = GoType(f)
<1> DEFINE into == {i \in DOMAIN Model : Model[i].name \in DOMAIN cleaned}
           new(i) == Assigned(Model[i], cleaned[Model[i].name])
           bad == {i \in into : new(i).type \in {"error", "panic"}}
           done == {i \in into : \A j \in bad : i < j}
           first == CHOOSE i \in bad : \A j \in bad : i <= j
           filled == PopulateStruct(Model, cleaned, obj)
<1>1. /\ filled.outcome = IF bad = {} THEN "ok" ELSE new(first).type
      /\ filled.obj = [name \in DOMAIN obj |->
                          IF \E i \in done : Model[i].name = name
                          THEN new(CHOOSE i \in done : Model[i].name = name) ELSE obj[name]]
  BY DEF PopulateStruct
<1>2. bad = {}
  <2> SUFFICES ASSUME bad # {} PROVE FALSE
    OBVIOUS
  <2>1. bad \subseteq Nat
    BY NamedOnce
  <2>2. \A i \in bad : new(i).type \in {"error", "panic"}
    OBVIOUS
  <2>3. filled.outcome = new(first).type
    BY <1>1
  <2> HIDE DEF bad, new, filled
  <2>4. \E i \in bad : \A j \in bad : i <= j
    BY <2>1, Picks!Smallest
  <2>5. first \in bad
    BY <2>4
  <2> QED
    BY <2>2, <2>3, <2>5 DEF filled
<1>3. \A i \in into : new(i).type \notin {"error", "panic"}
  BY <1>2
<1>4. done = into
  BY <1>2
<1>5. \A name \in OnForm : FieldByName(Model, name) \in Elements(Model)
                           /\ FieldByName(Model, name).name = name
  BY NamedOnce, OnFormIs
<1>6. \A i \in into : Model[i] = FieldByName(Model, Model[i].name)
  BY NamedOnce DEF Elements
<1>7. \A name \in OnForm : \E i \in into : Model[i].name = name
  BY <1>5 DEF Elements
<1>8. \A i \in into : Model[i].name \in OnForm /\ new(i) = Becomes(cleaned)[Model[i].name]
  BY <1>6 DEF Becomes
<1> HIDE DEF into, bad, done, new, first, filled
<1>9. ASSUME NEW name \in Names
      PROVE  filled.obj[name] = IF name \in OnForm THEN Becomes(cleaned)[name] ELSE obj[name]
  <2>1. CASE name \in OnForm
    <3>1. /\ (CHOOSE i \in into : Model[i].name = name) \in into
          /\ Model[CHOOSE i \in into : Model[i].name = name].name = name
      BY <1>7, <2>1
    <3>2. filled.obj[name] = new(CHOOSE i \in into : Model[i].name = name)
      BY <1>1, <1>4, <1>7, <2>1
    <3> QED
      BY <1>8, <2>1, <3>1, <3>2
  <2>2. CASE name \notin OnForm
    BY <1>1, <1>4, <1>8, <2>2
  <2> QED
    BY <2>1, <2>2
<1>10. filled.obj = [name \in Names |-> IF name \in OnForm THEN Becomes(cleaned)[name] ELSE obj[name]]
  BY <1>1, <1>9
<1>11. ASSUME NEW f \in Elements(Model), f.name \in OnForm
       PROVE  Becomes(cleaned)[f.name].type = GoType(f)
  <2>1. PICK i \in into : Model[i].name = f.name
    BY <1>7, <1>11
  <2>2. Model[i] = f /\ Becomes(cleaned)[f.name] = new(i)
    BY <1>6, <1>8, <1>11, <2>1, NamedOnce
  <2>3. new(i).type \notin {"error", "panic"}
    BY <1>3
  <2> QED
    BY <2>2, <2>3, AssignedTyped DEF new
<1> QED
  BY <1>10, <1>11 DEF filled

-----------------------------------------------------------------------------
(* The invariant                                                           *)

\* A request takes the steps of its view.
InStep(r) ==
    /\ DOMAIN r = {"at", "view", "pk", "data", "cleaned", "obj"}
    /\ \/ r.at = "idle"
       \/ r.at = "choices" /\ r.view \in {"add form", "change form", "add", "change"}
       \/ r.at = "get" /\ r.view \in {"delete form", "change form", "change"}
       \/ r.at = "write" /\ r.view \in {"add", "change"}
       \/ r.at = "delete"

\* It holds what one valid submission of those in S makes of the form's fields: the
\* cleaned values until the row is read, and the struct from then on.  Create will fill
\* in the defaults, which S has already.
HoldsOne(r, S) ==
    /\ r.at = "get" /\ r.view = "change" => DOMAIN r.cleaned = OnForm /\ Becomes(r.cleaned) \in S
    /\ r.at = "write" => /\ IsStruct(r.obj)
                         /\ r.view = "add" => Defaulted(FormPart(r.obj)) \in S
                         /\ r.view = "change" => FormPart(r.obj) \in S

\* A foreign key on the form was offered to the request, so that it is not in G, the ids
\* that were gone when the request began.
Refers(r, G) ==
    /\ r.at = "get" /\ r.view = "change" =>
           \A name \in Related : \/ Becomes(r.cleaned)[name].type = "error"
                                \/ Becomes(r.cleaned)[name].is \notin G
    /\ r.at = "write" => \A name \in Related : r.obj[name].is \notin G

Lost(ids) == Elements(Owners) \ Elements(ids)

\* A row of the table.
IsRow(pk, obj) == IsStruct(obj) /\ obj[AutoKey].is = ToString(pk)

Stored ==
    /\ touches \in 0 .. MaxTouches
    /\ DOMAIN table \subseteq used /\ used \subseteq Elements(Keys)
    /\ \A pk \in DOMAIN table : IsRow(pk, table[pk])
    /\ owners \in Seq(STRING) /\ Elements(owners) \subseteq Elements(Owners)

Requests ==
    /\ DOMAIN req = Staff /\ DOMAIN gone = Staff
    /\ \A s \in Staff : InStep(req[s])

OneSubmission == NoMixedSubmission /\ \A s \in Staff : HoldsOne(req[s], accepted)

References == \A s \in Staff : gone[s] \subseteq Lost(owners) /\ Refers(req[s], gone[s])

Inv == Stored /\ Requests /\ OneSubmission /\ References

\* What was accepted stays accepted.
LEMMA Kept == \A r, S, T : HoldsOne(r, S) /\ S \subseteq T => HoldsOne(r, T)
  BY DEF HoldsOne

\* A request that is over, or that has only begun, holds nothing.
LEMMA HoldsNothing ==
    ASSUME NEW r, r.at \in {"idle", "choices", "delete"} \/ (r.at = "get" /\ r.view # "change")
    PROVE  /\ \A S : HoldsOne(r, S)
           /\ \A G : Refers(r, G)
  BY DEF HoldsOne, Refers

LEMMA IdleRequest == InStep(Idle) /\ Idle.at = "idle"
  BY DEF InStep, Idle

-----------------------------------------------------------------------------
(* The structs that requests and the site's own code make                  *)

LEMMA RelatedAre ==
    /\ Related \subseteq OnForm
    /\ \A name \in Related : /\ FieldByName(Model, name) \in Elements(Model)
                             /\ FieldByName(Model, name).rel
                             /\ GoType(FieldByName(Model, name)) = "ForeignKey"
<1>1. Related \subseteq OnForm /\ \A name \in Related : FieldByName(Model, name).rel
  BY DEF Related
<1>2. \A name \in Related : FieldByName(Model, name) \in Elements(Model)
  BY <1>1, NamedOnce, OnFormIs
<1> QED
  BY <1>1, <1>2 DEF GoType

\* Two structs that agree on the form's fields have one form part.
LEMMA SamePart ==
    ASSUME NEW a, NEW b, \A name \in OnForm : a[name] = b[name]
    PROVE  FormPart(a) = FormPart(b)
  BY DEF FormPart

\* A stamp leaves the fields of the form and the key alone.
LEMMA StampedIs ==
    ASSUME NEW obj, IsStruct(obj), NEW stamps \in SUBSET Autos
    PROVE  /\ IsStruct(Stamped(obj, stamps))
           /\ \A name \in OnForm \cup {AutoKey} : Stamped(obj, stamps)[name] = obj[name]
<1>1. /\ DOMAIN Stamped(obj, stamps) = Names
      /\ \A name \in Names : Stamped(obj, stamps)[name] =
             IF name \in stamps THEN Value("time.Time", "now") ELSE obj[name]
  BY DEF Stamped, IsStruct
<1>2. \A f \in Elements(Model) : f.name \in Autos => ~ f.rel /\ f.kind = "DateTime"
  BY NamedOnce, ModelAssumption DEF Autos
<1>3. AutoKey \notin Autos
  <2>1. Model[1] \in Elements(Model) /\ Model[1].kind = "Auto"
    BY NamedOnce, ModelAssumption DEF Elements
  <2> QED
    BY <1>2, <2>1 DEF AutoKey
<1>4. \A name \in OnForm \cup {AutoKey} : Stamped(obj, stamps)[name] = obj[name]
  BY <1>1, <1>3, OnFormIs
<1>5. ASSUME NEW f \in Elements(Model)
      PROVE  Stamped(obj, stamps)[f.name].type = GoType(f)
  <2>1. CASE f.name \in stamps
    <3>1. GoType(f) = "time.Time"
      BY <1>2, <2>1 DEF GoType
    <3>2. Stamped(obj, stamps)[f.name] = Value("time.Time", "now")
      BY <1>1, <2>1, NamedOnce
    <3> QED
      BY <3>1, <3>2 DEF Value
  <2>2. CASE f.name \notin stamps
    BY <1>1, <2>2, NamedOnce DEF IsStruct
  <2> QED
    BY <2>1, <2>2
<1> QED
  BY <1>1, <1>4, <1>5 DEF IsStruct

\* A default has the type of its field, and a field of the form takes its default from
\* the field alone.
LEMMA DefaultedIs ==
    ASSUME NEW obj, IsStruct(obj)
    PROVE  /\ IsStruct(Defaulted(obj)) /\ Defaulted(obj)[AutoKey] = obj[AutoKey]
           /\ FormPart(Defaulted(obj)) = Defaulted(FormPart(obj))
           /\ \A name \in Related : Defaulted(obj)[name] = obj[name]
<1>1. /\ DOMAIN Defaulted(obj) = Names
      /\ \A name \in Names : Defaulted(obj)[name] =
             IF name \in DOMAIN Defaults /\ obj[name] = newPtr[name] THEN Defaults[name] ELSE obj[name]
  BY DEF Defaulted, IsStruct
<1>2. AutoKey \notin DOMAIN Defaults
  <2>1. Model[1] \in Elements(Model) /\ Model[1].kind = "Auto"
    BY NamedOnce, ModelAssumption DEF Elements
  <2> QED
    BY <2>1, ModelAssumption DEF AutoKey
<1>3. ASSUME NEW name \in Related
      PROVE  name \in Names /\ name \notin DOMAIN Defaults
  <2>1. FieldByName(Model, name).name = name /\ name \in Names
    BY NamedOnce, OnFormIs, RelatedAre
  <2> QED
    BY <2>1, RelatedAre, ModelAssumption
<1>4. Defaulted(obj)[AutoKey] = obj[AutoKey] /\ \A name \in Related : Defaulted(obj)[name] = obj[name]
  BY <1>1, <1>2, <1>3, OnFormIs
<1>5. IsStruct(Defaulted(obj))
  <2>1. ASSUME NEW f \in Elements(Model)
        PROVE  Defaulted(obj)[f.name].type = GoType(f)
    <3>1. CASE f.name \in DOMAIN Defaults /\ obj[f.name] = newPtr[f.name]
      BY <1>1, <3>1, NamedOnce, ModelAssumption
    <3>2. CASE ~ (f.name \in DOMAIN Defaults /\ obj[f.name] = newPtr[f.name])
      BY <1>1, <3>2, NamedOnce DEF IsStruct
    <3> QED
      BY <3>1, <3>2
  <2> QED
    BY <1>1, <2>1 DEF IsStruct
<1>6. FormPart(Defaulted(obj)) = Defaulted(FormPart(obj))
  <2>1. /\ FormPart(Defaulted(obj)) = [name \in OnForm |-> Defaulted(obj)[name]]
        /\ FormPart(obj) = [name \in OnForm |-> obj[name]]
    BY DEF FormPart
  <2>2. Defaulted(FormPart(obj)) = [name \in OnForm |->
            IF name \in DOMAIN Defaults /\ FormPart(obj)[name] = newPtr[name]
            THEN Defaults[name] ELSE FormPart(obj)[name]]
    BY <2>1 DEF Defaulted
  <2>3. \A name \in OnForm : Defaulted(obj)[name] =
            IF name \in DOMAIN Defaults /\ FormPart(obj)[name] = newPtr[name]
            THEN Defaults[name] ELSE FormPart(obj)[name]
    BY <1>1, <2>1, OnFormIs
  <2> QED
    BY <2>1, <2>2, <2>3
<1> QED
  BY <1>4, <1>5, <1>6

\* The site's own updates leave them alone too.
LEMMA CountingIs ==
    ASSUME NEW obj, IsStruct(obj)
    PROVE  /\ IsStruct(Counting(obj))
           /\ \A name \in OnForm \cup {AutoKey} : Counting(obj)[name] = obj[name]
<1> DEFINE counted == [name \in Names |-> IF name \in Counted
                                          THEN Value(obj[name].type, Counts[obj[name].is]) ELSE obj[name]]
<1>1. /\ DOMAIN counted = Names
      /\ \A name \in Names : counted[name].type = obj[name].type
      /\ \A name \in OnForm \cup {AutoKey} : counted[name] = obj[name]
  <2>1. \A name \in Names : counted[name].type = obj[name].type
    BY DEF Value
  <2>2. \A name \in OnForm \cup {AutoKey} : counted[name] = obj[name]
    BY OnFormIs, CountedAssumption
  <2> QED
    BY <2>1, <2>2
<1>2. Counting(obj) = Stamped(counted, Stamp)
  BY DEF Counting
<1> HIDE DEF counted
<1>3. IsStruct(counted)
  BY <1>1, NamedOnce DEF IsStruct
<1>4. Stamp \in SUBSET Autos
  BY ModelAssumption
<1> QED
  BY <1>1, <1>2, <1>3, <1>4, StampedIs

-----------------------------------------------------------------------------
(* The steps                                                               *)

\* A step of one request that leaves the rows alone.
LEMMA GoesOn ==
    ASSUME Inv, NEW s \in Staff, UNCHANGED <<table, owners, used, touches>>,
           DOMAIN req' = Staff, \A t \in Staff \ {s} : req'[t] = req[t],
           DOMAIN gone' = Staff, \A t \in Staff \ {s} : gone'[t] = gone[t],
           gone'[s] \subseteq Lost(owners), accepted \subseteq accepted',
           InStep(req'[s]), HoldsOne(req'[s], accepted'), Refers(req'[s], gone'[s])
    PROVE  Inv'
<1>1. Stored'
  BY DEF Inv, Stored, IsRow
<1>2. Requests'
  BY DEF Inv, Requests
<1>3. OneSubmission'
  <2>1. NoMixedSubmission'
    BY DEF Inv, OneSubmission, NoMixedSubmission
  <2>2. \A t \in Staff : HoldsOne(req'[t], accepted')
    BY Kept DEF Inv, OneSubmission
  <2> QED
    BY <2>1, <2>2 DEF OneSubmission
<1>4. References'
  BY DEF Inv, References, Lost
<1> QED
  BY <1>1, <1>2, <1>3, <1>4 DEF Inv

LEMMA SendStep ==
    ASSUME Inv, NEW s \in Staff, NEW r, Send(s, r), InStep(r),
           r.at \in {"choices", "delete"} \/ (r.at = "get" /\ r.view # "change")
    PROVE  Inv'
<1>1. /\ DOMAIN req' = Staff /\ req'[s] = r /\ \A t \in Staff \ {s} : req'[t] = req[t]
      /\ DOMAIN gone' = Staff /\ gone'[s] = Lost(owners) /\ \A t \in Staff \ {s} : gone'[t] = gone[t]
  BY DEF Send, Inv, Requests, Lost
<1>2. UNCHANGED <<table, owners, used, touches, accepted>>
  BY DEF Send
<1>3. /\ HoldsOne(req'[s], accepted')
      /\ Refers(req'[s], gone'[s])
  BY <1>1, HoldsNothing
<1> QED
  BY <1>1, <1>2, <1>3, GoesOn

LEMMA VisitStep ==
    ASSUME Inv, NEW s \in Staff, Visit(s)
    PROVE  Inv'
<1>1. CASE Send(s, [Idle EXCEPT !.at = "choices", !.view = "add form"])
  <2> DEFINE r == [Idle EXCEPT !.at = "choices", !.view = "add form"]
  <2>1. InStep(r) /\ r.at = "choices"
    BY DEF InStep, Idle
  <2> HIDE DEF r
  <2> QED
    BY <1>1, <2>1, SendStep DEF r
<1>2. ASSUME NEW pk \in used, NEW view \in {"change form", "delete form"},
             Send(s, [Idle EXCEPT !.at = "get", !.view = view, !.pk = pk])
      PROVE  Inv'
  <2> DEFINE r == [Idle EXCEPT !.at = "get", !.view = view, !.pk = pk]
  <2>1. InStep(r) /\ r.at = "get" /\ r.view # "change"
    BY DEF InStep, Idle
  <2>2. Send(s, r)
    BY <1>2
  <2> HIDE DEF r
  <2> QED
    BY <2>1, <2>2, SendStep
<1> QED
  BY <1>1, <1>2 DEF Visit

LEMMA SubmitStep ==
    ASSUME Inv, NEW s \in Staff, Submit(s)
    PROVE  Inv'
<1>1. CASE page[s].view \in {"add", "change"}
           /\ Send(s, [Idle EXCEPT !.at = "choices", !.view = page[s].view, !.pk = page[s].pk,
                                   !.data = Submission(page[s].controls)])
  <2> DEFINE r == [Idle EXCEPT !.at = "choices", !.view = page[s].view, !.pk = page[s].pk,
                               !.data = Submission(page[s].controls)]
  <2>1. InStep(r) /\ r.at = "choices"
    BY <1>1 DEF InStep, Idle
  <2>2. Send(s, r)
    BY <1>1
  <2> HIDE DEF r
  <2> QED
    BY <2>1, <2>2, SendStep
<1>2. CASE Send(s, [Idle EXCEPT !.at = "delete", !.view = "delete", !.pk = page[s].pk])
  <2> DEFINE r == [Idle EXCEPT !.at = "delete", !.view = "delete", !.pk = page[s].pk]
  <2>1. InStep(r) /\ r.at = "delete"
    BY DEF InStep, Idle
  <2>2. Send(s, r)
    BY <1>2
  <2> HIDE DEF r
  <2> QED
    BY <2>1, <2>2, SendStep
<1> QED
  BY <1>1, <1>2 DEF Submit

\* What the browser shows is nothing that the invariant speaks of.
LEMMA NothingChanges ==
    ASSUME Inv, UNCHANGED <<table, owners, req, touches, used, accepted, gone>>
    PROVE  Inv'
<1>1. Stored' /\ Requests'
  BY DEF Inv, Stored, Requests, IsRow
<1>2. OneSubmission'
  BY DEF Inv, OneSubmission, NoMixedSubmission
<1>3. References'
  BY DEF Inv, References, Lost
<1> QED
  BY <1>1, <1>2, <1>3 DEF Inv

\* The answer to a request ends it.
LEMMA Answered ==
    ASSUME Inv, NEW s \in Staff, NEW shown, Answer(s, shown),
           UNCHANGED <<table, owners, used, touches, gone>>, accepted \subseteq accepted'
    PROVE  Inv'
<1>1. DOMAIN req' = Staff /\ req'[s] = Idle /\ \A t \in Staff \ {s} : req'[t] = req[t]
  BY DEF Answer, Inv, Requests
<1>2. DOMAIN gone' = Staff /\ gone' = gone /\ gone'[s] \subseteq Lost(owners)
  BY DEF Inv, Requests, References
<1>3. /\ InStep(req'[s]) /\ HoldsOne(req'[s], accepted')
      /\ Refers(req'[s], gone'[s])
  BY <1>1, IdleRequest, HoldsNothing
<1> QED
  BY <1>1, <1>2, <1>3, GoesOn

\* The struct that a valid submission makes of another.
LEMMA Filled ==
    ASSUME NEW cleaned, DOMAIN cleaned = OnForm, NEW obj, IsStruct(obj),
           PopulateStruct(Model, cleaned, obj).outcome = "ok"
    PROVE  LET new == PopulateStruct(Model, cleaned, obj).obj
           IN  /\ IsStruct(new) /\ FormPart(new) = Becomes(cleaned)
               /\ \A name \in Related : new[name] = Becomes(cleaned)[name]
                                       /\ new[name].type = "ForeignKey"
<1> DEFINE new == PopulateStruct(Model, cleaned, obj).obj
<1>1. /\ new = [name \in Names |-> IF name \in OnForm THEN Becomes(cleaned)[name] ELSE obj[name]]
      /\ \A f \in Elements(Model) : f.name \in OnForm => Becomes(cleaned)[f.name].type = GoType(f)
  BY Populated DEF IsStruct
<1> HIDE DEF new
<1>2. IsStruct(new)
  <2>1. \A f \in Elements(Model) : new[f.name].type = GoType(f)
    BY <1>1, NamedOnce DEF IsStruct
  <2> QED
    BY <1>1, <2>1 DEF IsStruct
<1>3. FormPart(new) = Becomes(cleaned)
  <2>1. \A name \in OnForm : new[name] = Becomes(cleaned)[name]
    BY <1>1, OnFormIs
  <2>2. Becomes(cleaned) = [name \in OnForm |-> Becomes(cleaned)[name]]
    BY DEF Becomes
  <2> QED
    BY <2>1, <2>2 DEF FormPart
<1>4. ASSUME NEW name \in Related
      PROVE  new[name] = Becomes(cleaned)[name] /\ new[name].type = "ForeignKey"
  <2>1. name \in OnForm /\ name \in Names /\ FieldByName(Model, name).name = name
    BY NamedOnce, OnFormIs, RelatedAre
  <2> QED
    BY <1>1, <2>1, RelatedAre
<1> QED
  BY <1>2, <1>3, <1>4 DEF new

LEMMA GetStep ==
    ASSUME Inv, NEW s \in Staff, Get(s)
    PROVE  Inv'
<1> DEFINE r == req[s]
<1>1. /\ r.at = "get" /\ r.view \in {"delete form", "change form", "change"}
      /\ DOMAIN r = {"at", "view", "pk", "data", "cleaned", "obj"} /\ DOMAIN req = Staff
  BY DEF Get, Inv, Requests, InStep
<1>2. UNCHANGED <<table, owners, sent, touches, used, accepted, gone>>
  BY DEF Get
<1>3. CASE \E shown : Answer(s, shown)
  BY <1>2, <1>3, Answered
<1>4. CASE r.pk \in DOMAIN table /\ r.view = "change form"
           /\ req' = [req EXCEPT ![s].obj = table[r.pk], ![s].at = "choices"]
  <2>1. /\ DOMAIN req' = Staff /\ \A t \in Staff \ {s} : req'[t] = req[t]
        /\ DOMAIN req'[s] = DOMAIN r /\ req'[s].at = "choices" /\ req'[s].view = "change form"
    BY <1>1, <1>4
  <2>2. /\ InStep(req'[s]) /\ HoldsOne(req'[s], accepted')
        /\ Refers(req'[s], gone'[s])
    BY <1>1, <2>1, HoldsNothing DEF InStep
  <2>3. DOMAIN gone' = Staff /\ gone' = gone /\ gone'[s] \subseteq Lost(owners)
    BY <1>2 DEF Inv, Requests, References
  <2> QED
    BY <1>2, <2>1, <2>2, <2>3, GoesOn
<1>5. ASSUME r.pk \in DOMAIN table, r.view = "change",
             PopulateStruct(Model, r.cleaned, table[r.pk]).outcome = "ok",
             req' = [req EXCEPT ![s].obj = PopulateStruct(Model, r.cleaned, table[r.pk]).obj,
                                ![s].at = "write"]
      PROVE  Inv'
  <2> DEFINE new == PopulateStruct(Model, r.cleaned, table[r.pk]).obj
  <2>1. /\ DOMAIN req' = Staff /\ \A t \in Staff \ {s} : req'[t] = req[t]
        /\ DOMAIN req'[s] = DOMAIN r /\ req'[s].at = "write" /\ req'[s].view = "change"
        /\ req'[s].pk = r.pk /\ req'[s].obj = new
    BY <1>1, <1>5
  <2>2. /\ DOMAIN r.cleaned = OnForm /\ Becomes(r.cleaned) \in accepted
        /\ IsStruct(table[r.pk])
        /\ \A name \in Related :
               Becomes(r.cleaned)[name].type = "error" \/ Becomes(r.cleaned)[name].is \notin gone[s]
    BY <1>1, <1>5 DEF Inv, Stored, IsRow, OneSubmission, HoldsOne, References, Refers
  <2>3. /\ IsStruct(new) /\ FormPart(new) = Becomes(r.cleaned)
        /\ \A name \in Related : new[name] = Becomes(r.cleaned)[name]
                                /\ new[name].type = "ForeignKey"
    BY <1>5, <2>2, Filled
  <2> HIDE DEF new, r
  <2>4. InStep(req'[s])
    BY <1>1, <2>1 DEF InStep
  <2>5. HoldsOne(req'[s], accepted')
    BY <1>2, <2>1, <2>2, <2>3 DEF HoldsOne
  <2>6. Refers(req'[s], gone'[s])
    BY <1>2, <2>1, <2>2, <2>3 DEF Refers
  <2>7. DOMAIN gone' = Staff /\ gone' = gone /\ gone'[s] \subseteq Lost(owners)
    BY <1>2 DEF Inv, Requests, References
  <2> QED
    BY <1>2, <2>1, <2>4, <2>5, <2>6, <2>7, GoesOn
<1>6. CASE r.pk \notin DOMAIN table
  BY <1>3, <1>6 DEF Get
<1>7. CASE r.pk \in DOMAIN table /\ r.view = "delete form"
  BY <1>3, <1>7 DEF Get
<1>8. CASE r.pk \in DOMAIN table /\ r.view = "change form"
  BY <1>4, <1>8 DEF Get
<1>9. CASE r.pk \in DOMAIN table /\ r.view = "change"
  BY <1>3, <1>5, <1>9 DEF Get
<1> QED
  BY <1>1, <1>6, <1>7, <1>8, <1>9

\* A foreign key of a valid submission is none of the ids that were lost.
LEMMA ChosenHere ==
    ASSUME NEW data, NEW failed,
           owners \in Seq(STRING), Elements(owners) \subseteq Elements(Owners),
           \A name \in DOMAIN CleanedAll(FormFor(failed), data) :
               CleanedAll(FormFor(failed), data)[name].type # "error"
    PROVE  LET all == CleanedAll(FormFor(failed), data)
           IN  /\ DOMAIN all = OnForm
               /\ \A name \in Related :
                      \/ Becomes(all)[name].type = "error"
                      \/ Becomes(all)[name].is \notin Lost(owners)
<1> DEFINE all == CleanedAll(FormFor(failed), data)
<1>1. /\ DOMAIN all = OnForm
      /\ \A name \in Related :
             all[name].type # "error" => all[name].is \in {Blank} \cup Elements(owners)
  BY CleanedAre
<1>2. \A name \in OnForm : all[name].type # "error"
  BY <1>1
<1> HIDE DEF all
<1>3. ASSUME NEW name \in Related, Becomes(all)[name].type # "error"
      PROVE  Becomes(all)[name].is \notin Lost(owners)
  <2> DEFINE f == FieldByName(Model, name)
  <2>1. f.rel /\ Becomes(all)[name] = Assigned(f, all[name])
    BY RelatedAre DEF Becomes
  <2>2. all[name].is \in {Blank} \cup Elements(owners)
    BY <1>1, <1>2, RelatedAre
  <2> HIDE DEF f
  <2>3. Becomes(all)[name].is \in {"0"} \cup Elements(owners)
    BY <1>3, <2>1, <2>2, AssignedChosen
  <2> QED
    BY <2>3, RowsAssumption DEF Lost
<1> QED
  BY <1>1, <1>3 DEF all

LEMMA ZeroStruct == IsStruct(newPtr)
<1>1. \A f \in Elements(Model) : f.name \in Names /\ newPtr[f.name] = Zero(GoType(f))
  BY NamedOnce DEF newPtr
<1>2. \A type : Zero(type).type = type
  BY DEF Zero, Value
<1>3. DOMAIN newPtr = Names
  BY DEF newPtr
<1> QED
  BY <1>1, <1>2, <1>3 DEF IsStruct

LEMMA ChoicesStep ==
    ASSUME Inv, NEW s \in Staff, NEW failed, ChoicesUnless(s, failed)
    PROVE  Inv'
<1> DEFINE r == req[s]
           all == CleanedAll(FormFor(failed), r.data)
           valid == \A name \in DOMAIN all : all[name].type # "error"
           new == PopulateStruct(Model, all, newPtr)
           one == [name \in OnForm |-> Assigned(FieldByName(Model, name), all[name])]
<1>1. /\ r.at = "choices" /\ r.view \in {"add form", "change form", "add", "change"}
      /\ DOMAIN r = {"at", "view", "pk", "data", "cleaned", "obj"} /\ DOMAIN req = Staff
      /\ owners \in Seq(STRING) /\ Elements(owners) \subseteq Elements(Owners)
  BY DEF ChoicesUnless, Inv, Stored, Requests, InStep
<1>2. UNCHANGED <<table, owners, sent, touches, used, gone>>
  BY DEF ChoicesUnless
<1>3. accepted' = CASE r.view = "add" /\ valid -> accepted \union {Defaulted(one)}
                    [] r.view = "change" /\ valid -> accepted \union {one}
                    [] OTHER -> accepted
  BY DEF ChoicesUnless, Offered
<1>4. CASE \E shown : Answer(s, shown)
  <2> HIDE DEF one, valid, r
  <2>1. accepted \subseteq accepted'
    BY <1>3
  <2> QED
    BY <1>2, <1>4, <2>1, Answered
<1>5. one = Becomes(all)
  BY DEF Becomes
<1>6. DOMAIN gone' = Staff /\ gone' = gone /\ gone'[s] \subseteq Lost(owners)
  BY <1>2 DEF Inv, Requests, References
<1> HIDE DEF one
<1>7. ASSUME r.view = "change", valid, req' = [req EXCEPT ![s].cleaned = all, ![s].at = "get"]
      PROVE  Inv'
  <2>1. /\ DOMAIN req' = Staff /\ \A t \in Staff \ {s} : req'[t] = req[t]
        /\ DOMAIN req'[s] = DOMAIN r /\ req'[s].at = "get" /\ req'[s].view = "change"
        /\ req'[s].cleaned = all
    BY <1>1, <1>7
  <2>2. /\ DOMAIN all = OnForm
        /\ \A name \in Related :
               Becomes(all)[name].type = "error" \/ Becomes(all)[name].is \notin Lost(owners)
    BY <1>1, <1>7, ChosenHere
  <2>3. accepted \subseteq accepted' /\ Becomes(all) \in accepted'
    BY <1>3, <1>5, <1>7
  <2> HIDE DEF all, r
  <2>4. InStep(req'[s])
    BY <1>1, <2>1 DEF InStep
  <2>5. HoldsOne(req'[s], accepted')
    BY <2>1, <2>2, <2>3 DEF HoldsOne
  <2>6. Refers(req'[s], gone'[s])
    BY <1>6, <2>1, <2>2 DEF Refers
  <2> QED
    BY <1>2, <1>6, <2>1, <2>3, <2>4, <2>5, <2>6, GoesOn
<1>8. ASSUME r.view = "add", valid, new.outcome = "ok",
             req' = [req EXCEPT ![s].obj = new.obj, ![s].at = "write"]
      PROVE  Inv'
  <2>1. /\ DOMAIN req' = Staff /\ \A t \in Staff \ {s} : req'[t] = req[t]
        /\ DOMAIN req'[s] = DOMAIN r /\ req'[s].at = "write" /\ req'[s].view = "add"
        /\ req'[s].obj = new.obj
    BY <1>1, <1>8
  <2>2. /\ DOMAIN all = OnForm
        /\ \A name \in Related :
               Becomes(all)[name].type = "error" \/ Becomes(all)[name].is \notin Lost(owners)
    BY <1>1, <1>8, ChosenHere
  <2>3. accepted \subseteq accepted' /\ Defaulted(Becomes(all)) \in accepted'
    BY <1>3, <1>5, <1>8
  <2> HIDE DEF all, r
  <2>4. /\ IsStruct(new.obj) /\ FormPart(new.obj) = Becomes(all)
        /\ \A name \in Related : new.obj[name] = Becomes(all)[name]
                                /\ new.obj[name].type = "ForeignKey"
    BY <1>8, <2>2, ZeroStruct, Filled
  <2> HIDE DEF new
  <2>5. InStep(req'[s])
    BY <1>1, <2>1 DEF InStep
  <2>6. HoldsOne(req'[s], accepted')
    BY <2>1, <2>3, <2>4 DEF HoldsOne
  <2>7. Refers(req'[s], gone'[s])
    BY <1>6, <2>1, <2>2, <2>4 DEF Refers
  <2> QED
    BY <1>2, <1>6, <2>1, <2>3, <2>5, <2>6, <2>7, GoesOn
<1>9. CASE r.view \in {"add form", "change form"}
  BY <1>4, <1>9 DEF ChoicesUnless
<1>10. CASE r.view \in {"add", "change"} /\ ~ valid
  BY <1>4, <1>10 DEF ChoicesUnless, Offered
<1>11. CASE r.view = "change" /\ valid
  BY <1>7, <1>11 DEF ChoicesUnless, Offered
<1>12. CASE r.view = "add" /\ valid
  BY <1>4, <1>8, <1>12 DEF ChoicesUnless, Offered
<1> QED
  BY <1>1, <1>9, <1>10, <1>11, <1>12

\* A step that changes rows, and ends a request or none.
LEMMA RowsChange ==
    ASSUME Inv, UNCHANGED <<owners, accepted, gone>>, touches' \in 0 .. MaxTouches,
           used \subseteq used', DOMAIN table' \subseteq used', used' \subseteq Elements(Keys),
           DOMAIN req' = Staff, \A t \in Staff : req'[t] = req[t] \/ req'[t] = Idle,
           \A pk \in DOMAIN table' : IsRow(pk, table'[pk]) /\ FormPart(table'[pk]) \in accepted
    PROVE  Inv'
<1>1. Stored'
  BY DEF Inv, Stored
<1>2. Requests'
  BY IdleRequest DEF Inv, Requests
<1>3. OneSubmission'
  <2>1. \A t \in Staff : HoldsOne(req'[t], accepted')
    BY IdleRequest, HoldsNothing DEF Inv, OneSubmission
  <2> QED
    BY <2>1 DEF OneSubmission, NoMixedSubmission
<1>4. References'
  <2>1. \A t \in Staff : Refers(req'[t], gone[t])
    BY IdleRequest, HoldsNothing DEF Inv, References
  <2> QED
    BY <2>1 DEF Inv, References, Lost
<1> QED
  BY <1>1, <1>2, <1>3, <1>4 DEF Inv

\* The database assigns a key that it has not assigned before.
LEMMA NewKeyIs ==
    ASSUME used \subseteq Elements(Keys), used # Elements(Keys)
    PROVE  NewKey \in Elements(Keys) /\ NewKey \notin used
<1> DEFINE Free == {i \in DOMAIN Keys : Keys[i] \notin used}
           least == CHOOSE i \in DOMAIN Keys :
                        Keys[i] \notin used /\ \A j \in 1 .. (i - 1) : Keys[j] \in used
<1>1. DOMAIN Keys = 1 .. Len(Keys) /\ Len(Keys) \in Nat
  BY RowsAssumption, LenProperties
<1>2. Free # {} /\ Free \subseteq Nat
  BY <1>1 DEF Elements
<1>3. PICK i \in Free : \A j \in Free : i <= j
  <2> HIDE DEF Free
  <2> QED
    BY <1>2, Picks!Smallest
<1>4. i \in DOMAIN Keys /\ Keys[i] \notin used
  OBVIOUS
<1>5. ASSUME NEW j \in 1 .. (i - 1)
      PROVE  Keys[j] \in used
  <2>1. j \in DOMAIN Keys /\ j \in Nat /\ ~ (i <= j)
    BY <1>1, <1>4
  <2> QED
    BY <1>3, <2>1
<1>6. \E k \in DOMAIN Keys : Keys[k] \notin used /\ \A j \in 1 .. (k - 1) : Keys[j] \in used
  BY <1>4, <1>5
<1>7. least \in DOMAIN Keys /\ Keys[least] \notin used
  BY <1>6
<1>8. NewKey = Keys[least]
  BY DEF NewKey
<1> HIDE DEF least
<1> QED
  BY <1>7, <1>8 DEF Elements

\* The row that a request adds: its struct, with the defaults, stamped, under a key of
\* its own.
LEMMA CreatedIs ==
    ASSUME NEW key, NEW obj, IsStruct(obj)
    PROVE  /\ IsRow(key, Created(key, obj)) /\ FormPart(Created(key, obj)) = Defaulted(FormPart(obj))
           /\ \A name \in Related : Created(key, obj)[name] = obj[name]
<1> DEFINE keyed == [obj EXCEPT ![AutoKey] = Value(GoType(Model[1]), ToString(key))]
<1>1. /\ DOMAIN keyed = Names
      /\ keyed[AutoKey].type = GoType(Model[1]) /\ keyed[AutoKey].is = ToString(key)
      /\ \A name \in Names \ {AutoKey} : keyed[name] = obj[name]
  BY OnFormIs DEF IsStruct, Value
<1>2. Created(key, obj) = Stamped(Defaulted(keyed), Autos)
  BY DEF Created
<1> HIDE DEF keyed
<1>3. IsStruct(keyed)
  <2>1. ASSUME NEW f \in Elements(Model)
        PROVE  keyed[f.name].type = GoType(f)
    <3>1. CASE f.name = AutoKey
      <4>1. f = Model[1]
        BY <3>1, NamedOnce DEF AutoKey, Elements
      <4> QED
        BY <1>1, <3>1, <4>1
    <3>2. CASE f.name # AutoKey
      BY <1>1, <3>2, NamedOnce DEF IsStruct
    <3> QED
      BY <3>1, <3>2
  <2> QED
    BY <1>1, <2>1 DEF IsStruct
<1>4. /\ IsStruct(Defaulted(keyed)) /\ Defaulted(keyed)[AutoKey] = keyed[AutoKey]
      /\ FormPart(Defaulted(keyed)) = Defaulted(FormPart(keyed))
      /\ \A name \in Related : Defaulted(keyed)[name] = keyed[name]
  BY <1>3, DefaultedIs
<1>5. /\ IsStruct(Created(key, obj))
      /\ \A name \in OnForm \cup {AutoKey} : Created(key, obj)[name] = Defaulted(keyed)[name]
  <2> DEFINE full == Defaulted(keyed)
  <2>1. IsStruct(full) /\ Autos \in SUBSET Autos /\ Created(key, obj) = Stamped(full, Autos)
    BY <1>2, <1>4
  <2> HIDE DEF full
  <2> QED
    BY <2>1, StampedIs DEF full
<1>6. FormPart(Created(key, obj)) = FormPart(Defaulted(keyed))
  BY <1>5, SamePart
<1>7. FormPart(keyed) = FormPart(obj)
  BY <1>1, OnFormIs, SamePart
<1>8. \A name \in Related : Created(key, obj)[name] = obj[name]
  BY <1>1, <1>4, <1>5, OnFormIs, RelatedAre
<1> QED
  BY <1>1, <1>4, <1>5, <1>6, <1>7, <1>8 DEF IsRow

\* What the end of an add or change request does to the rows.
LEMMA WriteDoes ==
    ASSUME Inv, NEW s \in Staff, Write(s)
    PROVE  /\ UNCHANGED <<owners, sent, touches, accepted, gone>> /\ Answer(s, NoPage)
           /\ req[s].at = "write" /\ req[s].view \in {"add", "change"}
           /\ \/ UNCHANGED <<table, used>>
              \/ /\ req[s].view = "change" /\ used' = used /\ DOMAIN table' = DOMAIN table
                 /\ \A pk \in DOMAIN table :
                        table'[pk] = IF pk = req[s].pk THEN Assign(req[s].obj, table[pk]) ELSE table[pk]
              \/ /\ req[s].view = "add"
                 /\ \E key \in Elements(Keys) \ used :
                        /\ used' = used \cup {key} /\ DOMAIN table' = DOMAIN table \cup {key}
                        /\ table'[key] = Created(key, req[s].obj)
                        /\ \A pk \in DOMAIN table : table'[pk] = table[pk]
<1> DEFINE r == req[s]
<1>1. r.at = "write" /\ r.view \in {"add", "change"} /\ DOMAIN table \subseteq used
  BY DEF Write, Inv, Stored, Requests, InStep
<1>2. UNCHANGED <<owners, sent, touches, accepted, gone>> /\ Answer(s, NoPage)
  BY DEF Write
<1>3. CASE UNCHANGED <<table, used>>
  BY <1>1, <1>2, <1>3
<1>4. CASE r.view = "change" /\ ~ UNCHANGED <<table, used>>
  <2>1. table' = UpdateRow(r.pk, r.obj) /\ used' = used
    BY <1>4 DEF Write
  <2> QED
    BY <1>1, <1>2, <1>4, <2>1 DEF UpdateRow
<1>5. CASE r.view = "add" /\ ~ UNCHANGED <<table, used>>
  <2>1. /\ table' = InsertRow(NewKey, r.obj)
        /\ used' = used \cup {NewKey} /\ used # Elements(Keys)
    BY <1>5 DEF Write
  <2>2. NewKey \in Elements(Keys) /\ NewKey \notin used
    BY <2>1, NewKeyIs DEF Inv, Stored
  <2>3. /\ DOMAIN table' = DOMAIN table \cup {NewKey} /\ table'[NewKey] = Created(NewKey, r.obj)
        /\ \A pk \in DOMAIN table : table'[pk] = table[pk]
    BY <1>1, <2>1, <2>2 DEF InsertRow
  <2> QED
    BY <1>1, <1>2, <1>5, <2>1, <2>2, <2>3
<1> QED
  BY <1>1, <1>3, <1>4, <1>5

\* A row after an update holds the request's struct under its own key.
LEMMA AssignIs ==
    ASSUME NEW obj, IsStruct(obj), NEW pk, NEW row, IsRow(pk, row)
    PROVE  /\ IsRow(pk, Assign(obj, row)) /\ FormPart(Assign(obj, row)) = FormPart(obj)
           /\ \A name \in Related : Assign(obj, row)[name] = obj[name]
<1>1. /\ DOMAIN Assign(obj, row) = Names /\ Assign(obj, row)[AutoKey] = row[AutoKey]
      /\ \A name \in Names \ {AutoKey} : Assign(obj, row)[name] = obj[name]
  BY OnFormIs DEF Assign
<1>2. \A f \in Elements(Model) : Assign(obj, row)[f.name].type = GoType(f)
  BY <1>1, NamedOnce DEF IsStruct, IsRow
<1>3. FormPart(Assign(obj, row)) = FormPart(obj)
  BY <1>1, OnFormIs, SamePart
<1> QED
  BY <1>1, <1>2, <1>3, OnFormIs, RelatedAre DEF IsRow, IsStruct

\* A foreign key that a request writes is none of those gone when the request began.
LEMMA WrittenHere ==
    ASSUME Inv, NEW s \in Staff, Write(s), NEW pk \in DOMAIN table', NEW name \in Related,
           pk \notin DOMAIN table \/ table'[pk] # table[pk]
    PROVE  table'[pk][name].is \notin gone[s]
<1> DEFINE obj == req[s].obj
<1>1. IsStruct(obj) /\ obj[name].is \notin gone[s]
  BY WriteDoes DEF Inv, OneSubmission, HoldsOne, References, Refers
<1>2. \/ pk \in DOMAIN table /\ table'[pk] = Assign(obj, table[pk])
      \/ \E key : table'[pk] = Created(key, obj)
  BY WriteDoes
<1> HIDE DEF obj
<1>3. CASE pk \in DOMAIN table /\ table'[pk] = Assign(obj, table[pk])
  <2>1. IsRow(pk, table[pk])
    BY <1>3 DEF Inv, Stored
  <2>2. Assign(obj, table[pk])[name] = obj[name]
    BY <1>1, <2>1, AssignIs
  <2> QED
    BY <1>1, <1>3, <2>2
<1>4. CASE \E key : table'[pk] = Created(key, obj)
  <2>1. table'[pk][name] = obj[name]
    BY <1>1, <1>4, CreatedIs
  <2> QED
    BY <1>1, <2>1
<1> QED
  BY <1>2, <1>3, <1>4

LEMMA WriteStep ==
    ASSUME Inv, NEW s \in Staff, Write(s)
    PROVE  Inv'
<1> DEFINE obj == req[s].obj
<1>1. /\ UNCHANGED <<owners, sent, touches, accepted, gone>> /\ Answer(s, NoPage)
      /\ IsStruct(obj)
      /\ req[s].view = "add" => Defaulted(FormPart(obj)) \in accepted
      /\ req[s].view = "change" => FormPart(obj) \in accepted
      /\ \A pk \in DOMAIN table : IsRow(pk, table[pk]) /\ FormPart(table[pk]) \in accepted
      /\ touches \in 0 .. MaxTouches /\ DOMAIN table \subseteq used /\ used \subseteq Elements(Keys)
  BY WriteDoes DEF Inv, Stored, OneSubmission, NoMixedSubmission, HoldsOne
<1>2. DOMAIN req' = Staff /\ \A t \in Staff : req'[t] = req[t] \/ req'[t] = Idle
  BY <1>1 DEF Answer, Inv, Requests
<1>3. CASE UNCHANGED <<table, used>>
  BY <1>1, <1>3, Answered
<1>4. CASE /\ req[s].view = "change" /\ used' = used /\ DOMAIN table' = DOMAIN table
           /\ \A pk \in DOMAIN table :
                  table'[pk] = IF pk = req[s].pk THEN Assign(obj, table[pk]) ELSE table[pk]
  <2> HIDE DEF obj
  <2>1. ASSUME NEW pk \in DOMAIN table
        PROVE  IsRow(pk, table'[pk]) /\ FormPart(table'[pk]) \in accepted
    <3>1. CASE pk = req[s].pk
      BY <1>1, <1>4, <3>1, AssignIs
    <3>2. CASE pk # req[s].pk
      BY <1>1, <1>4, <3>2
    <3> QED
      BY <3>1, <3>2
  <2> QED
    BY <1>1, <1>2, <1>4, <2>1, RowsChange
<1>5. ASSUME req[s].view = "add", NEW key \in Elements(Keys) \ used,
             used' = used \cup {key}, DOMAIN table' = DOMAIN table \cup {key},
             table'[key] = Created(key, obj), \A pk \in DOMAIN table : table'[pk] = table[pk]
      PROVE  Inv'
  <2> HIDE DEF obj
  <2>1. IsRow(key, table'[key]) /\ FormPart(table'[key]) \in accepted
    BY <1>1, <1>5, CreatedIs
  <2>2. DOMAIN table' \subseteq used' /\ used \subseteq used' /\ used' \subseteq Elements(Keys)
    BY <1>1, <1>5
  <2> QED
    BY <1>1, <1>2, <1>5, <2>1, <2>2, RowsChange
<1> QED
  BY <1>3, <1>4, <1>5, WriteDoes

LEMMA DeleteStep ==
    ASSUME Inv, NEW s \in Staff, Delete(s)
    PROVE  Inv'
<1>1. /\ Answer(s, NoPage) /\ UNCHANGED <<owners, touches, used, accepted, gone>>
      /\ table' = [pk \in DOMAIN table \ {req[s].pk} |-> table[pk]]
  BY DEF Delete
<1>2. DOMAIN req' = Staff /\ \A t \in Staff : req'[t] = req[t] \/ req'[t] = Idle
  BY <1>1 DEF Answer, Inv, Requests
<1>3. /\ DOMAIN table' \subseteq DOMAIN table
      /\ \A pk \in DOMAIN table' : table'[pk] = table[pk]
  BY <1>1
<1>4. /\ \A pk \in DOMAIN table : IsRow(pk, table[pk]) /\ FormPart(table[pk]) \in accepted
      /\ touches \in 0 .. MaxTouches /\ DOMAIN table \subseteq used /\ used \subseteq Elements(Keys)
  BY DEF Inv, Stored, OneSubmission, NoMixedSubmission
<1> QED
  BY <1>1, <1>2, <1>3, <1>4, RowsChange

LEMMA SiteUpdatesStep ==
    ASSUME Inv, NEW pk \in used, SiteUpdates(pk)
    PROVE  Inv'
<1>1. /\ UNCHANGED <<owners, req, used, accepted, gone>> /\ pk \in DOMAIN table
      /\ touches < MaxTouches /\ touches' = touches + 1
      /\ table' = [table EXCEPT ![pk] = Counting(table[pk])]
  BY DEF SiteUpdates
<1>2. /\ \A key \in DOMAIN table : IsRow(key, table[key]) /\ FormPart(table[key]) \in accepted
      /\ touches \in 0 .. MaxTouches /\ DOMAIN table \subseteq used /\ used \subseteq Elements(Keys)
      /\ DOMAIN req = Staff
  BY DEF Inv, Stored, Requests, OneSubmission, NoMixedSubmission
<1>3. touches' \in 0 .. MaxTouches
  BY <1>1, <1>2, CountedAssumption
<1>4. DOMAIN table' = DOMAIN table
  BY <1>1
<1>5. ASSUME NEW key \in DOMAIN table
      PROVE  IsRow(key, table'[key]) /\ FormPart(table'[key]) = FormPart(table[key])
  <2>1. CASE key = pk
    <3>1. table'[pk] = Counting(table[pk]) /\ IsStruct(table[pk])
      BY <1>1, <1>2 DEF IsRow
    <3>2. /\ IsStruct(table'[pk])
          /\ \A name \in OnForm \cup {AutoKey} : table'[pk][name] = table[pk][name]
      BY <3>1, CountingIs
    <3>3. FormPart(table'[pk]) = FormPart(table[pk])
      BY <3>2, SamePart
    <3> QED
      BY <1>2, <2>1, <3>2, <3>3 DEF IsRow
  <2>2. CASE key # pk
    BY <1>1, <1>2, <2>2
  <2> QED
    BY <2>1, <2>2
<1> QED
  BY <1>1, <1>2, <1>3, <1>4, <1>5, RowsChange

\* What the related table loses stays lost.
LEMMA SiteDeletesOwnerStep ==
    ASSUME Inv, NEW id \in Elements(Owners), SiteDeletesOwner(id)
    PROVE  Inv'
<1> DEFINE left == {i \in DOMAIN owners : owners[i] # id}
<1>1. /\ UNCHANGED <<table, req, touches, used, accepted, gone>>
      /\ owners' = At(owners, left)
  BY DEF SiteDeletesOwner, Pick
<1>2. owners \in Seq(STRING) /\ Elements(owners) \subseteq Elements(Owners)
  BY DEF Inv, Stored
<1>3. left \in SUBSET (1 .. Len(owners))
  BY <1>2, LenProperties
<1> HIDE DEF left
<1>4. /\ owners' \in Seq(STRING)
      /\ \A k \in DOMAIN owners' : \E i \in left : owners'[k] = owners[i]
  BY <1>1, <1>2, <1>3, PickedFrom
<1>5. Elements(owners') \subseteq Elements(owners)
  <2>1. left \subseteq DOMAIN owners
    BY <1>2, <1>3, LenProperties
  <2> QED
    BY <1>4, <2>1 DEF Elements
<1>6. Lost(owners) \subseteq Lost(owners')
  BY <1>5 DEF Lost
<1>7. Stored' /\ Requests'
  BY <1>1, <1>2, <1>4, <1>5 DEF Inv, Stored, Requests, IsRow
<1>8. OneSubmission'
  BY <1>1 DEF Inv, OneSubmission, NoMixedSubmission
<1>9. References'
  BY <1>1, <1>6 DEF Inv, References
<1> QED
  BY <1>7, <1>8, <1>9 DEF Inv

LEMMA InvInit == Init => Inv
<1> SUFFICES ASSUME Init PROVE Inv
  OBVIOUS
<1>1. /\ table = Rows /\ owners = Owners /\ used = DOMAIN Rows
      /\ DOMAIN req = Staff /\ DOMAIN gone = Staff /\ touches = 0
      /\ \A s \in Staff : req[s] = Idle /\ gone[s] = {}
      /\ accepted = { FormPart(Rows[pk]) : pk \in DOMAIN Rows }
  BY DEF Init
<1>2. Stored
  BY <1>1, RowsAssumption, CountedAssumption DEF Stored, IsRow
<1>3. Requests
  BY <1>1, IdleRequest DEF Requests
<1>4. OneSubmission
  BY <1>1, IdleRequest, HoldsNothing DEF OneSubmission, NoMixedSubmission
<1>5. References
  BY <1>1, IdleRequest, HoldsNothing DEF References, Lost
<1> QED
  BY <1>2, <1>3, <1>4, <1>5 DEF Inv

LEMMA InvNext == Inv /\ [Next]_vars => Inv'
<1> SUFFICES ASSUME Inv, [Next]_vars PROVE Inv'
  OBVIOUS
<1>1. ASSUME NEW s \in Staff, Visit(s) PROVE Inv'
  BY <1>1, VisitStep
<1>2. ASSUME NEW s \in Staff, Submit(s) PROVE Inv'
  BY <1>2, SubmitStep
<1>3. ASSUME NEW s \in Staff, Edit(s) PROVE Inv'
  BY <1>3, NothingChanges DEF Edit
<1>4. ASSUME NEW s \in Staff, Get(s) PROVE Inv'
  BY <1>4, GetStep
<1>5. ASSUME NEW s \in Staff, Choices(s) PROVE Inv'
  BY <1>5, ChoicesStep DEF Choices
<1>6. ASSUME NEW s \in Staff, Write(s) PROVE Inv'
  BY <1>6, WriteStep
<1>7. ASSUME NEW s \in Staff, Delete(s) PROVE Inv'
  BY <1>7, DeleteStep
<1>8. ASSUME NEW pk \in used, SiteUpdates(pk) PROVE Inv'
  BY <1>8, SiteUpdatesStep
<1>9. ASSUME NEW id \in Elements(Owners), SiteDeletesOwner(id) PROVE Inv'
  BY <1>9, SiteDeletesOwnerStep
<1>10. CASE UNCHANGED vars
  BY <1>10, NothingChanges DEF vars
<1> QED
  BY <1>1, <1>2, <1>3, <1>4, <1>5, <1>6, <1>7, <1>8, <1>9, <1>10 DEF Next

LEMMA InvAlways == Spec => []Inv
  BY InvInit, InvNext, PTL DEF Spec

-----------------------------------------------------------------------------
(* The theorems                                                            *)

\* Rows stay structs of the model, under keys that the database assigned and that they
\* hold themselves, and a request takes only the steps of its view (admin/ops.go: create,
\* update and get work on one *T).
THEOREM TypeCorrect == Spec => []TypeOK
<1>1. Inv => TypeOK
  BY DEF Inv, Stored, Requests, InStep, TypeOK, IsRow, IsStruct
<1> QED
  BY <1>1, InvAlways, PTL

\* admin/views.go:278: "POST validates the submission and updates the row".  A row holds
\* in the form's fields what one valid submission held, with the defaults for its zero
\* values if it was added, whatever else ran meanwhile.
THEOREM SubmissionsWhole == Spec => []NoMixedSubmission
<1>1. Inv => NoMixedSubmission
  BY DEF Inv, OneSubmission
<1> QED
  BY <1>1, InvAlways, PTL

\* admin/views.go:339: "POST removes the row".  A row that was deleted stays deleted: an
\* update touches no row, and an add is given a key that never was another row's.
THEOREM DeletedStaysDeleted == Spec => NoResurrection
<1>1. Inv /\ [Next]_vars => [\A pk \in used : pk \notin DOMAIN table => pk \notin DOMAIN table']_vars
  <2> SUFFICES ASSUME Inv, Next, NEW pk \in used, pk \in DOMAIN table' PROVE pk \in DOMAIN table
    BY DEF vars
  <2>1. ASSUME NEW s \in Staff, Write(s) PROVE pk \in DOMAIN table
    BY <2>1, WriteDoes
  <2>2. ASSUME NEW s \in Staff, Delete(s) PROVE pk \in DOMAIN table
    BY <2>2 DEF Delete
  <2>3. ASSUME NEW s \in Staff, Visit(s) \/ Submit(s) PROVE pk \in DOMAIN table
    BY <2>3 DEF Visit, Submit, Send
  <2>4. ASSUME NEW s \in Staff, Edit(s) \/ Get(s) \/ Choices(s) PROVE pk \in DOMAIN table
    BY <2>4 DEF Edit, Get, Choices, ChoicesUnless
  <2>5. ASSUME NEW key \in used, SiteUpdates(key) PROVE pk \in DOMAIN table
    BY <2>5 DEF SiteUpdates
  <2>6. ASSUME NEW id \in Elements(Owners), SiteDeletesOwner(id) PROVE pk \in DOMAIN table
    BY <2>6 DEF SiteDeletesOwner
  <2> QED
    BY <2>1, <2>2, <2>3, <2>4, <2>5, <2>6 DEF Next
<1> QED
  BY <1>1, InvAlways, PTL DEF Spec, NoResurrection

\* admin/views.go:220: a pk that is no option "fails ChoiceField validation".  The form
\* never points a row at a related row that was gone when the request that writes it
\* began, whether the database enforces foreign keys or not, and whether the options
\* could be loaded or not.
THEOREM ReferencesAreOffered == Spec => ReferencesOffered
<1>1. Inv /\ [Next]_vars =>
          [\A s \in Staff : Write(s) =>
              \A pk \in DOMAIN table', name \in Related :
                  (pk \notin DOMAIN table \/ table'[pk] # table[pk])
                      => table'[pk][name].is \notin gone[s]]_vars
  BY WrittenHere
<1> QED
  BY <1>1, InvAlways, PTL DEF Spec, ReferencesOffered

=============================================================================
