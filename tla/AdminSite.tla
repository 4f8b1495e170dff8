------------------------------ MODULE AdminSite ------------------------------
(***************************************************************************)
(* The write views of the admin for one registered model: several members   *)
(* of the staff open, edit and submit its add, change and delete pages at   *)
(* the same time, while the site's own code updates and deletes rows.  A    *)
(* request is one step per statement it sends; the form work between two    *)
(* statements belongs to the step before it.                                *)
(***************************************************************************)
EXTENDS FormFields

CONSTANTS Staff,
          Model,        \* the model's fields, the auto primary key first
          Excluded,     \* names in ExcludeFields and ReadonlyFields
          Unique,       \* names of the columns with a UNIQUE constraint
          Stamp,        \* the names of auto_now fields
          Defaults,     \* name of a field with default= -> that value
          Typed,        \* what staff enter into a text control
          Rows, Owners, \* the rows and the related rows' ids at the start
          Keys,         \* primary keys, in the order the database assigns them
          Enforced,     \* the database checks foreign keys: PostgreSQL
                        \* does, SQLite does not
          MaxRequests,  \* bound: requests per member of the staff
          MaxTouches,   \* bound: updates by the site's own code
          Counted,      \* the names of the columns that those updates write
          Counts        \* and the text of a value there -> its text after one

VARIABLES table,    \* primary key -> struct
          owners,   \* the related table's ids, in order
          page,     \* staff -> what the browser shows
          req,      \* staff -> the request in progress
          sent,     \* staff -> requests so far
          touches,  \* updates by the site's own code so far
          used,     \* keys the database has assigned
          accepted, \* history: the form values of every valid submission
          gone      \* history: staff -> owners deleted before the request began

vars == <<table, owners, page, req, sent, touches, used, accepted, gone>>

Names == { f.name : f \in Elements(Model) }
AutoKey == Model[1].name
Autos == { f.name : f \in { g \in Elements(Model) : g.auto } }
Nothing == [name \in {} |-> Blank]
NoPage == [view |-> "none", pk |-> 0, controls |-> <<>>]
Idle == [at |-> "idle", view |-> "none", pk |-> 0, data |-> Nothing, cleaned |-> Nothing,
         obj |-> Nothing]
Options == [only |-> <<>>, exclude |-> Excluded, required |-> Nothing, widgets |-> Nothing]

EmptyForm == FromModel(Model, Options)
OnForm == { ff.name : ff \in Elements(EmptyForm) }
Related == { name \in OnForm : FieldByName(Model, name).rel }

(* formFor: FromModel without the excluded fields, then populateChoices,    *)
(* which leaves the options of a field empty whose rows it fails to load.   *)
FormFor(failed) ==
  [i \in DOMAIN EmptyForm |->
     IF EmptyForm[i].name \in Related \ failed
     THEN WithChoices(EmptyForm[i], owners) ELSE EmptyForm[i]]
FormPart(obj) == [name \in OnForm |-> obj[name]]

(* A struct of the model: a value of the field's Go type for every name.    *)
IsStruct(obj) == /\ DOMAIN obj = Names
                 /\ \A f \in Elements(Model) : obj[f.name].type = GoType(f)

ModelField == [name : STRING, kind : {"Auto", "Char", "Text", "Int", "Bool", "DateTime"},
               int : IntTypes, null : BOOLEAN, max : Nat, choices : Seq(STRING), rel : BOOLEAN, auto : BOOLEAN]

(* What the registry sees to: the fields of a model have distinct names; an *)
(* auto primary key is no foreign key and has no default; only times are    *)
(* stamped, and they and foreign keys have no default.                      *)
ASSUME ModelAssumption ==
  /\ Model \in Seq(ModelField) /\ Model # <<>>
  /\ \A i, j \in DOMAIN Model : Model[i].name = Model[j].name => i = j
  /\ Model[1].kind = "Auto" /\ ~Model[1].rel
  /\ \A f \in Elements(Model) : f.auto => ~f.rel /\ f.kind = "DateTime"
  /\ Stamp \subseteq Autos
  /\ \A f \in Elements(Model) : f.name \in DOMAIN Defaults =>
       ~f.rel /\ f.kind \notin {"Auto", "DateTime"} /\ Defaults[f.name].type = GoType(f)

(* The rows at the start have keys the database assigned, and the related   *)
(* rows' ids are written as Go writes a number that is not zero.            *)
ASSUME RowsAssumption ==
  /\ Keys \in Seq(Nat) /\ DOMAIN Rows \subseteq Elements(Keys)
  /\ \A pk \in DOMAIN Rows : IsStruct(Rows[pk]) /\ Rows[pk][AutoKey].is = ToString(pk)
  /\ Owners \in Seq(STRING) /\ "0" \notin Elements(Owners)
  /\ \A id \in Elements(Owners) \cap DOMAIN Integers : Integers[id] = id

(* The site's own code leaves the form's fields, keys and relations alone.  *)
ASSUME CountedAssumption ==
  /\ Counted \cap (OnForm \cup {AutoKey}) = {} /\ MaxTouches \in Nat
  /\ \A f \in Elements(Model) : f.rel => f.name \notin Counted

Init == /\ table = Rows /\ owners = Owners /\ used = DOMAIN Rows
        /\ page = [s \in Staff |-> NoPage] /\ req = [s \in Staff |-> Idle]
        /\ sent = [s \in Staff |-> 0] /\ touches = 0
        /\ accepted = { FormPart(Rows[pk]) : pk \in DOMAIN Rows }
        /\ gone = [s \in Staff |-> {}]

-----------------------------------------------------------------------------
(* The browser. *)
Send(s, request) ==
  /\ req[s].at = "idle" /\ sent[s] < MaxRequests
  /\ req' = [req EXCEPT ![s] = request]
  /\ sent' = [sent EXCEPT ![s] = @ + 1]
  /\ gone' = [gone EXCEPT ![s] = Elements(Owners) \ Elements(owners)]
  /\ UNCHANGED <<table, owners, page, touches, used, accepted>>

Visit(s) ==
  \/ Send(s, [Idle EXCEPT !.at = "choices", !.view = "add form"])
  \/ \E pk \in used : \/ Send(s, [Idle EXCEPT !.at = "get", !.view = "change form", !.pk = pk])
                      \/ Send(s, [Idle EXCEPT !.at = "get", !.view = "delete form", !.pk = pk])

(* A page is submitted; the browser goes on showing it until the answer     *)
(* comes, so it may be submitted again later.                               *)
Submit(s) ==
  \/ /\ page[s].view \in {"add", "change"}
     /\ Send(s, [Idle EXCEPT !.at = "choices", !.view = page[s].view, !.pk = page[s].pk,
                             !.data = Submission(page[s].controls)])
  \/ /\ page[s].view = "delete"
     /\ Send(s, [Idle EXCEPT !.at = "delete", !.view = "delete", !.pk = page[s].pk])

Edit(s) ==
  /\ req[s].at = "idle"
  /\ \E i \in DOMAIN page[s].controls :
       LET c == page[s].controls[i]
       IN \E text \in IF c.type = "select" THEN Elements(c.options) ELSE Typed :
            /\ text # c.value
            /\ page' = [page EXCEPT ![s].controls[i].value = text]
  /\ UNCHANGED <<table, owners, req, sent, touches, used, accepted, gone>>

-----------------------------------------------------------------------------
(* The server.  Answers: a page, or a redirect, a 404 or a 500, after which *)
(* the browser shows nothing that can be submitted.                         *)
Answer(s, shown) == /\ page' = [page EXCEPT ![s] = shown]
                    /\ req' = [req EXCEPT ![s] = Idle]

(* ops.get *)
Get(s) ==
  LET r == req[s]
  IN /\ r.at = "get"
     /\ IF r.pk \notin DOMAIN table THEN Answer(s, NoPage)
        ELSE CASE r.view = "delete form" ->
                    Answer(s, [view |-> "delete", pk |-> r.pk, controls |-> <<>>])
               [] r.view = "change form" ->
                    /\ req' = [req EXCEPT ![s].obj = table[r.pk], ![s].at = "choices"]
                    /\ UNCHANGED page
               [] r.view = "change" ->
                    LET filled == PopulateStruct(Model, r.cleaned, table[r.pk])
                    IN IF filled.outcome # "ok" THEN Answer(s, NoPage)
                       ELSE /\ req' = [req EXCEPT ![s].obj = filled.obj, ![s].at = "write"]
                            /\ UNCHANGED page
     /\ UNCHANGED <<table, owners, sent, touches, used, accepted, gone>>

(* A fault: the options are those of the page, not those of the table now.  *)
OfferedByPage(s, failed) ==
  LET shown(name) == { c \in Elements(page[s].controls) : c.name = name }
  IN [i \in DOMAIN EmptyForm |->
        IF EmptyForm[i].name \in Related \ failed /\ shown(EmptyForm[i].name) # {}
        THEN [EmptyForm[i] EXCEPT
                !.choices = (CHOOSE c \in shown(EmptyForm[i].name) : TRUE).options]
        ELSE FormFor(failed)[i]]

Offered(s, failed) == FormFor(failed)

newPtr == [name \in Names |-> Zero(GoType(FieldByName(Model, name)))]

(* applyDefaults: a field that holds its zero value takes its default, the  *)
(* zero that was entered like the one that was never set.                   *)
Defaulted(obj) ==
  [name \in DOMAIN obj |->
     IF name \in DOMAIN Defaults /\ obj[name] = newPtr[name]
     THEN Defaults[name] ELSE obj[name]]

(* LabeledRows for the select of every relation on the form, failing for    *)
(* some of them, then the form.                                             *)
ChoicesUnless(s, failed) ==
  LET r == req[s]
      fields == Offered(s, failed)
      all == CleanedAll(fields, r.data)
      valid == \A name \in DOMAIN all : all[name].type # "error"
      held == [name \in OnForm |-> Assigned(FieldByName(Model, name), all[name])]
      new == PopulateStruct(Model, all, newPtr)
  IN /\ r.at = "choices"
     /\ CASE r.view = "add form" ->
               Answer(s, [view |-> "add", pk |-> 0, controls |-> Render(fields, Nothing)])
          [] r.view = "change form" ->
               Answer(s, [view |-> "change", pk |-> r.pk,
                          controls |-> Render(fields, FromStruct(Model, r.obj, fields))])
          [] r.view \in {"add", "change"} /\ ~valid ->
               Answer(s, [view |-> r.view, pk |-> r.pk, controls |-> Render(fields, r.data)])
          [] r.view = "change" /\ valid ->
               /\ req' = [req EXCEPT ![s].cleaned = all, ![s].at = "get"] /\ UNCHANGED page
          [] r.view = "add" /\ valid ->
               IF new.outcome # "ok" THEN Answer(s, NoPage)
               ELSE /\ req' = [req EXCEPT ![s].obj = new.obj, ![s].at = "write"]
                    /\ UNCHANGED page
     /\ accepted' = CASE r.view = "add" /\ valid -> accepted \union {Defaulted(held)}
                      [] r.view = "change" /\ valid -> accepted \union {held}
                      [] OTHER -> accepted
     /\ UNCHANGED <<table, owners, sent, touches, used, gone>>

Choices(s) == \E failed \in SUBSET Related : ChoicesUnless(s, failed)

(* The database refuses a duplicate of a unique column, and a reference to  *)
(* no row if it enforces foreign keys; the request then fails.              *)
Refused(pk, obj) ==
  \/ \E other \in DOMAIN table \ {pk}, name \in Unique : table[other][name] = obj[name]
  \/ /\ Enforced
     /\ \E f \in Elements(Model) : f.rel /\ obj[f.name].is \notin Elements(owners) \union {"0"}

(* auto_now fields are stamped by Update, and with them auto_now_add fields *)
(* by Create.                                                               *)
Stamped(obj, stamps) ==
  [name \in DOMAIN obj |-> IF name \in stamps THEN Value("time.Time", "now") ELSE obj[name]]

NewKey == Keys[CHOOSE i \in DOMAIN Keys :
                 Keys[i] \notin used /\ \A j \in 1..(i - 1) : Keys[j] \in used]

(* Create writes the key that the database assigned back into the struct.   *)
Created(pk, obj) ==
  Stamped(Defaulted([obj EXCEPT ![AutoKey] = Value(GoType(Model[1]), ToString(pk))]), Autos)

(* A fault: zero values are not assigned, so that no relation is cleared.   *)
AssignNonZero(obj, row) ==
  [name \in Names |-> IF name = AutoKey \/ obj[name] = Zero(obj[name].type) THEN row[name] ELSE obj[name]]

(* ops.update assigns every field but the auto primary key, auto_now fields *)
(* included, so that Update stamps none of them.                            *)
Assign(obj, row) == [name \in Names |-> IF name = AutoKey THEN row[name] ELSE obj[name]]

(* A fault: a row that is no longer there is inserted again.                *)
UpsertRow(pk, obj) ==
  [key \in DOMAIN table \union {pk} |->
     IF key = pk THEN [name \in Names |-> obj[name]] ELSE table[key]]

InsertRow(pk, obj) ==
  [key \in DOMAIN table \union {pk} |->
     IF key = pk THEN Created(pk, obj) ELSE table[key]]

UpdateRow(pk, obj) == [key \in DOMAIN table |-> IF key = pk THEN Assign(obj, table[key]) ELSE table[key]]

(* ops.create and ops.update *)
Write(s) ==
  LET r == req[s]
  IN /\ r.at = "write"
     /\ CASE r.view = "change" ->
               /\ table' = IF Refused(r.pk, r.obj) THEN table ELSE UpdateRow(r.pk, r.obj)
               /\ UNCHANGED used
          [] r.view = "add" ->
               /\ used # Elements(Keys)
               /\ IF Refused(NewKey, Created(NewKey, r.obj)) THEN UNCHANGED <<table, used>>
                  ELSE table' = InsertRow(NewKey, r.obj) /\ used' = used \union {NewKey}
     /\ Answer(s, NoPage)
     /\ UNCHANGED <<owners, sent, touches, accepted, gone>>

(* ops.del: no row is an answer like another. *)
Delete(s) ==
  /\ req[s].at = "delete"
  /\ table' = [pk \in DOMAIN table \ {req[s].pk} |-> table[pk]]
  /\ Answer(s, NoPage)
  /\ UNCHANGED <<owners, sent, touches, used, accepted, gone>>

-----------------------------------------------------------------------------
(* The site's own code. *)
Counting(obj) ==
  Stamped([name \in Names |-> IF name \in Counted
                              THEN Value(obj[name].type, Counts[obj[name].is]) ELSE obj[name]],
          Stamp)

SiteUpdates(pk) ==
  /\ touches < MaxTouches /\ pk \in DOMAIN table
  /\ table' = [table EXCEPT ![pk] = Counting(@)]
  /\ touches' = touches + 1
  /\ UNCHANGED <<owners, page, req, sent, used, accepted, gone>>

(* A row that refers to the related row keeps it where keys are enforced,   *)
(* and dangles where they are not.                                          *)
SiteDeletesOwner(id) ==
  /\ id \in Elements(owners)
  /\ Enforced => \A pk \in DOMAIN table, f \in Elements(Model) : f.rel => table[pk][f.name].is # id
  /\ owners' = Pick(owners, LAMBDA other : other # id)
  /\ UNCHANGED <<table, page, req, sent, touches, used, accepted, gone>>

Next == \/ \E s \in Staff : \/ Visit(s) \/ Submit(s) \/ Edit(s)
                            \/ Get(s) \/ Choices(s) \/ Write(s) \/ Delete(s)
        \/ \E pk \in used : SiteUpdates(pk)
        \/ \E id \in Elements(Owners) : SiteDeletesOwner(id)

Spec == Init /\ [][Next]_vars

-----------------------------------------------------------------------------
(* Rows hold values of their fields' Go types under keys the database has   *)
(* assigned, the primary key's own value included.                          *)
TypeOK ==
  /\ DOMAIN table \subseteq used
  /\ \A pk \in DOMAIN table : /\ table[pk][AutoKey].is = ToString(pk)
                              /\ \A f \in Elements(Model) : table[pk][f.name].type = GoType(f)
  /\ \A s \in Staff : req[s].at \in {"idle", "get", "choices", "write", "delete"}
  /\ touches \in 0..MaxTouches

(* admin/views.go:278: "POST validates the submission and updates the row". *)
(* However requests interleave, a row holds in the form's fields what one   *)
(* valid submission held, never some of one and some of another; a zero     *)
(* that was submitted to the add form counts as the field's default.        *)
NoMixedSubmission == \A pk \in DOMAIN table : FormPart(table[pk]) \in accepted

(* admin/views.go:339: "POST removes the row".  A row that was deleted does *)
(* not come back, whatever change request was under way.                    *)
NoResurrection == [][\A pk \in used : pk \notin DOMAIN table => pk \notin DOMAIN table']_vars

(* admin/views.go:220: a pk that is no option "fails ChoiceField            *)
(* validation".  The form never points a row at a related row that was      *)
(* already gone when the request began, however old the page it was         *)
(* submitted from, and whether or not the options could be loaded.          *)
ReferencesOffered ==
  [][\A s \in Staff : Write(s) =>
       \A pk \in DOMAIN table', name \in Related :
         (pk \notin DOMAIN table \/ table'[pk] # table[pk])
           => table'[pk][name].is \notin gone[s]]_vars

=============================================================================
