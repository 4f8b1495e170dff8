------------------------------ MODULE ModelForm ------------------------------
(***************************************************************************)
(* An object edited through a model form: a view derives the form from the  *)
(* object and shows it, the browser's user edits the controls and submits,  *)
(* the view binds the data to a form derived afresh, validates it, and      *)
(* shows it again or writes the cleaned values into the object.  A row of   *)
(* the related table may be deleted between any two of these steps, and the *)
(* query that loads the options of a foreign key may fail.                  *)
(***************************************************************************)
EXTENDS FormFields

CONSTANTS Cases,     \* what a run starts from: [model, opts, obj]
          Related,   \* the lists of related rows' ids the table starts with
          Typed,     \* control type -> the texts a user may enter in it
          MaxPosts,  \* bound: submissions per behaviour
          Extra,     \* names a client may add to the data it submits
          OwnErrors  \* fields the view itself may report errors on

VARIABLES model, opts, obj,  \* the model, the form's options, the stored object
          rows,      \* ids of the related rows, as the select's options
          form,      \* [fields, data, nonField, errors, cleaned]; errors: names
          page,      \* the controls the browser shows
          lost,      \* history: names whose control did not show what it was given
          gone,      \* history: rows deleted before the options were loaded
          phase,     \* "idle", "page", "bound", "checked"
          outcome,   \* of the last PopulateStruct
          posts,     \* submissions so far
          typed,     \* history: name -> what the user entered since the page opened
          reported   \* history: the fields AddError was called for on this form

history == <<lost, gone, typed, reported>>
vars == <<model, opts, obj, rows, form, page, phase, outcome, posts, history>>

NoData == [name \in {} |-> Blank]
NewForm(fields, data) ==
  [fields |-> fields, data |-> data, nonField |-> FALSE, errors |-> {},
   cleaned |-> [name \in {} |-> Text(Blank)]]

(* The view loads the options of every foreign key before it shows or       *)
(* validates a form; a query that fails leaves them empty (admin/views.go,  *)
(* populateChoices).                                                        *)
ForeignKeys == { f.name : f \in { g \in Elements(model) : g.rel } }
ViewFields(failed) ==
  LET derived == FromModel(model, opts)
  IN [i \in DOMAIN derived |-> IF derived[i].name \in ForeignKeys \ failed
                               THEN WithChoices(derived[i], rows) ELSE derived[i]]
FieldNames == { ff.name : ff \in Elements(form.fields) }
FieldOf(name) == CHOOSE ff \in Elements(form.fields) : ff.name = name

(* The names whose control does not show the value it is given: a select    *)
(* without that option shows its first, a password shows nothing.           *)
Unshown(fields, data) ==
  { fields[i].name : i \in { j \in DOMAIN fields :
      LET value == BoundValue(data, fields[j].name)
          widget == fields[j].widget
      IN \/ widget.type = "select" /\ value \notin Elements(widget.choices)
         \/ widget.type = "password" /\ value # Blank } }

Init == /\ \E c \in Cases : model = c.model /\ opts = c.opts /\ obj = c.obj
        /\ rows \in Related
        /\ form = NewForm(<<>>, NoData) /\ page = <<>> /\ phase = "idle"
        /\ outcome = "none" /\ posts = 0 /\ typed = NoData /\ reported = {}
        /\ lost = {} /\ gone = {}

(* GET: FromStruct, SetChoices, Render. *)
Open(failed) ==
  /\ phase = "idle" /\ posts < MaxPosts
  /\ form' = NewForm(ViewFields(failed), FromStruct(model, obj, ViewFields(failed)))
  /\ page' = Render(form'.fields, form'.data)
  /\ lost' = Unshown(form'.fields, form'.data)
  /\ phase' = "page" /\ outcome' = "none" /\ typed' = NoData /\ reported' = {}
  /\ UNCHANGED <<model, opts, obj, rows, posts, gone>>

(* The user changes one control. *)
Edit(i, text) ==
  /\ phase = "page" /\ page[i].value # text
  /\ text \in IF page[i].type = "select" THEN Elements(page[i].options) ELSE Typed[page[i].type]
  /\ page' = [page EXCEPT ![i].value = text]
  /\ typed' = [name \in DOMAIN typed \union {page[i].name} |->
                 IF name = page[i].name THEN text ELSE typed[name]]
  /\ lost' = lost \ {page[i].name}
  /\ UNCHANGED <<model, opts, obj, rows, form, phase, outcome, posts, gone, reported>>

(* A related row is deleted, at any time: SQLite lets go of one that the    *)
(* object refers to.                                                        *)
DeleteRow(id) ==
  /\ id \in Elements(rows)
  /\ rows' = Pick(rows, LAMBDA other : other # id)
  /\ UNCHANGED <<model, opts, obj, form, page, phase, outcome, posts, history>>

(* POST: FromModel, SetChoices, Bind.  The client may add names of its own. *)
Post(extra, failed) ==
  /\ phase = "page" /\ posts < MaxPosts
  /\ LET sent == Submission(page)
     IN form' = NewForm(ViewFields(failed),
                        [name \in DOMAIN sent \union extra |->
                           IF name \in DOMAIN sent THEN sent[name] ELSE "1"])
  /\ extra \intersect { page[i].name : i \in DOMAIN page } = {}
  /\ phase' = "bound" /\ posts' = posts + 1 /\ reported' = {}
  /\ gone' = UNION { Elements(r) : r \in Related } \ Elements(rows)
  /\ UNCHANGED <<model, opts, obj, rows, page, outcome, lost, typed>>

(* AddError: Blank is the form itself. *)
AddError(name) ==
  /\ phase \in {"bound", "checked"} /\ reported = {} /\ name \in FieldNames \union {Blank}
  /\ form' = [form EXCEPT !.nonField = @ \/ name = Blank, !.errors = @ \union {name}]
  /\ reported' = {name}
  /\ UNCHANGED <<model, opts, obj, rows, page, phase, outcome, posts, lost, gone, typed>>

Checked ==
  LET all == CleanedAll(form.fields, form.data)
      wrong == { name \in FieldNames : all[name].type = "error" }
  IN [form EXCEPT !.errors = wrong \union (IF form.nonField THEN {Blank} ELSE {}),
                  !.cleaned = [name \in FieldNames \ wrong |-> all[name]]]

IsValid == /\ phase \in {"bound", "checked"}
           /\ form' = Checked /\ phase' = "checked"
           /\ UNCHANGED <<model, opts, obj, rows, page, outcome, posts, history>>

(* Not valid: the form is shown again, with what was submitted. *)
Reply == /\ phase = "checked" /\ form.errors # {}
         /\ page' = Render(form.fields, form.data) /\ phase' = "page"
         /\ lost' = lost \union Unshown(form.fields, form.data)
         /\ UNCHANGED <<model, opts, obj, rows, form, outcome, posts, gone, typed, reported>>

(* Valid: the cleaned values are written into the object, which is stored   *)
(* unless that fails or the database refuses it.                            *)
Save == /\ phase = "checked" /\ form.errors = {}
        /\ LET written == PopulateStruct(model, form.cleaned, obj)
           IN \/ /\ outcome' = written.outcome
                 /\ obj' = IF written.outcome = "ok" THEN written.obj ELSE obj
              \/ /\ written.outcome = "ok" /\ outcome' = "refused" /\ UNCHANGED obj
        /\ phase' = "idle" /\ form' = NewForm(<<>>, NoData) /\ page' = <<>>
        /\ typed' = NoData /\ reported' = {} /\ lost' = {}
        /\ UNCHANGED <<model, opts, rows, posts, gone>>

Next == \/ IsValid \/ Reply \/ Save
        \/ \E failed \in SUBSET ForeignKeys :
              \/ Open(failed)
              \/ \E extra \in {{}, Extra} : Post(extra, failed)
        \/ \E i \in DOMAIN page : \E text \in Elements(page[i].options)
                                              \union Typed[page[i].type] : Edit(i, text)
        \/ \E id \in Elements(rows) : DeleteRow(id)
        \/ \E name \in OwnErrors : AddError(name)

Spec == Init /\ [][Next]_vars

-----------------------------------------------------------------------------
(* The object's values have the Go types of their fields, a form has no     *)
(* field twice, and only its own fields are cleaned (forms/form.go:39).     *)
TypeOK ==
  /\ \A f \in Elements(model) : obj[f.name].type = GoType(f)
  /\ \A i, j \in DOMAIN form.fields : form.fields[i].name = form.fields[j].name => i = j
  /\ DOMAIN form.cleaned \subseteq FieldNames
  /\ phase = "checked" => FieldNames \subseteq DOMAIN form.cleaned \union form.errors
  /\ phase \in {"idle", "page", "bound", "checked"} /\ posts \in 0..MaxPosts
  /\ outcome \in {"none", "ok", "error", "panic", "refused"}

(* What an untouched field becomes: a text loses the blanks at its ends, a  *)
(* time its fraction of a second; nothing else is changed.                  *)
Rewritten(v) == CASE v.type = "string" -> Text(TrimSpace(v.is))
                  [] v.type = "time.Time" /\ v # Zero(v.type) -> Value(v.type, DateTimes[Formatted[v.is]])
                  [] OTHER -> v

(* What a text entered into a field stands for, in a field of its width.    *)
Entered(f, text) ==
  LET t == TrimSpace(text)
  IN CASE f.rel -> Value("ForeignKey", IF t = Blank THEN "0" ELSE Integers[t])
       [] GoType(f) = "string" -> Text(t)
       [] GoType(f) = "bool" -> Truth(t # Blank)
       [] GoType(f) = "time.Time" -> Value("time.Time", DateTimes[t])
       [] GoType(f) = "int64" -> Value("int64", Integers[t])
       [] GoType(f) \in DOMAIN Narrowed -> Value(GoType(f), Narrowed[GoType(f)][Integers[t]])

(* What is left of a value that its control did not show: the first option  *)
(* of a select, which for a foreign key is none, or nothing.                *)
Unseen(f, ff) ==
  IF ff.widget.type = "select" /\ ff.widget.choices # <<>>
  THEN Entered(f, ff.widget.choices[1]) ELSE Zero(GoType(f))

(* forms/modelform.go:142 and 202: FromStruct "pre-fills it with the        *)
(* current field values of obj", PopulateStruct "sets the exported fields   *)
(* of dest from cleaned data".  However often a form is sent back and       *)
(* whatever else the client sends, a save writes what the user last entered *)
(* into a field, wrapped to the width of the field, and rewrites the fields *)
(* the user did not touch as Rewritten says.  There is one exception: a     *)
(* value that was not among the options when the page was shown, because    *)
(* the row was deleted, the load of the options failed or the value is none *)
(* of the choices, is replaced by what the page showed instead, without the *)
(* user doing anything.  Fields that are not on the form stay as they were. *)
SavedAsTyped ==
  [][Save /\ outcome' = "ok" =>
       \A f \in Elements(model) :
         obj'[f.name] =
           CASE f.name \notin FieldNames -> obj[f.name]
             [] f.name \in FieldNames \intersect lost -> Unseen(f, FieldOf(f.name))
             [] f.name \in (FieldNames \intersect DOMAIN typed) \ lost ->
                  Entered(f, typed[f.name])
             [] OTHER -> Rewritten(obj[f.name])]_vars

(* What one field of the form may be saved as. *)
Permitted(f, ff, v) ==
  /\ ff.required /\ v.type \in {"string", "ForeignKey"} => v # Zero(v.type)
  /\ f.kind = "Char" /\ ~f.rel /\ f.max > 0 => Len(v.is) <= f.max
  /\ v.type = "string" => v.is \notin DOMAIN Padded
  /\ f.choices # <<>> => v.is \in Elements(f.choices) \union {Blank}
  /\ f.rel => v.is \notin gone

(* forms/form.go:37: "IsValid cleans every field": a saved object holds in  *)
(* the form's fields only what the model and the options permit: required   *)
(* values, lengths, choices, and no related row that was gone by the time   *)
(* the options were loaded for the submission, however old the page.  A row *)
(* that is deleted after that is not noticed.  A field that is excluded     *)
(* stays as it was, for (forms/modelform_options.go:25) "an exclusion wins  *)
(* over an inclusion".                                                      *)
StoredPermitted ==
  [][Save /\ outcome' = "ok" =>
       \A f \in Elements(model) :
         /\ f.name \in FieldNames => Permitted(f, FieldOf(f.name), obj'[f.name])
         /\ f.name \in opts.exclude => obj'[f.name] = obj[f.name]]_vars

(* What an object becomes when its form is opened and submitted untouched.  *)
Resubmitted(fields, o) ==
  LET cleaned == CleanedAll(fields, Submission(Render(fields, FromStruct(model, o, fields))))
      valid == \A name \in DOMAIN cleaned : cleaned[name].type # "error"
  IN IF valid THEN PopulateStruct(model, cleaned, o).obj ELSE [name \in {} |-> Text(Blank)]

(* forms/modelform.go:170 and 263: what a conversion loses it loses in the  *)
(* first save.  When an object has been saved from a form and its related   *)
(* row is still there, the form that is opened next is valid as it stands,  *)
(* and submitting it untouched changes nothing more.                        *)
SavesSettle ==
  [][Save /\ outcome' = "ok" =>
       LET fields == ViewFields({})
       IN (\A i \in DOMAIN fields :
             /\ fields[i].widget.type # "password"
             /\ fields[i].name \in ForeignKeys =>
                  obj'[fields[i].name].is \in Elements(rows) \union {"0"})
            => Resubmitted(fields, obj') = obj']_vars

=============================================================================
