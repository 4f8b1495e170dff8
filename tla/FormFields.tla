----------------------------- MODULE FormFields -----------------------------
(***************************************************************************)
(* The operators of package forms: a model's fields become form fields,     *)
(* a struct's values the text of their controls, submitted text cleaned     *)
(* values, and cleaned values a struct's values again.                      *)
(*                                                                          *)
(* A text is a string; a Go value is a record [type, is] whose "is" is the  *)
(* canonical text of the value, so that 7 and 07 are one int64.  Submitted  *)
(* data is a function from some of the names to one text each (url.Values   *)
(* keeps lists; Get reads the first).                                       *)
(***************************************************************************)
EXTENDS Naturals, Sequences, FiniteSets, Increasing, TLC

CONSTANTS Padded,      \* text with blanks at its ends -> the text without them
          Integers,    \* text ParseInt accepts -> canonical text
          DateTimes,   \* text a layout of dateTimeLayouts accepts -> time
          Formatted,   \* time -> its RFC 3339 text, without the fraction
          Narrowed     \* Go integer type other than int64 -> what each number
                       \* becomes in it: SetInt and SetUint wrap

(* The Go types of integer fields.                                          *)
IntTypes == {"int64"} \union DOMAIN Narrowed
ASSUME NarrowedAssumption ==
  DOMAIN Narrowed \intersect {"string", "bool", "time.Time", "ForeignKey", "error", "panic"} = {}

Elements(s) == { s[i] : i \in DOMAIN s }
Pick(s, P(_)) == At(s, {i \in DOMAIN s : P(s[i])})
Value(type, is) == [type |-> type, is |-> is]
Text(s) == Value("string", s)
Blank == ""  \* no text

(***************************************************************************)
(* From a model to a form.  A model field is a record                       *)
(* [name, kind, int, null, max, choices, rel, auto]: kind is orm's, int the *)
(* Go type of an integer, rel says it is a foreign key, auto that it is     *)
(* auto_now or auto_now_add.                                                *)
(***************************************************************************)
GoType(f) == IF f.rel THEN "ForeignKey"
             ELSE CASE f.kind \in {"Char", "Text"} -> "string"
                    [] f.kind \in {"Auto", "Int"} -> f.int
                    [] f.kind = "Bool" -> "bool"
                    [] f.kind = "DateTime" -> "time.Time"

Zero(type) == Value(type, CASE type = "string" -> Blank
                            [] type = "bool" -> "false"
                            [] type = "time.Time" -> "zero"
                            [] type \in IntTypes \union {"ForeignKey"} -> "0")

Widget(type, choices) == [type |-> type, choices |-> choices]

FormFieldFor(f) ==
  LET Field(kind, widget) ==
        [name |-> f.name, required |-> ~f.null /\ kind # "Bool", kind |-> kind,
         max |-> IF kind = "Char" THEN f.max ELSE 0,
         choices |-> widget.choices, widget |-> widget]
      plain(type) == Widget(type, <<>>)
  IN CASE f.rel                                 -> Field("Choice", plain("select"))
       [] ~f.rel /\ f.kind = "Char" /\ f.choices # <<>>
                                                -> Field("Choice", Widget("select", f.choices))
       [] ~f.rel /\ f.kind = "Char" /\ f.choices = <<>>
                                                -> Field("Char", plain("text"))
       [] ~f.rel /\ f.kind = "Text"             -> Field("Text", plain("textarea"))
       [] ~f.rel /\ f.kind = "Int"              -> Field("Integer", plain("number"))
       [] ~f.rel /\ f.kind = "Bool"             -> Field("Bool", plain("checkbox"))
       [] ~f.rel /\ f.kind = "DateTime"         -> Field("DateTime", plain("text"))

HasFormField(f) == ~f.auto /\ f.kind # "Auto"

(* Options: only (WithFields), exclude (WithExclude), required              *)
(* (WithRequired) and widgets (WithWidget), the last two functions from     *)
(* some of the names.                                                       *)
(* A fault: an excluded name that WithFields lists stays on the form.       *)
IncludedFirst(opts, all) ==
  IF opts.only # <<>> THEN opts.only ELSE Pick(all, LAMBDA name : name \notin opts.exclude)

IncludedNames(opts, all) ==
  LET source == IF opts.only # <<>> THEN opts.only ELSE all
  IN Pick(source, LAMBDA name : name \notin opts.exclude)

Apply(opts, ff) ==
  [ff EXCEPT !.required = IF ff.name \in DOMAIN opts.required
                          THEN opts.required[ff.name] ELSE @,
             !.widget = IF ff.name \in DOMAIN opts.widgets
                        THEN opts.widgets[ff.name] ELSE @]

FieldByName(model, name) == CHOOSE f \in Elements(model) : f.name = name

FromModel(model, opts) ==
  LET built == Pick(model, HasFormField)
      order == [i \in DOMAIN built |-> built[i].name]
      names == Pick(IncludedNames(opts, order), LAMBDA name : name \in Elements(order))
  IN [i \in DOMAIN names |-> Apply(opts, FormFieldFor(FieldByName(model, names[i])))]

(* A fault: the options are the rows only, and the first is pre-selected.   *)
WithChoicesNoEmpty(ff, options) ==
  [ff EXCEPT !.choices = options,
             !.widget = IF @.type = "select" THEN Widget("select", options) ELSE @]

(* SetChoices: the empty option comes first; only a Select is refreshed.    *)
WithChoices(ff, options) ==
  LET withEmpty == <<Blank>> \o options
  IN [ff EXCEPT !.choices = withEmpty,
                !.widget = IF @.type = "select" THEN Widget("select", withEmpty) ELSE @]

(***************************************************************************)
(* From a struct to bound data, and from data to a page.                    *)
(***************************************************************************)
Shown(v) ==  \* stringifyFieldValue's second result
  v.is \notin CASE v.type = "ForeignKey" -> {"0"} [] v.type = "bool" -> {"false"}
                [] v.type = "time.Time" -> {"zero"} [] OTHER -> {}

(* A fault: the time is shown as Go prints it, which no layout accepts.     *)
StringifiedDefault(v) == IF v.type = "time.Time" THEN "time " \o v.is ELSE v.is

Stringified(v) == IF v.type = "time.Time" THEN Formatted[v.is] ELSE v.is

FromStruct(model, obj, fields) ==
  LET names == { fields[i].name : i \in DOMAIN fields }
  IN [name \in { n \in names : Shown(obj[n]) } |-> Stringified(obj[name])]

IsTruthy(raw) == (IF raw \in DOMAIN Padded THEN Padded[raw] ELSE raw) \in {"true", "on", "1"}
BoundValue(data, name) == IF name \in DOMAIN data THEN data[name] ELSE Blank

(* A control of a page: what the browser shows and would submit.            *)
Control(ff, value) ==
  [name |-> ff.name, type |-> ff.widget.type, options |-> ff.widget.choices,
   value |-> CASE ff.widget.type = "checkbox" -> IF IsTruthy(value) THEN "on" ELSE Blank
               [] ff.widget.type = "password" -> Blank
               [] ff.widget.type = "select" ->
                    IF \/ value \in Elements(ff.widget.choices)
                       \/ ff.widget.choices = <<>>
                    THEN value ELSE ff.widget.choices[1]
               [] OTHER -> value]

Render(fields, data) ==
  [i \in DOMAIN fields |-> Control(fields[i], BoundValue(data, fields[i].name))]

(* What a browser submits: no unchecked box and no select without options.  *)
Successful(c) == /\ c.type = "checkbox" => c.value = "on"
                 /\ c.type = "select" => c.options # <<>>

Submission(page) ==
  LET sent == { page[i] : i \in { j \in DOMAIN page : Successful(page[j]) } }
  IN [name \in { c.name : c \in sent } |-> (CHOOSE c \in sent : c.name = name).value]

(***************************************************************************)
(* From data to cleaned values.                                             *)
(***************************************************************************)
TrimSpace(s) == IF s \in DOMAIN Padded THEN Padded[s] ELSE s

RawValue(ff, data) ==
  IF ff.kind = "Bool" /\ ff.name \in DOMAIN data /\ data[ff.name] = Blank
  THEN "on" ELSE BoundValue(data, ff.name)

Invalid(why) == Value("error", why)
Truth(b) == Value("bool", IF b THEN "true" ELSE "false")

(* A fault: neither lengths nor choices are checked.                        *)
CleanUnbounded(ff, raw) ==
  LET value == TrimSpace(raw)
  IN CASE ff.kind = "Bool" -> Truth(IsTruthy(raw))
       [] ff.kind # "Bool" /\ value = Blank -> IF ff.required THEN Invalid("required") ELSE Text(Blank)
       [] ff.kind = "Integer" /\ value \in DOMAIN Integers -> Value("int64", Integers[value])
       [] ff.kind = "DateTime" /\ value \in DOMAIN DateTimes ->
            Value("time.Time", DateTimes[value])
       [] ff.kind \in {"Char", "Text", "Choice"} -> Text(value)
       [] OTHER -> Invalid("format")

Clean(ff, raw) ==
  LET value == TrimSpace(raw)
      accepted == CASE ff.kind = "Bool" -> TRUE
                    [] ff.kind \in {"Char", "Text"} -> ~(ff.max > 0 /\ Len(value) > ff.max)
                    [] ff.kind = "Integer" -> value \in DOMAIN Integers
                    [] ff.kind = "Choice" -> value \in Elements(ff.choices)
                    [] ff.kind = "DateTime" -> value \in DOMAIN DateTimes
  IN IF ff.kind # "Bool" /\ value = Blank
     THEN IF ff.required THEN Invalid("required") ELSE Text(Blank)
     ELSE IF ~accepted THEN Invalid("format")
     ELSE CASE ff.kind = "Bool" -> Truth(IsTruthy(raw))
            [] ff.kind = "Integer" -> Value("int64", Integers[value])
            [] ff.kind = "DateTime" -> Value("time.Time", DateTimes[value])
            [] OTHER -> Text(value)

CleanedAll(fields, data) ==
  LET Field(name) == CHOOSE ff \in Elements(fields) : ff.name = name
  IN [name \in { ff.name : ff \in Elements(fields) } |->
        Clean(Field(name), RawValue(Field(name), data))]

(***************************************************************************)
(* From cleaned values to a struct.  Assigned is what one field becomes, or *)
(* an error, or the panic of reflect's SetString on a field that is not a   *)
(* string.                                                                  *)
(***************************************************************************)
FkPK(v) == IF v.is = Blank THEN Value("ForeignKey", "0")
           ELSE IF v.is \in DOMAIN Integers THEN Value("ForeignKey", Integers[v.is])
           ELSE Invalid("not an id")

(* A fault: a number is kept whatever the width of the field.               *)
NarrowNothing(type, is) == is

(* SetInt and SetUint store the number modulo the width of the field.       *)
Narrow(type, is) == IF type \in DOMAIN Narrowed THEN Narrowed[type][is] ELSE is

SetScalar(type, v) ==
  CASE v.type = "int64" /\ type \in IntTypes -> Value(type, Narrow(type, v.is))
    [] v.type = "int64" /\ type \notin IntTypes -> Invalid("cannot assign")
    [] v.type # "int64" /\ v.type = type -> v
    [] v.type # "int64" /\ v.type # type -> Value("panic", v.is)

Assigned(f, v) == IF f.rel THEN FkPK(v) ELSE SetScalar(GoType(f), v)

(* The fields before the first that fails are set; that one ends the call.  *)
PopulateStruct(model, cleaned, obj) ==
  LET into == { i \in DOMAIN model : model[i].name \in DOMAIN cleaned }
      new(i) == Assigned(model[i], cleaned[model[i].name])
      bad == { i \in into : new(i).type \in {"error", "panic"} }
      done == { i \in into : \A j \in bad : i < j }
      first == CHOOSE i \in bad : \A j \in bad : i <= j
  IN [outcome |-> IF bad = {} THEN "ok" ELSE new(first).type,
      obj |-> [name \in DOMAIN obj |->
                 IF \E i \in done : model[i].name = name
                 THEN new(CHOOSE i \in done : model[i].name = name) ELSE obj[name]]]
=============================================================================
