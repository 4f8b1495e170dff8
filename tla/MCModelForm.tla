----------------------------- MODULE MCModelForm -----------------------------
EXTENDS ModelForm

CONSTANT Nullable    \* integers and times may be null

Blanks == " " :> "" @@ " ab " :> "ab"
Whole == "7" :> "7" @@ "07" :> "7" @@ "1" :> "1" @@ "2" :> "2" @@ "44" :> "44" @@ "300" :> "300"
Times == "T1Z" :> "t1" @@ "T2Z" :> "t2" @@ "T2 alt" :> "t2"
Layout == "t1" :> "T1Z" @@ "t1.5" :> "T1Z" @@ "t2" :> "T2Z"

(* A uint8 keeps a number modulo 256.                                       *)
Number == "7" :> 7 @@ "1" :> 1 @@ "2" :> 2 @@ "44" :> 44 @@ "300" :> 300
Bytes == "uint8" :> [text \in DOMAIN Number |-> ToString(Number[text] % 256)]

OrmField(name, kind, null, max, choices, rel, auto) ==
  [name |-> name, kind |-> kind, int |-> IF name = "Count" THEN "uint8" ELSE "int64",
   null |-> null, max |-> max, choices |-> choices, rel |-> rel, auto |-> auto]
ID == OrmField("ID", "Auto", FALSE, 0, <<>>, FALSE, FALSE)
Title == OrmField("Title", "Char", FALSE, 2, <<>>, FALSE, FALSE)
Note == OrmField("Note", "Text", TRUE, 0, <<>>, FALSE, FALSE)
Status == OrmField("Status", "Char", FALSE, 1, <<"d", "p">>, FALSE, FALSE)
Count == OrmField("Count", "Int", Nullable, 0, <<>>, FALSE, FALSE)
Live == OrmField("Live", "Bool", FALSE, 0, <<>>, FALSE, FALSE)
When == OrmField("At", "DateTime", FALSE, 0, <<>>, FALSE, FALSE)
Changed == OrmField("Changed", "DateTime", FALSE, 0, <<>>, FALSE, TRUE)
Owner(null) == OrmField("Owner", "Int", null, 0, <<>>, TRUE, FALSE)

(* Values that a form can show and some that it cannot: a text with blanks  *)
(* at its ends, a text that is none of the choices, a time with a fraction, *)
(* a related row that is not there.                                         *)
Stored(f) ==
  CASE f.rel -> { Value("ForeignKey", id) : id \in {"0", "1", "7"} }
    [] f.kind = "Auto" -> { Value("int64", "1") }
    [] f.kind = "Char" /\ f.choices # <<>> -> { Text("d"), Text("p"), Text("x") }
    [] f.kind = "Char" /\ f.choices = <<>> -> { Text(""), Text("ab") }
    [] f.kind = "Text" -> { Text(""), Text("ab"), Text(" ab ") }
    [] f.kind = "Int" -> { Value("uint8", "7") }
    [] f.kind = "Bool" -> { Truth(TRUE), Truth(FALSE) }
    [] f.kind = "DateTime" -> { Value("time.Time", "t1"), Value("time.Time", "t1.5") }

Models == { <<ID, Title, Owner(TRUE)>>, <<ID, Note, Status>>, <<ID, Count, Live>>,
            <<ID, When, Changed, Live>>, <<ID, Owner(FALSE), Title>>, <<ID, Count, When>> }

None == [name \in {} |-> TRUE]
Option(only, exclude, required, widgets) ==
  [only |-> only, exclude |-> exclude, required |-> required, widgets |-> widgets]
Options == { Option(<<>>, {}, None, None),
             Option(<<"Live", "Title", "ID", "Nowhere", "Owner">>, {"Title"}, None, None),
             Option(<<>>, {"Owner", "Note"}, "Title" :> FALSE, None),
             Option(<<>>, {}, "Note" :> TRUE, "Owner" :> Widget("text", <<>>)),
             Option(<<"Note", "Status">>, {}, "Note" :> FALSE, "Note" :> Widget("password", <<>>)) }

Objects(m) == { o \in [ { f.name : f \in Elements(m) } -> UNION { Stored(f) : f \in Elements(m) } ] :
                  \A f \in Elements(m) : o[f.name] \in Stored(f) }
MCCases == UNION { [model : {m}, opts : Options, obj : Objects(m)] : m \in Models }

MCRelated == { <<"1", "2">> }
MCTyped == "text" :> {" ab ", "abc", "T2 alt", ""} @@ "textarea" :> {" ", "b"}
           @@ "number" :> {"", "07", "300"} @@ "password" :> {"b"} @@ "checkbox" :> {"", "on"} @@ "select" :> {}
=============================================================================
