----------------------------- MODULE MCAdminSite -----------------------------
EXTENDS AdminSite

CONSTANTS ann, bob

NoTexts == [text \in {} |-> text]
Whole == "1" :> "1" @@ "2" :> "2"
OrmField(name, kind, null, max, rel, auto) ==
  [name |-> name, kind |-> kind, int |-> "int64", null |-> null, max |-> max, choices |-> <<>>,
   rel |-> rel, auto |-> auto]
Article == <<OrmField("ID", "Auto", FALSE, 0, FALSE, FALSE),
             OrmField("Title", "Char", TRUE, 1, FALSE, FALSE),
             OrmField("Views", "Int", FALSE, 0, FALSE, FALSE),
             OrmField("Owner", "Int", TRUE, 0, TRUE, FALSE),
             OrmField("Made", "DateTime", FALSE, 0, FALSE, TRUE),
             OrmField("Changed", "DateTime", FALSE, 0, FALSE, TRUE)>>

Row(id, title, views, owner) ==
  [name \in { f.name : f \in Elements(Article) } |->
     CASE name = "ID" -> Value("int64", id) [] name = "Title" -> Text(title)
       [] name = "Views" -> Value("int64", views) [] name = "Owner" -> Value("ForeignKey", owner)
       [] name \in {"Made", "Changed"} -> Value("time.Time", "before")]
MCRows == 1 :> Row("1", "a", "0", "1")
MCOwners == <<"1", "2">>
MCStamp == {"Changed"}
MCDefaults == "Title" :> Text("d")
MCKeys == <<1, 2, 3>>

(* Members of the staff are alike.                                          *)
Alike == Permutations(Staff)

(* The site counts views.                                                   *)
MCCounts == "0" :> "1" @@ "1" :> "2" @@ "2" :> "3"
=============================================================================
