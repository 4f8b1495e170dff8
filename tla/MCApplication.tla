---------------------------- MODULE MCApplication ----------------------------
(* Values for model checking Application: every declaration of a field     *)
(* with up to two tags, every pair of small apps, and two calls of New.    *)
EXTENDS Application, TLC

MCSnake == [ID |-> "id", Title |-> "title", Author |-> "author", AuthorID |-> "author_id"]

Tag(o, a) == [opt |-> o, arg |-> a]
Flag(o) == Tag(o, "")
Declare(name, type, tags) == [name |-> name, type |-> type, to |-> "", tags |-> tags]
Refer(name, to, tags) == [name |-> name, type |-> "fk", to |-> to, tags |-> tags]
Struct(type, name, fields) ==
    [type |-> type, name |-> name, table |-> "", fields |-> fields, choices |-> {}]

ID == Declare("ID", "int", <<>>)
Author == Struct("a.Author", "Author", <<ID, Declare("Title", "string", <<>>)>>)
Article == Struct("b.Article", "Article", <<ID, Refer("Author", "a.Author", <<>>)>>)
Clash == Struct("c.Article", "Article", <<ID>>)

(* Declarations of one struct: a key, a field with any two tags and a foreign key. *)
MCTags == {Flag("pk"), Flag("null"), Flag("type"), Flag("auto_now"), Flag("auto_now_add"),
           Flag("column"), Tag("column", "id"), Tag("max_length", "5"), Tag("max_length", "0"),
           Tag("default", "3"), Tag("default", "true"), Tag("default", "x"),
           Tag("on_delete", "set_null"), Tag("on_delete", "never"), Flag("index")}
TagLists == {<<>>} \cup {<<t>> : t \in MCTags} \cup {<<t, u>> : t, u \in MCTags}
Varied ==
    {Declare("Title", ty, ts) : ty \in {"string", "int", "bool", "time", "skipped"}, ts \in TagLists}
    \cup {Declare("Title", "other", <<>>), Declare("ID", "string", <<>>),
          Declare("ID", "int", <<Tag("default", "3")>>), Declare("AuthorID", "int", <<>>)}
    \cup {Refer("Author", to, ts) : to \in {"c.Article", "a.Author"}, ts \in TagLists}
Members == {<<v>> : v \in Varied} \cup {<<ID, v>> : v \in {x \in Varied : x.name # "ID"}}
Structs == {[Struct("c.Article", "Article", fields) EXCEPT !.choices = ch] :
               fields \in Members, ch \in {{}, {"Title"}}}
           \cup {Struct("c.Article", "Article",
                        <<ID, Declare("AuthorID", "int", <<>>), Refer("Author", "c.Article", <<>>)>>)}

Route(m, p, name) == [method |-> m, path |-> p, name |-> name]
Blog == <<Route("", <<"{$}">>, <<"index">>), Route("GET", <<"{p}", "7", "{$}">>, <<"detail">>),
          Route("GET", <<"add", "7", "{$}">>, <<"add">>), Route("", <<"files", "add", "{p...}">>, <<"file">>)>>
Catch == <<Route("GET", <<"{p}", "{$}">>, <<"page">>)>>
MCAdminRoutes ==
    <<Route("", <<"admin", "login", "{$}">>, <<"admin-login">>),
      Route("", <<"admin", "{$}">>, <<"admin-index">>),
      Route("", <<"admin", "{p}", "{$}">>, <<"admin-changelist">>),
      Route("", <<"admin", "{p}", "add", "{$}">>, <<"admin-add">>),
      Route("", <<"admin", "{p}", "{p}", "change", "{$}">>, <<"admin-change">>)>>
Segments == {"blog", "files", "admin", "add", "7", ""}
MCRequests ==
    {"GET", "POST"} \X
    (UNION {[1 .. k -> Segments] : k \in 1 .. 3}
     \cup {<<x, y, z, w>> : x \in {"blog", "admin"}, y \in {"files", "add", "7"},
                            z \in {"add", "7"}, w \in {"7", ""}}
     \cup {<<"admin", x, y, "change", "">> : x, y \in {"add", "7"}})

App(name) == [name |-> name, ready |-> "none", models |-> Without, routes |-> <<>>,
              admin |-> Without]
Of(name, models) == [App(name) EXCEPT !.models = <<TRUE, models>>, !.ready = "ok"]
AppSet ==
    {App(""), App("blog"), [App("late") EXCEPT !.ready = "fails"],
     Of("people", <<Author>>), Of("news", <<Article>>), Of("clash", <<Clash>>),
     [App("site") EXCEPT !.routes = Blog, !.ready = "ok"],
     [App("catch") EXCEPT !.routes = Catch],
     [App("sub") EXCEPT !.routes = Include(<<"blog">>, "blog", Blog)],
     [App("root") EXCEPT !.routes = Include(<<>>, "root", Blog)],
     [App("odd") EXCEPT !.routes = Include(<<"{p...}">>, "odd", Blog)],
     [App("desk") EXCEPT !.admin = <<TRUE, <<"a.Author">>>>]}

Base == [key |-> TRUE, host |-> "", db |-> "sqlite", apps |-> <<>>]
Settings == {Base, [Base EXCEPT !.key = FALSE, !.host = "0.0.0.0"],
             [Base EXCEPT !.db = "none"], [Base EXCEPT !.db = "mysql"],
             [Base EXCEPT !.db = "unopened", !.host = "0.0.0.0"]}
Lists == {<<>>} \cup {<<a>> : a \in AppSet} \cup {<<a, b>> : a, b \in AppSet}
         \cup {<<Of("people", <<Author>>), a, b>> : a, b \in AppSet}
Calls == {[Base EXCEPT !.apps = l] : l \in Lists}
         \cup {[s EXCEPT !.apps = l] : s \in Settings,
                                       l \in {x \in Lists : Len(x) <= 1}}
Again == {[Base EXCEPT !.apps = <<[App("site") EXCEPT !.routes = Blog, !.ready = "ok"]>>],
          [Base EXCEPT !.apps = <<[App("late") EXCEPT !.ready = "fails", !.routes = Blog]>>],
          [Base EXCEPT !.apps = <<[App("twice") EXCEPT !.routes =
               Include(<<"blog">>, "", Blog) \o Include(<<"news">>, "", Blog)]>>]}
MCPlans == {<<c, d>> : c \in Calls, d \in Again}
           \cup {<<[Base EXCEPT !.apps = <<Of("news", <<s>>), Of("people", <<Author>>)>>]>> :
                     s \in Structs}
=============================================================================
