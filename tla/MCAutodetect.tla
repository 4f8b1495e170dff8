---------------------------- MODULE MCAutodetect ----------------------------
(* Project states for model checking Autodetect: a model Author with two    *)
(* optional fields, and a model Book that may refer to it.                  *)
EXTENDS Autodetect

CONSTANT v1
MCRowId == {1}
MCValue == v1

Field(name, column, type, null, ref) ==
    [name |-> name, column |-> column, type |-> type, null |-> null, ref |-> ref]

Id == Field("ID", "id", "auto", FALSE, NoRef)

OneModel(fields) ==
    [models |-> "Author" :> [table |-> "author", fields |-> <<Id>> \o fields],
     order |-> <<"Author">>]

Books(ps, fields) ==
    [models |-> ("Book" :> [table |-> "book", fields |-> <<Id>> \o fields]) @@ ps.models,
     order |-> Append(ps.order, "Book")]

X == {<<>>} \cup {<<Field("X", c, t, n, NoRef)>> :
                    <<c, t, n>> \in {<<"x", "int", TRUE>>, <<"x", "int", FALSE>>,
                                     <<"x", "text", TRUE>>, <<"y", "int", TRUE>>}}
Y == {<<>>} \cup {<<Field("Y", c, "int", TRUE, NoRef)>> : c \in {"y", "x"}}

\* Further names, for renames of several fields at once.
ZW == {<<Field("Z", "z", "int", TRUE, NoRef)>>,
       <<Field("W", "w", "int", TRUE, NoRef), Field("Z", "z", "int", TRUE, NoRef)>>}

Ref(null) == <<Field("Author", "author_id", "int", null, "author")>>

Authors == {OneModel(x \o y) : x \in X, y \in Y}
NoColumnTwice(ps) ==
    \A n \in ModelNames(ps) : Cardinality(Columns(ps.models[n].fields)) = Len(ps.models[n].fields)

\* States of the whole project: no models, authors, authors and books.
MCProjectStates ==
    {NewProjectState}
    \cup {ps \in Authors : NoColumnTwice(ps)}
    \cup {OneModel(fields) : fields \in ZW}
    \cup {Books(OneModel(<<>>), fields) : fields \in {<<>>, Ref(FALSE), Ref(TRUE)}}

=============================================================================
