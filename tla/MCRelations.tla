----------------------------- MODULE MCRelations -----------------------------
(* Values for model checking Relations: two authors, two books, SQLite,    *)
(* PostgreSQL with each tag, and authors with a mentor.                    *)
EXTENDS Relations

Shelf(k, l, m, n) == [b \in Book |-> IF b = 1 THEN [author |-> k, editor |-> l]
                                              ELSE [author |-> m, editor |-> n]]
MCShelves == {Shelf(1, 2, 1, -1), Shelf(-1, -1, 2, 1)}

Alone == [a \in Author |-> -1]
MCSchemas ==
    {[enforced |-> FALSE, onDelete |-> "cascade", mentor |-> Alone],
     [enforced |-> TRUE, onDelete |-> "restrict",
      mentor |-> [Alone EXCEPT ![2] = 1]]}
    \cup {[enforced |-> TRUE, onDelete |-> t, mentor |-> Alone] :
              t \in {"cascade", "set_null", "do_nothing"}}
=============================================================================
