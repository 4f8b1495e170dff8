--------------------------- MODULE MCQueryCompiler ---------------------------
(* Values for model checking QueryCompiler. *)
EXTENDS QueryCompiler

CONSTANT null

MCNull == null
Scalar(v) == [kind |-> "scalar", v |-> v]
Pair(key, lookup, value) == [key |-> key, lookup |-> lookup, value |-> value, odd |-> FALSE]

MCPairs == <<
    Pair("n", "exact", Scalar(1)),
    Pair("n", "exact", Scalar(null)),
    Pair("n", "gt", Scalar(1)),
    Pair("n", "in", [kind |-> "slice", v |-> <<>>]),
    Pair("id", "in", [kind |-> "slice", v |-> <<1, 3>>]),
    Pair("s", "contains", Scalar(<<"_">>)),
    Pair("s", "startswith", Scalar(<<"a">>)),
    Pair("s", "endswith", Scalar(<<"%">>)),
    Pair("n", "isnull", [kind |-> "bool", v |-> TRUE]),
    Pair("n", "near", Scalar(1)),
    Pair("x", "exact", Scalar(1)),
    [Pair("n", "exact", Scalar(1)) EXCEPT !.odd = TRUE] >>

Desc == [column |-> "n", desc |-> TRUE]
Unknown == [column |-> "x", desc |-> FALSE]

\* One operation after two conditions; two operations and wrong chains.
MCPrograms == {
    [pairs |-> SubSeq(MCPairs, 1, 9), orders |-> {Desc}, wheres |-> 2, ops |-> 1],
    [pairs |-> <<MCPairs[1], MCPairs[5]>> \o SubSeq(MCPairs, 10, 12),
     orders |-> {Desc, Unknown}, wheres |-> 1, ops |-> 2]}

Set(col, value) == [col |-> col, value |-> value]
MCAssignments == << <<Set("n", null)>>, <<Set("n", 2), Set("s", <<"a", "%">>)>>,
                    <<Set("at", 0), Set("n", 1)>>, <<Set("s", null)>>, <<Set("x", 1)>> >>

MCObjects == {[n |-> 0, s |-> <<"a">>], [n |-> 1, s |-> <<"_", "%">>]}

Row(i, n, s) == [id |-> i, n |-> n, s |-> s, at |-> 0]
MCTables == { {Row(1, 1, <<"a", "a">>), Row(2, null, <<"a", "%">>), Row(3, 2, <<"_">>)} }
=============================================================================
