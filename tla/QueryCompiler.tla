---------------------------- MODULE QueryCompiler ----------------------------
(***************************************************************************)
(* orm/queryset.go, lookups.go, compiler.go and the statements of          *)
(* execute.go: a QuerySet is chained, compiled into a statement of one of  *)
(* the two dialects, and run.  A statement keeps the placeholders of its   *)
(* SET and WHERE parts in textual order beside its arguments: SQLite's "?" *)
(* takes the arguments in order, PostgreSQL's "$n" the n-th.               *)
(*                                                                         *)
(* The model has an auto primary key id, a nullable integer n with the     *)
(* default DefaultN, a text s (a sequence of characters) and an auto_now   *)
(* column at.  No Go type the registry accepts for a scalar holds NULL.    *)
(***************************************************************************)
EXTENDS Integers, Sequences, FiniteSets, SequencesExt

CONSTANTS
    Null,          \* SQL's NULL and Go's nil
    Dialects,      \* those to run on: "sqlite", "postgres"
    InitTables,    \* the tables to start from
    Programs,      \* [pairs, orders, wheres, ops]: the key/value pairs of Filter
                   \* and Exclude, the ORDER BY terms [column, desc], and bounds
                   \* on the conditions of a queryset and on the operations
    Assignments,   \* sequence of the assignments of an Update
    Objects,       \* the objects to create, [n, s]
    MaxRows        \* bound on the ids the database hands out

ASSUME BoundsAssumption ==
    /\ MaxRows \in Nat
    /\ \A p \in Programs : {p.wheres, p.ops} \subseteq Nat
ASSUME DialectsAssumption == Dialects \subseteq {"sqlite", "postgres"}

VARIABLES
    program,   \* what the program uses
    dialect,   \* the dialect of the DB handle
    table,     \* the rows
    lastID,    \* the last id the database has assigned
    q,         \* the queryset the program holds
    res,       \* what the last operation returned
    ops        \* the operations done so far

vars == <<program, dialect, table, lastID, q, res, ops>>

Columns == {"id", "n", "s", "at"}
DefaultN == 2
Old == 0    \* the clock when the first rows were written
Now == 1    \* and afterwards

NoResult == [op |-> "none"]
Unlimited == [wheres |-> <<>>, orders |-> <<>>, limit |-> -1, offset |-> 0,
              err |-> "none"]

TypeOK ==
    /\ \A r \in table : DOMAIN r = Columns /\ r.id \in 1 .. lastID /\ r.s # Null /\ r.at \in {Old, Now}
    /\ \A r1, r2 \in table : r1.id = r2.id => r1 = r2
    /\ lastID \in 0 .. MaxRows
    /\ program \in Programs /\ Len(q.wheres) <= program.wheres /\ q.limit \in -1 .. MaxRows /\ q.offset \in Nat
    /\ q.err \in {"none", "arity"}
    /\ ops \in 0 .. program.ops

Init ==
    /\ program \in Programs
    /\ dialect \in Dialects
    /\ table \in InitTables
    /\ lastID = Cardinality(table)
    /\ q = Unlimited
    /\ res = NoResult
    /\ ops = 0

-----------------------------------------------------------------------------
(* The chain methods.  Each returns a clone; the program goes on with it. *)

Chain(next) ==
    /\ ops < program.ops
    /\ q' = next
    /\ res' = NoResult
    /\ UNCHANGED <<program, dialect, table, lastID, ops>>

(* The queryset with one more condition; a pair without a value is an error. *)
AddWheres(p, negate) ==
    IF p.odd THEN [q EXCEPT !.err = "arity"]
    ELSE [q EXCEPT !.wheres = Append(@, [key |-> p.key, lookup |-> p.lookup,
                                         value |-> p.value, negate |-> negate])]

Filter ==
    /\ Len(q.wheres) < program.wheres
    /\ \E i \in DOMAIN program.pairs : Chain(AddWheres(program.pairs[i], FALSE))

Exclude ==
    /\ Len(q.wheres) < program.wheres
    /\ \E i \in DOMAIN program.pairs : Chain(AddWheres(program.pairs[i], TRUE))

OrderBy ==
    /\ q.orders = <<>>
    /\ \E o \in program.orders : Chain([q EXCEPT !.orders = Append(@, o)])

Limit == \E n \in {0, 1} : q.limit = -1 /\ Chain([q EXCEPT !.limit = n])

Offset == q.offset = 0 /\ Chain([q EXCEPT !.offset = 1])

(* The program starts from Query[T](db) again. *)
NewQuery == q # Unlimited /\ Chain(Unlimited)

-----------------------------------------------------------------------------
(* Compilation. *)

Special == {"%", "_", "\\"}

(* A fault: the wildcards of a value are not escaped. *)
EscapeNothing(v) == v

EscapeLike(v) ==
    FlattenSeq([i \in DOMAIN v |-> IF v[i] \in Special THEN <<"\\", v[i]>> ELSE <<v[i]>>])

Operator == [gt |-> ">", gte |-> ">=", lt |-> "<", lte |-> "<="]

Predicate(op, args) == [err |-> "none", op |-> op, args |-> args]

(***************************************************************************)
(* buildPredicate: the operator of a condition and its arguments, one for  *)
(* each placeholder; values are [kind, v].                                 *)
(***************************************************************************)
BuildPredicate(w) ==
    LET v == w.value.v
        like(pattern) == Predicate("LIKE", <<pattern>>)
        wrong == [Predicate("none", <<>>) EXCEPT !.err = "lookup"]
    IN CASE w.key \notin Columns -> [wrong EXCEPT !.err = "field"]
         [] w.lookup = "exact" ->
              IF v = Null THEN Predicate("IS NULL", <<>>) ELSE Predicate("=", <<v>>)
         [] w.lookup \in DOMAIN Operator -> Predicate(Operator[w.lookup], <<v>>)
         [] w.lookup \in {"contains", "icontains"} ->
              like(<<"%">> \o EscapeLike(v) \o <<"%">>)
         [] w.lookup = "startswith" -> like(EscapeLike(v) \o <<"%">>)
         [] w.lookup = "endswith" -> like(<<"%">> \o EscapeLike(v))
         [] w.lookup = "in" /\ w.value.kind = "slice" ->
              IF v = <<>> THEN Predicate("FALSE", <<>>) ELSE Predicate("IN", v)
         [] w.lookup = "isnull" /\ w.value.kind = "bool" ->
              Predicate(IF v THEN "IS NULL" ELSE "IS NOT NULL", <<>>)
         [] OTHER -> wrong

(* The next k placeholders after the n-th. *)
NextPlaceholders(n, k) == [i \in 1 .. k |-> n + i]

(* A fault: the error of the chain is not looked at. *)
ChainErrorForgotten == "none"

(* Every operation starts by returning the error of the chain. *)
ChainError == q.err

(* compileWhere, with n placeholders before it. *)
CompileWhere(n) ==
    FoldLeft(LAMBDA acc, w :
                LET p == BuildPredicate(w)
                    k == Len(p.args)
                IN IF acc.err # "none" THEN acc
                   ELSE IF p.err # "none" THEN [acc EXCEPT !.err = p.err]
                   ELSE [err |-> "none", n |-> acc.n + k, args |-> acc.args \o p.args,
                         preds |-> Append(acc.preds,
                             [col |-> w.key, op |-> p.op, negate |-> w.negate,
                              phs |-> NextPlaceholders(acc.n, k)])],
             [err |-> ChainError, n |-> n, args |-> <<>>, preds |-> <<>>], q.wheres)

Statement(where, sets, setArgs) ==
    [err |-> where.err, sets |-> sets, preds |-> where.preds, args |-> setArgs \o where.args]

(* compileCount, compileDelete and the query of Exists. *)
CompileRead == Statement(CompileWhere(0), <<>>, <<>>)

(* A fault: the arguments of WHERE go before those of SET. *)
CompileUpdateWhereFirst(assigns) ==
    LET where == CompileWhere(Len(assigns))
        values == [i \in DOMAIN assigns |-> assigns[i].value]
    IN [Statement(where, [i \in DOMAIN assigns |-> [col |-> assigns[i].col, ph |-> i]], values)
            EXCEPT !.args = where.args \o values]

(* compileUpdate: SET values first, then the WHERE args, one counter. *)
CompileUpdate(assigns) ==
    LET unknown == \E i \in DOMAIN assigns : assigns[i].col \notin Columns
        sets == [i \in DOMAIN assigns |->
                    [col |-> assigns[i].col, ph |-> NextPlaceholders(i - 1, 1)[1]]]
        stmt == Statement(CompileWhere(Len(assigns)), sets,
                          [i \in DOMAIN assigns |-> assigns[i].value])
    IN IF ChainError = "none" /\ unknown THEN [stmt EXCEPT !.err = "field"] ELSE stmt

(* compileOrderBy fails on a column the model does not have. *)
OrderError == \E i \in DOMAIN q.orders : q.orders[i].column \notin Columns

(* compileLimitOffset: an offset alone is written LIMIT -1 OFFSET n. *)
LimitClause(limit, offset) ==
    [limit |-> IF limit >= 0 THEN {limit} ELSE IF offset > 0 THEN {-1} ELSE {},
     offset |-> offset]

-----------------------------------------------------------------------------
(* The database. *)

(* The textual order of the placeholders, and the value each one takes. *)
Occurrences(stmt) ==
    [i \in DOMAIN stmt.sets |-> stmt.sets[i].ph]
        \o FlattenSeq([k \in DOMAIN stmt.preds |-> stmt.preds[k].phs])

Bound(stmt, i) ==
    IF dialect = "sqlite" THEN stmt.args[i] ELSE stmt.args[Occurrences(stmt)[i]]

PredicateArgs(stmt, k) ==
    LET before == Len(stmt.sets)
                  + Len(FlattenSeq([j \in 1 .. k - 1 |-> stmt.preds[j].phs]))
    IN [i \in DOMAIN stmt.preds[k].phs |-> Bound(stmt, before + i)]

(* LIKE ... ESCAPE '\': a pattern as literal characters and wildcards. *)
Tokens(pattern) ==
    FoldLeft(LAMBDA acc, c :
                IF c = "\\" /\ ~acc.esc THEN [acc EXCEPT !.esc = TRUE]
                ELSE [esc |-> FALSE, toks |-> Append(acc.toks,
                         [ch |-> c, wild |-> ~acc.esc /\ c \in {"%", "_"}])],
             [esc |-> FALSE, toks |-> <<>>], pattern).toks

Like(text, pattern) ==
    LET p == Tokens(pattern)
        m[i \in 0 .. Len(p), j \in 0 .. Len(text)] ==
            IF i = 0 THEN j = 0
            ELSE IF p[i].wild /\ p[i].ch = "%"
                 THEN m[i - 1, j] \/ (j > 0 /\ m[i, j - 1])
                 ELSE j > 0 /\ (p[i].wild \/ p[i].ch = text[j]) /\ m[i - 1, j - 1]
    IN m[Len(p), Len(text)]

(* Three-valued truth of "x op args"; U is unknown. *)
Truth(op, x, args) ==
    LET nulls == x = Null \/ \E i \in DOMAIN args : args[i] = Null
        of(b) == IF b THEN "T" ELSE "F"
    IN CASE op = "IS NULL" -> of(x = Null)
         [] op = "IS NOT NULL" -> of(x # Null)
         [] op = "FALSE" -> "F"
         [] op = "IN" -> IF x # Null /\ \E i \in DOMAIN args : args[i] = x THEN "T"
                         ELSE IF nulls THEN "U" ELSE "F"
         [] nulls -> "U"
         [] op = "=" -> of(x = args[1])
         [] op = "LIKE" -> of(Like(x, args[1]))
         [] op = ">" -> of(x > args[1])
         [] op = ">=" -> of(x >= args[1])
         [] op = "<" -> of(x < args[1])
         [] op = "<=" -> of(x <= args[1])

(* The rows for which every predicate, negated or not, is true. *)
Selected(stmt) ==
    {r \in table : \A k \in DOMAIN stmt.preds :
        LET p == stmt.preds[k]
        IN Truth(p.op, r[p.col], PredicateArgs(stmt, k)) = (IF p.negate THEN "F" ELSE "T")}

(* NULLs come first on SQLite and last on PostgreSQL, ascending. *)
Before(o, r1, r2) ==
    LET lt(a, b) == IF a = Null THEN b # Null /\ dialect = "sqlite"
                    ELSE IF b = Null THEN dialect = "postgres" ELSE a < b
    IN IF o.desc THEN lt(r2[o.column], r1[o.column]) ELSE lt(r1[o.column], r2[o.column])

(* The sequences in which the rows may come. *)
Ordered(rows) ==
    {s \in SetToSeqs(rows) : \A i, j \in DOMAIN s :
        i < j /\ q.orders # <<>> => ~Before(q.orders[1], s[j], s[i])}

SmallerOf(a, b) == IF a < b THEN a ELSE b

(* LIMIT and OFFSET of a result; SQLite takes a negative limit for none. *)
Slice(s, clause) ==
    SubSeq(s, clause.offset + 1,
           IF clause.limit \subseteq {-1} THEN Len(s)
           ELSE SmallerOf(Len(s), clause.offset + CHOOSE n \in clause.limit : TRUE))

NegativeLimit(clause) == dialect = "postgres" /\ -1 \in clause.limit

-----------------------------------------------------------------------------
(* The operations that reach the database. *)

Return(r) ==
    /\ ops < program.ops
    /\ ops' = ops + 1
    /\ res' = r
    /\ UNCHANGED <<program, dialect, q>>

Error(op, err) == Return([op |-> op, err |-> err]) /\ UNCHANGED <<table, lastID>>

(* A scan fails on a NULL, which the struct field has no value for. *)
ScanError(s) == \E i \in DOMAIN s : s[i].n = Null

(* All, and Get with its limit: the rows and the error they come with. *)
Fetch(stmt, limit) ==
    LET clause == LimitClause(limit, q.offset)
        err == IF stmt.err # "none" THEN stmt.err
               ELSE IF OrderError THEN "field"
               ELSE IF NegativeLimit(clause) THEN "negative" ELSE "none"
    IN IF err # "none" THEN {[rows |-> <<>>, err |-> err]}
       ELSE {[rows |-> Slice(s, clause), err |-> IF ScanError(Slice(s, clause))
                                                 THEN "scan" ELSE "none"] :
                s \in Ordered(Selected(stmt))}

All ==
    \E f \in Fetch(CompileRead, q.limit) :
        IF f.err # "none" THEN Error("all", f.err)
        ELSE /\ Return([op |-> "all", err |-> "none", rows |-> f.rows])
             /\ UNCHANGED <<table, lastID>>

(* A fault: one row is enough to answer. *)
GetOne == 1

(* Enough to tell one row from several. *)
GetLimit == 2

Get ==
    \E f \in Fetch(CompileRead, GetLimit) :
        IF f.err # "none" THEN Error("get", f.err)
        ELSE CASE Len(f.rows) = 0 -> Error("get", "DoesNotExist")
               [] Len(f.rows) > 1 -> Error("get", "MultipleObjectsReturned")
               [] OTHER -> /\ Return([op |-> "get", err |-> "none", rows |-> f.rows])
                           /\ UNCHANGED <<table, lastID>>

Count ==
    IF CompileRead.err # "none" THEN Error("count", CompileRead.err)
    ELSE /\ Return([op |-> "count", err |-> "none", n |-> Cardinality(Selected(CompileRead))])
         /\ UNCHANGED <<table, lastID>>

Exists ==
    IF CompileRead.err # "none" THEN Error("exists", CompileRead.err)
    ELSE /\ Return([op |-> "exists", err |-> "none", b |-> Selected(CompileRead) # {}])
         /\ UNCHANGED <<table, lastID>>

(* A fault: now is assigned last even when the caller set the column. *)
AutoNowAlways(assigns) == Append(assigns, [col |-> "at", value |-> Now])

(* auto_now is injected unless the caller assigns the column. *)
AutoNow(assigns) ==
    IF \E i \in DOMAIN assigns : assigns[i].col = "at" THEN assigns
    ELSE Append(assigns, [col |-> "at", value |-> Now])

(* The row with the values of SET; of two for one column the last counts. *)
Assigned(r, stmt) ==
    [c \in Columns |->
        LET of == {i \in DOMAIN stmt.sets : stmt.sets[i].col = c}
        IN IF of = {} THEN r[c] ELSE Bound(stmt, CHOOSE i \in of : \A j \in of : j <= i)]

(* NOT NULL of every column but n. *)
Violates(r) == r.s = Null

Update ==
    \E k \in DOMAIN Assignments :
        LET a == AutoNow(Assignments[k])
            stmt == CompileUpdate(a)
            rows == Selected(stmt)
            new == {Assigned(r, stmt) : r \in rows}
        IN IF stmt.err # "none" THEN Error("update", stmt.err)
           ELSE IF \E r \in new : Violates(r) THEN Error("update", "constraint")
           ELSE /\ table' = (table \ rows) \cup new
                /\ Return([op |-> "update", err |-> "none", n |-> Cardinality(rows),
                           by |-> Assignments[k]])
                /\ UNCHANGED lastID

(* A fault: the fetch that precedes DELETE is limited, and so is DELETE. *)
DeleteLimited(stmt, f) == {f.rows[i] : i \in DOMAIN f.rows}

(* deleteRows: compileDelete leaves the limit and the offset out. *)
DeleteRows(stmt, f) == Selected(stmt)

(***************************************************************************)
(* Delete, with handlers of its signals (deleteWithSignals) or without:    *)
(* fired are the rows the handlers were run for.                           *)
(***************************************************************************)
Delete ==
    \E signals \in BOOLEAN :
      \E f \in IF signals THEN Fetch(CompileRead, q.limit)
               ELSE {[rows |-> <<>>, err |-> CompileRead.err]} :
        IF f.err # "none" THEN Error("delete", f.err)
        ELSE LET gone == DeleteRows(CompileRead, f)
             IN /\ table' = table \ gone
                /\ Return([op |-> "delete", err |-> "none", n |-> Cardinality(gone),
                           signals |-> signals, fired |-> {f.rows[i] : i \in DOMAIN f.rows}])
                /\ UNCHANGED lastID

(* A fault: a default replaces every value. *)
ApplyDefaultsAlways(o) == [o EXCEPT !.n = DefaultN]

(* applyDefaults: a zero value is replaced by the default of the field. *)
ApplyDefaults(o) == IF o.n = 0 THEN [o EXCEPT !.n = DefaultN] ELSE o

(* A fault: the id of the last row is handed out again when it is gone. *)
NextIDReused == IF table = {} THEN 1
                ELSE 1 + CHOOSE i \in {r.id : r \in table} : \A r \in table : r.id <= i

(* AUTOINCREMENT, BIGSERIAL: an id no row ever had. *)
NextID == lastID + 1

(* Create ignores the conditions; the id is the database's to assign. *)
Create ==
    /\ lastID < MaxRows
    /\ \E o \in Objects :
         IF ChainError # "none" THEN Error("create", ChainError)
         ELSE LET f == ApplyDefaults(o)
              IN /\ lastID' = NextID
                 /\ table' = table \cup {[id |-> lastID', n |-> f.n, s |-> f.s, at |-> Now]}
                 /\ Return([op |-> "create", err |-> "none", n |-> 1, obj |-> o, id |-> lastID'])

Next ==
    \/ Filter \/ Exclude \/ OrderBy \/ Limit \/ Offset \/ NewQuery
    \/ All \/ Get \/ Count \/ Exists \/ Update \/ Delete \/ Create

Spec == Init /\ [][Next]_vars

-----------------------------------------------------------------------------
(* Properties.  What a queryset means, said without statements. *)

(* The value of the column stands in the relation its lookup names. *)
Related(x, lookup, v) ==
    CASE lookup = "exact" -> x = v
      [] lookup = "gt" -> x > v
      [] lookup = "gte" -> x >= v
      [] lookup = "lt" -> x < v
      [] lookup = "lte" -> x <= v
      [] lookup \in {"contains", "icontains"} ->
           \E i \in 1 .. Len(x) - Len(v) + 1 : SubSeq(x, i, i + Len(v) - 1) = v
      [] lookup = "startswith" -> IsPrefix(v, x)
      [] lookup = "endswith" -> IsSuffix(v, x)
      [] lookup = "in" -> \E i \in DOMAIN v : x = v[i]

(* A NULL is in no relation and out of none; an empty list holds nothing. *)
Matches(r, w) ==
    LET x == r[w.key]
        v == w.value.v
    IN IF w.lookup = "isnull" THEN (x = Null) = (v = ~w.negate)
       ELSE IF w.lookup = "exact" /\ v = Null THEN (x = Null) = ~w.negate
       ELSE IF w.lookup = "in" /\ v = <<>> THEN w.negate
       ELSE /\ x # Null /\ v # Null
            /\ Related(x, w.lookup, v) = ~w.negate

Matching(t) == {r \in t : \A i \in DOMAIN q.wheres : Matches(r, q.wheres[i])}

Known(w) ==
    /\ w.key \in Columns
    /\ w.lookup \in DOMAIN Operator \cup {"exact", "contains", "icontains",
                                          "startswith", "endswith", "in", "isnull"}
    /\ w.lookup = "in" => w.value.kind = "slice"
    /\ w.lookup = "isnull" => w.value.kind = "bool"

WellFormed == q.err = "none" /\ \A i \in DOMAIN q.wheres : Known(q.wheres[i])

LargerOf(a, b) == IF a > b THEN a ELSE b

(***************************************************************************)
(* Reads answer about the rows that match, whatever the dialect: the       *)
(* placeholders of several conditions, of lists and of patterns with       *)
(* wildcards in them take the values they were written for.  All returns   *)
(* as many as the limit and the offset leave, Get tells none, one and      *)
(* several apart, Count and Exists ignore the limit.  When a read fails    *)
(* instead of answering is ErrorsReported.                                 *)
(***************************************************************************)
ReadsAnswer ==
    LET m == Matching(table)
        left == LargerOf(0, Cardinality(m) - q.offset)
    IN /\ res.op = "all" /\ res.err = "none" =>
            /\ Len(res.rows) = IF q.limit < 0 THEN left ELSE SmallerOf(q.limit, left)
            /\ \A i \in DOMAIN res.rows : res.rows[i] \in m
            /\ \A i, j \in DOMAIN res.rows : res.rows[i] = res.rows[j] => i = j
       /\ res.op = "get" =>
            /\ res.err = "none" => left = 1 /\ res.rows[1] \in m
            /\ res.err = "DoesNotExist" => left = 0
            /\ res.err = "MultipleObjectsReturned" => left > 1
       /\ res.op = "count" /\ res.err = "none" => res.n = Cardinality(m)
       /\ res.op = "exists" /\ res.err = "none" => res.b = (m # {})

(***************************************************************************)
(* An error is reported when the chain is wrong, and by every operation    *)
(* (Create alone ignores the conditions).  When the chain is in order, a   *)
(* read fails exactly when the database refuses it or one of the rows to   *)
(* return cannot be scanned: orm/execute.go:137 has "All runs the compiled *)
(* SELECT and returns every matching row scanned into []T", and what keeps *)
(* it from that is an unknown order column, an offset without a limit on   *)
(* PostgreSQL, or a NULL among the rows that the limit leaves, for which   *)
(* T has no value.  Count and Exists scan no row and do not fail.          *)
(***************************************************************************)
ErrorsReported ==
    res.op # "none" =>
        /\ ~WellFormed /\ (res.op # "create" \/ q.err # "none") => res.err # "none"
        /\ OrderError /\ res.op \in {"all", "get"} => res.err # "none"
        /\ WellFormed =>
             /\ res.op \in {"count", "exists"} => res.err = "none"
             /\ res.op \in {"all", "get", "delete"} /\ res.err = "field" => OrderError
             /\ res.op \in {"all", "get", "delete"} =>
                    res.err \notin {"arity", "lookup", "constraint"}
             /\ LET nulls == {r \in Matching(table) : r.n = Null}
                    whole == q.limit < 0 /\ q.offset = 0
                    negative == dialect = "postgres" /\ q.limit < 0 /\ q.offset > 0
                IN /\ res.err = "scan" => nulls # {}
                   /\ res.op = "all" /\ whole /\ nulls # {} => res.err # "none"
                   /\ res.err = "negative" => negative
                   /\ res.op = "all" /\ negative => res.err # "none"

(***************************************************************************)
(* A write changes the rows that match and no others: Update sets exactly  *)
(* the columns it names, and at unless it names it; Delete removes every   *)
(* matching row, and with handlers fires for each of them when no limit    *)
(* cuts the fetch short; Create adds one, with an id no row ever had and   *)
(* every zero replaced by its default.  An operation that fails writes     *)
(* nothing.                                                                *)
(***************************************************************************)
WritesExact ==
    [][ LET m == Matching(table)
            r == res'
            set(row, by) ==
                [c \in Columns |->
                    LET of == {i \in DOMAIN by : by[i].col = c}
                    IN IF of # {} THEN by[CHOOSE i \in of : \A j \in of : j <= i].value
                       ELSE IF c = "at" THEN Now ELSE row[c]]
        IN /\ r.op = "update" /\ r.err = "none" =>
                /\ r.n = Cardinality(m)
                /\ table' = (table \ m) \cup {set(row, r.by) : row \in m}
           /\ r.op = "delete" /\ r.err = "none" =>
                /\ r.n = Cardinality(m) /\ table' = table \ m
                /\ r.signals => r.fired \subseteq m
                /\ r.signals /\ q.limit < 0 /\ q.offset = 0 => r.fired = m
           /\ r.op = "create" /\ r.err = "none" =>
                \E row \in table' :
                    /\ table' = table \cup {row}
                    /\ row.id = r.id /\ row.id > lastID
                    /\ row.at = Now /\ row.s = r.obj.s
                    /\ row.n = IF r.obj.n = 0 THEN DefaultN ELSE r.obj.n
           /\ r.op # "none" /\ r.op \notin {"update", "delete", "create"} => table' = table
           /\ r.op # "none" /\ r.err # "none" => table' = table ]_vars

=============================================================================
