------------------------------ MODULE Relations ------------------------------
(***************************************************************************)
(* orm/relations.go and orm/selectrelated.go: books with two foreign keys  *)
(* to authors.  A program holds a book and reads, sets, fetches and saves  *)
(* its keys while the site renames, deletes and moves rows; every read is  *)
(* compared with what the other ways of reading would answer.              *)
(*                                                                         *)
(* A schema says whether the database enforces foreign keys (PostgreSQL)   *)
(* or not (SQLite, src/README.md:137), the on_delete tag of both fields,   *)
(* and which authors have a mentor, a foreign key of the author itself.    *)
(***************************************************************************)
EXTENDS Integers, Sequences, SequencesExt

CONSTANTS
    Author,       \* primary keys of authors
    Book,         \* primary keys of books
    Schemas,      \* the schemas, [enforced, onDelete, mentor]
    Shelves,      \* the rows of books at the start, key -> field -> key
    Changes       \* bound: changes of rows

ASSUME KeyAssumption ==
    /\ Author \subseteq Nat \ {0} /\ Book \subseteq Nat \ {0} /\ IsFiniteSet(Book)
    /\ Changes \in Nat
ASSUME SchemaAssumption == \A s \in Schemas :
    /\ s.enforced \in BOOLEAN
    /\ s.onDelete \in {"cascade", "set_null", "restrict", "do_nothing"}
    /\ s.mentor \in [Author -> Author \cup {-1}]
ASSUME ShelvesAssumption == \A s \in Shelves :
    /\ DOMAIN s \subseteq Book
    /\ s \in [DOMAIN s -> [{"author", "editor"} -> Author \cup {-1}]]

VARIABLES
    schema,       \* one of Schemas
    authors,      \* the rows of authors: key -> name
    books,        \* the rows of books: key -> field -> the key in its column
    held,         \* the book in the program's memory
    since,        \* history: per field of held, the names of its author since
                  \* the field got its key
    changed       \* the changes made so far

vars == <<schema, authors, books, held, since, changed>>

NullKey == -1
Names == {"old", "new"}
NullName == "null"
Field == {"author", "editor"}

(* FK[T]: the key, the object and whether it is loaded. *)
NoObject == [id |-> 0, name |-> ""]
Object == {NoObject} \cup [id : Author, name : Names \cup {""}]
FK == [pk : Author \cup {0}, obj : Object, loaded : BOOLEAN]
Unset == [pk |-> 0, obj |-> NoObject, loaded |-> FALSE]
NoBook == [id |-> 0, fk |-> [f \in Field |-> Unset]]

(* Type correctness.  A column holds NULL for a key that is not set, never *)
(* the zero that FK keeps for it (FK.Value, relations.go:156).             *)
TypeOK ==
    /\ schema \in Schemas
    /\ DOMAIN authors \subseteq Author /\ DOMAIN books \subseteq Book
    /\ \A a \in DOMAIN authors : authors[a] \in Names \cup {NullName}
    /\ \A b \in DOMAIN books : books[b] \in [Field -> Author \cup {NullKey}]
    /\ held \in [id : Book \cup {0}, fk : [Field -> FK]]
    /\ since \in [Field -> SUBSET (Names \cup {""})]
    /\ changed \in 0 .. Changes

Init ==
    /\ schema \in Schemas
    /\ authors = [a \in Author |-> "old"]
    /\ books \in Shelves
    /\ held = NoBook
    /\ since = [f \in Field |-> {}]
    /\ changed = 0

(* A nullable column scanned by the join leaves the field at its zero value. *)
Shown(name) == IF name = NullName THEN "" ELSE name

NamesOf(a) == IF a \in DOMAIN authors THEN {Shown(authors[a])} ELSE {}

-----------------------------------------------------------------------------
(* The methods of FK. *)

(* A fault: the object stays when the key changes. *)
SetPKOnly(fk, pk) == [fk EXCEPT !.pk = pk]

SetPK(fk, pk) == [pk |-> pk, obj |-> NoObject, loaded |-> FALSE]

SetObject(obj, pk) == [pk |-> pk, obj |-> obj, loaded |-> TRUE]

Scan(key) == [Unset EXCEPT !.pk = IF key = NullKey THEN 0 ELSE key]

Value(fk) == IF fk.pk = 0 THEN NullKey ELSE fk.pk

(***************************************************************************)
(* Query[T].Get on the key: no row, a row whose NULL cannot be scanned     *)
(* (execute.go:34), or the object.                                         *)
(***************************************************************************)
Get(pk) ==
    CASE pk \notin DOMAIN authors -> [err |-> "missing", obj |-> NoObject]
      [] pk \in DOMAIN authors /\ authors[pk] = NullName ->
             [err |-> "scan", obj |-> NoObject]
      [] OTHER -> [err |-> "", obj |-> [id |-> pk, name |-> authors[pk]]]

(* FK.Fetch: what it answers and the FK it leaves. *)
Fetch(fk) ==
    IF fk.loaded THEN [err |-> "", fk |-> fk]
    ELSE LET got == Get(fk.pk)
         IN  [err |-> got.err,
              fk |-> IF got.err = "" THEN SetObject(got.obj, fk.pk) ELSE fk]

-----------------------------------------------------------------------------
(* Reading books: scanRows, and scanRowsJoined for SelectRelated. *)

Scanned(b) == [id |-> b, fk |-> [f \in Field |-> Scan(books[b][f])]]

(***************************************************************************)
(* resolveSelectRelated: a name that is no foreign key is an error.  A     *)
(* name asked for twice gives two joins one alias, which the database      *)
(* refuses.                                                                *)
(***************************************************************************)
Resolved(rels) == ToSet(rels) \subseteq Field /\ IsInjective(rels)

(* The authors the LEFT JOIN finds for the i-th foreign key of a row. *)
Joined(b, rels, i) == {a \in DOMAIN authors : a = books[b][rels[i]]}

(***************************************************************************)
(* assignScanned has no case for a foreign key of the target, so a target  *)
(* whose own reference is not NULL fails the read.                         *)
(***************************************************************************)
Assignable(a) == schema.mentor[a] = NullKey

(* A fault: every foreign key gets the first target of the row. *)
AttachFirst(b, rels, i, fk) ==
    IF Joined(b, rels, 1) = {} THEN fk
    ELSE LET a == CHOOSE x \in Joined(b, rels, 1) : TRUE
         IN  SetObject([id |-> a, name |-> Shown(authors[a])], a)

(* attachJoined: no match leaves the foreign key unloaded. *)
Attach(b, rels, i, fk) ==
    IF Joined(b, rels, i) = {} THEN fk
    ELSE LET a == CHOOSE x \in Joined(b, rels, i) : TRUE
         IN  SetObject([id |-> a, name |-> Shown(authors[a])], a)

ScannedJoined(b, rels) ==
    [id |-> b,
     fk |-> [f \in Field |->
                 IF f \in ToSet(rels)
                 THEN Attach(b, rels, CHOOSE i \in DOMAIN rels : rels[i] = f,
                             Scan(books[b][f]))
                 ELSE Scan(books[b][f])]]

(* The rows of the query: the LEFT JOIN keeps them all. *)
Rows(want) == want \cap DOMAIN books

(* The order of the keys. *)
InOrder(keys) ==
    CHOOSE s \in [1 .. Cardinality(keys) -> keys] :
        \A i, j \in DOMAIN s : i < j => s[i] < s[j]

(* All with SelectRelated, in the order of the keys. *)
All(want, rels) ==
    IF \/ ~Resolved(rels)
       \/ \E b \in Rows(want), i \in DOMAIN rels :
              \E a \in Joined(b, rels, i) : ~Assignable(a)
    THEN [err |-> TRUE, rows |-> <<>>]
    ELSE [err |-> FALSE,
          rows |-> [i \in 1 .. Cardinality(Rows(want)) |->
                        ScannedJoined(InOrder(Rows(want))[i], rels)]]

(* RelatedObjects: NULL is equal to no key. *)
RelatedObjects(f, pk) == {b \in DOMAIN books : books[b][f] = pk}

(* A fault: the first foreign key of the model, whichever the column. *)
PrefetchFieldFirst(f) == "author"

(* The foreign key with the column asked for. *)
PrefetchField(f) == f

(* Prefetch: the children of one IN query, under the key each one holds. *)
Prefetch(f, pks) ==
    LET children == {Scanned(b) : b \in {b \in DOMAIN books : books[b][f] \in ToSet(pks)}}
        key(c) == c.fk[PrefetchField(f)].pk
    IN  [p \in {key(c) : c \in children} |-> {c.id : c \in {c \in children : key(c) = p}}]

-----------------------------------------------------------------------------
(* The program. *)

(* Get of a book, with or without SelectRelated. *)
ReadBook(b, rels) ==
    LET got == All({b}, rels)
    IN  /\ ~got.err /\ got.rows # <<>>
        /\ held' = got.rows[1]
        /\ since' = [f \in Field |-> NamesOf(held'.fk[f].pk)]
        /\ UNCHANGED <<schema, authors, books, changed>>

AssignKey(f, pk) ==
    /\ held # NoBook
    /\ held' = [held EXCEPT !.fk[f] = SetPK(@, pk)]
    /\ since' = [since EXCEPT ![f] = NamesOf(pk)]
    /\ UNCHANGED <<schema, authors, books, changed>>

(* The object of one field is assigned to the other. *)
AssignObject(f, g) ==
    /\ f # g /\ held.fk[g].loaded
    /\ held' = [held EXCEPT !.fk[f] = SetObject(held.fk[g].obj, held.fk[g].obj.id)]
    /\ since' = [since EXCEPT ![f] = since[g]]
    /\ UNCHANGED <<schema, authors, books, changed>>

FetchField(f) ==
    /\ held # NoBook
    /\ held' = [held EXCEPT !.fk[f] = Fetch(@).fk]
    /\ UNCHANGED <<schema, authors, books, since, changed>>

(* Whether the database accepts a row. *)
Accepts(row) ==
    schema.enforced => \A f \in Field : row[f] \in DOMAIN authors \cup {NullKey}

Change == changed < Changes /\ changed' = changed + 1

(* Update writes the values of both foreign keys. *)
SaveBook ==
    LET row == [f \in Field |-> Value(held.fk[f])]
    IN  /\ Change
        /\ held.id \in DOMAIN books
        /\ Accepts(row)
        /\ books' = [books EXCEPT ![held.id] = row]
        /\ UNCHANGED <<schema, authors, held, since>>

-----------------------------------------------------------------------------
(* The site, and what the database does about references. *)

Rename(a, name) ==
    /\ Change
    /\ authors[a] # name
    /\ authors' = [authors EXCEPT ![a] = name]
    /\ since' = [f \in Field |->
                    IF held.fk[f].pk = a THEN since[f] \cup {Shown(name)} ELSE since[f]]
    /\ UNCHANGED <<schema, books, held>>

MoveBook(b, f, key) ==
    /\ Change
    /\ books[b][f] # key
    /\ Accepts([books[b] EXCEPT ![f] = key])
    /\ books' = [books EXCEPT ![b][f] = key]
    /\ UNCHANGED <<schema, authors, held, since>>

(* ParseOnDelete and OnDelete.Clause: what the DDL says of the tag. *)
Clause(tag) == IF tag = "do_nothing" THEN "none" ELSE tag

Refers(b, a) == \E f \in Field : books[b][f] = a
Referring(a) == {b \in DOMAIN books : Refers(b, a)}

(* DELETE of an author, as the database enforces the clause. *)
DeleteAuthor(a) ==
    LET clause == Clause(schema.onDelete)
        mentors == \E x \in DOMAIN authors \ {a} : schema.mentor[x] = a
        nulled == [b \in DOMAIN books |->
                      [f \in Field |-> IF books[b][f] = a THEN NullKey ELSE books[b][f]]]
        kept == DOMAIN books \ Referring(a)
    IN  /\ Change
        /\ schema.enforced => /\ ~mentors
                              /\ clause \in {"none", "restrict"} => Referring(a) = {}
        /\ authors' = [x \in DOMAIN authors \ {a} |-> authors[x]]
        /\ books' = CASE ~schema.enforced -> books
                      [] schema.enforced /\ clause = "cascade" -> [b \in kept |-> books[b]]
                      [] schema.enforced /\ clause = "set_null" -> nulled
                      [] OTHER -> books
        /\ UNCHANGED <<schema, held, since>>

Next ==
    \/ \E b \in Book : \E rels \in {<<>>, <<"author">>, <<"editor", "author">>} :
           ReadBook(b, rels)
    \/ \E f \in Field : \E pk \in Author \cup {0} : AssignKey(f, pk)
    \/ \E f, g \in Field : AssignObject(f, g)
    \/ \E f \in Field : FetchField(f)
    \/ SaveBook
    \/ \E a \in DOMAIN authors : \E n \in Names \cup {NullName} : Rename(a, n)
    \/ \E b \in DOMAIN books : \E f \in Field : \E k \in Author \cup {NullKey} :
           MoveBook(b, f, k)
    \/ \E a \in DOMAIN authors : DeleteAuthor(a)

Spec == Init /\ [][Next]_vars

-----------------------------------------------------------------------------
(* Properties. *)

(***************************************************************************)
(* A loaded foreign key holds the object of its own key, as its row was at *)
(* some time since the field got that key: "SetPK sets the related primary *)
(* key and clears any loaded object" (relations.go:116).  The object may   *)
(* be older than the row, never another's.                                 *)
(***************************************************************************)
LoadedMatchesKey ==
    \A f \in Field : held.fk[f].loaded =>
        /\ held.fk[f].obj.id = held.fk[f].pk
        /\ held.fk[f].obj.name \in since[f]

(***************************************************************************)
(* Eager loading answers what reading the books and fetching each author   *)
(* would: the same books, an author where Fetch finds one and none where   *)
(* it finds none ("a null target leaves the FK unloaded but keeps the      *)
(* row", execute.go:50).  It differs where a NULL stops Fetch, which the   *)
(* join reads as a zero value, and where the author itself has a mentor,   *)
(* which the join cannot read.                                             *)
(***************************************************************************)
Agrees(joined, plain) ==
    LET fetched == Fetch(plain)
    IN  CASE fetched.err = "missing" -> ~joined.loaded /\ joined.pk = plain.pk
          [] fetched.err = "" -> joined = fetched.fk
          [] fetched.err = "scan" -> joined = SetObject([id |-> plain.pk, name |-> ""], plain.pk)

JoinAgrees ==
    \A rels \in {<<"author">>, <<"editor">>, <<"author", "editor">>, <<"editor", "author">>} :
        LET joined == All(Book, rels)
            plain == All(Book, <<>>)
        IN  /\ joined.err <=> \E b \in DOMAIN books, f \in ToSet(rels) :
                                  /\ books[b][f] \in DOMAIN authors
                                  /\ schema.mentor[books[b][f]] # NullKey
            /\ ~joined.err =>
                   /\ Len(joined.rows) = Len(plain.rows)
                   /\ \A i \in DOMAIN plain.rows :
                          /\ joined.rows[i].id = plain.rows[i].id
                          /\ \A f \in Field :
                                 IF f \in ToSet(rels)
                                 THEN Agrees(joined.rows[i].fk[f], plain.rows[i].fk[f])
                                 ELSE joined.rows[i].fk[f] = plain.rows[i].fk[f]

(***************************************************************************)
(* "It avoids the N+1 of fetching children per parent" (relations.go:205): *)
(* for parents that may be gone or named twice, Prefetch has under each    *)
(* key exactly the children RelatedObjects would find, and no other keys.  *)
(***************************************************************************)
PrefetchAgrees ==
    \A f \in Field : \A pks \in UNION {[1 .. n -> Author] : n \in 0 .. 2} :
        LET groups == Prefetch(f, pks)
        IN  /\ DOMAIN groups = {p \in ToSet(pks) : RelatedObjects(f, p) # {}}
            /\ \A p \in DOMAIN groups : groups[p] = RelatedObjects(f, p)
=============================================================================
