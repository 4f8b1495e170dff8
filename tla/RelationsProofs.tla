--------------------------- MODULE RelationsProofs ---------------------------
(***************************************************************************)
(* Proofs about Relations, for any authors, books, schemas, shelves and    *)
(* number of changes.  That the join and Prefetch answer what reading one  *)
(* by one would is a fact about a state; that a loaded object is its key's *)
(* needs SinceOK: a key's author, while there is one, has a name that the  *)
(* field may have been given.                                              *)
(***************************************************************************)
EXTENDS Relations, FiniteSetTheorems, SequenceTheorems, TLAPS

Column == Author \cup {NullKey}
HeldBook == [id : Book \cup {0}, fk : [Field -> FK]]

(* What the program's field may still read has been noted. *)
SinceOK ==
    \A f \in Field : held.fk[f].pk \in DOMAIN authors =>
        Shown(authors[held.fk[f].pk]) \in since[f]

RelInv == TypeOK /\ LoadedMatchesKey /\ SinceOK

-----------------------------------------------------------------------------
(* Foreign keys. *)

LEMMA Keys ==
    /\ NullKey \notin Author /\ 0 \notin Author /\ NullKey # 0
    /\ \A s \in Schemas : s.mentor \in [Author -> Column]
BY KeyAssumption, SchemaAssumption DEF NullKey, Column

LEMMA NamesShown ==
    ASSUME NEW n \in Names \cup {NullName}
    PROVE  Shown(n) \in Names \cup {""} /\ (n # NullName => Shown(n) = n /\ n \in Names)
BY DEF Shown, Names, NullName

LEMMA ObjectType ==
    ASSUME NEW a \in Author, NEW n \in Names \cup {""}
    PROVE  [id |-> a, name |-> n] \in Object
BY DEF Object

LEMMA SetObjectType ==
    ASSUME NEW obj \in Object, NEW pk \in Author \cup {0}
    PROVE  SetObject(obj, pk) \in FK
BY DEF SetObject, FK

LEMMA SetPKType ==
    ASSUME NEW fk, NEW pk \in Author \cup {0}
    PROVE  /\ SetPK(fk, pk) \in FK /\ SetPK(fk, pk).pk = pk /\ ~SetPK(fk, pk).loaded
           /\ SetPK(fk, pk) = [pk |-> pk, obj |-> NoObject, loaded |-> FALSE]
BY DEF SetPK, FK, Object

LEMMA ScanIs ==
    ASSUME NEW key
    PROVE  LET fk == Scan(key) IN
           /\ fk = [pk |-> IF key = NullKey THEN 0 ELSE key, obj |-> NoObject, loaded |-> FALSE]
           /\ fk.pk = IF key = NullKey THEN 0 ELSE key
           /\ ~fk.loaded
<1> DEFINE pk == IF key = NullKey THEN 0 ELSE key
<1>1. Scan(key) = [Unset EXCEPT !.pk = pk]
  BY DEF Scan
<1> HIDE DEF pk
<1>2. Scan(key) = [pk |-> pk, obj |-> NoObject, loaded |-> FALSE]
  BY <1>1 DEF Unset
<1> QED BY <1>2 DEF pk

LEMMA ScanType ==
    ASSUME NEW key \in Column
    PROVE  Scan(key) \in FK
<1>1. (IF key = NullKey THEN 0 ELSE key) \in Author \cup {0}
  BY DEF Column
<1>2. NoObject \in Object
  BY DEF Object
<1> DEFINE pk == IF key = NullKey THEN 0 ELSE key
<1>3. Scan(key) = [pk |-> pk, obj |-> NoObject, loaded |-> FALSE]
  BY ScanIs
<1> HIDE DEF pk
<1>4. pk \in Author \cup {0}
  BY <1>1 DEF pk
<1> QED BY <1>2, <1>3, <1>4 DEF FK

LEMMA ValueType ==
    ASSUME NEW fk \in FK
    PROVE  Value(fk) \in Column
BY DEF Value, FK, Column

(* A field of the program's book gets a foreign key. *)
LEMMA PutField ==
    ASSUME held \in HeldBook, NEW f \in Field, NEW x \in FK,
           held' = [held EXCEPT !.fk[f] = x]
    PROVE  /\ held' \in HeldBook /\ held'.id = held.id /\ held'.fk[f] = x
           /\ \A g \in Field \ {f} : held'.fk[g] = held.fk[g]
<1> DEFINE fks == [held.fk EXCEPT ![f] = x]
<1>1. fks \in [Field -> FK] /\ fks[f] = x /\ \A g \in Field \ {f} : fks[g] = held.fk[g]
  BY DEF HeldBook
<1>2. held' = [held EXCEPT !.fk = fks]
  OBVIOUS
<1> HIDE DEF fks
<1>3. held' \in HeldBook /\ held'.id = held.id /\ held'.fk = fks
  BY <1>1, <1>2 DEF HeldBook
<1> QED BY <1>1, <1>3

-----------------------------------------------------------------------------
(* Reading. *)

(* The relation of a column is found once among the names of a query. *)
LEMMA RelationFound ==
    ASSUME NEW rels, NEW f \in ToSet(rels)
    PROVE  LET i == CHOOSE i \in DOMAIN rels : rels[i] = f IN i \in DOMAIN rels /\ rels[i] = f
<1>1. \E i \in DOMAIN rels : rels[i] = f
  BY DEF ToSet
<1> QED BY <1>1

(* What the join attaches: the author of the key, if there is one. *)
LEMMA AttachIs ==
    ASSUME NEW b, NEW rels, NEW i, NEW fk
    PROVE  LET key == books[b][rels[i]] IN
           /\ key \notin DOMAIN authors => Attach(b, rels, i, fk) = fk
           /\ key \in DOMAIN authors =>
                 Attach(b, rels, i, fk) = SetObject([id |-> key, name |-> Shown(authors[key])], key)
<1> DEFINE key == books[b][rels[i]]
<1>1. key \notin DOMAIN authors => Joined(b, rels, i) = {}
  BY DEF Joined
<1>2. key \in DOMAIN authors => Joined(b, rels, i) = {key}
  BY DEF Joined
<1>3. key \in DOMAIN authors => (CHOOSE x \in Joined(b, rels, i) : TRUE) = key
  BY <1>2
<1> QED BY <1>1, <1>2, <1>3 DEF Attach

(* The field of a joined row. *)
JoinedField(b, rels, f) ==
    IF f \in ToSet(rels) /\ books[b][f] \in DOMAIN authors
    THEN SetObject([id |-> books[b][f], name |-> Shown(authors[books[b][f]])], books[b][f])
    ELSE Scan(books[b][f])

LEMMA ScannedJoinedIs ==
    ASSUME NEW b, NEW rels
    PROVE  ScannedJoined(b, rels) = [id |-> b, fk |-> [f \in Field |-> JoinedField(b, rels, f)]]
<1>1. ASSUME NEW f \in Field, f \in ToSet(rels)
      PROVE  Attach(b, rels, CHOOSE i \in DOMAIN rels : rels[i] = f, Scan(books[b][f]))
             = JoinedField(b, rels, f)
  <2> DEFINE i == CHOOSE i \in DOMAIN rels : rels[i] = f
  <2>1. rels[i] = f
    BY <1>1, RelationFound
  <2> HIDE DEF i
  <2>2. LET key == books[b][rels[i]] IN
           /\ key \notin DOMAIN authors => Attach(b, rels, i, Scan(books[b][f])) = Scan(books[b][f])
           /\ key \in DOMAIN authors =>
                 Attach(b, rels, i, Scan(books[b][f]))
                 = SetObject([id |-> key, name |-> Shown(authors[key])], key)
    BY AttachIs
  <2>3. Attach(b, rels, i, Scan(books[b][f])) = JoinedField(b, rels, f)
    BY <1>1, <2>1, <2>2 DEF JoinedField
  <2> QED BY <2>3 DEF i
<1>2. ASSUME NEW f \in Field, f \notin ToSet(rels)
      PROVE  Scan(books[b][f]) = JoinedField(b, rels, f)
  BY <1>2 DEF JoinedField
<1> QED BY <1>1, <1>2 DEF ScannedJoined

LEMMA JoinedFieldType ==
    ASSUME TypeOK, NEW b \in DOMAIN books, NEW rels, NEW f \in Field
    PROVE  /\ JoinedField(b, rels, f) \in FK
           /\ JoinedField(b, rels, f).pk = Scan(books[b][f]).pk
           /\ JoinedField(b, rels, f).loaded =>
                 /\ JoinedField(b, rels, f).obj.id = JoinedField(b, rels, f).pk
                 /\ JoinedField(b, rels, f).pk \in DOMAIN authors
                 /\ JoinedField(b, rels, f).obj.name
                       = Shown(authors[JoinedField(b, rels, f).pk])
<1> DEFINE key == books[b][f]
<1>1. key \in Column
  BY DEF TypeOK, Column
<1>2. CASE f \in ToSet(rels) /\ key \in DOMAIN authors
  <2>1. key \in Author /\ key # NullKey /\ Shown(authors[key]) \in Names \cup {""}
    BY <1>2, Keys, NamesShown DEF TypeOK
  <2>2. SetObject([id |-> key, name |-> Shown(authors[key])], key) \in FK
    BY <2>1, ObjectType, SetObjectType
  <2>3. Scan(key).pk = key
    BY <2>1, ScanIs
  <2> QED BY <1>2, <2>2, <2>3 DEF JoinedField, SetObject
<1>3. CASE ~(f \in ToSet(rels) /\ key \in DOMAIN authors)
  <2>1. JoinedField(b, rels, f) = Scan(key)
    BY <1>3 DEF JoinedField
  <2> QED BY <1>1, <2>1, ScanType, ScanIs
<1> QED BY <1>2, <1>3

(* The one row of a Get. *)
LEMMA ReadOne ==
    ASSUME NEW b \in Book, NEW rels, ~All({b}, rels).err, All({b}, rels).rows # <<>>
    PROVE  b \in DOMAIN books /\ All({b}, rels).rows[1] = ScannedJoined(b, rels)
<1> DEFINE keys == Rows({b})
           rows == [i \in 1 .. Cardinality(keys) |-> ScannedJoined(InOrder(keys)[i], rels)]
<1>1. All({b}, rels).rows = rows
  BY DEF All
<1>2. b \in DOMAIN books
  <2> SUFFICES ASSUME b \notin DOMAIN books PROVE FALSE
    OBVIOUS
  <2>1. keys = {}
    BY DEF Rows
  <2>2. Cardinality(keys) = 0
    BY <2>1, FS_EmptySet
  <2>3. rows = <<>>
    <3>1. rows \in [1 .. 0 -> {}]
      BY <2>2
    <3> HIDE DEF rows
    <3>2. \E n \in Nat : rows \in [1 .. n -> {}]
      BY <3>1
    <3>3. rows \in Seq({})
      BY <3>2 DEF Seq
    <3> QED BY <3>1, <3>3, EmptySeq
  <2> QED BY <1>1, <2>3
<1>3. keys = {b} /\ Cardinality(keys) = 1
  <2>1. keys = {b}
    BY <1>2 DEF Rows
  <2> QED BY <2>1, FS_Singleton
<1>4. InOrder(keys)[1] = b
  <2> DEFINE Fits(s) == \A i, j \in DOMAIN s : i < j => s[i] < s[j]
             one == [i \in 1 .. 1 |-> b]
  <2>1. one \in [1 .. 1 -> {b}] /\ Fits(one)
    OBVIOUS
  <2>2. \E s \in [1 .. 1 -> {b}] : Fits(s)
    BY <2>1
  <2> HIDE DEF Fits
  <2>3. (CHOOSE s \in [1 .. 1 -> {b}] : Fits(s)) \in [1 .. 1 -> {b}]
    BY <2>2
  <2>4. InOrder(keys) = CHOOSE s \in [1 .. 1 -> {b}] : Fits(s)
    BY <1>3 DEF InOrder, Fits
  <2>5. InOrder(keys) \in [1 .. 1 -> {b}]
    BY <2>3, <2>4
  <2> HIDE DEF keys
  <2> QED BY <2>5
<1>5. rows[1] = ScannedJoined(b, rels)
  BY <1>3, <1>4
<1> QED BY <1>1, <1>2, <1>5

-----------------------------------------------------------------------------
(* The invariant. *)

LEMMA RelInit ==
    ASSUME Init
    PROVE  RelInv
<1>1. /\ schema \in Schemas /\ authors = [a \in Author |-> "old"] /\ books \in Shelves
      /\ held = NoBook /\ since = [f \in Field |-> {}] /\ changed = 0
  BY DEF Init
<1>2. NoBook \in HeldBook /\ \A f \in Field : NoBook.fk[f].pk = 0 /\ ~NoBook.fk[f].loaded
  <2>1. Unset \in FK /\ Unset.pk = 0 /\ ~Unset.loaded
    BY DEF Unset, FK, Object
  <2> QED BY <2>1 DEF NoBook, HeldBook
<1>3. DOMAIN books \subseteq Book /\ \A b \in DOMAIN books : books[b] \in [Field -> Column]
  BY <1>1, ShelvesAssumption DEF Field, Column, NullKey
<1>4. changed \in 0 .. Changes
  BY <1>1, KeyAssumption
<1>5. TypeOK
  BY <1>1, <1>2, <1>3, <1>4 DEF TypeOK, HeldBook, Column, Names
<1>6. LoadedMatchesKey /\ SinceOK
  BY <1>1, <1>2, Keys DEF LoadedMatchesKey, SinceOK
<1> QED BY <1>5, <1>6 DEF RelInv

LEMMA ReadBookOK ==
    ASSUME RelInv, NEW b \in Book, NEW rels, ReadBook(b, rels)
    PROVE  RelInv'
<1>1. b \in DOMAIN books /\ held' = ScannedJoined(b, rels)
  BY ReadOne DEF ReadBook
<1>2. held' = [id |-> b, fk |-> [f \in Field |-> JoinedField(b, rels, f)]]
  BY <1>1, ScannedJoinedIs
<1>3. \A f \in Field : held'.fk[f] = JoinedField(b, rels, f)
  BY <1>2
<1>4. \A f \in Field : JoinedField(b, rels, f) \in FK
  BY <1>1, JoinedFieldType DEF RelInv
<1>5. held' \in HeldBook
  BY <1>2, <1>4 DEF HeldBook
<1>6. /\ UNCHANGED <<schema, authors, books, changed>>
      /\ since' = [f \in Field |-> NamesOf(held'.fk[f].pk)]
  BY DEF ReadBook
<1>7. \A a \in DOMAIN authors : Shown(authors[a]) \in Names \cup {""}
  BY NamesShown DEF RelInv, TypeOK
<1>8. \A f \in Field : since'[f] = NamesOf(held'.fk[f].pk)
                       /\ since'[f] \subseteq Names \cup {""}
  BY <1>6, <1>7 DEF NamesOf
<1>9. TypeOK'
  BY <1>5, <1>6, <1>8 DEF RelInv, TypeOK, HeldBook
<1>10. SinceOK'
  BY <1>6, <1>8 DEF SinceOK, NamesOf
<1>11. LoadedMatchesKey'
  <2> SUFFICES ASSUME NEW f \in Field, held'.fk[f].loaded
               PROVE  /\ held'.fk[f].obj.id = held'.fk[f].pk
                      /\ held'.fk[f].obj.name \in since'[f]
    BY DEF LoadedMatchesKey
  <2>1. /\ held'.fk[f].obj.id = held'.fk[f].pk /\ held'.fk[f].pk \in DOMAIN authors
        /\ held'.fk[f].obj.name = Shown(authors[held'.fk[f].pk])
    BY <1>1, <1>3, JoinedFieldType DEF RelInv
  <2> QED BY <1>8, <2>1 DEF NamesOf
<1> QED BY <1>9, <1>10, <1>11 DEF RelInv

LEMMA ChangeType ==
    ASSUME TypeOK, Change
    PROVE  changed' \in 0 .. Changes
<1>1. changed \in 0 .. Changes /\ changed < Changes /\ changed' = changed + 1
  BY DEF TypeOK, Change
<1>2. Changes \in Nat
  BY KeyAssumption
<1> QED BY <1>1, <1>2

(* What the program does to one field of its book. *)
LEMMA FieldOK ==
    ASSUME RelInv, NEW f \in Field, NEW x \in FK, held' = [held EXCEPT !.fk[f] = x],
           NEW names \in SUBSET (Names \cup {""}), since' = [since EXCEPT ![f] = names],
           x.loaded => x.obj.id = x.pk /\ x.obj.name \in names,
           x.pk \in DOMAIN authors => Shown(authors[x.pk]) \in names,
           UNCHANGED <<schema, authors, books, changed>>
    PROVE  RelInv'
<1>1. held \in HeldBook /\ since \in [Field -> SUBSET (Names \cup {""})]
  BY DEF RelInv, TypeOK, HeldBook
<1>2. /\ held' \in HeldBook /\ held'.fk[f] = x
      /\ \A g \in Field \ {f} : held'.fk[g] = held.fk[g]
  BY <1>1, PutField
<1>3. /\ since' \in [Field -> SUBSET (Names \cup {""})] /\ since'[f] = names
      /\ \A g \in Field \ {f} : since'[g] = since[g]
  BY <1>1
<1>4. TypeOK'
  BY <1>2, <1>3 DEF RelInv, TypeOK, HeldBook
<1>5. LoadedMatchesKey'
  <2> SUFFICES ASSUME NEW g \in Field, held'.fk[g].loaded
               PROVE  /\ held'.fk[g].obj.id = held'.fk[g].pk
                      /\ held'.fk[g].obj.name \in since'[g]
    BY DEF LoadedMatchesKey
  <2>1. CASE g = f
    BY <1>2, <1>3, <2>1
  <2>2. CASE g # f
    <3>1. held'.fk[g] = held.fk[g] /\ since'[g] = since[g]
      BY <1>2, <1>3, <2>2
    <3> QED BY <3>1 DEF RelInv, LoadedMatchesKey
  <2> QED BY <2>1, <2>2
<1>6. SinceOK'
  BY <1>2, <1>3 DEF RelInv, SinceOK
<1> QED BY <1>4, <1>5, <1>6 DEF RelInv

LEMMA AssignKeyOK ==
    ASSUME RelInv, NEW f \in Field, NEW pk \in Author \cup {0}, AssignKey(f, pk)
    PROVE  RelInv'
<1> DEFINE x == SetPK(held.fk[f], pk)
<1>1. x \in FK /\ x.pk = pk /\ ~x.loaded
  BY SetPKType
<1>2. held' = [held EXCEPT !.fk[f] = x] /\ since' = [since EXCEPT ![f] = NamesOf(pk)]
      /\ UNCHANGED <<schema, authors, books, changed>>
  BY DEF AssignKey
<1>3. NamesOf(pk) \subseteq Names \cup {""}
      /\ (pk \in DOMAIN authors => Shown(authors[pk]) \in NamesOf(pk))
  BY NamesShown DEF NamesOf, RelInv, TypeOK
<1> HIDE DEF x
<1> QED BY <1>1, <1>2, <1>3, FieldOK

LEMMA AssignObjectOK ==
    ASSUME RelInv, NEW f \in Field, NEW g \in Field, AssignObject(f, g)
    PROVE  RelInv'
<1> DEFINE obj == held.fk[g].obj
           x == SetObject(obj, obj.id)
<1>1. /\ held.fk[g].loaded /\ obj.id = held.fk[g].pk /\ obj.name \in since[g]
      /\ since[g] \in SUBSET (Names \cup {""}) /\ held.fk[g] \in FK
  BY DEF AssignObject, RelInv, LoadedMatchesKey, TypeOK
<1>2. obj \in Object /\ obj.id \in Author \cup {0}
  BY <1>1 DEF FK
<1>3. x \in FK /\ x.pk = obj.id /\ x.obj = obj
  BY <1>2, SetObjectType DEF SetObject
<1>4. held' = [held EXCEPT !.fk[f] = x] /\ since' = [since EXCEPT ![f] = since[g]]
      /\ UNCHANGED <<schema, authors, books, changed>>
  BY DEF AssignObject
<1>5. obj.id \in DOMAIN authors => Shown(authors[obj.id]) \in since[g]
  BY <1>1 DEF RelInv, SinceOK
<1> HIDE DEF x, obj
<1> QED BY <1>1, <1>3, <1>4, <1>5, FieldOK

LEMMA AnswerFields ==
    ASSUME NEW g, NEW e, NEW x
    PROVE  /\ g = [err |-> e, fk |-> x] => g.err = e /\ g.fk = x
           /\ g = [err |-> e, obj |-> x] => g.err = e /\ g.obj = x
OBVIOUS

LEMMA FetchIs ==
    ASSUME TypeOK, NEW fk
    PROVE  /\ fk.loaded => Fetch(fk) = [err |-> "", fk |-> fk]
           /\ ~fk.loaded /\ fk.pk \notin DOMAIN authors => Fetch(fk) = [err |-> "missing", fk |-> fk]
           /\ ~fk.loaded /\ fk.pk \in DOMAIN authors /\ authors[fk.pk] = NullName =>
                 Fetch(fk) = [err |-> "scan", fk |-> fk]
           /\ ~fk.loaded /\ fk.pk \in DOMAIN authors /\ authors[fk.pk] # NullName =>
                 Fetch(fk) = [err |-> "",
                              fk |-> SetObject([id |-> fk.pk, name |-> authors[fk.pk]], fk.pk)]
<1>1. CASE fk.loaded
  BY <1>1 DEF Fetch
<1>2. CASE ~fk.loaded /\ fk.pk \notin DOMAIN authors
  <2>1. Get(fk.pk) = [err |-> "missing", obj |-> NoObject]
    BY <1>2 DEF Get
  <2>2. Get(fk.pk).err = "missing"
    BY <2>1
  <2> QED BY <1>2, <2>2 DEF Fetch
<1>3. CASE ~fk.loaded /\ fk.pk \in DOMAIN authors /\ authors[fk.pk] = NullName
  <2>1. Get(fk.pk) = [err |-> "scan", obj |-> NoObject]
    BY <1>3 DEF Get
  <2>2. Get(fk.pk).err = "scan"
    BY <2>1
  <2> QED BY <1>3, <2>2 DEF Fetch
<1>4. CASE ~fk.loaded /\ fk.pk \in DOMAIN authors /\ authors[fk.pk] # NullName
  <2>1. Get(fk.pk) = [err |-> "", obj |-> [id |-> fk.pk, name |-> authors[fk.pk]]]
    BY <1>4 DEF Get
  <2> DEFINE obj == [id |-> fk.pk, name |-> authors[fk.pk]]
  <2> HIDE DEF obj
  <2>21. Get(fk.pk) = [err |-> "", obj |-> obj]
    BY <2>1 DEF obj
  <2>2. Get(fk.pk).err = "" /\ Get(fk.pk).obj = obj
    BY <2>21, AnswerFields
  <2>3. Fetch(fk) = [err |-> "", fk |-> SetObject(obj, fk.pk)]
    BY <1>4, <2>2 DEF Fetch
  <2> QED BY <1>4, <2>3 DEF obj
<1> QED BY <1>1, <1>2, <1>3, <1>4

(* Fetch leaves the foreign key, or loads the author of its key. *)
LEMMA FetchLeaves ==
    ASSUME TypeOK, NEW fk \in FK
    PROVE  \/ Fetch(fk).fk = fk
           \/ /\ fk.pk \in DOMAIN authors /\ authors[fk.pk] # NullName
              /\ Fetch(fk).fk = SetObject([id |-> fk.pk, name |-> authors[fk.pk]], fk.pk)
<1> DEFINE loads == ~fk.loaded /\ fk.pk \in DOMAIN authors /\ authors[fk.pk] # NullName
           now == SetObject([id |-> fk.pk, name |-> authors[fk.pk]], fk.pk)
<1>1. CASE ~loads
  <2>1. \E e \in {"", "missing", "scan"} : Fetch(fk) = [err |-> e, fk |-> fk]
    BY <1>1, FetchIs
  <2>2. PICK e \in {"", "missing", "scan"} : Fetch(fk) = [err |-> e, fk |-> fk]
    BY <2>1
  <2>3. Fetch(fk).fk = fk
    BY <2>2, AnswerFields
  <2> QED BY <2>3
<1>2. CASE loads
  <2>1. Fetch(fk) = [err |-> "", fk |-> now]
    BY <1>2, FetchIs
  <2> HIDE DEF now
  <2>2. Fetch(fk).fk = now
    BY <2>1, AnswerFields
  <2> QED BY <1>2, <2>2 DEF now
<1> QED BY <1>1, <1>2

LEMMA FetchFieldOK ==
    ASSUME RelInv, NEW f \in Field, FetchField(f)
    PROVE  RelInv'
<1> DEFINE fk == held.fk[f]
           x == Fetch(fk).fk
<1>1. fk \in FK /\ since \in [Field -> SUBSET (Names \cup {""})]
      /\ (fk.loaded => fk.obj.id = fk.pk /\ fk.obj.name \in since[f])
      /\ (fk.pk \in DOMAIN authors => Shown(authors[fk.pk]) \in since[f])
  BY DEF RelInv, TypeOK, LoadedMatchesKey, SinceOK
<1>2. held' = [held EXCEPT !.fk[f] = x] /\ since' = [since EXCEPT ![f] = since[f]]
      /\ UNCHANGED <<schema, authors, books, changed>>
  BY <1>1 DEF FetchField
<1>3. \/ x = fk
      \/ /\ fk.pk \in DOMAIN authors /\ authors[fk.pk] # NullName
         /\ x = SetObject([id |-> fk.pk, name |-> authors[fk.pk]], fk.pk)
  BY <1>1, FetchLeaves DEF RelInv
<1>4. CASE x = fk
  <2>1. /\ x \in FK /\ (x.loaded => x.obj.id = x.pk /\ x.obj.name \in since[f])
        /\ (x.pk \in DOMAIN authors => Shown(authors[x.pk]) \in since[f])
    BY <1>1, <1>4
  <2> HIDE DEF x
  <2> QED BY <1>1, <1>2, <2>1, FieldOK
<1>5. CASE /\ fk.pk \in DOMAIN authors /\ authors[fk.pk] # NullName
           /\ x = SetObject([id |-> fk.pk, name |-> authors[fk.pk]], fk.pk)
  <2>1. fk.pk \in Author /\ authors[fk.pk] \in Names /\ Shown(authors[fk.pk]) = authors[fk.pk]
    BY <1>5, NamesShown DEF RelInv, TypeOK
  <2>2. x \in FK
    BY <1>5, <2>1, ObjectType, SetObjectType
  <2>3. x.pk = fk.pk /\ x.obj.id = fk.pk /\ x.obj.name = authors[fk.pk]
    BY <1>5 DEF SetObject
  <2>4. x.loaded => x.obj.id = x.pk /\ x.obj.name \in since[f]
    BY <1>1, <1>5, <2>1, <2>3
  <2>5. x.pk \in DOMAIN authors => Shown(authors[x.pk]) \in since[f]
    BY <1>1, <2>3
  <2> HIDE DEF x
  <2> QED BY <1>1, <1>2, <2>2, <2>4, <2>5, FieldOK
<1> QED BY <1>3, <1>4, <1>5

LEMMA SaveBookOK ==
    ASSUME RelInv, SaveBook
    PROVE  RelInv'
<1> DEFINE row == [f \in Field |-> Value(held.fk[f])]
<1>1. row \in [Field -> Column]
  BY ValueType DEF RelInv, TypeOK
<1>2. /\ books' = [books EXCEPT ![held.id] = row] /\ changed' \in 0 .. Changes
      /\ UNCHANGED <<schema, authors, held, since>>
  BY ChangeType DEF SaveBook, RelInv
<1>3. DOMAIN books' = DOMAIN books
      /\ \A b \in DOMAIN books : books'[b] \in [Field -> Column]
  BY <1>1, <1>2 DEF RelInv, TypeOK, Column
<1>4. TypeOK'
  BY <1>2, <1>3 DEF RelInv, TypeOK, Column
<1> QED BY <1>2, <1>4 DEF RelInv, LoadedMatchesKey, SinceOK

LEMMA MoveBookOK ==
    ASSUME RelInv, NEW b \in DOMAIN books, NEW f \in Field, NEW key \in Column,
           MoveBook(b, f, key)
    PROVE  RelInv'
<1>1. /\ books' = [books EXCEPT ![b] = [books[b] EXCEPT ![f] = key]]
      /\ changed' \in 0 .. Changes
      /\ UNCHANGED <<schema, authors, held, since>>
  BY ChangeType DEF MoveBook, RelInv
<1>2. [books[b] EXCEPT ![f] = key] \in [Field -> Column]
  BY DEF RelInv, TypeOK, Column
<1>3. DOMAIN books' = DOMAIN books
      /\ \A c \in DOMAIN books : books'[c] \in [Field -> Column]
  BY <1>1, <1>2 DEF RelInv, TypeOK, Column
<1>4. TypeOK'
  BY <1>1, <1>3 DEF RelInv, TypeOK, Column
<1> QED BY <1>1, <1>4 DEF RelInv, LoadedMatchesKey, SinceOK

LEMMA RenameOK ==
    ASSUME RelInv, NEW a \in DOMAIN authors, NEW name \in Names \cup {NullName},
           Rename(a, name)
    PROVE  RelInv'
<1>1. /\ authors' = [authors EXCEPT ![a] = name]
      /\ since' = [f \in Field |->
                      IF held.fk[f].pk = a THEN since[f] \cup {Shown(name)} ELSE since[f]]
      /\ changed' \in 0 .. Changes
      /\ UNCHANGED <<schema, books, held>>
  BY ChangeType DEF Rename, RelInv
<1>2. DOMAIN authors' = DOMAIN authors /\ authors'[a] = name
      /\ \A c \in DOMAIN authors \ {a} : authors'[c] = authors[c]
  BY <1>1
<1>3. since' \in [Field -> SUBSET (Names \cup {""})]
      /\ \A f \in Field : /\ since[f] \subseteq since'[f]
                          /\ held.fk[f].pk = a => Shown(name) \in since'[f]
  BY <1>1, NamesShown, ZenonT(60) DEF RelInv, TypeOK
<1>4. TypeOK'
  BY <1>1, <1>3 DEF RelInv, TypeOK
<1>5. LoadedMatchesKey'
  BY <1>1, <1>3 DEF RelInv, LoadedMatchesKey
<1>6. SinceOK'
  BY <1>1, <1>3 DEF RelInv, SinceOK
<1> QED BY <1>4, <1>5, <1>6 DEF RelInv

LEMMA DeleteAuthorOK ==
    ASSUME RelInv, NEW a \in DOMAIN authors, DeleteAuthor(a)
    PROVE  RelInv'
<1> DEFINE kept == DOMAIN books \ Referring(a)
           nulled == [b \in DOMAIN books |->
                        [f \in Field |-> IF books[b][f] = a THEN NullKey ELSE books[b][f]]]
<1>1. /\ authors' = [x \in DOMAIN authors \ {a} |-> authors[x]]
      /\ books' \in {books, [b \in kept |-> books[b]], nulled}
      /\ changed' \in 0 .. Changes
      /\ UNCHANGED <<schema, held, since>>
  BY ChangeType DEF DeleteAuthor, RelInv
<1>2. DOMAIN books' \subseteq DOMAIN books
      /\ \A b \in DOMAIN books' : books'[b] \in [Field -> Column]
  <2>1. \A b \in DOMAIN books : books[b] \in [Field -> Column]
    BY DEF RelInv, TypeOK, Column
  <2>2. \A b \in DOMAIN books : nulled[b] \in [Field -> Column]
    BY <2>1 DEF Column
  <2> QED BY <1>1, <2>1, <2>2
<1>3. TypeOK'
  BY <1>1, <1>2 DEF RelInv, TypeOK, Column
<1>4. SinceOK'
  BY <1>1 DEF RelInv, SinceOK
<1> QED BY <1>1, <1>3, <1>4 DEF RelInv, LoadedMatchesKey

LEMMA RelStep ==
    ASSUME RelInv, [Next]_vars
    PROVE  RelInv'
<1>1. CASE UNCHANGED vars
  BY <1>1 DEF vars, RelInv, TypeOK, LoadedMatchesKey, SinceOK
<1>2. CASE Next
  BY <1>2, ReadBookOK, AssignKeyOK, AssignObjectOK, FetchFieldOK, SaveBookOK, RenameOK,
     MoveBookOK, DeleteAuthorOK DEF Next, Column
<1> QED BY <1>1, <1>2

LEMMA RelInvariance == Spec => []RelInv
<1>1. Init => RelInv
  BY RelInit
<1>2. RelInv /\ [Next]_vars => RelInv'
  BY RelStep
<1> QED BY <1>1, <1>2, PTL DEF Spec

-----------------------------------------------------------------------------
(* Eager loading and fetching. *)

LEMMA FieldAgrees ==
    ASSUME TypeOK, NEW b, NEW rels, NEW f \in ToSet(rels)
    PROVE  Agrees(JoinedField(b, rels, f), Scan(books[b][f]))
<1> DEFINE key == books[b][f]
           plain == Scan(key)
           fetched == Fetch(plain)
<1>1. /\ plain = [pk |-> IF key = NullKey THEN 0 ELSE key, obj |-> NoObject, loaded |-> FALSE]
      /\ plain.pk = IF key = NullKey THEN 0 ELSE key
      /\ ~plain.loaded
  BY ScanIs
<1> HIDE DEF key
<1>3. CASE key \notin DOMAIN authors
  <2>1. JoinedField(b, rels, f) = plain
    BY <1>3 DEF JoinedField, key
  <2>2. plain.pk \notin DOMAIN authors
    BY <1>1, <1>3, Keys DEF TypeOK
  <2> HIDE DEF plain
  <2>3. fetched = [err |-> "missing", fk |-> plain]
    BY <1>1, <2>2, FetchIs
  <2>4. fetched.err = "missing"
    BY <2>3, AnswerFields
  <2> HIDE DEF fetched
  <2>5. Agrees(plain, plain)
    BY <1>1, <2>4 DEF Agrees, fetched
  <2> QED BY <2>1, <2>5 DEF plain, key
<1>4. CASE key \in DOMAIN authors
  <2>1. key \in Author /\ key # NullKey /\ authors[key] \in Names \cup {NullName}
    BY <1>4, Keys DEF TypeOK
  <2>2. plain.pk = key
    BY <1>1, <2>1
  <2> DEFINE joined == SetObject([id |-> key, name |-> Shown(authors[key])], key)
  <2>3. JoinedField(b, rels, f) = joined
    BY <1>4 DEF JoinedField, key
  <2> HIDE DEF plain
  <2>4. CASE authors[key] = NullName
    <3>1. fetched = [err |-> "scan", fk |-> plain]
      BY <1>1, <1>4, <2>2, <2>4, FetchIs
    <3>2. fetched.err = "scan"
      BY <3>1, AnswerFields
    <3>3. joined = SetObject([id |-> plain.pk, name |-> ""], plain.pk)
      BY <2>2, <2>4 DEF Shown
    <3> HIDE DEF fetched, joined
    <3>4. Agrees(joined, plain)
      BY <3>2, <3>3 DEF Agrees, fetched
    <3> QED BY <2>3, <3>4 DEF plain, key
  <2>5. CASE authors[key] # NullName
    <3>1. fetched = [err |-> "",
                     fk |-> SetObject([id |-> plain.pk, name |-> authors[plain.pk]], plain.pk)]
      BY <1>1, <1>4, <2>2, <2>5, FetchIs
    <3>2. joined = SetObject([id |-> plain.pk, name |-> authors[plain.pk]], plain.pk)
      BY <2>1, <2>2, <2>5, NamesShown
    <3> HIDE DEF joined
    <3>21. fetched = [err |-> "", fk |-> joined]
      BY <3>1, <3>2
    <3>3. fetched.err = "" /\ fetched.fk = joined
      BY <3>21, AnswerFields
    <3> HIDE DEF fetched
    <3>4. Agrees(joined, plain)
      BY <3>3 DEF Agrees, fetched
    <3> QED BY <2>3, <3>4 DEF plain, key
  <2> QED BY <2>4, <2>5
<1> QED BY <1>3, <1>4

(* What All answers for a query of distinct relations. *)
LEMMA AllIs ==
    ASSUME TypeOK, NEW rels, Resolved(rels)
    PROVE  /\ All(Book, rels).err <=>
                 \E b \in DOMAIN books, f \in ToSet(rels) :
                    /\ books[b][f] \in DOMAIN authors
                    /\ schema.mentor[books[b][f]] # NullKey
           /\ ~All(Book, rels).err =>
                 All(Book, rels).rows = [i \in 1 .. Cardinality(DOMAIN books) |->
                                            ScannedJoined(InOrder(DOMAIN books)[i], rels)]
<1>1. Rows(Book) = DOMAIN books
  BY DEF Rows, TypeOK
<1> DEFINE bad == \E b \in Rows(Book), i \in DOMAIN rels :
                     \E a \in Joined(b, rels, i) : ~Assignable(a)
<1>2. bad <=> \E b \in DOMAIN books, f \in ToSet(rels) :
                 /\ books[b][f] \in DOMAIN authors
                 /\ schema.mentor[books[b][f]] # NullKey
  BY <1>1 DEF Joined, Assignable, ToSet
<1>3. CASE bad
  <2>1. All(Book, rels) = [err |-> TRUE, rows |-> <<>>]
    BY <1>3 DEF All
  <2>2. All(Book, rels).err
    BY <2>1
  <2> QED BY <1>2, <1>3, <2>2
<1>4. CASE ~bad
  <2> DEFINE rows == [i \in 1 .. Cardinality(Rows(Book)) |->
                        ScannedJoined(InOrder(Rows(Book))[i], rels)]
  <2>1. All(Book, rels) = [err |-> FALSE, rows |-> rows]
    BY <1>4 DEF All
  <2> HIDE DEF rows
  <2>2. ~All(Book, rels).err /\ All(Book, rels).rows = rows
    BY <2>1
  <2> QED BY <1>1, <1>2, <1>4, <2>2 DEF rows
<1> QED BY <1>3, <1>4

Queries == {<<"author">>, <<"editor">>, <<"author", "editor">>, <<"editor", "author">>}

LEMMA QueriesResolve ==
    Resolved(<<>>) /\ ToSet(<<>>) = {} /\ \A rels \in Queries : Resolved(rels)
BY DEF Resolved, Queries, Field, ToSet, IsInjective

LEMMA JoinsAgree ==
    ASSUME TypeOK
    PROVE  JoinAgrees
<1> SUFFICES ASSUME NEW rels \in Queries
             PROVE  LET joined == All(Book, rels)
                        plain == All(Book, <<>>)
                    IN  /\ joined.err <=> \E b \in DOMAIN books, f \in ToSet(rels) :
                                            /\ books[b][f] \in DOMAIN authors
                                            /\ schema.mentor[books[b][f]] # NullKey
                        /\ ~joined.err =>
                               /\ Len(joined.rows) = Len(plain.rows)
                               /\ \A i \in DOMAIN plain.rows :
                                    /\ joined.rows[i].id = plain.rows[i].id
                                    /\ \A f \in Field :
                                         IF f \in ToSet(rels)
                                         THEN Agrees(joined.rows[i].fk[f], plain.rows[i].fk[f])
                                         ELSE joined.rows[i].fk[f] = plain.rows[i].fk[f]
  BY DEF JoinAgrees, Queries
<1> DEFINE joined == All(Book, rels)
           plain == All(Book, <<>>)
           n == Cardinality(DOMAIN books)
           row(i) == InOrder(DOMAIN books)[i]
<1>1. joined.err <=> \E b \in DOMAIN books, f \in ToSet(rels) :
                        /\ books[b][f] \in DOMAIN authors
                        /\ schema.mentor[books[b][f]] # NullKey
  BY AllIs, QueriesResolve
<1>2. ~joined.err => joined.rows = [i \in 1 .. n |-> ScannedJoined(row(i), rels)]
  BY AllIs, QueriesResolve
<1>3. plain.rows = [i \in 1 .. n |-> ScannedJoined(row(i), <<>>)]
  BY AllIs, QueriesResolve
<1>4. n \in Nat
  <2>1. DOMAIN books \subseteq Book /\ IsFiniteSet(Book)
    BY KeyAssumption DEF TypeOK
  <2> QED BY <2>1, FS_Subset, FS_CardinalityType
<1> HIDE DEF joined, plain, n
<1>5. ~joined.err => Len(joined.rows) = Len(plain.rows)
  BY <1>2, <1>3, <1>4
<1>6. ASSUME ~joined.err, NEW i \in DOMAIN plain.rows
      PROVE  /\ joined.rows[i].id = plain.rows[i].id
             /\ \A f \in Field :
                   IF f \in ToSet(rels)
                   THEN Agrees(joined.rows[i].fk[f], plain.rows[i].fk[f])
                   ELSE joined.rows[i].fk[f] = plain.rows[i].fk[f]
  <2>1. joined.rows[i] = ScannedJoined(row(i), rels) /\ plain.rows[i] = ScannedJoined(row(i), <<>>)
    BY <1>2, <1>3, <1>6
  <2>2. /\ joined.rows[i] = [id |-> row(i), fk |-> [f \in Field |-> JoinedField(row(i), rels, f)]]
        /\ plain.rows[i] = [id |-> row(i), fk |-> [f \in Field |-> JoinedField(row(i), <<>>, f)]]
    BY <2>1, ScannedJoinedIs
  <2>3. joined.rows[i].id = plain.rows[i].id
    BY <2>2
  <2>4. ASSUME NEW f \in Field
        PROVE  /\ joined.rows[i].fk[f] = JoinedField(row(i), rels, f)
               /\ plain.rows[i].fk[f] = JoinedField(row(i), <<>>, f)
    BY <2>2
  <2>5. ASSUME NEW f \in Field
        PROVE  JoinedField(row(i), <<>>, f) = Scan(books[row(i)][f])
    BY QueriesResolve DEF JoinedField
  <2>6. ASSUME NEW f \in Field, f \in ToSet(rels)
        PROVE  Agrees(JoinedField(row(i), rels, f), Scan(books[row(i)][f]))
    BY <2>6, FieldAgrees
  <2>7. ASSUME NEW f \in Field, f \notin ToSet(rels)
        PROVE  JoinedField(row(i), rels, f) = Scan(books[row(i)][f])
    BY <2>7 DEF JoinedField
  <2> QED BY <2>3, <2>4, <2>5, <2>6, <2>7
<1> QED BY <1>1, <1>5, <1>6 DEF joined, plain

(* Prefetch and asking for the children of each. *)
LEMMA PrefetchesAgree ==
    ASSUME TypeOK
    PROVE  PrefetchAgrees
<1> SUFFICES ASSUME NEW f \in Field, NEW pks, ToSet(pks) \subseteq Author
             PROVE  LET groups == Prefetch(f, pks)
                    IN  /\ DOMAIN groups = {p \in ToSet(pks) : RelatedObjects(f, p) # {}}
                        /\ \A p \in DOMAIN groups : groups[p] = RelatedObjects(f, p)
  <2>1. ASSUME NEW pks \in UNION {[1 .. n -> Author] : n \in 0 .. 2}
        PROVE  ToSet(pks) \subseteq Author
    BY DEF ToSet
  <2> QED BY <2>1 DEF PrefetchAgrees
<1> DEFINE found == {b \in DOMAIN books : books[b][f] \in ToSet(pks)}
           children == {Scanned(b) : b \in found}
           key(c) == c.fk[f].pk
<1>1. ASSUME NEW b \in found
      PROVE  Scanned(b).id = b /\ key(Scanned(b)) = books[b][f]
  <2>1. books[b][f] \in Author /\ books[b][f] # NullKey
    BY Keys
  <2>2. Scan(books[b][f]).pk = books[b][f]
    BY <2>1, ScanIs
  <2> QED BY <2>2 DEF Scanned
<1>2. Prefetch(f, pks)
      = [p \in {key(c) : c \in children} |-> {c.id : c \in {c \in children : key(c) = p}}]
  BY DEF Prefetch, PrefetchField
<1>3. {key(c) : c \in children} = {p \in ToSet(pks) : RelatedObjects(f, p) # {}}
  <2>1. ASSUME NEW c \in children
        PROVE  key(c) \in ToSet(pks) /\ RelatedObjects(f, key(c)) # {}
    <3>1. PICK b \in found : c = Scanned(b)
      OBVIOUS
    <3>2. key(c) = books[b][f]
      BY <1>1, <3>1
    <3> HIDE DEF key
    <3> QED BY <3>2 DEF RelatedObjects
  <2>2. ASSUME NEW p \in ToSet(pks), RelatedObjects(f, p) # {}
        PROVE  \E c \in children : key(c) = p
    <3>1. PICK b \in DOMAIN books : books[b][f] = p
      BY <2>2 DEF RelatedObjects
    <3>2. b \in found
      BY <3>1
    <3>3. Scanned(b) \in children /\ key(Scanned(b)) = p
      BY <1>1, <3>1, <3>2
    <3> HIDE DEF key, children
    <3> QED BY <3>3
  <2> HIDE DEF key, children
  <2> QED BY <2>1, <2>2
<1>4. ASSUME NEW p \in ToSet(pks)
      PROVE  {c.id : c \in {c \in children : key(c) = p}} = RelatedObjects(f, p)
  <2>1. ASSUME NEW c \in children, key(c) = p
        PROVE  c.id \in RelatedObjects(f, p)
    <3>1. PICK b \in found : c = Scanned(b)
      OBVIOUS
    <3>2. c.id = b /\ key(c) = books[b][f]
      BY <1>1, <3>1
    <3> HIDE DEF key
    <3> QED BY <2>1, <3>2 DEF RelatedObjects
  <2>2. ASSUME NEW b \in RelatedObjects(f, p)
        PROVE  \E c \in children : key(c) = p /\ c.id = b
    <3>1. b \in found /\ books[b][f] = p
      BY DEF RelatedObjects
    <3>2. Scanned(b) \in children /\ key(Scanned(b)) = p /\ Scanned(b).id = b
      BY <1>1, <3>1
    <3> HIDE DEF key, children
    <3> QED BY <3>2
  <2> HIDE DEF key, children
  <2> QED BY <2>1, <2>2
<1> HIDE DEF key, children
<1> QED BY <1>2, <1>3, <1>4

-----------------------------------------------------------------------------
(* The theorems. *)

(***************************************************************************)
(* The rows, the program's book and what is noted of its fields keep their *)
(* types; a column holds NULL, never the zero key (FK.Value,               *)
(* relations.go:156).                                                      *)
(***************************************************************************)
THEOREM TypeCorrect == Spec => []TypeOK
<1>1. RelInv => TypeOK
  BY DEF RelInv
<1> QED BY <1>1, RelInvariance, PTL

(***************************************************************************)
(* However keys are set, objects assigned from one field to the other and  *)
(* fetched, and rows renamed, moved and deleted: a loaded foreign key      *)
(* holds the object of its own key (FK.SetPK, Set, Fetch).                 *)
(***************************************************************************)
THEOREM LoadedMatchesKeyHolds == Spec => []LoadedMatchesKey
<1>1. RelInv => LoadedMatchesKey
  BY DEF RelInv
<1> QED BY <1>1, RelInvariance, PTL

(***************************************************************************)
(* SelectRelated answers what reading and fetching would, row by row and   *)
(* in the same order, whatever the rows hold (attachJoined,                *)
(* scanRowsJoined).                                                        *)
(***************************************************************************)
THEOREM JoinAgreesHolds == Spec => []JoinAgrees
<1>1. RelInv => JoinAgrees
  BY JoinsAgree DEF RelInv
<1> QED BY <1>1, RelInvariance, PTL

(***************************************************************************)
(* Prefetch has under each parent the children RelatedObjects finds        *)
(* (relations.go Prefetch).                                                *)
(***************************************************************************)
THEOREM PrefetchAgreesHolds == Spec => []PrefetchAgrees
<1>1. RelInv => PrefetchAgrees
  BY PrefetchesAgree DEF RelInv
<1> QED BY <1>1, RelInvariance, PTL
=============================================================================
