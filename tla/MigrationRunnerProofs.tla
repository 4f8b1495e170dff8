------------------------ MODULE MigrationRunnerProofs ------------------------
(***************************************************************************)
(* First the operations of a migration: where the tables are those that a  *)
(* project state describes, the statements of an operation make of them    *)
(* the tables of the state that the operation makes of it.  Then the       *)
(* processes that apply migrations.                                        *)
(***************************************************************************)
EXTENDS MigrationRunner, SequenceTheorems, FiniteSetTheorems, TLAPS

Ordered == INSTANCE LeftFoldProofs WITH Step <- ApplyOp
Execs   == INSTANCE LeftFoldProofs WITH Step <- RunStatement
Loops   == INSTANCE LeftFoldProofs WITH Step <- RunOperation

-----------------------------------------------------------------------------
(* Project states                                                          *)

IsFields(fs) ==
    /\ \E S : fs \in Seq(S)
    /\ \A i, j \in DOMAIN fs : fs[i].name = fs[j].name => i = j

\* A project state with a table of its own for each model.
WellFormed(ps) ==
    /\ ps = [models |-> ps.models, order |-> ps.order]
    /\ ps.models = [n \in ModelNames(ps) |-> ps.models[n]]
    /\ \A n \in ModelNames(ps) :
          /\ ps.models[n] = [table |-> ps.models[n].table, fields |-> ps.models[n].fields]
          /\ IsFields(ps.models[n].fields)
    /\ \A m, n \in ModelNames(ps) : ps.models[m].table = ps.models[n].table => m = n

LEMMA NewWellFormed == WellFormed(NewProjectState)
<1>1. /\ NewProjectState = [models |-> NewProjectState.models, order |-> NewProjectState.order]
      /\ NewProjectState.models = <<>>
  BY DEF NewProjectState
<1>2. DOMAIN <<>> = {} /\ <<>> = [n \in {} |-> NewProjectState.models[n]]
  OBVIOUS
<1>3. ModelNames(NewProjectState) = {}
  BY <1>1, <1>2 DEF ModelNames
<1> QED
  BY <1>1, <1>2, <1>3 DEF WellFormed

\* New fields for a model.
LEMMA WithFieldsIs ==
    ASSUME NEW ps, WellFormed(ps), NEW n \in ModelNames(ps), NEW fs, IsFields(fs)
    PROVE  LET qs == WithFields(ps, n, fs) IN
           /\ WellFormed(qs) /\ ModelNames(qs) = ModelNames(ps)
           /\ \A m \in ModelNames(ps) : qs.models[m].table = ps.models[m].table
           /\ qs.models[n].fields = fs
           /\ \A m \in ModelNames(ps) \ {n} : qs.models[m] = ps.models[m]
<1> DEFINE ms == ps.models
           mn == ms[n]
           mn2 == [mn EXCEPT !.fields = fs]
           ms2 == [ms EXCEPT ![n] = mn2]
           qs == [ps EXCEPT !.models = ms2]
<1>1. WithFields(ps, n, fs) = qs
  BY DEF WithFields
<1>2. /\ ps = [models |-> ms, order |-> ps.order]
      /\ ms = [m \in ModelNames(ps) |-> ms[m]] /\ DOMAIN ms = ModelNames(ps)
      /\ mn = [table |-> mn.table, fields |-> mn.fields]
  BY DEF WellFormed, ModelNames
<1>3. mn2 = [table |-> mn.table, fields |-> fs]
  <2> HIDE DEF mn
  <2> QED
    BY <1>2
<1> HIDE DEF mn2
<1>4. /\ DOMAIN ms2 = ModelNames(ps) /\ ms2[n] = mn2
      /\ \A m \in ModelNames(ps) \ {n} : ms2[m] = ms[m]
      /\ ms2 = [m \in ModelNames(ps) |-> ms2[m]]
  BY <1>2
<1> HIDE DEF ms2
<1>5. qs = [models |-> ms2, order |-> ps.order]
  <2> HIDE DEF ms
  <2> QED
    BY <1>2
<1>6. qs.models = ms2 /\ qs.order = ps.order /\ ModelNames(qs) = ModelNames(ps)
  BY <1>4, <1>5 DEF ModelNames
<1> HIDE DEF qs
<1>7. mn2.table = mn.table /\ mn2.fields = fs
  BY <1>3
<1>8. \A m \in ModelNames(ps) : ms2[m].table = ms[m].table
  BY <1>4, <1>7
<1>9. \A m \in ModelNames(ps) :
         ms2[m] = [table |-> ms2[m].table, fields |-> ms2[m].fields] /\ IsFields(ms2[m].fields)
  <2> TAKE m \in ModelNames(ps)
  <2>1. CASE m = n
    BY <1>3, <1>4, <1>7, <2>1
  <2>2. CASE m # n
    BY <1>4, <2>2 DEF WellFormed
  <2> QED
    BY <2>1, <2>2
<1>10. WellFormed(qs)
  BY <1>4, <1>5, <1>6, <1>8, <1>9 DEF WellFormed
<1> QED
  BY <1>1, <1>4, <1>6, <1>7, <1>8, <1>10

LEMMA CreateIs ==
    ASSUME NEW ps, WellFormed(ps), NEW op, op.model \notin ModelNames(ps), IsFields(op.fields),
           \A m \in ModelNames(ps) : ps.models[m].table # op.table
    PROVE  LET qs == ApplyCreateModel(op, ps) IN
           /\ WellFormed(qs) /\ ModelNames(qs) = ModelNames(ps) \cup {op.model}
           /\ qs.models[op.model].table = op.table /\ qs.models[op.model].fields = op.fields
           /\ \A m \in ModelNames(ps) : qs.models[m] = ps.models[m]
<1> DEFINE qs == ApplyCreateModel(op, ps)
           mn == [table |-> op.table, fields |-> op.fields]
           ms2 == With(ps.models, op.model, mn)
           or2 == IF Contains(ps.order, op.model) THEN ps.order ELSE Append(ps.order, op.model)
<1>1. qs = [models |-> ms2, order |-> or2]
  BY DEF ApplyCreateModel
<1> HIDE DEF or2, mn
<1>2. /\ DOMAIN ms2 = ModelNames(ps) \cup {op.model} /\ ms2[op.model] = mn
      /\ \A m \in ModelNames(ps) : ms2[m] = ps.models[m]
      /\ ms2 = [m \in ModelNames(ps) \cup {op.model} |-> ms2[m]]
  BY DEF With, ModelNames
<1> HIDE DEF ms2
<1>3. qs.models = ms2 /\ qs = [models |-> qs.models, order |-> qs.order]
  BY <1>1
<1> HIDE DEF qs
<1>4. ModelNames(qs) = ModelNames(ps) \cup {op.model}
  BY <1>2, <1>3 DEF ModelNames
<1>5. mn.table = op.table /\ mn.fields = op.fields /\ mn = [table |-> mn.table, fields |-> mn.fields]
  BY DEF mn
<1>6. \A m \in ModelNames(qs) :
         ms2[m] = [table |-> ms2[m].table, fields |-> ms2[m].fields] /\ IsFields(ms2[m].fields)
  BY <1>2, <1>4, <1>5 DEF WellFormed
<1>7. \A k, m \in ModelNames(qs) : ms2[k].table = ms2[m].table => k = m
  BY <1>2, <1>4, <1>5 DEF WellFormed
<1>8. WellFormed(qs)
  BY <1>2, <1>3, <1>4, <1>6, <1>7 DEF WellFormed
<1> QED
  BY <1>2, <1>3, <1>4, <1>5, <1>8 DEF qs

LEMMA DeleteIs ==
    ASSUME NEW ps, WellFormed(ps), NEW op
    PROVE  LET qs == ApplyDeleteModel(op, ps) IN
           /\ WellFormed(qs) /\ ModelNames(qs) = ModelNames(ps) \ {op.model}
           /\ \A m \in ModelNames(qs) : qs.models[m] = ps.models[m]
<1> DEFINE qs == ApplyDeleteModel(op, ps)
           N == ModelNames(ps) \ {op.model}
           ms2 == Restrict(ps.models, N)
           or2 == RemoveFirst(ps.order, op.model)
<1>1. qs = [models |-> ms2, order |-> or2]
  BY DEF ApplyDeleteModel
<1> HIDE DEF or2
<1>2. ms2 = [m \in N |-> ps.models[m]]
  BY DEF Restrict
<1> HIDE DEF ms2
<1>3. DOMAIN ms2 = N /\ \A m \in N : ms2[m] = ps.models[m]
  BY <1>2
<1>4. qs.models = ms2 /\ qs = [models |-> qs.models, order |-> qs.order] /\ ModelNames(qs) = N
  BY <1>1, <1>3 DEF ModelNames
<1> HIDE DEF qs
<1>5. WellFormed(qs)
  BY <1>2, <1>3, <1>4 DEF WellFormed
<1> QED
  BY <1>3, <1>4, <1>5 DEF qs

-----------------------------------------------------------------------------
(* The fields of a model                                                   *)

LEMMA FieldAt ==
    ASSUME NEW m, IsFields(m.fields), NEW name, HasField(m, name)
    PROVE  /\ FieldIndex(m, name) \in DOMAIN m.fields
           /\ m.fields[FieldIndex(m, name)].name = name
<1>1. PICK S : m.fields \in Seq(S)
  BY DEF IsFields
<1>2. PICK i \in DOMAIN m.fields : m.fields[i].name = name
  BY DEF HasField
<1>3. {j \in DOMAIN m.fields : m.fields[j].name = name} = {i}
  BY <1>2 DEF IsFields
<1>4. i \in Nat
  BY <1>1
<1>5. Min({i}) = i
  BY <1>4 DEF Min
<1> QED
  BY <1>2, <1>3, <1>5 DEF FieldIndex

LEMMA ReplacedFields ==
    ASSUME NEW fs, IsFields(fs), NEW i \in DOMAIN fs, NEW f, f.name = fs[i].name
    PROVE  IsFields(ReplaceAt(fs, i, f))
<1> DEFINE gs == [fs EXCEPT ![i] = f]
<1>1. PICK S : fs \in Seq(S)
  BY DEF IsFields
<1>2. Len(fs) \in Nat /\ DOMAIN fs = 1 .. Len(fs) /\ fs = [k \in 1 .. Len(fs) |-> fs[k]]
  BY <1>1
<1>3. gs = [k \in 1 .. Len(fs) |-> IF k = i THEN f ELSE fs[k]]
  BY <1>2
<1> HIDE DEF gs
<1>4. gs \in Seq(S \cup {f})
  <2>1. gs \in [1 .. Len(fs) -> S \cup {f}]
    BY <1>1, <1>3
  <2> QED
    BY <1>2, <2>1, SeqDef
<1>5. \A k \in DOMAIN gs : k \in DOMAIN fs /\ gs[k].name = fs[k].name
  BY <1>2, <1>3
<1>6. \A j, k \in DOMAIN gs : gs[j].name = gs[k].name => j = k
  BY <1>5 DEF IsFields
<1>7. IsFields(gs)
  BY <1>4, <1>6 DEF IsFields
<1> QED
  BY <1>7 DEF gs, ReplaceAt

LEMMA AppendedFields ==
    ASSUME NEW fs, IsFields(fs), NEW f, \A i \in DOMAIN fs : fs[i].name # f.name
    PROVE  /\ IsFields(Append(fs, f))
           /\ [k \in DOMAIN Append(fs, f) |-> ColumnDef(Append(fs, f)[k])] =
                 Append([k \in DOMAIN fs |-> ColumnDef(fs[k])], ColumnDef(f))
<1> DEFINE gs == Append(fs, f)
           n == Len(fs)
           cs == [k \in DOMAIN fs |-> ColumnDef(fs[k])]
           col == ColumnDef(f)
<1>1. PICK S : fs \in Seq(S)
  BY DEF IsFields
<1>2. /\ n \in Nat /\ DOMAIN fs = 1 .. n /\ DOMAIN gs = 1 .. n + 1 /\ gs[n + 1] = f
      /\ \A k \in 1 .. n : gs[k] = fs[k]
  BY <1>1
<1>3. gs \in Seq(S \cup {f})
  <2>1. fs \in Seq(S \cup {f})
    BY <1>1
  <2> QED
    BY <2>1, AppendProperties
<1>4. 1 .. n + 1 = 1 .. n \cup {n + 1}
  BY <1>2
<1> HIDE DEF gs, n, col
<1>5. \A j, k \in DOMAIN gs : gs[j].name = gs[k].name => j = k
  BY <1>2, <1>4 DEF IsFields
<1>6. IsFields(gs)
  BY <1>3, <1>5 DEF IsFields
<1>7. cs \in Seq(Range(cs)) /\ Len(cs) = n /\ \A k \in 1 .. n : cs[k] = ColumnDef(fs[k])
  <2>1. cs \in [1 .. n -> Range(cs)]
    BY <1>2 DEF Range
  <2>2. cs \in Seq(Range(cs))
    BY <1>2, <2>1, SeqDef
  <2>3. DOMAIN cs = 1 .. n
    BY <1>2
  <2> QED
    BY <1>2, <2>2, <2>3
<1> HIDE DEF cs
<1>8. /\ DOMAIN Append(cs, col) = 1 .. n + 1 /\ Append(cs, col)[n + 1] = col
      /\ \A k \in 1 .. n : Append(cs, col)[k] = cs[k]
      /\ Append(cs, col) = [k \in 1 .. n + 1 |-> Append(cs, col)[k]]
  <2> DEFINE T == Range(cs) \cup {col}
             ds == Append(cs, col)
  <2>1. cs \in Seq(T) /\ col \in T
    BY <1>7
  <2> HIDE DEF T
  <2>2. ds \in Seq(T) /\ Len(ds) = n + 1 /\ ds[n + 1] = col /\ \A k \in 1 .. n : ds[k] = cs[k]
    BY <1>7, <2>1, AppendProperties
  <2> HIDE DEF ds
  <2>3. DOMAIN ds = 1 .. n + 1 /\ ds = [k \in 1 .. n + 1 |-> ds[k]]
    BY <2>2
  <2> QED
    BY <2>2, <2>3 DEF ds
<1>9. Append(cs, col) = [k \in 1 .. n + 1 |-> ColumnDef(gs[k])]
  <2>1. \A k \in 1 .. n + 1 : Append(cs, col)[k] = ColumnDef(gs[k])
    BY <1>2, <1>4, <1>7, <1>8 DEF col
  <2> QED
    BY <1>8, <2>1
<1>10. [k \in DOMAIN gs |-> ColumnDef(gs[k])] = Append(cs, col)
  BY <1>2, <1>9
<1> QED
  BY <1>6, <1>10 DEF gs, cs, col

LEMMA SameSets ==
    /\ \A S : Ordered!IsFiniteSet(S) <=> IsFiniteSet(S)
    /\ \A S : Ordered!Cardinality(S) = Cardinality(S)
    /\ \A S : Ordered!InOrder(S) = InOrder(S)
<1>1. \A S : Ordered!IsFiniteSet(S) <=> IsFiniteSet(S)
  BY DEF Ordered!IsFiniteSet, IsFiniteSet
<1>2. \A S : Ordered!Cardinality(S) = Cardinality(S)
  BY DEF Ordered!Cardinality, Cardinality, Ordered!IsFiniteSet, IsFiniteSet
<1>3. \A S : Ordered!InOrder(S) = InOrder(S)
  BY DEF Ordered!InOrder, InOrder, Ordered!Cardinality, Cardinality, Ordered!IsFiniteSet, IsFiniteSet
<1> QED
  BY <1>1, <1>2, <1>3

LEMMA RemovedFields ==
    ASSUME NEW fs, IsFields(fs), NEW i \in DOMAIN fs
    PROVE  /\ IsFields(RemoveAt(fs, i))
           /\ RemoveAt(fs, i) = FieldsBut(fs, fs[i].name)
<1> DEFINE n == Len(fs)
           gs == RemoveAt(fs, i)
           at == [k \in 1 .. n - 1 |-> IF k < i THEN k ELSE k + 1]
           rest == {k \in DOMAIN fs : fs[k].name # fs[i].name}
<1>1. PICK S : fs \in Seq(S)
  BY DEF IsFields
<1>2. n \in Nat /\ DOMAIN fs = 1 .. n /\ i \in 1 .. n
  BY <1>1
<1>3. /\ SubSeq(fs, 1, i - 1) \in Seq(S) /\ Len(SubSeq(fs, 1, i - 1)) = i - 1
      /\ \A k \in 1 .. i - 1 : SubSeq(fs, 1, i - 1)[k] = fs[k]
  <2>1. 1 \in 1 .. n + 1 /\ i - 1 \in 1 - 1 .. n
    BY <1>2
  <2> QED
    BY <1>1, <1>2, <2>1, SubSeqProperties
<1>4. /\ SubSeq(fs, i + 1, n) \in Seq(S) /\ Len(SubSeq(fs, i + 1, n)) = n - i
      /\ \A k \in 1 .. n - i : SubSeq(fs, i + 1, n)[k] = fs[k + i]
  BY <1>1, <1>2
<1>5. /\ gs \in Seq(S) /\ Len(gs) = n - 1
      /\ \A k \in 1 .. n - 1 : gs[k] = fs[at[k]]
  <2> DEFINE a == SubSeq(fs, 1, i - 1)
             b == SubSeq(fs, i + 1, n)
  <2>1. gs = a \o b
    BY DEF RemoveAt
  <2>2. a \in Seq(S) /\ b \in Seq(S) /\ Len(a) = i - 1 /\ Len(b) = n - i
    BY <1>3, <1>4
  <2> HIDE DEF a, b
  <2>3. /\ a \o b \in Seq(S) /\ Len(a \o b) = n - 1
        /\ \A k \in 1 .. n - 1 : (a \o b)[k] = IF k <= i - 1 THEN a[k] ELSE b[k - (i - 1)]
    <3>1. /\ a \o b \in Seq(S) /\ Len(a \o b) = Len(a) + Len(b)
          /\ \A k \in 1 .. Len(a) + Len(b) : (a \o b)[k] = IF k <= Len(a) THEN a[k] ELSE b[k - Len(a)]
      BY <2>2, ConcatProperties
    <3>2. Len(a) + Len(b) = n - 1
      BY <1>2, <2>2
    <3> QED
      BY <2>2, <3>1, <3>2
  <2>4. ASSUME NEW k \in 1 .. n - 1 PROVE gs[k] = fs[at[k]]
    <3>1. CASE k < i
      <4>1. k \in 1 .. i - 1 /\ k <= i - 1
        BY <1>2, <3>1
      <4>2. gs[k] = a[k]
        BY <2>1, <2>3, <4>1
      <4> QED
        BY <1>3, <3>1, <4>1, <4>2 DEF a
    <3>2. CASE ~ (k < i)
      <4> DEFINE j == k - (i - 1)
      <4>1. j \in 1 .. n - i /\ j + i = k + 1 /\ ~ (k <= i - 1)
        BY <1>2, <3>2
      <4>2. gs[k] = b[j]
        BY <2>1, <2>3, <4>1
      <4>3. b[j] = fs[j + i]
        BY <1>4, <4>1 DEF b
      <4> QED
        BY <3>2, <4>1, <4>2, <4>3
    <3> QED
      BY <3>1, <3>2
  <2> QED
    BY <2>1, <2>3, <2>4
<1>6. \A k \in DOMAIN fs : fs[k].name = fs[i].name => k = i
  BY DEF IsFields
<1>7. rest = (1 .. n) \ {i}
  BY <1>2, <1>6
<1> HIDE DEF gs, rest
<1>8. /\ n - 1 \in Nat /\ rest \subseteq Nat /\ at \in [1 .. n - 1 -> rest]
      /\ Ordered!Increases(at, n - 1)
      /\ \A j \in rest : \E k \in 1 .. n - 1 : at[k] = j
  <2> HIDE DEF n
  <2>1. n - 1 \in Nat /\ rest \subseteq Nat
    BY <1>2, <1>7
  <2>2. at \in [1 .. n - 1 -> rest]
    BY <1>2, <1>7
  <2>3. Ordered!Increases(at, n - 1)
    BY <1>2 DEF Ordered!Increases
  <2>4. ASSUME NEW j \in rest PROVE \E k \in 1 .. n - 1 : at[k] = j
    <3>1. CASE j < i
      <4>1. j \in 1 .. n - 1 /\ at[j] = j
        BY <1>2, <1>7, <3>1
      <4> QED
        BY <4>1
    <3>2. CASE ~ (j < i)
      <4>1. j - 1 \in 1 .. n - 1 /\ at[j - 1] = j
        BY <1>2, <1>7, <3>2
      <4> QED
        BY <4>1
    <3> QED
      BY <3>1, <3>2
  <2> QED
    BY <2>1, <2>2, <2>3, <2>4
<1> HIDE DEF at
<1>9. at = InOrder(rest) /\ n - 1 = Cardinality(rest)
  BY <1>8, Ordered!InOrderUnique, SameSets
<1>10. FieldsBut(fs, fs[i].name) = [k \in 1 .. n - 1 |-> fs[at[k]]]
  BY <1>9 DEF FieldsBut, At, rest
<1>11. gs = [k \in 1 .. n - 1 |-> gs[k]] /\ DOMAIN gs = 1 .. n - 1
  BY <1>5
<1>12. gs = [k \in 1 .. n - 1 |-> fs[at[k]]]
  BY <1>5, <1>11
<1>13. ASSUME NEW j \in DOMAIN gs, NEW k \in DOMAIN gs, gs[j].name = gs[k].name PROVE j = k
  <2>1. j \in 1 .. n - 1 /\ k \in 1 .. n - 1 /\ at[j] \in DOMAIN fs /\ at[k] \in DOMAIN fs
    BY <1>2, <1>7, <1>8, <1>11
  <2>2. at[j] = at[k]
    BY <1>5, <1>13, <2>1 DEF IsFields
  <2>3. ~ (j < k) /\ ~ (k < j)
    <3>1. at[j] \in Nat /\ at[k] \in Nat
      BY <1>2, <2>1
    <3> QED
      BY <1>8, <2>1, <2>2, <3>1 DEF Ordered!Increases
  <2>4. j \in Nat /\ k \in Nat
    BY <1>8, <2>1
  <2> QED
    BY <2>3, <2>4
<1>14. IsFields(gs)
  BY <1>5, <1>13 DEF IsFields
<1> QED
  BY <1>10, <1>12, <1>14 DEF gs

-----------------------------------------------------------------------------
(* A sequence of statements                                                *)

LEMMA ExecSteps ==
    ASSUME NEW base, NEW s, Len(s) \in Nat
    PROVE  /\ Exec!Held(base, s)[0] = base
           /\ \A n \in 1 .. Len(s) :
                 Exec!Held(base, s)[n] = RunStatement(Exec!Held(base, s)[n - 1], s[n])
           /\ Exec!Fold(base, s) = Exec!Held(base, s)[Len(s)]
<1>1. Exec!Held(base, s) = Execs!Held(base, s)
  BY DEF Exec!Held, Execs!Held
<1> QED
  BY <1>1, Execs!HeldSteps DEF Exec!Fold

Good(d, ps, ts) == [ok |-> TRUE, dialect |-> d, ps |-> ps, tables |-> ts]

\* One statement, and one operation, of a transaction that goes well.
LEMMA GoodStatement ==
    ASSUME NEW d, NEW ps, NEW ts, NEW st, CanRun(d, st, ts)
    PROVE  RunStatement(Good(d, ps, ts), st) = Good(d, ps, Run(st, ts))
<1> DEFINE acc == Good(d, ps, ts)
           yes == TRUE
<1>1. acc = [ok |-> yes, dialect |-> d, ps |-> ps, tables |-> ts]
  BY DEF Good, yes
<1>2. acc.ok /\ acc.dialect = d /\ acc.tables = ts
  BY <1>1 DEF Good
<1> HIDE DEF acc, yes
<1>3. RunStatement(acc, st) = [acc EXCEPT !.tables = Run(st, ts)]
  BY <1>2 DEF RunStatement
<1> DEFINE after == Run(st, ts)
<1> HIDE DEF after
<1>4. [acc EXCEPT !.tables = after] =
        [ok |-> yes, dialect |-> d, ps |-> ps, tables |-> after]
  BY <1>1
<1> QED
  BY <1>3, <1>4 DEF acc, after, yes, Good

\* A transaction that has failed.
Failed(acc) == \E d, ps, ts : acc = [ok |-> FALSE, dialect |-> d, ps |-> ps, tables |-> ts]

LEMMA NoLongerGood ==
    ASSUME NEW d, NEW ps, NEW ts, NEW acc, acc = [Good(d, ps, ts) EXCEPT !.ok = FALSE]
    PROVE  Failed(acc)
<1> DEFINE yes == TRUE
           no == FALSE
           g == Good(d, ps, ts)
<1>1. g = [ok |-> yes, dialect |-> d, ps |-> ps, tables |-> ts]
  BY DEF Good, yes
<1> HIDE DEF yes, no, g
<1>2. [g EXCEPT !.ok = no] = [ok |-> no, dialect |-> d, ps |-> ps, tables |-> ts]
  BY <1>1
<1> QED
  BY <1>2 DEF Failed, no, g

LEMMA StillFailed ==
    ASSUME NEW acc, Failed(acc)
    PROVE  ~acc.ok /\ [acc EXCEPT !.ok = FALSE] = acc
<1> DEFINE no == FALSE
<1>1. PICK d, ps, ts : acc = [ok |-> no, dialect |-> d, ps |-> ps, tables |-> ts]
  BY DEF Failed
<1>2. acc.ok = no
  BY <1>1
<1>3. [acc EXCEPT !.ok = no] = acc
  <2> HIDE DEF no
  <2> QED
    BY <1>1
<1> QED
  BY <1>2, <1>3

LEMMA GoodFields ==
    ASSUME NEW d, NEW ps, NEW ts
    PROVE  LET g == Good(d, ps, ts) IN
           g.ok /\ g.dialect = d /\ g.ps = ps /\ g.tables = ts
<1> DEFINE yes == TRUE
           g == Good(d, ps, ts)
<1>1. g = [ok |-> yes, dialect |-> d, ps |-> ps, tables |-> ts]
  BY DEF Good, yes
<1> HIDE DEF yes
<1>2. g.ok = yes /\ g.dialect = d /\ g.ps = ps /\ g.tables = ts
  BY <1>1
<1> QED
  BY <1>2 DEF yes

LEMMA RefusedStatement ==
    ASSUME NEW d, NEW ps, NEW ts, NEW st, ~CanRun(d, st, ts)
    PROVE  Failed(RunStatement(Good(d, ps, ts), st))
<1> DEFINE g == Good(d, ps, ts)
<1>1. RunStatement(g, st) = [g EXCEPT !.ok = FALSE]
  <2>1. g.ok /\ g.dialect = d /\ g.tables = ts
    BY GoodFields
  <2> HIDE DEF g
  <2> QED
    BY <2>1 DEF RunStatement
<1> QED
  BY <1>1, NoLongerGood

LEMMA FailedStatement ==
    ASSUME NEW acc, Failed(acc), NEW st
    PROVE  RunStatement(acc, st) = acc
  BY StillFailed DEF RunStatement

\* Statements of which none fails are each accepted by the database.
LEMMA ExecutesOrFails ==
    ASSUME NEW d, NEW ps, NEW ts, NEW s, Len(s) \in Nat,
           ~Failed(Exec!Fold(Good(d, ps, ts), s))
    PROVE  \E T : /\ T[0] = ts
                  /\ \A n \in 1 .. Len(s) :
                        CanRun(d, s[n], T[n - 1]) /\ T[n] = Run(s[n], T[n - 1])
                  /\ Exec!Fold(Good(d, ps, ts), s) = Good(d, ps, T[Len(s)])
<1> DEFINE base == Good(d, ps, ts)
           h == Exec!Held(base, s)
           N == Len(s)
           Fine(n) == h[n] = Good(d, ps, h[n].tables)
           Spoilt == {n \in 0 .. N : ~Fine(n)}
<1>1. /\ h[0] = base /\ \A n \in 1 .. N : h[n] = RunStatement(h[n - 1], s[n])
      /\ Exec!Fold(base, s) = h[N]
  BY ExecSteps
<1>2. N \in Nat /\ base.tables = ts
  BY GoodFields
<1> HIDE DEF h, N
<1>3. Fine(0)
  BY <1>1, <1>2
<1>4. ASSUME NEW n \in 1 .. N, Fine(n - 1)
      PROVE  /\ CanRun(d, s[n], h[n - 1].tables) =>
                   Fine(n) /\ h[n].tables = Run(s[n], h[n - 1].tables)
             /\ ~CanRun(d, s[n], h[n - 1].tables) => Failed(h[n])
  <2> DEFINE x == h[n - 1].tables
  <2>1. h[n] = RunStatement(Good(d, ps, x), s[n])
    BY <1>1, <1>4
  <2> HIDE DEF x
  <2>2. ASSUME CanRun(d, s[n], x) PROVE Fine(n) /\ h[n].tables = Run(s[n], x)
    <3>1. h[n] = Good(d, ps, Run(s[n], x))
      BY <2>1, <2>2, GoodStatement
    <3>2. h[n].tables = Run(s[n], x)
      BY <3>1, GoodFields
    <3> QED
      BY <3>1, <3>2
  <2>3. ASSUME ~CanRun(d, s[n], x) PROVE Failed(h[n])
    BY <2>1, <2>3, RefusedStatement
  <2> QED
    BY <2>2, <2>3 DEF x
<1>5. ASSUME NEW x \in 0 .. N, Failed(h[x]) PROVE FALSE
  <2> DEFINE Other == {n \in 0 .. N : x <= n /\ h[n] # h[x]}
  <2>1. Other \subseteq Nat
    BY <1>2
  <2>2. CASE Other = {}
    <3>1. h[N] = h[x]
      BY <1>2, <2>2
    <3> QED
      BY <1>1, <1>5, <3>1
  <2>3. CASE Other # {}
    <3>0. PICK y \in Other : \A z \in Other : y <= z
      <4> HIDE DEF Other
      <4> QED
        BY <2>1, <2>3, Execs!Smallest
    <3>1. y \in 0 .. N /\ x <= y /\ h[y] # h[x] /\ x # y
      OBVIOUS
    <3>2. y \in 1 .. N /\ y - 1 \in 0 .. N /\ x <= y - 1 /\ ~ (y <= y - 1)
      BY <1>2, <3>1
    <3>3. h[y - 1] = h[x]
      BY <3>0, <3>2
    <3>4. h[y] = h[x]
      BY <1>1, <1>5, <3>2, <3>3, FailedStatement
    <3> QED
      BY <3>1, <3>4
  <2> QED
    BY <2>2, <2>3
<1>6. \A n \in 0 .. N : Fine(n)
  <2> SUFFICES ASSUME Spoilt # {} PROVE FALSE
    OBVIOUS
  <2>1. Spoilt \subseteq Nat
    BY <1>2
  <2>2. PICK y \in Spoilt : \A z \in Spoilt : y <= z
    <3> HIDE DEF Spoilt
    <3> QED
      BY <2>1, Execs!Smallest
  <2>3. y \in 0 .. N /\ ~Fine(y) /\ y # 0
    BY <1>3
  <2>4. y \in 1 .. N /\ y - 1 \in 0 .. N /\ ~ (y <= y - 1)
    BY <1>2, <2>3
  <2>5. Fine(y - 1)
    BY <2>2, <2>4
  <2>6. Failed(h[y])
    BY <1>4, <2>3, <2>4, <2>5
  <2> QED
    BY <1>5, <2>3, <2>6
<1> DEFINE T == [n \in 0 .. N |-> h[n].tables]
<1>7. T[0] = ts /\ h[N] = Good(d, ps, T[N])
  <2>1. 0 \in 0 .. N /\ N \in 0 .. N
    BY <1>2
  <2> QED
    BY <1>1, <1>2, <1>6, <2>1
<1>8. ASSUME NEW n \in 1 .. N
      PROVE  CanRun(d, s[n], T[n - 1]) /\ T[n] = Run(s[n], T[n - 1])
  <2>1. n - 1 \in 0 .. N /\ n \in 0 .. N
    BY <1>2
  <2>2. T[n - 1] = h[n - 1].tables /\ T[n] = h[n].tables
    BY <2>1
  <2>3. Fine(n - 1)
    BY <1>6, <2>1
  <2> HIDE DEF T
  <2> QED
    BY <1>4, <1>5, <2>1, <2>2, <2>3
<1> QED
  BY <1>1, <1>7, <1>8 DEF N

LEMMA ExecutesAll ==
    ASSUME NEW d, NEW ps, NEW ts, NEW s, Len(s) \in Nat,
           Exec!Fold(Good(d, ps, ts), s).ok
    PROVE  \E T : /\ T[0] = ts
                  /\ \A n \in 1 .. Len(s) :
                        CanRun(d, s[n], T[n - 1]) /\ T[n] = Run(s[n], T[n - 1])
                  /\ Exec!Fold(Good(d, ps, ts), s) = Good(d, ps, T[Len(s)])
  BY ExecutesOrFails, StillFailed

-----------------------------------------------------------------------------
(* What each statement does to the tables                                  *)

Layout(t) == t = [cols |-> t.cols, fks |-> t.fks, rows |-> t.rows]

Tabled(ts) ==
    /\ ts = [t \in DOMAIN ts |-> ts[t]]
    /\ \A t \in DOMAIN ts : Layout(ts[t])

\* us are the tables ts, but that t has these columns.
Reshaped(ts, us, t, cols) ==
    /\ Tabled(us) /\ DOMAIN us = DOMAIN ts \cup {t} /\ us[t].cols = cols
    /\ \A x \in DOMAIN ts \ {t} : us[x].cols = ts[x].cols

LEMMA WithEntries ==
    ASSUME NEW ts, NEW n, NEW t
    PROVE  /\ With(ts, n, t)[n] = t
           /\ \A x \in DOMAIN ts \ {n} : With(ts, n, t)[x] = ts[x]
  BY DEF With

LEMMA WithTabled ==
    ASSUME NEW ts, Tabled(ts), NEW n, NEW t, Layout(t)
    PROVE  Tabled(With(ts, n, t)) /\ DOMAIN With(ts, n, t) = DOMAIN ts \cup {n}
<1> DEFINE us == With(ts, n, t)
<1>1. us = [x \in DOMAIN ts \cup {n} |-> IF x = n THEN t ELSE ts[x]]
  BY DEF With
<1> HIDE DEF us
<1>2. DOMAIN us = DOMAIN ts \cup {n} /\ us[n] = t /\ \A x \in DOMAIN ts \ {n} : us[x] = ts[x]
  BY <1>1
<1>3. us = [x \in DOMAIN us |-> us[x]]
  BY <1>1
<1>4. Tabled(us)
  BY <1>2, <1>3 DEF Tabled
<1> QED
  BY <1>2, <1>4 DEF us

LEMMA WithoutIs ==
    ASSUME NEW ts, Tabled(ts), NEW n
    PROVE  /\ Tabled(Without(ts, n)) /\ DOMAIN Without(ts, n) = DOMAIN ts \ {n}
           /\ \A x \in DOMAIN ts \ {n} : Without(ts, n)[x] = ts[x]
<1> DEFINE us == Without(ts, n)
<1>1. us = [x \in DOMAIN ts \ {n} |-> ts[x]]
  BY DEF Without, Restrict
<1> HIDE DEF us
<1>2. DOMAIN us = DOMAIN ts \ {n} /\ \A x \in DOMAIN ts \ {n} : us[x] = ts[x]
  BY <1>1
<1>3. us = [x \in DOMAIN us |-> us[x]]
  BY <1>1
<1>4. Tabled(us)
  BY <1>2, <1>3 DEF Tabled
<1> QED
  BY <1>2, <1>4 DEF us

\* Another table under a name.
LEMMA ReplacedTable ==
    ASSUME NEW ts, Tabled(ts), NEW n \in DOMAIN ts, NEW t, Layout(t)
    PROVE  LET us == [ts EXCEPT ![n] = t] IN
           /\ Tabled(us) /\ DOMAIN us = DOMAIN ts /\ us[n] = t
           /\ \A x \in DOMAIN ts \ {n} : us[x] = ts[x]
<1> DEFINE us == [ts EXCEPT ![n] = t]
<1>1. DOMAIN us = DOMAIN ts /\ us[n] = t /\ \A x \in DOMAIN ts \ {n} : us[x] = ts[x]
  OBVIOUS
<1>2. us = [x \in DOMAIN us |-> us[x]]
  OBVIOUS
<1> HIDE DEF us
<1>3. Tabled(us)
  BY <1>1, <1>2 DEF Tabled
<1> QED
  BY <1>1, <1>3 DEF us

\* The columns of a table that Create renders for these fields.
ColumnsFor(fs) == [i \in DOMAIN fs |-> ColumnDef(fs[i])]

LEMMA RunCreate ==
    ASSUME NEW ts, Tabled(ts), NEW t, NEW fs, NEW d, CanRun(d, Create(t, fs), ts)
    PROVE  /\ t \notin DOMAIN ts
           /\ Reshaped(ts, Run(Create(t, fs), ts), t, ColumnsFor(fs))
<1> DEFINE st == Create(t, fs)
           new == [cols |-> st.cols, fks |-> st.fks, rows |-> <<>>]
<1>1. st.do = "create" /\ st.table = t /\ st.cols = ColumnsFor(fs)
  BY DEF Create, ColumnsFor
<1> HIDE DEF st
<1>2. CanCreate(d, st, ts) /\ Run(st, ts) = With(ts, t, new)
  BY <1>1 DEF CanRun, Run, st
<1>3. Layout(new) /\ new.cols = st.cols
  BY DEF Layout
<1> HIDE DEF new
<1> DEFINE us == With(ts, t, new)
<1>4. Tabled(us) /\ DOMAIN us = DOMAIN ts \cup {t}
  BY <1>3, WithTabled
<1>5. us[t] = new /\ \A x \in DOMAIN ts \ {t} : us[x] = ts[x]
  BY WithEntries
<1>6. t \notin DOMAIN ts
  BY <1>1, <1>2 DEF CanCreate
<1> HIDE DEF us
<1>7. Reshaped(ts, us, t, ColumnsFor(fs))
  BY <1>1, <1>3, <1>4, <1>5 DEF Reshaped
<1> QED
  BY <1>2, <1>6, <1>7 DEF st, us

LEMMA RunCopy ==
    ASSUME NEW ts, Tabled(ts), NEW t, NEW f, NEW cs, NEW d, CanRun(d, Copy(t, f, cs), ts)
    PROVE  Reshaped(ts, Run(Copy(t, f, cs), ts), t, ts[t].cols) /\ t \in DOMAIN ts
<1> DEFINE st == Copy(t, f, cs)
           rs == [r \in DOMAIN ts[st.from].rows |->
                    CopiedRow(st, ts[st.table], ts[st.from].rows[r])]
           old == ts[t]
           new == [old EXCEPT !.rows = rs]
<1>1. st.do = "copy" /\ st.table = t
  BY DEF Copy
<1> HIDE DEF st
<1>2. t \in DOMAIN ts
  BY <1>1 DEF CanRun, CanCopy, st
<1> HIDE DEF rs
<1>3. Run(st, ts) = [ts EXCEPT ![t] = new]
  BY <1>1 DEF Run, rs
<1>4. Layout(new) /\ new.cols = old.cols
  <2>1. old = [cols |-> old.cols, fks |-> old.fks, rows |-> old.rows]
    BY <1>2 DEF Tabled, Layout
  <2> HIDE DEF old
  <2>2. new = [cols |-> old.cols, fks |-> old.fks, rows |-> rs]
    BY <2>1
  <2>3. new.cols = old.cols /\ new.fks = old.fks /\ new.rows = rs
    BY <2>2
  <2> QED
    BY <2>2, <2>3 DEF Layout
<1> HIDE DEF new
<1> DEFINE us == [ts EXCEPT ![t] = new]
<1>5. /\ Tabled(us) /\ DOMAIN us = DOMAIN ts /\ us[t] = new
      /\ \A x \in DOMAIN ts \ {t} : us[x] = ts[x]
  BY <1>2, <1>4, ReplacedTable
<1> HIDE DEF us
<1>6. DOMAIN ts \cup {t} = DOMAIN ts
  BY <1>2
<1>7. Reshaped(ts, us, t, old.cols)
  BY <1>4, <1>5, <1>6 DEF Reshaped
<1> QED
  BY <1>2, <1>3, <1>7 DEF st, us

LEMMA RunAddColumn ==
    ASSUME NEW ts, Tabled(ts), NEW t, NEW f, NEW d, CanRun(d, AddColumn(t, f), ts)
    PROVE  /\ Reshaped(ts, Run(AddColumn(t, f), ts), t, Append(ts[t].cols, ColumnDef(f)))
           /\ t \in DOMAIN ts
<1> DEFINE st == AddColumn(t, f)
           old == ts[t]
           more == Append(old.cols, st.col)
           rs == [r \in DOMAIN old.rows |-> With(old.rows[r], st.col.column, Null)]
           mid == [old EXCEPT !.cols = more]
           new == [mid EXCEPT !.rows = rs]
<1>1. st.do = "addcolumn" /\ st.table = t /\ st.col = ColumnDef(f)
  BY DEF AddColumn
<1> HIDE DEF st
<1>2. t \in DOMAIN ts
  BY <1>1 DEF CanRun, CanAddColumn, st
<1>3. old = [cols |-> old.cols, fks |-> old.fks, rows |-> old.rows]
  BY <1>2 DEF Tabled, Layout
<1>4. mid.rows = old.rows
  <2> HIDE DEF old, more
  <2> QED
    BY <1>3
<1>5. WithColumn(old, st.col) = new
  <2>1. WithColumn(old, st.col) =
          [mid EXCEPT !.rows = [r \in DOMAIN mid.rows |-> With(mid.rows[r], st.col.column, Null)]]
    BY DEF WithColumn
  <2> HIDE DEF mid, old
  <2> QED
    BY <1>4, <2>1
<1>6. Run(st, ts) = [ts EXCEPT ![t] = new]
  <2>1. Run(st, ts) = [ts EXCEPT ![t] = WithColumn(old, st.col)]
    BY <1>1 DEF Run
  <2> HIDE DEF new
  <2> QED
    BY <1>5, <2>1
<1>7. Layout(new) /\ new.cols = more
  <2> HIDE DEF rs, more, old
  <2>1. mid = [cols |-> more, fks |-> old.fks, rows |-> old.rows]
    BY <1>3
  <2> HIDE DEF mid
  <2>2. new = [cols |-> more, fks |-> old.fks, rows |-> rs]
    BY <2>1
  <2>3. new.cols = more /\ new.fks = old.fks /\ new.rows = rs
    BY <2>2
  <2> QED
    BY <2>2, <2>3 DEF Layout
<1> HIDE DEF new
<1> DEFINE us == [ts EXCEPT ![t] = new]
<1>8. /\ Tabled(us) /\ DOMAIN us = DOMAIN ts /\ us[t] = new
      /\ \A x \in DOMAIN ts \ {t} : us[x] = ts[x]
  BY <1>2, <1>7, ReplacedTable
<1> HIDE DEF us, more
<1>9. DOMAIN ts \cup {t} = DOMAIN ts
  BY <1>2
<1>10. Reshaped(ts, us, t, more)
  BY <1>7, <1>8, <1>9 DEF Reshaped
<1> QED
  BY <1>1, <1>2, <1>6, <1>10 DEF st, us, more

LEMMA RunDrop ==
    ASSUME NEW ts, Tabled(ts), NEW t
    PROVE  Run(Drop(t), ts) = Without(ts, t)
<1> DEFINE st == Drop(t)
<1>1. st.do = "drop" /\ st.table = t
  BY DEF Drop
<1> HIDE DEF st
<1>2. Run(st, ts) = Without(ts, t)
  BY <1>1 DEF Run
<1> QED
  BY <1>2 DEF st

LEMMA RunRename ==
    ASSUME NEW ts, NEW t, NEW u, NEW d, CanRun(d, Rename(t, u), ts)
    PROVE  /\ t \in DOMAIN ts /\ u \notin DOMAIN ts
           /\ Run(Rename(t, u), ts) = With(Without(ts, t), u, ts[t])
<1> DEFINE st == Rename(t, u)
<1>1. st.do = "rename" /\ st.table = t /\ st.to = u
  BY DEF Rename
<1> HIDE DEF st
<1>2. CanRename(st, ts)
  BY <1>1 DEF CanRun, st
<1>3. Run(st, ts) = With(Without(ts, t), u, ts[t])
  BY <1>1 DEF Run
<1> QED
  BY <1>1, <1>2, <1>3 DEF CanRename, st

\* The end of a rebuild: the old table goes, the new one takes its name.
LEMMA RunSwap ==
    ASSUME NEW ts, Tabled(ts), NEW t \in DOMAIN ts, NEW tmp, tmp \notin DOMAIN ts,
           NEW us, NEW cols, Reshaped(ts, us, tmp, cols), NEW d,
           CanRun(d, Rename(tmp, t), Run(Drop(t), us))
    PROVE  Reshaped(ts, Run(Rename(tmp, t), Run(Drop(t), us)), t, cols)
<1> DEFINE vs == Without(us, t)
           new == vs[tmp]
           xs == Without(vs, tmp)
           ws == With(xs, t, new)
<1>1. Run(Drop(t), us) = vs
  BY RunDrop DEF Reshaped
<1>2. Tabled(us) /\ DOMAIN us = DOMAIN ts \cup {tmp}
  BY DEF Reshaped
<1>3. /\ Tabled(vs) /\ DOMAIN vs = DOMAIN us \ {t}
      /\ \A x \in DOMAIN us \ {t} : vs[x] = us[x]
  BY <1>2, WithoutIs
<1> HIDE DEF vs
<1>4. tmp \in DOMAIN vs /\ Layout(new) /\ new.cols = cols
  BY <1>2, <1>3 DEF Tabled, Reshaped
<1>5. /\ Tabled(xs) /\ DOMAIN xs = DOMAIN vs \ {tmp}
      /\ \A x \in DOMAIN vs \ {tmp} : xs[x] = vs[x]
  BY <1>3, WithoutIs
<1> HIDE DEF xs, new
<1>6. /\ Tabled(ws) /\ DOMAIN ws = DOMAIN xs \cup {t} /\ ws[t] = new
      /\ \A x \in DOMAIN xs \ {t} : ws[x] = xs[x]
  <2>1. Tabled(xs) /\ Layout(new)
    BY <1>4, <1>5
  <2>2. Tabled(With(xs, t, new)) /\ DOMAIN With(xs, t, new) = DOMAIN xs \cup {t}
    BY <2>1, WithTabled
  <2>3. /\ With(xs, t, new)[t] = new
        /\ \A x \in DOMAIN xs \ {t} : With(xs, t, new)[x] = xs[x]
    BY WithEntries
  <2> QED
    BY <2>2, <2>3
<1>7. Run(Rename(tmp, t), vs) = ws
  BY <1>1, RunRename DEF xs, new
<1> HIDE DEF ws
<1>8. DOMAIN ws = DOMAIN ts \cup {t}
  BY <1>2, <1>3, <1>5, <1>6
<1>9. \A x \in DOMAIN ts \ {t} : ws[x].cols = ts[x].cols
  BY <1>2, <1>3, <1>5, <1>6 DEF Reshaped
<1>10. Reshaped(ts, ws, t, cols)
  BY <1>4, <1>6, <1>8, <1>9 DEF Reshaped
<1> QED
  BY <1>1, <1>7, <1>10

-----------------------------------------------------------------------------
(* Rebuilding a table                                                      *)

LEMMA Spliced ==
    ASSUME NEW a, NEW b, NEW c, NEW d
    PROVE  <<a>> \o <<>> \o <<c, d>> = <<a, c, d>> /\ <<a>> \o <<b>> \o <<c, d>> = <<a, b, c, d>>
<1> DEFINE S == {a, b, c, d}
           x == <<a>>
           y == <<b>>
           z == <<c, d>>
<1>1. /\ x \in Seq(S) /\ Len(x) = 1 /\ x[1] = a
      /\ y \in Seq(S) /\ Len(y) = 1 /\ y[1] = b
      /\ z \in Seq(S) /\ Len(z) = 2 /\ z[1] = c /\ z[2] = d
  OBVIOUS
<1> HIDE DEF S, x, y, z
<1>2. x \o <<>> = x
  BY <1>1, ConcatEmptySeq
<1>3. ASSUME NEW w, w = x \o z
      PROVE  w = <<a, c, d>>
  <2>1. w \in Seq(S) /\ Len(w) = 3 /\ w[1] = x[1] /\ w[2] = z[1] /\ w[3] = z[2]
    <3>1. /\ w \in Seq(S) /\ Len(w) = Len(x) + Len(z)
          /\ \A i \in 1 .. Len(x) + Len(z) :
                w[i] = IF i <= Len(x) THEN x[i] ELSE z[i - Len(x)]
      BY <1>1, <1>3, ConcatProperties
    <3> QED
      BY <1>1, <3>1
  <2>2. <<a, c, d>> \in Seq(S) /\ Len(<<a, c, d>>) = 3
        /\ <<a, c, d>>[1] = a /\ <<a, c, d>>[2] = c /\ <<a, c, d>>[3] = d
    BY DEF S
  <2> DEFINE v == <<a, c, d>>
  <2> HIDE DEF v
  <2>3. \A i \in 1 .. Len(w) : w[i] = v[i]
    BY <1>1, <2>1, <2>2 DEF v
  <2>4. w = v
    BY <2>1, <2>2, <2>3, SeqEqual DEF v
  <2> QED
    BY <2>4 DEF v
<1>4. x \o y \in Seq(S) /\ Len(x \o y) = 2 /\ (x \o y)[1] = a /\ (x \o y)[2] = b
  <2>1. /\ x \o y \in Seq(S) /\ Len(x \o y) = Len(x) + Len(y)
        /\ \A i \in 1 .. Len(x) + Len(y) :
              (x \o y)[i] = IF i <= Len(x) THEN x[i] ELSE y[i - Len(x)]
    BY <1>1, ConcatProperties
  <2> QED
    BY <1>1, <2>1
<1>5. ASSUME NEW w, w = x \o y \o z
      PROVE  w = <<a, b, c, d>>
  <2> DEFINE u == x \o y
  <2>1. u \in Seq(S) /\ Len(u) = 2 /\ u[1] = a /\ u[2] = b
    BY <1>4
  <2>2. w \in Seq(S) /\ Len(w) = 4 /\ w[1] = u[1] /\ w[2] = u[2] /\ w[3] = z[1] /\ w[4] = z[2]
    <3>1. w = u \o z
      BY <1>5
    <3> HIDE DEF u
    <3>2. /\ w \in Seq(S) /\ Len(w) = Len(u) + Len(z)
          /\ \A i \in 1 .. Len(u) + Len(z) :
                w[i] = IF i <= Len(u) THEN u[i] ELSE z[i - Len(u)]
      BY <1>1, <2>1, <3>1, ConcatProperties
    <3> QED
      BY <1>1, <2>1, <3>2
  <2> DEFINE v == <<a, b, c, d>>
  <2>3. v \in Seq(S) /\ Len(v) = 4 /\ v[1] = a /\ v[2] = b /\ v[3] = c /\ v[4] = d
    BY DEF S
  <2> HIDE DEF v, u
  <2>4. \A i \in 1 .. Len(w) : w[i] = v[i]
    BY <1>1, <2>1, <2>2, <2>3
  <2>5. w = v
    BY <2>2, <2>3, <2>4, SeqEqual
  <2> QED
    BY <2>5 DEF v
<1>6. x \o z = <<a, c, d>> /\ x \o y \o z = <<a, b, c, d>>
  BY <1>3, <1>5
<1> QED
  BY <1>2, <1>6 DEF x, y, z

LEMMA Rebuild ==
    ASSUME NEW t, NEW old, NEW new
    PROVE  LET c == Create(TmpTable(t), new)
               k == Copy(TmpTable(t), t, Columns(old) \cap Columns(new))
               d == Drop(t)
               r == Rename(TmpTable(t), t) IN
           RebuildTable(t, old, new) = <<c, d, r>> \/ RebuildTable(t, old, new) = <<c, k, d, r>>
<1> DEFINE tmp == TmpTable(t)
           common == Columns(old) \cap Columns(new)
           c == Create(tmp, new)
           k == Copy(tmp, t, common)
           d == Drop(t)
           r == Rename(tmp, t)
           s == RebuildTable(t, old, new)
<1>1. s = <<c>> \o (IF common = {} THEN <<>> ELSE <<k>>) \o <<d, r>>
  BY DEF RebuildTable
<1>2. s = <<c, d, r>> \/ s = <<c, k, d, r>>
  <2> HIDE DEF c, k, d, r, common, s
  <2>1. CASE common = {}
    <3>1. s = <<c>> \o <<>> \o <<d, r>>
      BY <1>1, <2>1
    <3> QED
      BY <3>1, Spliced
  <2>2. CASE common # {}
    <3>1. s = <<c>> \o <<k>> \o <<d, r>>
      BY <1>1, <2>2
    <3> QED
      BY <3>1, Spliced
  <2> QED
    BY <2>1, <2>2
<1> QED
  BY <1>2

LEMMA RebuildRuns ==
    ASSUME NEW d, NEW ps, NEW ts, Tabled(ts), NEW t \in DOMAIN ts, NEW old, NEW new,
           Exec!Fold(Good(d, ps, ts), RebuildTable(t, old, new)).ok
    PROVE  \E us : /\ Exec!Fold(Good(d, ps, ts), RebuildTable(t, old, new)) = Good(d, ps, us)
                   /\ Reshaped(ts, us, t, ColumnsFor(new))
<1> DEFINE tmp == TmpTable(t)
           c == Create(tmp, new)
           k == Copy(tmp, t, Columns(old) \cap Columns(new))
           dr == Drop(t)
           r == Rename(tmp, t)
           s == RebuildTable(t, old, new)
           cols == ColumnsFor(new)
<1>1. s = <<c, dr, r>> \/ s = <<c, k, dr, r>>
  BY Rebuild
<1> HIDE DEF s, k, tmp
<1>2. CASE s = <<c, dr, r>>
  <2>1. Len(s) = 3 /\ s[1] = c /\ s[2] = dr /\ s[3] = r
    <3> HIDE DEF c, dr, r
    <3> QED
      BY <1>2
  <2>2. PICK T : /\ T[0] = ts
                 /\ \A n \in 1 .. Len(s) : CanRun(d, s[n], T[n - 1]) /\ T[n] = Run(s[n], T[n - 1])
                 /\ Exec!Fold(Good(d, ps, ts), s) = Good(d, ps, T[Len(s)])
    <3>1. Len(s) \in Nat
      BY <2>1
    <3> QED
      BY <3>1, ExecutesAll DEF s
  <2>3. /\ CanRun(d, c, ts) /\ T[1] = Run(c, ts)
        /\ T[2] = Run(dr, T[1])
        /\ CanRun(d, r, T[2]) /\ T[3] = Run(r, T[2])
    <3> HIDE DEF c, dr, r
    <3>1. CanRun(d, s[1], T[1 - 1]) /\ T[1] = Run(s[1], T[1 - 1])
      BY <2>1, <2>2
    <3>2. T[2] = Run(s[2], T[2 - 1])
      BY <2>1, <2>2
    <3>3. CanRun(d, s[3], T[3 - 1]) /\ T[3] = Run(s[3], T[3 - 1])
      BY <2>1, <2>2
    <3> QED
      BY <2>1, <2>2, <3>1, <3>2, <3>3
  <2>4. tmp \notin DOMAIN ts /\ Reshaped(ts, T[1], tmp, cols)
    BY <2>3, RunCreate
  <2>5. Reshaped(ts, T[3], t, cols)
    BY <2>3, <2>4, RunSwap
  <2> QED
    BY <2>1, <2>2, <2>5 DEF s
<1>3. CASE s = <<c, k, dr, r>>
  <2>1. Len(s) = 4 /\ s[1] = c /\ s[2] = k /\ s[3] = dr /\ s[4] = r
    <3> HIDE DEF c, dr, r
    <3> QED
      BY <1>3
  <2>2. PICK T : /\ T[0] = ts
                 /\ \A n \in 1 .. Len(s) : CanRun(d, s[n], T[n - 1]) /\ T[n] = Run(s[n], T[n - 1])
                 /\ Exec!Fold(Good(d, ps, ts), s) = Good(d, ps, T[Len(s)])
    <3>1. Len(s) \in Nat
      BY <2>1
    <3> QED
      BY <3>1, ExecutesAll DEF s
  <2>3. /\ CanRun(d, c, ts) /\ T[1] = Run(c, ts)
        /\ CanRun(d, k, T[1]) /\ T[2] = Run(k, T[1])
        /\ T[3] = Run(dr, T[2])
        /\ CanRun(d, r, T[3]) /\ T[4] = Run(r, T[3])
    <3> HIDE DEF c, dr, r
    <3>1. CanRun(d, s[1], T[1 - 1]) /\ T[1] = Run(s[1], T[1 - 1])
      BY <2>1, <2>2
    <3>2. CanRun(d, s[2], T[2 - 1]) /\ T[2] = Run(s[2], T[2 - 1])
      BY <2>1, <2>2
    <3>3. T[3] = Run(s[3], T[3 - 1])
      BY <2>1, <2>2
    <3>4. CanRun(d, s[4], T[4 - 1]) /\ T[4] = Run(s[4], T[4 - 1])
      BY <2>1, <2>2
    <3> QED
      BY <2>1, <2>2, <3>1, <3>2, <3>3, <3>4
  <2>4. tmp \notin DOMAIN ts /\ Reshaped(ts, T[1], tmp, cols)
    BY <2>3, RunCreate
  <2>5. Reshaped(T[1], T[2], tmp, T[1][tmp].cols) /\ tmp \in DOMAIN T[1]
    <3>1. Tabled(T[1])
      BY <2>4 DEF Reshaped
    <3> QED
      BY <2>3, <3>1, RunCopy DEF k
  <2>6. Reshaped(ts, T[2], tmp, cols)
    BY <2>4, <2>5 DEF Reshaped
  <2>7. Reshaped(ts, T[4], t, cols)
    BY <2>3, <2>4, <2>6, RunSwap
  <2> QED
    BY <2>1, <2>2, <2>7 DEF s
<1> QED
  BY <1>1, <1>2, <1>3

\* An operation of a single statement.
LEMMA SingleRuns ==
    ASSUME NEW d, NEW ps, NEW ts, NEW st, Exec!Fold(Good(d, ps, ts), <<st>>).ok
    PROVE  CanRun(d, st, ts) /\ Exec!Fold(Good(d, ps, ts), <<st>>) = Good(d, ps, Run(st, ts))
<1> DEFINE s == <<st>>
<1>1. Len(s) = 1 /\ s[1] = st /\ Len(s) \in Nat
  OBVIOUS
<1> HIDE DEF s
<1>2. PICK T : /\ T[0] = ts
               /\ \A n \in 1 .. Len(s) : CanRun(d, s[n], T[n - 1]) /\ T[n] = Run(s[n], T[n - 1])
               /\ Exec!Fold(Good(d, ps, ts), s) = Good(d, ps, T[Len(s)])
  BY <1>1, ExecutesAll DEF s
<1>3. CanRun(d, s[1], T[1 - 1]) /\ T[1] = Run(s[1], T[1 - 1])
  BY <1>1, <1>2
<1>4. CanRun(d, st, ts) /\ Exec!Fold(Good(d, ps, ts), s) = Good(d, ps, Run(st, ts))
  BY <1>1, <1>2, <1>3
<1> QED
  BY <1>4 DEF s

\* A model is created or gets other fields.
LEMMA MatchesReshaped ==
    ASSUME NEW W, WellFormed(W), NEW V, WellFormed(V), NEW n,
           ModelNames(V) = ModelNames(W) \cup {n},
           n \in ModelNames(W) => V.models[n].table = W.models[n].table,
           \A m \in ModelNames(W) \ {n} : V.models[m] = W.models[m],
           NEW ts, Matches(ts, W), NEW us, NEW t, t = V.models[n].table, NEW cols,
           cols = ColumnsFor(V.models[n].fields), Reshaped(ts, us, t, cols)
    PROVE  Matches(us, V)
<1>1. DOMAIN ts = DescribedTables(W)
      /\ \A m \in ModelNames(W) : TableMatches(ts[W.models[m].table], W.models[m].fields)
  BY DEF Matches
<1>2. \A m \in ModelNames(V) \ {n} : m \in ModelNames(W) /\ V.models[m] = W.models[m]
  OBVIOUS
<1>3. DescribedTables(V) = DescribedTables(W) \cup {t}
  BY <1>2 DEF DescribedTables
<1>4. DOMAIN us = DescribedTables(V)
  BY <1>1, <1>3 DEF Reshaped
<1>5. ASSUME NEW m \in ModelNames(V)
      PROVE  TableMatches(us[V.models[m].table], V.models[m].fields)
  <2>1. CASE m = n
    BY <2>1 DEF Reshaped, TableMatches, ColumnsFor
  <2>2. CASE m # n
    <3> DEFINE u == V.models[m].table
    <3>1. u # t
      BY <2>2 DEF WellFormed
    <3>2. m \in ModelNames(W) /\ V.models[m] = W.models[m] /\ u = W.models[m].table
      BY <1>2, <2>2
    <3>3. u \in DOMAIN ts
      BY <1>1, <3>2 DEF DescribedTables
    <3>4. us[u].cols = ts[u].cols
      BY <3>1, <3>3 DEF Reshaped
    <3> QED
      BY <1>1, <3>2, <3>4 DEF TableMatches
  <2> QED
    BY <2>1, <2>2
<1> QED
  BY <1>4, <1>5 DEF Matches

LEMMA MatchesDropped ==
    ASSUME NEW W, WellFormed(W), NEW V, NEW n \in ModelNames(W),
           ModelNames(V) = ModelNames(W) \ {n},
           \A m \in ModelNames(V) : V.models[m] = W.models[m],
           NEW ts, Tabled(ts), Matches(ts, W)
    PROVE  Matches(Without(ts, W.models[n].table), V)
<1> DEFINE t == W.models[n].table
           us == Without(ts, t)
<1>1. DOMAIN ts = DescribedTables(W)
      /\ \A m \in ModelNames(W) : TableMatches(ts[W.models[m].table], W.models[m].fields)
  BY DEF Matches
<1>2. DOMAIN us = DOMAIN ts \ {t} /\ \A x \in DOMAIN ts \ {t} : us[x] = ts[x]
  BY WithoutIs, SMTT(30)
<1> HIDE DEF us
<1>3. \A m \in ModelNames(V) :
         m \in ModelNames(W) /\ V.models[m] = W.models[m] /\ W.models[m].table # t
  BY DEF WellFormed
<1>4. DescribedTables(V) = DescribedTables(W) \ {t}
  <2>1. DescribedTables(V) \subseteq DescribedTables(W) \ {t}
    BY <1>3 DEF DescribedTables
  <2>2. ASSUME NEW x \in DescribedTables(W) \ {t} PROVE x \in DescribedTables(V)
    <3>1. PICK m \in ModelNames(W) : x = W.models[m].table
      BY DEF DescribedTables
    <3>2. m \in ModelNames(V)
      BY <3>1
    <3> QED
      BY <1>3, <3>1, <3>2 DEF DescribedTables
  <2> QED
    BY <2>1, <2>2
<1>5. ASSUME NEW m \in ModelNames(V)
      PROVE  TableMatches(us[V.models[m].table], V.models[m].fields)
  <2> DEFINE u == V.models[m].table
  <2>1. m \in ModelNames(W) /\ V.models[m] = W.models[m] /\ u # t
    BY <1>3
  <2>2. u \in DOMAIN ts
    BY <1>1, <2>1 DEF DescribedTables
  <2>3. us[u] = ts[u]
    BY <1>2, <2>1, <2>2
  <2> QED
    BY <1>1, <2>1, <2>3
<1> QED
  BY <1>1, <1>2, <1>4, <1>5 DEF Matches, us

-----------------------------------------------------------------------------
(* The statements of an operation                                          *)

\* What an operation that is run makes of tables and state alike.
Agrees(us, V) == Tabled(us) /\ WellFormed(V) /\ Matches(us, V)

LEMMA CreateRuns ==
    ASSUME NEW W, NEW ts, Agrees(ts, W), NEW op, op.op = "CreateModel",
           IsOperation(op), Sound(op, W), NEW d, CanRun(d, Create(op.table, op.fields), ts)
    PROVE  Agrees(Run(Create(op.table, op.fields), ts), ApplyCreateModel(op, W))
<1> DEFINE us == Run(Create(op.table, op.fields), ts)
           V == ApplyCreateModel(op, W)
<1>1. /\ op.table \notin DOMAIN ts
      /\ Reshaped(ts, us, op.table, ColumnsFor(op.fields))
  BY RunCreate DEF Agrees
<1>2. IsFields(op.fields) /\ op.model \notin ModelNames(W)
  BY DEF IsOperation, Sound, IsFields
<1>3. \A m \in ModelNames(W) : W.models[m].table # op.table
  BY <1>1 DEF Agrees, Matches, DescribedTables
<1>4. /\ WellFormed(V) /\ ModelNames(V) = ModelNames(W) \cup {op.model}
      /\ V.models[op.model].table = op.table /\ V.models[op.model].fields = op.fields
      /\ \A m \in ModelNames(W) : V.models[m] = W.models[m]
  BY <1>2, <1>3, CreateIs DEF Agrees
<1> HIDE DEF us, V
<1>5. WellFormed(W) /\ Matches(ts, W)
  BY DEF Agrees
<1>6. Matches(us, V)
  BY <1>1, <1>2, <1>4, <1>5, MatchesReshaped
<1> QED
  BY <1>1, <1>4, <1>6 DEF Agrees, Reshaped, us, V

LEMMA FieldsRun ==
    ASSUME NEW W, NEW ts, Agrees(ts, W), NEW n \in ModelNames(W), NEW fs, IsFields(fs),
           NEW us, NEW t, t = W.models[n].table, NEW cols, cols = ColumnsFor(fs),
           Reshaped(ts, us, t, cols)
    PROVE  Agrees(us, WithFields(W, n, fs))
<1> DEFINE V == WithFields(W, n, fs)
<1>1. WellFormed(W) /\ Matches(ts, W)
  BY DEF Agrees
<1>2. /\ WellFormed(V) /\ ModelNames(V) = ModelNames(W)
      /\ \A m \in ModelNames(W) : V.models[m].table = W.models[m].table
      /\ V.models[n].fields = fs
      /\ \A m \in ModelNames(W) \ {n} : V.models[m] = W.models[m]
  BY <1>1, WithFieldsIs
<1> HIDE DEF V
<1>3. ModelNames(V) = ModelNames(W) \cup {n} /\ t = V.models[n].table
  BY <1>2
<1>4. Matches(us, V)
  BY <1>1, <1>2, <1>3, MatchesReshaped
<1> QED
  BY <1>2, <1>4 DEF Agrees, Reshaped, V

\* A model has a table.
LEMMA TableOf ==
    ASSUME NEW W, NEW ts, Agrees(ts, W), NEW n \in ModelNames(W)
    PROVE  /\ W.models[n].table \in DOMAIN ts
           /\ ts[W.models[n].table].cols = ColumnsFor(W.models[n].fields)
           /\ IsFields(W.models[n].fields)
<1>1. IsFields(W.models[n].fields)
  BY DEF Agrees, WellFormed
<1>2. W.models[n].table \in DOMAIN ts
  BY DEF Agrees, Matches, DescribedTables
<1>3. ts[W.models[n].table].cols = ColumnsFor(W.models[n].fields)
  BY DEF Agrees, Matches, TableMatches, ColumnsFor
<1> QED
  BY <1>1, <1>2, <1>3

LEMMA AddFieldRuns ==
    ASSUME NEW W, NEW ts, Agrees(ts, W), NEW op, op.op = "AddField",
           op.model \in ModelNames(W), Sound(op, W), NEW d,
           CanRun(d, AddColumn(W.models[op.model].table, op.field), ts)
    PROVE  Agrees(Run(AddColumn(W.models[op.model].table, op.field), ts), ApplyAddField(op, W))
<1> DEFINE t == W.models[op.model].table
           fs == W.models[op.model].fields
           more == Append(fs, op.field)
           us == Run(AddColumn(t, op.field), ts)
<1>1. ts[t].cols = ColumnsFor(fs) /\ IsFields(fs)
  BY TableOf
<1>2. Reshaped(ts, us, t, Append(ts[t].cols, ColumnDef(op.field)))
  BY RunAddColumn DEF Agrees
<1>3. \A i \in DOMAIN fs : fs[i].name # op.field.name
  BY DEF Sound, HasField
<1>4. IsFields(more) /\ ColumnsFor(more) = Append(ColumnsFor(fs), ColumnDef(op.field))
  <2> DEFINE f == op.field
  <2>1. \A g : ColumnsFor(g) = [k \in DOMAIN g |-> ColumnDef(g[k])]
    BY DEF ColumnsFor
  <2>2. /\ IsFields(Append(fs, f))
        /\ [k \in DOMAIN Append(fs, f) |-> ColumnDef(Append(fs, f)[k])] =
              Append([k \in DOMAIN fs |-> ColumnDef(fs[k])], ColumnDef(f))
    <3> HIDE DEF fs, f
    <3> QED
      BY <1>1, <1>3, AppendedFields DEF f
  <2> QED
    BY <2>1, <2>2
<1>5. Reshaped(ts, us, t, ColumnsFor(more))
  BY <1>1, <1>2, <1>4
<1> HIDE DEF us, more
<1>6. Agrees(us, WithFields(W, op.model, more))
  BY <1>4, <1>5, FieldsRun
<1> QED
  BY <1>6 DEF us, more, ApplyAddField

LEMMA RemoveFieldRuns ==
    ASSUME NEW W, NEW ts, Agrees(ts, W), NEW op, op.op = "RemoveField",
           op.model \in ModelNames(W), HasField(W.models[op.model], op.name), NEW us,
           Reshaped(ts, us, W.models[op.model].table,
                    ColumnsFor(FieldsBut(W.models[op.model].fields, op.name)))
    PROVE  Agrees(us, ApplyRemoveField(op, W))
<1> DEFINE m == W.models[op.model]
           i == FieldIndex(m, op.name)
           less == RemoveAt(m.fields, i)
<1>1. IsFields(m.fields)
  BY TableOf
<1>2. i \in DOMAIN m.fields /\ m.fields[i].name = op.name
  BY <1>1, FieldAt
<1> HIDE DEF m, i
<1>3. IsFields(less) /\ less = FieldsBut(m.fields, op.name)
  BY <1>1, <1>2, RemovedFields
<1>4. ApplyRemoveField(op, W) = WithFields(W, op.model, less)
  BY DEF ApplyRemoveField, m, i
<1> HIDE DEF less
<1>5. Agrees(us, WithFields(W, op.model, less))
  BY <1>3, FieldsRun DEF m
<1> QED
  BY <1>4, <1>5

LEMMA AlterFieldRuns ==
    ASSUME NEW W, NEW ts, Agrees(ts, W), NEW op, op.op = "AlterField",
           op.model \in ModelNames(W), HasField(W.models[op.model], op.field.name), NEW us,
           Reshaped(ts, us, W.models[op.model].table,
                    ColumnsFor(ApplyAlterField(op, W).models[op.model].fields))
    PROVE  Agrees(us, ApplyAlterField(op, W))
<1> DEFINE m == W.models[op.model]
           i == FieldIndex(m, op.field.name)
           other == ReplaceAt(m.fields, i, op.field)
<1>1. IsFields(m.fields)
  BY TableOf
<1>2. i \in DOMAIN m.fields /\ m.fields[i].name = op.field.name
  BY <1>1, FieldAt
<1> HIDE DEF m, i
<1>3. IsFields(other)
  BY <1>1, <1>2, ReplacedFields
<1>4. ApplyAlterField(op, W) = WithFields(W, op.model, other)
  BY DEF ApplyAlterField, m, i
<1> HIDE DEF other
<1>5. ApplyAlterField(op, W).models[op.model].fields = other
  BY <1>3, <1>4, WithFieldsIs DEF Agrees
<1>6. Agrees(us, WithFields(W, op.model, other))
  BY <1>3, <1>5, FieldsRun
<1> QED
  BY <1>4, <1>6

LEMMA DeleteRuns ==
    ASSUME NEW W, NEW ts, Agrees(ts, W), NEW op, op.op = "DeleteModel", op.model \in ModelNames(W)
    PROVE  Agrees(Run(Drop(W.models[op.model].table), ts), ApplyDeleteModel(op, W))
<1> DEFINE t == W.models[op.model].table
           V == ApplyDeleteModel(op, W)
<1>1. Tabled(ts) /\ WellFormed(W) /\ Matches(ts, W)
  BY DEF Agrees
<1>2. Run(Drop(t), ts) = Without(ts, t)
  BY <1>1, RunDrop
<1>3. Tabled(Without(ts, t))
  BY <1>1, WithoutIs
<1>4. /\ WellFormed(V) /\ ModelNames(V) = ModelNames(W) \ {op.model}
      /\ \A m \in ModelNames(V) : V.models[m] = W.models[m]
  BY <1>1, DeleteIs
<1> HIDE DEF V
<1>5. Matches(Without(ts, t), V)
  BY <1>1, <1>4, MatchesDropped
<1> QED
  BY <1>2, <1>3, <1>4, <1>5 DEF V, Agrees

LEMMA OperationRuns ==
    ASSUME NEW W, NEW ts, Agrees(ts, W), NEW op, IsOperation(op), Sound(op, W),
           Renders(op, W), NEW d, NEW ps, Exec!Fold(Good(d, ps, ts), SQL(op, W)).ok
    PROVE  \E us : /\ Exec!Fold(Good(d, ps, ts), SQL(op, W)) = Good(d, ps, us)
                   /\ Agrees(us, ApplyOp(W, op))
<1> DEFINE run == Exec!Fold(Good(d, ps, ts), SQL(op, W))
           m == W.models[op.model]
<1>1. CASE op.op = "CreateModel"
  <2> DEFINE st == Create(op.table, op.fields)
  <2>1. SQL(op, W) = <<st>> /\ ApplyOp(W, op) = ApplyCreateModel(op, W)
    BY <1>1 DEF SQL, ApplyOp
  <2> HIDE DEF st
  <2>2. CanRun(d, st, ts) /\ run = Good(d, ps, Run(st, ts))
    BY <2>1, SingleRuns
  <2>3. Agrees(Run(st, ts), ApplyCreateModel(op, W))
    BY <1>1, <2>2, CreateRuns DEF st
  <2> QED
    BY <2>1, <2>2, <2>3
<1>2. CASE op.op = "DeleteModel"
  <2> DEFINE st == Drop(m.table)
  <2>1. SQL(op, W) = <<st>> /\ ApplyOp(W, op) = ApplyDeleteModel(op, W) /\ op.model \in ModelNames(W)
    BY <1>2 DEF SQL, ApplyOp, Renders
  <2> HIDE DEF st
  <2>2. run = Good(d, ps, Run(st, ts))
    BY <2>1, SingleRuns
  <2>3. Agrees(Run(st, ts), ApplyDeleteModel(op, W))
    BY <1>2, <2>1, DeleteRuns DEF st
  <2> QED
    BY <2>1, <2>2, <2>3
<1>3. CASE op.op = "AddField"
  <2> DEFINE st == AddColumn(m.table, op.field)
  <2>1. SQL(op, W) = <<st>> /\ ApplyOp(W, op) = ApplyAddField(op, W)
    BY <1>3 DEF SQL, ApplyOp
  <2>2. op.model \in ModelNames(W)
    BY <1>3 DEF Renders
  <2> HIDE DEF st
  <2>3. CanRun(d, st, ts) /\ run = Good(d, ps, Run(st, ts))
    BY <2>1, SingleRuns
  <2>4. Agrees(Run(st, ts), ApplyAddField(op, W))
    BY <1>3, <2>2, <2>3, AddFieldRuns DEF st
  <2> QED
    BY <2>1, <2>3, <2>4
<1>4. CASE op.op = "RemoveField"
  <2> DEFINE new == FieldsBut(m.fields, op.name)
             s == RebuildTable(m.table, m.fields, new)
  <2>1. SQL(op, W) = s /\ ApplyOp(W, op) = ApplyRemoveField(op, W)
    BY <1>4 DEF SQL, ApplyOp
  <2>2. op.model \in ModelNames(W) /\ HasField(m, op.name)
    BY <1>4 DEF Renders
  <2>3. m.table \in DOMAIN ts /\ Tabled(ts)
    BY <2>2, TableOf DEF Agrees
  <2> HIDE DEF new
  <2>4. PICK us : run = Good(d, ps, us) /\ Reshaped(ts, us, m.table, ColumnsFor(new))
    <3>1. Exec!Fold(Good(d, ps, ts), s).ok
      BY <2>1
    <3> HIDE DEF m
    <3> QED
      BY <2>1, <2>3, <3>1, RebuildRuns
  <2>5. Agrees(us, ApplyRemoveField(op, W))
    BY <1>4, <2>2, <2>4, RemoveFieldRuns DEF new
  <2> QED
    BY <2>1, <2>4, <2>5
<1>5. CASE op.op = "AlterField"
  <2> DEFINE new == ApplyAlterField(op, W).models[op.model].fields
             s == RebuildTable(m.table, m.fields, new)
  <2>1. SQL(op, W) = s /\ ApplyOp(W, op) = ApplyAlterField(op, W)
    BY <1>5 DEF SQL, ApplyOp
  <2>2. op.model \in ModelNames(W) /\ HasField(m, op.field.name)
    BY <1>5 DEF Renders
  <2>3. m.table \in DOMAIN ts /\ Tabled(ts)
    BY <2>2, TableOf DEF Agrees
  <2> HIDE DEF new
  <2>4. PICK us : run = Good(d, ps, us) /\ Reshaped(ts, us, m.table, ColumnsFor(new))
    <3>1. Exec!Fold(Good(d, ps, ts), s).ok
      BY <2>1
    <3> HIDE DEF m
    <3> QED
      BY <2>1, <2>3, <3>1, RebuildRuns
  <2>5. Agrees(us, ApplyAlterField(op, W))
    BY <1>5, <2>2, <2>4, AlterFieldRuns DEF new
  <2> QED
    BY <2>1, <2>4, <2>5
<1> QED
  BY <1>1, <1>2, <1>3, <1>4, <1>5 DEF IsOperation

-----------------------------------------------------------------------------
(* An operation reads and changes one model                                *)

\* Two states have the same of one model.
SameModel(ps, qs, n) ==
    /\ n \in ModelNames(ps) <=> n \in ModelNames(qs)
    /\ n \in ModelNames(ps) => ps.models[n] = qs.models[n]

Shaped(ps) ==
    /\ ps = [models |-> ps.models, order |-> ps.order]
    /\ ps.models = [n \in ModelNames(ps) |-> ps.models[n]]

LEMMA WellFormedShaped ==
    ASSUME NEW ps, WellFormed(ps)
    PROVE  Shaped(ps)
  BY DEF WellFormed, Shaped

LEMMA FieldsOfShaped ==
    ASSUME NEW ps, Shaped(ps), NEW n, NEW fs
    PROVE  LET qs == WithFields(ps, n, fs) IN
           /\ Shaped(qs) /\ ModelNames(qs) = ModelNames(ps)
           /\ \A m : m # n => SameModel(qs, ps, m)
           /\ n \in ModelNames(ps) => qs.models[n] = [ps.models[n] EXCEPT !.fields = fs]
<1> DEFINE ms == ps.models
           mn2 == [ms[n] EXCEPT !.fields = fs]
           ms2 == [ms EXCEPT ![n] = mn2]
           qs == [ps EXCEPT !.models = ms2]
<1>1. WithFields(ps, n, fs) = qs
  BY DEF WithFields
<1>2. /\ ps = [models |-> ms, order |-> ps.order]
      /\ ms = [m \in ModelNames(ps) |-> ms[m]] /\ DOMAIN ms = ModelNames(ps)
  BY DEF Shaped, ModelNames
<1> HIDE DEF mn2
<1>3. /\ DOMAIN ms2 = ModelNames(ps) /\ ms2 = [m \in ModelNames(ps) |-> ms2[m]]
      /\ \A m \in ModelNames(ps) \ {n} : ms2[m] = ms[m]
      /\ n \in ModelNames(ps) => ms2[n] = mn2
  BY <1>2
<1> HIDE DEF ms2
<1>4. qs = [models |-> ms2, order |-> ps.order]
  <2> HIDE DEF ms
  <2> QED
    BY <1>2
<1>5. qs.models = ms2 /\ qs.order = ps.order /\ ModelNames(qs) = ModelNames(ps)
  BY <1>3, <1>4 DEF ModelNames
<1> HIDE DEF qs
<1>6. Shaped(qs)
  BY <1>3, <1>4, <1>5 DEF Shaped
<1>7. \A m : m # n => SameModel(qs, ps, m)
  BY <1>3, <1>5 DEF SameModel
<1> QED
  BY <1>1, <1>3, <1>5, <1>6, <1>7 DEF mn2

\* CreateModel and DeleteModel, whatever the state.
LEMMA CreateOnShaped ==
    ASSUME NEW ps, Shaped(ps), NEW op
    PROVE  LET qs == ApplyCreateModel(op, ps) IN
           /\ Shaped(qs) /\ op.model \in ModelNames(qs)
           /\ qs.models[op.model] = [table |-> op.table, fields |-> op.fields]
           /\ \A n : n # op.model => SameModel(qs, ps, n)
<1> DEFINE qs == ApplyCreateModel(op, ps)
           mn == [table |-> op.table, fields |-> op.fields]
           ms2 == With(ps.models, op.model, mn)
           or2 == IF Contains(ps.order, op.model) THEN ps.order ELSE Append(ps.order, op.model)
<1>1. qs = [models |-> ms2, order |-> or2]
  BY DEF ApplyCreateModel
<1> HIDE DEF or2, mn
<1>2. /\ DOMAIN ms2 = ModelNames(ps) \cup {op.model} /\ ms2[op.model] = mn
      /\ \A m \in ModelNames(ps) \ {op.model} : ms2[m] = ps.models[m]
      /\ ms2 = [m \in ModelNames(ps) \cup {op.model} |-> ms2[m]]
  BY DEF With, ModelNames
<1> HIDE DEF ms2
<1>3. qs.models = ms2 /\ qs = [models |-> qs.models, order |-> qs.order]
  BY <1>1
<1> HIDE DEF qs
<1>4. ModelNames(qs) = ModelNames(ps) \cup {op.model}
  BY <1>2, <1>3 DEF ModelNames
<1>5. Shaped(qs)
  BY <1>2, <1>3, <1>4 DEF Shaped
<1>6. \A n : n # op.model => SameModel(qs, ps, n)
  BY <1>2, <1>3, <1>4 DEF SameModel
<1>7. op.model \in ModelNames(qs) /\ qs.models[op.model] = mn
  BY <1>2, <1>3, <1>4
<1> QED
  BY <1>5, <1>6, <1>7 DEF qs, mn

LEMMA DeleteOnShaped ==
    ASSUME NEW ps, Shaped(ps), NEW op
    PROVE  LET qs == ApplyDeleteModel(op, ps) IN
           /\ Shaped(qs) /\ op.model \notin ModelNames(qs)
           /\ \A n : n # op.model => SameModel(qs, ps, n)
<1> DEFINE qs == ApplyDeleteModel(op, ps)
           N == ModelNames(ps) \ {op.model}
           ms2 == Restrict(ps.models, N)
           or2 == RemoveFirst(ps.order, op.model)
<1>1. qs = [models |-> ms2, order |-> or2]
  BY DEF ApplyDeleteModel
<1> HIDE DEF or2
<1>2. ms2 = [m \in N |-> ps.models[m]]
  BY DEF Restrict
<1> HIDE DEF ms2
<1>3. DOMAIN ms2 = N /\ (\A m \in N : ms2[m] = ps.models[m]) /\ ms2 = [m \in N |-> ms2[m]]
  BY <1>2
<1>4. qs.models = ms2 /\ qs = [models |-> qs.models, order |-> qs.order] /\ ModelNames(qs) = N
  BY <1>1, <1>3 DEF ModelNames
<1> HIDE DEF qs
<1>5. Shaped(qs)
  BY <1>3, <1>4 DEF Shaped
<1>6. \A n : n # op.model => SameModel(qs, ps, n)
  BY <1>3, <1>4 DEF SameModel
<1> QED
  BY <1>4, <1>5, <1>6 DEF qs

\* An operation changes its own model, as that model tells it to.
LEMMA ApplyShaped ==
    ASSUME NEW ps, Shaped(ps), NEW op, IsOperation(op)
    PROVE  /\ Shaped(ApplyOp(ps, op))
           /\ \A n : n # op.model => SameModel(ApplyOp(ps, op), ps, n)
<1>1. CASE op.op = "CreateModel"
  BY <1>1, CreateOnShaped DEF ApplyOp
<1>2. CASE op.op = "DeleteModel"
  BY <1>2, DeleteOnShaped DEF ApplyOp
<1>3. ASSUME NEW fs
      PROVE  /\ Shaped(WithFields(ps, op.model, fs))
             /\ \A n : n # op.model => SameModel(WithFields(ps, op.model, fs), ps, n)
  BY FieldsOfShaped
<1>4. \A n : SameModel(ps, ps, n)
  BY DEF SameModel
<1>5. CASE op.op = "AddField"
  BY <1>3, <1>5 DEF ApplyOp, ApplyAddField
<1>6. CASE op.op = "RemoveField"
  <2>1. ApplyOp(ps, op) = ps \/ \E fs : ApplyOp(ps, op) = WithFields(ps, op.model, fs)
    BY <1>6 DEF ApplyOp, ApplyRemoveField
  <2> QED
    BY <1>3, <1>4, <2>1
<1>7. CASE op.op = "AlterField"
  <2>1. ApplyOp(ps, op) = ps \/ \E fs : ApplyOp(ps, op) = WithFields(ps, op.model, fs)
    BY <1>7 DEF ApplyOp, ApplyAlterField
  <2> QED
    BY <1>3, <1>4, <2>1
<1> QED
  BY <1>1, <1>2, <1>5, <1>6, <1>7 DEF IsOperation

LEMMA ApplySame ==
    ASSUME NEW ps, NEW qs, Shaped(ps), Shaped(qs), NEW op, IsOperation(op),
           SameModel(ps, qs, op.model)
    PROVE  SameModel(ApplyOp(ps, op), ApplyOp(qs, op), op.model)
<1>1. CASE op.op = "CreateModel"
  <2> DEFINE rec == [table |-> op.table, fields |-> op.fields]
  <2>1. ASSUME NEW rs, Shaped(rs)
        PROVE  op.model \in ModelNames(ApplyOp(rs, op)) /\ ApplyOp(rs, op).models[op.model] = rec
    <3>1. ApplyOp(rs, op) = ApplyCreateModel(op, rs)
      BY <1>1 DEF ApplyOp
    <3> QED
      BY <2>1, <3>1, CreateOnShaped
  <2> HIDE DEF rec
  <2> QED
    BY <2>1 DEF SameModel
<1>2. CASE op.op = "DeleteModel"
  BY <1>2, DeleteOnShaped DEF ApplyOp, SameModel
<1>3. CASE op.model \notin ModelNames(ps) /\ op.op \notin {"CreateModel", "DeleteModel"}
  <2>1. op.model \notin ModelNames(qs)
    BY <1>3 DEF SameModel
  <2>2. ASSUME NEW rs, Shaped(rs), op.model \notin ModelNames(rs)
        PROVE  op.model \notin ModelNames(ApplyOp(rs, op))
    <3>1. ApplyOp(rs, op) = rs \/ \E fs : ApplyOp(rs, op) = WithFields(rs, op.model, fs)
      BY <1>3 DEF ApplyOp, ApplyAddField, ApplyRemoveField, ApplyAlterField, IsOperation
    <3>2. \A fs : ModelNames(WithFields(rs, op.model, fs)) = ModelNames(rs)
      BY <2>2, FieldsOfShaped
    <3> QED
      BY <2>2, <3>1, <3>2
  <2> QED
    BY <1>3, <2>1, <2>2 DEF SameModel
<1>4. CASE op.model \in ModelNames(ps) /\ op.op \notin {"CreateModel", "DeleteModel"}
  <2> DEFINE m == ps.models[op.model]
  <2>1. op.model \in ModelNames(qs) /\ qs.models[op.model] = m
    BY <1>4 DEF SameModel
  <2>2. ASSUME NEW fs
        PROVE  SameModel(WithFields(ps, op.model, fs), WithFields(qs, op.model, fs), op.model)
    <3> DEFINE r == WithFields(ps, op.model, fs)
               u == WithFields(qs, op.model, fs)
               n == op.model
    <3>1. ModelNames(r) = ModelNames(ps) /\ r.models[n] = [m EXCEPT !.fields = fs]
      BY <1>4, FieldsOfShaped
    <3>2. ModelNames(u) = ModelNames(qs) /\ u.models[n] = [m EXCEPT !.fields = fs]
      <4>1. n \in ModelNames(qs) => u.models[n] = [qs.models[n] EXCEPT !.fields = fs]
        BY FieldsOfShaped
      <4>2. ModelNames(u) = ModelNames(qs)
        BY FieldsOfShaped
      <4> HIDE DEF u, m
      <4> QED
        BY <2>1, <4>1, <4>2
    <3> HIDE DEF r, u, m
    <3> QED
      BY <1>4, <2>1, <3>1, <3>2 DEF SameModel, r, u
  <2>3. CASE op.op = "AddField"
    BY <2>1, <2>2, <2>3 DEF ApplyOp, ApplyAddField
  <2>4. CASE op.op = "RemoveField"
    BY <2>1, <2>2, <2>4 DEF ApplyOp, ApplyRemoveField
  <2>5. CASE op.op = "AlterField"
    BY <2>1, <2>2, <2>5 DEF ApplyOp, ApplyAlterField
  <2> QED
    BY <1>4, <2>3, <2>4, <2>5 DEF IsOperation
<1> QED
  BY <1>1, <1>2, <1>3, <1>4

\* SQL, too, reads the operation's own model alone.
LEMMA RendersSame ==
    ASSUME NEW ps, NEW qs, Shaped(ps), Shaped(qs), NEW op, IsOperation(op),
           SameModel(ps, qs, op.model)
    PROVE  /\ Renders(op, ps) <=> Renders(op, qs)
           /\ Sound(op, ps) <=> Sound(op, qs)
           /\ Renders(op, ps) => SQL(op, ps) = SQL(op, qs)
<1>1. CASE op.op = "CreateModel"
  BY <1>1 DEF Renders, Sound, SQL, SameModel
<1>2. CASE op.op = "DeleteModel"
  BY <1>2 DEF Renders, Sound, SQL, SameModel
<1>3. CASE op.op = "AddField"
  BY <1>3 DEF Renders, Sound, SQL, SameModel
<1>4. CASE op.op = "RemoveField"
  BY <1>4 DEF Renders, Sound, SQL, SameModel
<1>5. CASE op.op = "AlterField"
  <2>1. Renders(op, ps) <=> Renders(op, qs)
    BY <1>5 DEF Renders, SameModel
  <2>2. Sound(op, ps) /\ Sound(op, qs)
    BY <1>5 DEF Sound
  <2>3. ASSUME Renders(op, ps) PROVE SQL(op, ps) = SQL(op, qs)
    <3> DEFINE m == ps.models[op.model]
               i == FieldIndex(m, op.field.name)
               fs == ReplaceAt(m.fields, i, op.field)
    <3>1. /\ op.model \in ModelNames(ps) /\ op.model \in ModelNames(qs)
          /\ qs.models[op.model] = m /\ HasField(m, op.field.name)
      BY <1>5, <2>3 DEF Renders, SameModel
    <3>2. ApplyAlterField(op, ps) = WithFields(ps, op.model, fs)
          /\ ApplyAlterField(op, qs) = WithFields(qs, op.model, fs)
      BY <3>1 DEF ApplyAlterField
    <3> HIDE DEF fs, m
    <3>3. ApplyAlterField(op, ps).models[op.model] = [m EXCEPT !.fields = fs]
          /\ ApplyAlterField(op, qs).models[op.model] = [m EXCEPT !.fields = fs]
      BY <3>1, <3>2, FieldsOfShaped DEF m
    <3> QED
      BY <1>5, <3>1, <3>3 DEF SQL, m
  <2> QED
    BY <2>1, <2>2, <2>3
<1> QED
  BY <1>1, <1>2, <1>3, <1>4, <1>5 DEF IsOperation

-----------------------------------------------------------------------------
(* The operations of a migration                                           *)

\* An operation is one to four statements.
LEMMA SqlLength ==
    ASSUME NEW op, IsOperation(op), NEW ps
    PROVE  Len(SQL(op, ps)) \in 1 .. 4
<1>1. ASSUME NEW t, NEW o, NEW n
      PROVE  Len(RebuildTable(t, o, n)) \in 1 .. 4
  <2> DEFINE c == Create(TmpTable(t), n)
             k == Copy(TmpTable(t), t, Columns(o) \cap Columns(n))
             d == Drop(t)
             r == Rename(TmpTable(t), t)
             s == RebuildTable(t, o, n)
  <2>1. s = <<c, d, r>> \/ s = <<c, k, d, r>>
    BY Rebuild
  <2> HIDE DEF c, k, d, r, s
  <2>2. Len(s) = 3 \/ Len(s) = 4
    BY <2>1
  <2> QED
    BY <2>2 DEF s
<1>2. ASSUME NEW st
      PROVE  Len(<<st>>) \in 1 .. 4
  OBVIOUS
<1>3. CASE op.op \in {"CreateModel", "DeleteModel", "AddField"}
  <2>1. \E st : SQL(op, ps) = <<st>>
    BY <1>3 DEF SQL
  <2> QED
    BY <1>2, <2>1
<1>4. CASE op.op \in {"RemoveField", "AlterField"}
  <2>1. \E t, o, n : SQL(op, ps) = RebuildTable(t, o, n)
    BY <1>4 DEF SQL
  <2> QED
    BY <1>1, <2>1
<1> QED
  BY <1>3, <1>4 DEF IsOperation

LEMMA OperationsSteps ==
    ASSUME NEW base, NEW s, Len(s) \in Nat
    PROVE  /\ Operations!Held(base, s)[0] = base
           /\ \A n \in 1 .. Len(s) :
                 Operations!Held(base, s)[n] = ApplyOp(Operations!Held(base, s)[n - 1], s[n])
           /\ ApplyAll(base, s) = Operations!Held(base, s)[Len(s)]
<1>1. Operations!Held(base, s) = Ordered!Held(base, s)
  BY DEF Operations!Held, Ordered!Held
<1> QED
  BY <1>1, Ordered!HeldSteps DEF ApplyAll, Operations!Fold

LEMMA LoopSteps ==
    ASSUME NEW base, NEW s, Len(s) \in Nat
    PROVE  /\ Loop!Held(base, s)[0] = base
           /\ \A n \in 1 .. Len(s) :
                 Loop!Held(base, s)[n] = RunOperation(Loop!Held(base, s)[n - 1], s[n])
           /\ Loop!Fold(base, s) = Loop!Held(base, s)[Len(s)]
<1>1. Loop!Held(base, s) = Loops!Held(base, s)
  BY DEF Loop!Held, Loops!Held
<1> QED
  BY <1>1, Loops!HeldSteps DEF Loop!Fold

LEMMA GoodOperation ==
    ASSUME NEW d, NEW ps, NEW x, NEW y, NEW op, Renders(op, ps),
           Exec!Fold(Good(d, ps, x), SQL(op, ps)) = Good(d, ps, y)
    PROVE  RunOperation(Good(d, ps, x), op) = Good(d, ApplyOp(ps, op), y)
<1> DEFINE acc == Good(d, ps, x)
           run == Good(d, ps, y)
           yes == TRUE
<1>1. acc.ok /\ acc.ps = ps
  BY DEF Good
<1>2. run = [ok |-> yes, dialect |-> d, ps |-> ps, tables |-> y]
  BY DEF Good, yes
<1> HIDE DEF acc, run, yes
<1>3. Exec!Fold(acc, SQL(op, acc.ps)) = run
  BY <1>1 DEF acc, run
<1>4. RunOperation(acc, op) = [run EXCEPT !.ps = ApplyOp(ps, op)]
  BY <1>1, <1>3 DEF RunOperation
<1> DEFINE after == ApplyOp(ps, op)
<1> HIDE DEF after
<1>5. [run EXCEPT !.ps = after] =
        [ok |-> yes, dialect |-> d, ps |-> after, tables |-> y]
  BY <1>2
<1> QED
  BY <1>4, <1>5 DEF acc, after, yes, Good

LEMMA FailedOperation ==
    ASSUME NEW acc, Failed(acc), NEW op
    PROVE  RunOperation(acc, op) = acc
  BY StillFailed DEF RunOperation

LEMMA OperationFails ==
    ASSUME NEW d, NEW ps, NEW ts, NEW op,
           Renders(op, ps) => Failed(Exec!Fold(Good(d, ps, ts), SQL(op, ps)))
    PROVE  Failed(RunOperation(Good(d, ps, ts), op))
<1> DEFINE g == Good(d, ps, ts)
           run == Exec!Fold(g, SQL(op, ps))
           after == ApplyOp(ps, op)
<1>1. g.ok /\ g.ps = ps
  BY GoodFields
<1> HIDE DEF g
<1>2. CASE ~Renders(op, ps)
  <2>1. RunOperation(g, op) = [g EXCEPT !.ok = FALSE]
    BY <1>1, <1>2 DEF RunOperation
  <2> QED
    BY <2>1, NoLongerGood DEF g
<1>3. CASE Renders(op, ps)
  <2> DEFINE no == FALSE
  <2>1. RunOperation(g, op) = [run EXCEPT !.ps = after]
    BY <1>1, <1>3 DEF RunOperation
  <2>2. PICK e, p, t : run = [ok |-> no, dialect |-> e, ps |-> p, tables |-> t]
    BY <1>3 DEF Failed, g
  <2> HIDE DEF run, after, no
  <2>3. [run EXCEPT !.ps = after] = [ok |-> no, dialect |-> e, ps |-> after, tables |-> t]
    BY <2>2
  <2> QED
    BY <2>1, <2>3 DEF Failed, no, g
<1> QED
  BY <1>2, <1>3

\* A migration whose transaction gets to its end makes the same of the tables
\* that it makes of the state which they match, although it renders its
\* operations against another, which is the same in the models it changes.
LEMMA AttemptAgrees ==
    ASSUME NEW d, NEW ops, Len(ops) \in Nat, \A k \in 1 .. Len(ops) : IsOperation(ops[k]),
           NEW ts, NEW W, Agrees(ts, W), NEW ps, Shaped(ps),
           \A k \in 1 .. Len(ops) : SameModel(ps, W, ops[k].model),
           \A k \in 1 .. Len(ops) : Sound(ops[k], Operations!Held(ps, ops)[k - 1]),
           Attempt(d, ops, ps, ts).ok
    PROVE  Agrees(Attempt(d, ops, ps, ts).tables, ApplyAll(W, ops))
<1> DEFINE h == Loop!Held(Good(d, ps, ts), ops)
           P == Operations!Held(ps, ops)
           V == Operations!Held(W, ops)
           N == Len(ops)
<1>1. /\ h[0] = Good(d, ps, ts) /\ \A n \in 1 .. N : h[n] = RunOperation(h[n - 1], ops[n])
      /\ Attempt(d, ops, ps, ts) = h[N]
  BY LoopSteps DEF Attempt, Good
<1>2. /\ P[0] = ps /\ \A n \in 1 .. N : P[n] = ApplyOp(P[n - 1], ops[n])
      /\ V[0] = W /\ \A n \in 1 .. N : V[n] = ApplyOp(V[n - 1], ops[n])
      /\ ApplyAll(W, ops) = V[N]
  BY OperationsSteps
<1>3. \A k \in 1 .. N : Sound(ops[k], P[k - 1])
  OBVIOUS
<1>4. N \in Nat
  OBVIOUS
<1> HIDE DEF h, P, V, N
<1>5. \A k \in 1 .. N : IsOperation(ops[k]) /\ SameModel(ps, W, ops[k].model)
  BY DEF N
<1> DEFINE Alike(n) == /\ Shaped(P[n]) /\ Shaped(V[n])
                       /\ \A k \in 1 .. N : SameModel(P[n], V[n], ops[k].model)
           Held(n) == Failed(h[n]) \/ \E x : h[n] = Good(d, P[n], x) /\ Agrees(x, V[n])
           Right(n) == Alike(n) /\ Held(n)
<1>6. Right(0)
  <2>1. Shaped(W)
    BY WellFormedShaped DEF Agrees
  <2>2. Alike(0)
    BY <1>2, <1>5, <2>1
  <2>3. Held(0)
    BY <1>1, <1>2
  <2> QED
    BY <2>2, <2>3
<1>7. ASSUME NEW n \in 1 .. N, Right(n - 1) PROVE Right(n)
  <2> DEFINE p == P[n - 1]
             v == V[n - 1]
             op == ops[n]
  <2>1. P[n] = ApplyOp(p, op) /\ V[n] = ApplyOp(v, op) /\ h[n] = RunOperation(h[n - 1], op)
    BY <1>1, <1>2
  <2>2. /\ Shaped(p) /\ Shaped(v) /\ IsOperation(op) /\ Sound(op, p)
        /\ \A k \in 1 .. N : SameModel(p, v, ops[k].model)
        /\ SameModel(p, v, op.model)
    BY <1>3, <1>5, <1>7
  <2>3. Failed(h[n - 1]) \/ \E x : h[n - 1] = Good(d, p, x) /\ Agrees(x, v)
    BY <1>7
  <2> HIDE DEF p, v, op
  <2>4. Alike(n)
    <3>1. Shaped(P[n]) /\ Shaped(V[n])
      BY <2>1, <2>2, ApplyShaped
    <3>2. ASSUME NEW k \in 1 .. N PROVE SameModel(P[n], V[n], ops[k].model)
      <4>1. CASE ops[k].model = op.model
        <5>1. SameModel(P[n], V[n], op.model)
          BY <2>1, <2>2, ApplySame
        <5> HIDE DEF Alike
        <5> QED
          BY <4>1, <5>1
      <4>2. CASE ops[k].model # op.model
        <5> DEFINE m == ops[k].model
        <5>1. SameModel(P[n], p, m) /\ SameModel(V[n], v, m)
          BY <2>1, <2>2, <4>2, ApplyShaped
        <5>2. SameModel(p, v, m)
          BY <2>2
        <5> HIDE DEF m
        <5>3. SameModel(P[n], V[n], m)
          BY <5>1, <5>2 DEF SameModel
        <5> QED
          BY <5>3 DEF m
      <4> QED
        BY <4>1, <4>2
    <3> QED
      BY <3>1, <3>2
  <2>5. Held(n)
    <3>1. CASE Failed(h[n - 1])
      BY <2>1, <3>1, FailedOperation
    <3>2. ASSUME NEW x, h[n - 1] = Good(d, p, x), Agrees(x, v) PROVE Held(n)
      <4> DEFINE run == Exec!Fold(Good(d, p, x), SQL(op, p))
      <4>1. CASE Renders(op, p) => Failed(run)
        <5>1. Failed(h[n])
          BY <2>1, <3>2, <4>1, OperationFails
        <5> QED
          BY <5>1
      <4>2. CASE Renders(op, p) /\ ~Failed(run)
        <5>1. SQL(op, p) = SQL(op, v) /\ Renders(op, v) /\ Sound(op, v)
          BY <2>2, <4>2, RendersSame
        <5>2. run.ok
          <6>1. Len(SQL(op, p)) \in Nat
            <7>1. Len(SQL(op, p)) \in 1 .. 4
              BY <2>2, SqlLength
            <7> QED
              BY <7>1
          <6>2. \E y : run = Good(d, p, y)
            BY <4>2, <6>1, ExecutesOrFails
          <6> HIDE DEF run
          <6> QED
            BY <6>2, GoodFields
        <5>3. PICK us : run = Good(d, p, us) /\ Agrees(us, ApplyOp(v, op))
          BY <2>2, <3>2, <5>1, <5>2, OperationRuns
        <5>4. h[n] = Good(d, ApplyOp(p, op), us)
          BY <2>1, <3>2, <4>2, <5>3, GoodOperation
        <5> QED
          BY <2>1, <5>3, <5>4
      <4> QED
        BY <4>1, <4>2
    <3> QED
      BY <2>3, <3>1, <3>2
  <2> QED
    BY <2>4, <2>5
<1>8. \A n \in 0 .. N : Right(n)
  <2> DEFINE Wrong == {n \in 0 .. N : ~Right(n)}
  <2> HIDE DEF Right
  <2> SUFFICES ASSUME Wrong # {} PROVE FALSE
    OBVIOUS
  <2>1. Wrong \subseteq Nat
    BY <1>4
  <2>2. PICK y \in Wrong : \A z \in Wrong : y <= z
    <3> HIDE DEF Wrong
    <3> QED
      BY <2>1, Loops!Smallest
  <2>3. y \in 0 .. N /\ ~Right(y) /\ y # 0
    BY <1>6
  <2>4. y \in 1 .. N /\ y - 1 \in 0 .. N /\ ~ (y <= y - 1)
    BY <1>4, <2>3
  <2>5. Right(y - 1)
    BY <2>2, <2>4
  <2> QED
    BY <1>7, <2>3, <2>4, <2>5
<1>9. ~Failed(h[N])
  BY <1>1, StillFailed
<1>10. PICK x : h[N] = Good(d, P[N], x) /\ Agrees(x, V[N])
  BY <1>4, <1>8, <1>9
<1>11. h[N].tables = x
  BY <1>10, GoodFields
<1> QED
  BY <1>1, <1>2, <1>10, <1>11
-----------------------------------------------------------------------------
(* States that have the same of a model                                    *)

\* What operations make of a model depends on that model alone.
LEMMA ApplyModel ==
    ASSUME NEW ps, NEW qs, Shaped(ps), Shaped(qs), NEW op, IsOperation(op),
           NEW n, SameModel(ps, qs, n)
    PROVE  SameModel(ApplyOp(ps, op), ApplyOp(qs, op), n)
<1>1. CASE n = op.model
  BY <1>1, ApplySame
<1>2. CASE n # op.model
  <2>1. SameModel(ApplyOp(ps, op), ps, n) /\ SameModel(ApplyOp(qs, op), qs, n)
    BY <1>2, ApplyShaped
  <2> QED
    BY <2>1 DEF SameModel
<1> QED
  BY <1>1, <1>2

LEMMA HeldModel ==
    ASSUME NEW ps, NEW qs, Shaped(ps), Shaped(qs),
           NEW ops, Len(ops) \in Nat, \A k \in 1 .. Len(ops) : IsOperation(ops[k])
    PROVE  \A k \in 0 .. Len(ops) :
              /\ Shaped(Operations!Held(ps, ops)[k]) /\ Shaped(Operations!Held(qs, ops)[k])
              /\ \A n : SameModel(ps, qs, n) =>
                    SameModel(Operations!Held(ps, ops)[k], Operations!Held(qs, ops)[k], n)
<1> DEFINE P == Operations!Held(ps, ops)
           Q == Operations!Held(qs, ops)
           N == Len(ops)
           Right(k) == /\ Shaped(P[k]) /\ Shaped(Q[k])
                       /\ \A n : SameModel(ps, qs, n) => SameModel(P[k], Q[k], n)
           Wrong == {k \in 0 .. N : ~Right(k)}
<1>1. /\ P[0] = ps /\ \A k \in 1 .. N : P[k] = ApplyOp(P[k - 1], ops[k])
      /\ Q[0] = qs /\ \A k \in 1 .. N : Q[k] = ApplyOp(Q[k - 1], ops[k])
  BY OperationsSteps
<1>2. N \in Nat /\ \A k \in 1 .. N : IsOperation(ops[k])
  OBVIOUS
<1> HIDE DEF P, Q, N
<1>3. Right(0)
  BY <1>1
<1>4. ASSUME NEW k \in 1 .. N, Right(k - 1) PROVE Right(k)
  <2>1. P[k] = ApplyOp(P[k - 1], ops[k]) /\ Q[k] = ApplyOp(Q[k - 1], ops[k])
    BY <1>1
  <2>2. IsOperation(ops[k])
    BY <1>2
  <2> QED
    BY <1>4, <2>1, <2>2, ApplyShaped, ApplyModel
<1> HIDE DEF Right
<1>5. ASSUME Wrong # {} PROVE FALSE
  <2>1. Wrong \subseteq Nat
    BY <1>2
  <2>2. PICK y \in Wrong : \A z \in Wrong : y <= z
    <3> HIDE DEF Wrong
    <3> QED
      BY <1>5, <2>1, Loops!Smallest
  <2>3. y \in 0 .. N /\ ~Right(y) /\ y # 0
    BY <1>3
  <2>4. y \in 1 .. N /\ y - 1 \in 0 .. N /\ ~ (y <= y - 1)
    BY <1>2, <2>3
  <2>5. Right(y - 1)
    BY <2>2, <2>4
  <2> QED
    BY <1>4, <2>3, <2>4, <2>5
<1>6. \A k \in 0 .. N : Right(k)
  BY <1>5
<1> QED
  BY <1>6 DEF Right, P, Q, N

LEMMA ApplyAllModel ==
    ASSUME NEW ps, NEW qs, Shaped(ps), Shaped(qs),
           NEW ops, Len(ops) \in Nat, \A k \in 1 .. Len(ops) : IsOperation(ops[k])
    PROVE  /\ Shaped(ApplyAll(ps, ops)) /\ Shaped(ApplyAll(qs, ops))
           /\ \A n : SameModel(ps, qs, n) => SameModel(ApplyAll(ps, ops), ApplyAll(qs, ops), n)
<1>1. Len(ops) \in 0 .. Len(ops)
  OBVIOUS
<1>2. /\ ApplyAll(ps, ops) = Operations!Held(ps, ops)[Len(ops)]
      /\ ApplyAll(qs, ops) = Operations!Held(qs, ops)[Len(ops)]
  BY OperationsSteps
<1> QED
  BY <1>1, <1>2, HeldModel

\* Operations on other models leave a model alone.
LEMMA ApplyAllApart ==
    ASSUME NEW ps, Shaped(ps), NEW ops, Len(ops) \in Nat,
           \A k \in 1 .. Len(ops) : IsOperation(ops[k]),
           NEW n, \A k \in 1 .. Len(ops) : ops[k].model # n
    PROVE  SameModel(ApplyAll(ps, ops), ps, n)
<1> DEFINE P == Operations!Held(ps, ops)
           N == Len(ops)
           Right(k) == SameModel(P[k], ps, n)
           Wrong == {k \in 0 .. N : ~Right(k)}
<1>1. /\ P[0] = ps /\ \A k \in 1 .. N : P[k] = ApplyOp(P[k - 1], ops[k])
      /\ ApplyAll(ps, ops) = P[N]
  BY OperationsSteps
<1>2. N \in Nat /\ \A k \in 1 .. N : IsOperation(ops[k]) /\ ops[k].model # n
  OBVIOUS
<1>3. \A k \in 0 .. N : Shaped(P[k])
  BY HeldModel
<1> HIDE DEF P, N
<1>4. Right(0)
  BY <1>1 DEF SameModel
<1>5. ASSUME NEW k \in 1 .. N, Right(k - 1) PROVE Right(k)
  <2>1. k - 1 \in 0 .. N
    BY <1>2
  <2>2. P[k] = ApplyOp(P[k - 1], ops[k]) /\ Shaped(P[k - 1])
    BY <1>1, <1>3, <2>1
  <2>3. IsOperation(ops[k]) /\ n # ops[k].model
    BY <1>2
  <2>4. SameModel(P[k], P[k - 1], n)
    BY <2>2, <2>3, ApplyShaped
  <2> QED
    BY <1>5, <2>4 DEF SameModel
<1> HIDE DEF Right
<1>6. ASSUME Wrong # {} PROVE FALSE
  <2>1. Wrong \subseteq Nat
    BY <1>2
  <2>2. PICK y \in Wrong : \A z \in Wrong : y <= z
    <3> HIDE DEF Wrong
    <3> QED
      BY <1>6, <2>1, Loops!Smallest
  <2>3. y \in 0 .. N /\ ~Right(y) /\ y # 0
    BY <1>4
  <2>4. y \in 1 .. N /\ y - 1 \in 0 .. N /\ ~ (y <= y - 1)
    BY <1>2, <2>3
  <2>5. Right(y - 1)
    BY <2>2, <2>4
  <2> QED
    BY <1>5, <2>3, <2>4, <2>5
<1>7. N \in 0 .. N
  BY <1>2
<1>8. Right(N)
  BY <1>6, <1>7
<1> QED
  BY <1>1, <1>8 DEF Right

\* The tables of a state are those of every state with the same models.
LEMMA SameAgrees ==
    ASSUME NEW us, NEW V, NEW W, Agrees(us, V), Shaped(W), \A n : SameModel(V, W, n)
    PROVE  Agrees(us, W)
<1>1. ModelNames(W) = ModelNames(V)
  BY DEF SameModel
<1>2. \A n \in ModelNames(W) : W.models[n] = V.models[n]
  BY <1>1 DEF SameModel
<1>3. WellFormed(W)
  BY <1>1, <1>2 DEF Agrees, WellFormed, Shaped
<1>4. DescribedTables(W) = DescribedTables(V)
  BY <1>1, <1>2 DEF DescribedTables
<1>5. Matches(us, W)
  BY <1>1, <1>2, <1>4 DEF Agrees, Matches
<1> QED
  BY <1>3, <1>5 DEF Agrees

\* Rows are no matter of the state's.
LEMMA RowsAgree ==
    ASSUME NEW ts, NEW V, Agrees(ts, V), NEW n \in DOMAIN ts, NEW rows
    PROVE  Agrees([ts EXCEPT ![n].rows = rows], V)
<1> DEFINE old == ts[n]
           t == [old EXCEPT !.rows = rows]
           us == [ts EXCEPT ![n] = t]
<1>1. old = [cols |-> old.cols, fks |-> old.fks, rows |-> old.rows]
  BY DEF Agrees, Tabled, Layout
<1>2. t = [cols |-> old.cols, fks |-> old.fks, rows |-> rows]
  <2> HIDE DEF old
  <2> QED
    BY <1>1
<1> HIDE DEF t
<1>3. Layout(t) /\ t.cols = ts[n].cols
  BY <1>2 DEF Layout
<1>4. Tabled(us) /\ DOMAIN us = DOMAIN ts /\ us[n] = t /\ \A x \in DOMAIN ts \ {n} : us[x] = ts[x]
  BY <1>3, ReplacedTable DEF Agrees
<1> HIDE DEF us
<1>5. \A x \in DOMAIN ts : us[x].cols = ts[x].cols
  BY <1>3, <1>4
<1>6. \A m \in ModelNames(V) : V.models[m].table \in DOMAIN ts
  BY DEF Agrees, Matches, DescribedTables
<1>7. Matches(us, V)
  BY <1>4, <1>5, <1>6 DEF Agrees, Matches, TableMatches
<1>8. us = [ts EXCEPT ![n].rows = rows]
  BY DEF us, t
<1> QED
  BY <1>4, <1>7, <1>8 DEF Agrees

-----------------------------------------------------------------------------
(* The migrations in order                                                 *)

LEMMA IndexFinite ==
    /\ Index = 1 .. Len(Migs) /\ Len(Migs) \in Nat /\ Index \subseteq Nat
    /\ IsFiniteSet(Index)
<1>1. Index = 1 .. Len(Migs) /\ Len(Migs) \in Nat
  BY MigsAssumption DEF Index
<1>2. IsFiniteSet(1 .. Len(Migs))
  BY <1>1, FS_Interval
<1> QED
  BY <1>1, <1>2

LEMMA ListedLists ==
    ASSUME NEW D, D \subseteq Index
    PROVE  /\ IsFiniteSet(D) /\ Cardinality(D) \in Nat
           /\ Listed(D) \in Seq(Index) /\ Len(Listed(D)) = Cardinality(D)
           /\ \A k \in 1 .. Cardinality(D) : Listed(D)[k] \in D
           /\ \A k, l \in 1 .. Cardinality(D) : k < l => Listed(D)[k] < Listed(D)[l]
           /\ \A i \in D : \E k \in 1 .. Cardinality(D) : Listed(D)[k] = i
<1>1. D \subseteq Nat /\ IsFiniteSet(D)
  BY IndexFinite, FS_Subset
<1>2. Listed(D) = Ordered!InOrder(D)
  BY SameSets DEF Listed
<1>0. Ordered!IsFiniteSet(D) /\ Ordered!Cardinality(D) = Cardinality(D)
  BY <1>1, SameSets
<1>3. /\ Cardinality(D) \in Nat
      /\ Ordered!InOrder(D) \in [1 .. Cardinality(D) -> D]
      /\ Ordered!Increases(Ordered!InOrder(D), Cardinality(D))
      /\ \A i \in D : \E k \in 1 .. Cardinality(D) : Ordered!InOrder(D)[k] = i
  <2>1. /\ Ordered!Cardinality(D) \in Nat
        /\ Ordered!InOrder(D) \in [1 .. Ordered!Cardinality(D) -> D]
        /\ Ordered!Increases(Ordered!InOrder(D), Ordered!Cardinality(D))
        /\ \A i \in D : \E k \in 1 .. Ordered!Cardinality(D) : Ordered!InOrder(D)[k] = i
    BY <1>0, <1>1, Ordered!InOrderLists
  <2> QED
    BY <1>0, <2>1
<1>4. Listed(D) \in Seq(Index) /\ Len(Listed(D)) = Cardinality(D)
  BY <1>2, <1>3
<1> QED
  BY <1>1, <1>2, <1>3, <1>4 DEF Ordered!Increases

-----------------------------------------------------------------------------
(* Types                                                                   *)

Pcs == {"idle", "ensure", "scan", "loop", "tx", "commit"}

\* The local variables of Apply, where S has the project states they hold.
Locals(S) ==
    [pc : Pcs, migs : Seq(Index), applied : SUBSET Index, at : Nat, ps : S,
     op : Nat, stmt : Nat]

Transactions(S) == [by : Runner \cup {None}, tables : S, recorded : Seq(Index)]

\* How far a run may be.
Within(l) ==
    /\ l.at \in 1 .. Len(l.migs) + 1
    /\ l.pc \in {"tx", "commit"} => l.at <= Len(l.migs)
    /\ l.pc = "tx" => l.op \in 1 .. Len(Migs[l.migs[l.at]].ops) + 1
    /\ l.stmt \in 1 .. 4

TypeInv ==
    /\ deployed \subseteq Index /\ recorded \in Seq(Index) /\ tracking \in BOOLEAN
    /\ dialect \in Dialects /\ project \in Projects /\ faults \in 0 .. project.faults
    /\ \E S : tx \in Transactions(S)
    /\ \E S : proc \in [Runner -> Locals(S)]
    /\ \A p \in Runner : Within(proc[p])

LEMMA MigsTyped ==
    ASSUME NEW i \in Index
    PROVE  /\ Len(Migs[i].ops) \in Nat \ {0}
           /\ DOMAIN Migs[i].ops = 1 .. Len(Migs[i].ops)
           /\ \A k \in 1 .. Len(Migs[i].ops) : IsOperation(Migs[i].ops[k])
<1>1. /\ Migs[i].ops # <<>> /\ Migs[i].ops \in Seq(Range(Migs[i].ops))
      /\ \A k \in DOMAIN Migs[i].ops : IsOperation(Migs[i].ops[k])
  BY MigsAssumption DEF Index
<1>2. Len(Migs[i].ops) \in Nat /\ DOMAIN Migs[i].ops = 1 .. Len(Migs[i].ops)
  BY <1>1
<1>3. Len(Migs[i].ops) # 0
  BY <1>1, EmptySeq
<1> QED
  BY <1>1, <1>2, <1>3

LEMMA TypeInvImplies == TypeInv => TypeOK
<1> SUFFICES ASSUME TypeInv PROVE TypeOK
  OBVIOUS
<1>1. PICK S : tx \in Transactions(S)
  BY DEF TypeInv
<1>2. tx.by \in Runner \cup {None} /\ tx.recorded \in Seq(Index)
  BY <1>1 DEF Transactions
<1>3. PICK T : proc \in [Runner -> Locals(T)]
  BY DEF TypeInv
<1>4. ASSUME NEW p \in Runner
      PROVE  /\ proc[p].pc \in {"idle", "ensure", "scan", "loop", "tx", "commit"}
             /\ proc[p].migs \in Seq(Index)
             /\ proc[p].applied \subseteq Index
             /\ proc[p].at \in 1 .. Len(proc[p].migs) + 1
             /\ proc[p].pc \in {"tx", "commit"} => More(p)
             /\ proc[p].pc = "tx" => proc[p].op \in 1 .. Len(Ops(p)) + 1
             /\ proc[p].stmt \in 1 .. 4
  <2>1. proc[p] \in Locals(T) /\ Within(proc[p])
    BY <1>3 DEF TypeInv
  <2>2. /\ proc[p].pc \in Pcs /\ proc[p].migs \in Seq(Index)
        /\ proc[p].applied \subseteq Index
    BY <2>1 DEF Locals
  <2> QED
    BY <2>1, <2>2 DEF Within, Pcs, More, Ops, Mig
<1>5. /\ deployed \subseteq Index /\ recorded \in Seq(Index) /\ tracking \in BOOLEAN
      /\ dialect \in Dialects /\ project \in Projects /\ faults \in 0 .. project.faults
  BY DEF TypeInv
<1> QED
  BY <1>2, <1>4, <1>5 DEF TypeOK

-----------------------------------------------------------------------------
(* What each action does to the local variables                            *)

Others(p) == \A q \in Runner : q # p => proc'[q] = proc[q]

LocalsAre(p, pc, migs, applied, at, ps, op, stmt) ==
    /\ proc'[p].pc = pc /\ proc'[p].migs = migs /\ proc'[p].applied = applied
    /\ proc'[p].at = at /\ proc'[p].ps = ps /\ proc'[p].op = op /\ proc'[p].stmt = stmt

\* p's step leaves it there.
Moves(p, pc, migs, applied, at, ps, op, stmt) ==
    /\ Others(p) /\ LocalsAre(p, pc, migs, applied, at, ps, op, stmt)
    /\ \A S : proc \in [Runner -> Locals(S)] =>
          /\ proc[p] \in Locals(S)
          /\ /\ pc \in Pcs /\ migs \in Seq(Index) /\ applied \subseteq Index
             /\ at \in Nat /\ op \in Nat /\ stmt \in Nat
             => proc' \in [Runner -> Locals(S \cup {ps})]

\* The local variables of p in the current state, moved.
LEMMA MovesIf ==
    ASSUME NEW S, NEW p \in Runner, proc \in [Runner -> Locals(S)],
           NEW pc, NEW migs, NEW applied, NEW at, NEW ps, NEW op, NEW stmt,
           NEW l, proc' = [proc EXCEPT ![p] = l],
           l = [pc |-> pc, migs |-> migs, applied |-> applied, at |-> at, ps |-> ps,
                op |-> op, stmt |-> stmt]
    PROVE  Moves(p, pc, migs, applied, at, ps, op, stmt)
<1>1. /\ l.pc = pc /\ l.migs = migs /\ l.applied = applied
      /\ l.at = at /\ l.ps = ps /\ l.op = op /\ l.stmt = stmt
  OBVIOUS
<1>2. proc'[p] = l /\ Others(p)
  BY DEF Others
<1>3. LocalsAre(p, pc, migs, applied, at, ps, op, stmt)
  BY <1>1, <1>2 DEF LocalsAre
<1>4. ASSUME NEW T, proc \in [Runner -> Locals(T)],
             pc \in Pcs, migs \in Seq(Index), applied \subseteq Index,
             at \in Nat, op \in Nat, stmt \in Nat
      PROVE  proc' \in [Runner -> Locals(T \cup {ps})]
  <2>1. l \in Locals(T \cup {ps})
    BY <1>4 DEF Locals
  <2>2. \A q \in Runner : proc[q] \in Locals(T \cup {ps})
    <3> TAKE q \in Runner
    <3>1. proc[q] \in Locals(T)
      BY <1>4
    <3> QED
      BY <3>1 DEF Locals
  <2> HIDE DEF Locals
  <2> QED
    BY <1>4, <2>1, <2>2
<1> QED
  BY <1>2, <1>3, <1>4 DEF Moves

LEMMA LocalFields ==
    ASSUME NEW S, NEW r \in Locals(S)
    PROVE  /\ r = [pc |-> r.pc, migs |-> r.migs, applied |-> r.applied, at |-> r.at,
                   ps |-> r.ps, op |-> r.op, stmt |-> r.stmt]
           /\ r.pc \in Pcs /\ r.migs \in Seq(Index) /\ r.applied \subseteq Index
           /\ r.at \in Nat /\ r.op \in Nat /\ r.stmt \in Nat /\ r.ps \in S
  BY DEF Locals

LEMMA IdleFields ==
    ASSUME NEW pc, NEW migs
    PROVE  /\ Idle = [pc |-> "idle", migs |-> <<>>, applied |-> {}, at |-> 1,
                      ps |-> NewProjectState, op |-> 1, stmt |-> 1]
           /\ [Idle EXCEPT !.pc = pc, !.migs = migs] =
                 [pc |-> pc, migs |-> migs, applied |-> {}, at |-> 1,
                  ps |-> NewProjectState, op |-> 1, stmt |-> 1]
<1>1. Idle = [pc |-> "idle", migs |-> <<>>, applied |-> {}, at |-> 1,
              ps |-> NewProjectState, op |-> 1, stmt |-> 1]
  BY DEF Idle
<1> DEFINE r == Idle
           a == Idle.migs
           b == Idle.applied
           c == Idle.at
           d == Idle.ps
           m == [r EXCEPT !.pc = pc]
<1>2. r = [pc |-> "idle", migs |-> a, applied |-> b, at |-> c, ps |-> d, op |-> c, stmt |-> c]
  BY <1>1
<1>3. a = <<>> /\ b = {} /\ c = 1 /\ d = NewProjectState
  BY <1>1
<1> HIDE DEF r, a, b, c, d
<1>4. m = [pc |-> pc, migs |-> a, applied |-> b, at |-> c, ps |-> d, op |-> c, stmt |-> c]
  BY <1>2
<1> HIDE DEF m
<1>5. [m EXCEPT !.migs = migs] =
        [pc |-> pc, migs |-> migs, applied |-> b, at |-> c, ps |-> d, op |-> c, stmt |-> c]
  BY <1>4
<1> QED
  BY <1>1, <1>3, <1>5 DEF m, r

Stays(p) ==
    Moves(p, "idle", <<>>, {}, 1, NewProjectState, 1, 1)

\* The new local variables of p, by the action that p takes.
LEMMA MovesByAction ==
    ASSUME NEW p \in Runner, TypeInv
    PROVE  LET l == proc[p] IN
           /\ Start(p) => Moves(p, "ensure", Listed(deployed), {}, 1, NewProjectState, 1, 1)
           /\ EnsureTable(p) => Moves(p, "scan", l.migs, l.applied, l.at, l.ps, l.op, l.stmt)
           /\ AppliedSet(p) =>
                Moves(p, "loop", l.migs, ToSet(recorded), l.at, l.ps, l.op, l.stmt)
           /\ Skip(p) => Moves(p, l.pc, l.migs, l.applied, l.at + 1, ApplyAll(l.ps, Ops(p)),
                               l.op, l.stmt)
           /\ BeginTx(p) => Moves(p, "tx", l.migs, l.applied, l.at, l.ps, 1, 1)
           /\ ExecStatement(p) /\ l.stmt < Len(Statements(p)) =>
                Moves(p, l.pc, l.migs, l.applied, l.at, l.ps, l.op, l.stmt + 1)
           /\ ExecStatement(p) /\ ~ (l.stmt < Len(Statements(p))) =>
                Moves(p, l.pc, l.migs, l.applied, l.at, ApplyOp(l.ps, Op(p)), l.op + 1, 1)
           /\ RecordApplied(p) =>
                Moves(p, "commit", l.migs, l.applied, l.at, l.ps, l.op, l.stmt)
           /\ Commit(p) => Moves(p, "loop", l.migs, l.applied, l.at + 1, l.ps, l.op, l.stmt)
           /\ StatementFails(p) \/ Finish(p) \/ Interrupt(p) => Stays(p)
<1> DEFINE l == proc[p]
<1>1. PICK S : proc \in [Runner -> Locals(S)]
  BY DEF TypeInv
<1>2. /\ l = [pc |-> l.pc, migs |-> l.migs, applied |-> l.applied, at |-> l.at,
              ps |-> l.ps, op |-> l.op, stmt |-> l.stmt]
      /\ l.at \in Nat /\ l.op \in Nat /\ l.stmt \in Nat
  BY <1>1, LocalFields
<1>3. ASSUME Start(p)
      PROVE  Moves(p, "ensure", Listed(deployed), {}, 1, NewProjectState, 1, 1)
  <2>1. proc' = [proc EXCEPT ![p] = [Idle EXCEPT !.pc = "ensure", !.migs = Listed(deployed)]]
    BY <1>3 DEF Start
  <2>2. [Idle EXCEPT !.pc = "ensure", !.migs = Listed(deployed)] =
            [pc |-> "ensure", migs |-> Listed(deployed), applied |-> {}, at |-> 1,
             ps |-> NewProjectState, op |-> 1, stmt |-> 1]
    BY IdleFields
  <2> QED
    BY <1>1, <2>1, <2>2, MovesIf
<1>4. ASSUME EnsureTable(p)
      PROVE  Moves(p, "scan", l.migs, l.applied, l.at, l.ps, l.op, l.stmt)
  <2>1. proc' = [proc EXCEPT ![p] = [l EXCEPT !.pc = "scan"]]
    BY <1>4 DEF EnsureTable
  <2>2. [l EXCEPT !.pc = "scan"] =
            [pc |-> "scan", migs |-> l.migs, applied |-> l.applied, at |-> l.at,
             ps |-> l.ps, op |-> l.op, stmt |-> l.stmt]
    <3> HIDE DEF l
    <3> QED
      BY <1>2
  <2> QED
    BY <1>1, <2>1, <2>2, MovesIf
<1>5. ASSUME AppliedSet(p)
      PROVE  Moves(p, "loop", l.migs, ToSet(recorded), l.at, l.ps, l.op, l.stmt)
  <2>1. proc' = [proc EXCEPT ![p] = [l EXCEPT !.pc = "loop", !.applied = ToSet(recorded)]]
    BY <1>1, <1>5 DEF AppliedSet
  <2>2. [l EXCEPT !.pc = "loop", !.applied = ToSet(recorded)] =
            [pc |-> "loop", migs |-> l.migs, applied |-> ToSet(recorded), at |-> l.at,
             ps |-> l.ps, op |-> l.op, stmt |-> l.stmt]
    <3> DEFINE m == [l EXCEPT !.pc = "loop"]
    <3> HIDE DEF l
    <3>1. m = [pc |-> "loop", migs |-> l.migs, applied |-> l.applied, at |-> l.at,
                 ps |-> l.ps, op |-> l.op, stmt |-> l.stmt]
      BY <1>2
    <3>2. [m EXCEPT !.applied = ToSet(recorded)] =
            [pc |-> "loop", migs |-> l.migs, applied |-> ToSet(recorded), at |-> l.at,
             ps |-> l.ps, op |-> l.op, stmt |-> l.stmt]
      <4> HIDE DEF m
      <4> QED
        BY <3>1
    <3> QED
      BY <3>2
  <2> QED
    BY <1>1, <2>1, <2>2, MovesIf
<1>6. ASSUME Skip(p)
      PROVE  Moves(p, l.pc, l.migs, l.applied, l.at + 1, ApplyAll(l.ps, Ops(p)), l.op, l.stmt)
  <2>1. proc' = [proc EXCEPT ![p] =
                    [l EXCEPT !.ps = ApplyAll(l.ps, Ops(p)), !.at = l.at + 1]]
    BY <1>1, <1>6 DEF Skip
  <2>2. [l EXCEPT !.ps = ApplyAll(l.ps, Ops(p)), !.at = l.at + 1] =
            [pc |-> l.pc, migs |-> l.migs, applied |-> l.applied, at |-> l.at + 1,
             ps |-> ApplyAll(l.ps, Ops(p)), op |-> l.op, stmt |-> l.stmt]
    <3> DEFINE m == [l EXCEPT !.ps = ApplyAll(l.ps, Ops(p))]
    <3> HIDE DEF l
    <3>1. m = [pc |-> l.pc, migs |-> l.migs, applied |-> l.applied, at |-> l.at,
                 ps |-> ApplyAll(l.ps, Ops(p)), op |-> l.op, stmt |-> l.stmt]
      BY <1>2
    <3>2. [m EXCEPT !.at = l.at + 1] =
            [pc |-> l.pc, migs |-> l.migs, applied |-> l.applied, at |-> l.at + 1,
             ps |-> ApplyAll(l.ps, Ops(p)), op |-> l.op, stmt |-> l.stmt]
      <4> HIDE DEF m
      <4> QED
        BY <3>1
    <3> QED
      BY <3>2
  <2> QED
    BY <1>1, <2>1, <2>2, MovesIf
<1>7. ASSUME BeginTx(p)
      PROVE  Moves(p, "tx", l.migs, l.applied, l.at, l.ps, 1, 1)
  <2>1. proc' = [proc EXCEPT ![p] = [l EXCEPT !.pc = "tx", !.op = 1, !.stmt = 1]]
    BY <1>1, <1>7 DEF BeginTx
  <2>2. [l EXCEPT !.pc = "tx", !.op = 1, !.stmt = 1] =
            [pc |-> "tx", migs |-> l.migs, applied |-> l.applied, at |-> l.at,
             ps |-> l.ps, op |-> 1, stmt |-> 1]
    <3> DEFINE m == [l EXCEPT !.pc = "tx"]
               n == [m EXCEPT !.op = 1]
    <3> HIDE DEF l
    <3>1. m = [pc |-> "tx", migs |-> l.migs, applied |-> l.applied, at |-> l.at,
                 ps |-> l.ps, op |-> l.op, stmt |-> l.stmt]
      BY <1>2
    <3>2. n = [pc |-> "tx", migs |-> l.migs, applied |-> l.applied, at |-> l.at,
                 ps |-> l.ps, op |-> 1, stmt |-> l.stmt]
      <4> HIDE DEF m
      <4> QED
        BY <3>1
    <3>3. [n EXCEPT !.stmt = 1] =
            [pc |-> "tx", migs |-> l.migs, applied |-> l.applied, at |-> l.at,
             ps |-> l.ps, op |-> 1, stmt |-> 1]
      <4> HIDE DEF n
      <4> QED
        BY <3>2
    <3> QED
      BY <3>3
  <2> QED
    BY <1>1, <2>1, <2>2, MovesIf
<1>8. ASSUME ExecStatement(p), l.stmt < Len(Statements(p))
      PROVE  Moves(p, l.pc, l.migs, l.applied, l.at, l.ps, l.op, l.stmt + 1)
  <2>1. proc' = [proc EXCEPT ![p] = [l EXCEPT !.stmt = l.stmt + 1]]
    BY <1>1, <1>8 DEF ExecStatement, AfterStatement
  <2>2. [l EXCEPT !.stmt = l.stmt + 1] =
            [pc |-> l.pc, migs |-> l.migs, applied |-> l.applied, at |-> l.at,
             ps |-> l.ps, op |-> l.op, stmt |-> l.stmt + 1]
    <3> HIDE DEF l
    <3> QED
      BY <1>2
  <2> QED
    BY <1>1, <2>1, <2>2, MovesIf
<1>9. ASSUME ExecStatement(p), ~ (l.stmt < Len(Statements(p)))
      PROVE  Moves(p, l.pc, l.migs, l.applied, l.at, ApplyOp(l.ps, Op(p)), l.op + 1, 1)
  <2>1. proc' = [proc EXCEPT ![p] =
                    [l EXCEPT !.stmt = 1, !.op = l.op + 1, !.ps = ApplyOp(l.ps, Op(p))]]
    BY <1>1, <1>9 DEF ExecStatement, AfterStatement
  <2>2. [l EXCEPT !.stmt = 1, !.op = l.op + 1, !.ps = ApplyOp(l.ps, Op(p))] =
            [pc |-> l.pc, migs |-> l.migs, applied |-> l.applied, at |-> l.at,
             ps |-> ApplyOp(l.ps, Op(p)), op |-> l.op + 1, stmt |-> 1]
    <3> DEFINE m == [l EXCEPT !.stmt = 1]
               n == [m EXCEPT !.op = l.op + 1]
    <3> HIDE DEF l
    <3>1. m = [pc |-> l.pc, migs |-> l.migs, applied |-> l.applied, at |-> l.at,
                 ps |-> l.ps, op |-> l.op, stmt |-> 1]
      BY <1>2
    <3>2. n = [pc |-> l.pc, migs |-> l.migs, applied |-> l.applied, at |-> l.at,
                 ps |-> l.ps, op |-> l.op + 1, stmt |-> 1]
      <4> HIDE DEF m
      <4> QED
        BY <3>1
    <3>3. [n EXCEPT !.ps = ApplyOp(l.ps, Op(p))] =
            [pc |-> l.pc, migs |-> l.migs, applied |-> l.applied, at |-> l.at,
             ps |-> ApplyOp(l.ps, Op(p)), op |-> l.op + 1, stmt |-> 1]
      <4> HIDE DEF n
      <4> QED
        BY <3>2
    <3> QED
      BY <3>3
  <2> QED
    BY <1>1, <2>1, <2>2, MovesIf
<1>10. ASSUME RecordApplied(p)
       PROVE  Moves(p, "commit", l.migs, l.applied, l.at, l.ps, l.op, l.stmt)
  <2>1. proc' = [proc EXCEPT ![p] = [l EXCEPT !.pc = "commit"]]
    BY <1>10 DEF RecordApplied
  <2>2. [l EXCEPT !.pc = "commit"] =
            [pc |-> "commit", migs |-> l.migs, applied |-> l.applied, at |-> l.at,
             ps |-> l.ps, op |-> l.op, stmt |-> l.stmt]
    <3> HIDE DEF l
    <3> QED
      BY <1>2
  <2> QED
    BY <1>1, <2>1, <2>2, MovesIf
<1>11. ASSUME Commit(p)
       PROVE  Moves(p, "loop", l.migs, l.applied, l.at + 1, l.ps, l.op, l.stmt)
  <2>1. proc' = [proc EXCEPT ![p] = [l EXCEPT !.pc = "loop", !.at = l.at + 1]]
    BY <1>1, <1>11 DEF Commit
  <2>2. [l EXCEPT !.pc = "loop", !.at = l.at + 1] =
            [pc |-> "loop", migs |-> l.migs, applied |-> l.applied, at |-> l.at + 1,
             ps |-> l.ps, op |-> l.op, stmt |-> l.stmt]
    <3> DEFINE m == [l EXCEPT !.pc = "loop"]
    <3> HIDE DEF l
    <3>1. m = [pc |-> "loop", migs |-> l.migs, applied |-> l.applied, at |-> l.at,
                 ps |-> l.ps, op |-> l.op, stmt |-> l.stmt]
      BY <1>2
    <3>2. [m EXCEPT !.at = l.at + 1] =
            [pc |-> "loop", migs |-> l.migs, applied |-> l.applied, at |-> l.at + 1,
             ps |-> l.ps, op |-> l.op, stmt |-> l.stmt]
      <4> HIDE DEF m
      <4> QED
        BY <3>1
    <3> QED
      BY <3>2
  <2> QED
    BY <1>1, <2>1, <2>2, MovesIf
<1>12. ASSUME StatementFails(p) \/ Finish(p) \/ Interrupt(p)
       PROVE  Stays(p)
  <2>1. proc' = [proc EXCEPT ![p] = Idle]
    BY <1>12 DEF StatementFails, Finish, Interrupt
  <2> QED
    BY <1>1, <2>1, IdleFields, MovesIf DEF Stays
<1> QED
  BY <1>3, <1>4, <1>5, <1>6, <1>7, <1>8, <1>9, <1>10, <1>11, <1>12

-----------------------------------------------------------------------------
(* What each action does to the transaction                                *)

TxIs(by, ts, rec) == tx' = [by |-> by, tables |-> ts, recorded |-> rec]

LEMMA TxFields ==
    ASSUME TypeInv
    PROVE  /\ tx = [by |-> tx.by, tables |-> tx.tables, recorded |-> tx.recorded]
           /\ tx.by \in Runner \cup {None} /\ tx.recorded \in Seq(Index)
<1>1. PICK S : tx \in Transactions(S)
  BY DEF TypeInv
<1> QED
  BY <1>1 DEF Transactions

LEMMA SeenFields ==
    ASSUME NEW p \in Runner, TypeInv
    PROVE  /\ Seen(p) = [by |-> p, tables |-> Seen(p).tables, recorded |-> Seen(p).recorded]
           /\ Seen(p).recorded \in Seq(Index)
           /\ tx.by = p => Seen(p) = tx
           /\ tx.by # p => Seen(p).tables = tables /\ Seen(p).recorded = recorded
<1>1. recorded \in Seq(Index)
  BY DEF TypeInv
<1>2. CASE tx.by = p
  <2>1. Seen(p) = tx
    BY <1>2 DEF Seen
  <2> QED
    BY <1>2, <2>1, TxFields
<1>3. CASE tx.by # p
  <2>1. Seen(p) = [by |-> p, tables |-> tables, recorded |-> recorded]
    BY <1>3 DEF Seen
  <2> QED
    BY <1>1, <1>3, <2>1
<1> QED
  BY <1>2, <1>3

LEMMA TxByAction ==
    ASSUME NEW p \in Runner, TypeInv
    PROVE  /\ ExecStatement(p) =>
                TxIs(p, Run(Statements(p)[proc[p].stmt], Seen(p).tables), Seen(p).recorded)
           /\ RecordApplied(p) => TxIs(tx.by, tx.tables, Append(tx.recorded, Mig(p)))
           /\ Commit(p) => TxIs(None, <<>>, <<>>)
           /\ StatementFails(p) \/ Interrupt(p) =>
                IF tx.by = p THEN TxIs(None, <<>>, <<>>) ELSE tx' = tx
           /\ \/ Start(p) \/ EnsureTable(p) \/ AppliedSet(p) \/ Finish(p) \/ Skip(p)
              \/ BeginTx(p)
              => tx' = tx
<1>1. ASSUME ExecStatement(p)
      PROVE  TxIs(p, Run(Statements(p)[proc[p].stmt], Seen(p).tables), Seen(p).recorded)
  <2> DEFINE s == Seen(p)
             ts == Run(Statements(p)[proc[p].stmt], s.tables)
  <2>1. tx' = [s EXCEPT !.tables = ts]
    BY <1>1 DEF ExecStatement
  <2>2. s = [by |-> p, tables |-> s.tables, recorded |-> s.recorded]
    BY SeenFields
  <2>3. [s EXCEPT !.tables = ts] = [by |-> p, tables |-> ts, recorded |-> s.recorded]
    <3> HIDE DEF s, ts
    <3> QED
      BY <2>2
  <2> QED
    BY <2>1, <2>3 DEF TxIs
<1>2. ASSUME RecordApplied(p)
      PROVE  TxIs(tx.by, tx.tables, Append(tx.recorded, Mig(p)))
  <2> DEFINE rec == Append(tx.recorded, Mig(p))
  <2>1. tx' = [tx EXCEPT !.recorded = rec]
    BY <1>2 DEF RecordApplied
  <2>2. [tx EXCEPT !.recorded = rec] = [by |-> tx.by, tables |-> tx.tables, recorded |-> rec]
    <3> HIDE DEF rec
    <3> QED
      BY TxFields
  <2> QED
    BY <2>1, <2>2 DEF TxIs
<1> QED
  BY <1>1, <1>2 DEF Commit, StatementFails, Interrupt, Rollback, NoTx, TxIs, Start,
                    EnsureTable, AppliedSet, Finish, Skip, BeginTx

LEMMA TxIsFields ==
    ASSUME NEW by, NEW ts, NEW rec, TxIs(by, ts, rec)
    PROVE  tx'.by = by /\ tx'.tables = ts /\ tx'.recorded = rec
  BY DEF TxIs

-----------------------------------------------------------------------------
(* The steps                                                               *)

Acts(p) ==
    \/ Start(p) \/ EnsureTable(p) \/ AppliedSet(p) \/ Finish(p) \/ Skip(p) \/ BeginTx(p)
    \/ ExecStatement(p) \/ StatementFails(p) \/ RecordApplied(p) \/ Commit(p)
    \/ Interrupt(p)

\* A step of a run, of the rest of the world, or none.
LEMMA StepKinds ==
    ASSUME [Next]_vars
    PROVE  /\ dialect' = dialect /\ project' = project
           /\ \/ \E p \in Runner : Acts(p)
              \/ \E i \in Index : Deploy(i)
              \/ \E t \in DOMAIN tables, r \in RowId : Insert(t, r)
              \/ UNCHANGED vars
<1>1. CASE UNCHANGED vars
  BY <1>1 DEF vars
<1>2. CASE \E p \in Runner : Step(p)
  BY <1>2 DEF Step, Acts
<1>3. CASE /\ UNCHANGED <<dialect, project>>
           /\ \/ \E p \in Runner : Interrupt(p)
              \/ \E i \in Index : Deploy(i)
              \/ \E t \in DOMAIN tables, r \in RowId : Insert(t, r)
  BY <1>3 DEF Acts
<1> QED
  BY <1>1, <1>2, <1>3 DEF Next

\* What a step of a run leaves alone.
LEMMA ActFrame ==
    ASSUME NEW p \in Runner, Acts(p)
    PROVE  /\ deployed' = deployed
           /\ ~ Commit(p) => tables' = tables /\ recorded' = recorded
           /\ Commit(p) => tables' = tx.tables /\ recorded' = tx.recorded
           /\ tracking' = tracking \/ tracking' = TRUE
           /\ faults' = faults \/ (faults < project.faults /\ faults' = faults + 1)
  BY DEF Acts, Start, EnsureTable, AppliedSet, Finish, Skip, BeginTx, ExecStatement,
         StatementFails, RecordApplied, Commit, Interrupt

LEMMA InsertFrame ==
    ASSUME NEW t, NEW r, Insert(t, r)
    PROVE  /\ tx.by = None
           /\ deployed' = deployed /\ recorded' = recorded /\ tracking' = tracking
           /\ tx' = tx /\ proc' = proc /\ faults' = faults
  BY DEF Insert, Log!Insert

LEMMA DeployFrame ==
    ASSUME NEW i, Deploy(i)
    PROVE  /\ i \in project.migs \ deployed /\ deployed' = deployed \cup {i}
           /\ tables' = tables /\ recorded' = recorded /\ tracking' = tracking
           /\ tx' = tx /\ proc' = proc /\ faults' = faults
  BY DEF Deploy

-----------------------------------------------------------------------------
(* Types are kept                                                          *)

LEMMA MovedTyped ==
    ASSUME NEW p \in Runner, TypeInv,
           NEW pc \in Pcs, NEW migs \in Seq(Index), NEW applied, applied \subseteq Index,
           NEW at \in Nat, NEW ps, NEW op \in Nat, NEW stmt \in 1 .. 4,
           Moves(p, pc, migs, applied, at, ps, op, stmt),
           at \in 1 .. Len(migs) + 1,
           pc \in {"tx", "commit"} => at <= Len(migs),
           pc = "tx" => op \in 1 .. Len(Migs[migs[at]].ops) + 1
    PROVE  /\ \E S : proc' \in [Runner -> Locals(S)]
           /\ \A q \in Runner : Within(proc'[q])
<1>1. PICK S : proc \in [Runner -> Locals(S)]
  BY DEF TypeInv
<1>2. proc' \in [Runner -> Locals(S \cup {ps})]
  BY <1>1, SMTT(60) DEF Moves
<1>3. Within(proc'[p])
  BY DEF Moves, LocalsAre, Within
<1>4. \A q \in Runner : q # p => Within(proc'[q])
  BY DEF Moves, Others, TypeInv
<1> QED
  BY <1>2, <1>3, <1>4

LEMMA ActTyped ==
    ASSUME NEW p \in Runner, TypeInv, Acts(p)
    PROVE  /\ \E S : proc' \in [Runner -> Locals(S)]
           /\ \A q \in Runner : Within(proc'[q])
<1> DEFINE l == proc[p]
           Goal == /\ \E S : proc' \in [Runner -> Locals(S)]
                   /\ \A q \in Runner : Within(proc'[q])
<1>1. PICK S : proc \in [Runner -> Locals(S)]
  BY DEF TypeInv
<1>2. /\ l.pc \in Pcs /\ l.migs \in Seq(Index) /\ l.applied \subseteq Index
      /\ l.at \in Nat /\ l.op \in Nat /\ l.stmt \in Nat
  BY <1>1, LocalFields
<1>3. /\ l.at \in 1 .. Len(l.migs) + 1 /\ l.stmt \in 1 .. 4
      /\ l.pc \in {"tx", "commit"} => l.at <= Len(l.migs)
      /\ l.pc = "tx" => l.op \in 1 .. Len(Migs[l.migs[l.at]].ops) + 1
  BY DEF TypeInv, Within
<1>4. Len(l.migs) \in Nat
  BY <1>2
<1> HIDE DEF Goal
<1>0. 1 \in Nat /\ 1 \in 1 .. 4 /\ {} \subseteq Index
  OBVIOUS
<1>5. CASE Start(p)
  <2> DEFINE d == Listed(deployed)
  <2>1. Moves(p, "ensure", d, {}, 1, NewProjectState, 1, 1)
    BY <1>5, MovesByAction
  <2>2. d \in Seq(Index) /\ 1 \in 1 .. Len(d) + 1
    BY ListedLists DEF TypeInv
  <2> HIDE DEF d
  <2> QED
    BY <1>0, <2>1, <2>2, MovedTyped DEF Pcs, Goal
<1>6. CASE EnsureTable(p)
  <2>1. Moves(p, "scan", l.migs, l.applied, l.at, l.ps, l.op, l.stmt)
    BY <1>6, MovesByAction
  <2> HIDE DEF l
  <2> QED
    BY <1>2, <1>3, <2>1, MovedTyped DEF Pcs, Goal
<1>7. CASE AppliedSet(p)
  <2>1. Moves(p, "loop", l.migs, ToSet(recorded), l.at, l.ps, l.op, l.stmt)
    BY <1>7, MovesByAction
  <2>2. ToSet(recorded) \subseteq Index
    BY DEF TypeInv, ToSet
  <2> HIDE DEF l
  <2> QED
    BY <1>2, <1>3, <2>1, <2>2, MovedTyped DEF Pcs, Goal
<1>8. CASE Skip(p)
  <2> DEFINE s == ApplyAll(l.ps, Ops(p))
  <2>1. Moves(p, l.pc, l.migs, l.applied, l.at + 1, s, l.op, l.stmt)
    BY <1>8, MovesByAction
  <2>2. l.pc = "loop" /\ l.at <= Len(l.migs)
    BY <1>8 DEF Skip, More
  <2>3. l.at + 1 \in 1 .. Len(l.migs) + 1 /\ l.at + 1 \in Nat
    BY <1>2, <1>4, <2>2
  <2> HIDE DEF l, s
  <2> QED
    BY <1>2, <1>3, <2>1, <2>2, <2>3, MovedTyped DEF Goal
<1>9. CASE BeginTx(p)
  <2>1. Moves(p, "tx", l.migs, l.applied, l.at, l.ps, 1, 1)
    BY <1>9, MovesByAction
  <2>2. l.at <= Len(l.migs)
    BY <1>9 DEF BeginTx, More
  <2>3. l.migs[l.at] \in Index
    BY <1>2, <1>3, <1>4, <2>2
  <2>4. 1 \in 1 .. Len(Migs[l.migs[l.at]].ops) + 1
    BY <2>3, MigsTyped
  <2> HIDE DEF l
  <2> QED
    BY <1>0, <1>2, <1>3, <2>1, <2>2, <2>4, MovedTyped DEF Pcs, Goal
<1>10. CASE ExecStatement(p)
  <2>1. l.pc = "tx" /\ l.op <= Len(Ops(p)) /\ Ops(p) = Migs[l.migs[l.at]].ops
    BY <1>10 DEF ExecStatement, InOps, Ops, Mig
  <2>2. l.migs[l.at] \in Index
    BY <1>2, <1>3, <1>4, <2>1
  <2>3. Len(Ops(p)) \in Nat /\ l.op \in 1 .. Len(Ops(p))
    BY <1>2, <1>3, <2>1, <2>2, MigsTyped
  <2>4. IsOperation(Op(p))
    BY <2>1, <2>2, <2>3, MigsTyped DEF Op
  <2>5. Len(Statements(p)) \in 1 .. 4
    BY <2>4, SqlLength DEF Statements
  <2>6. CASE l.stmt < Len(Statements(p))
    <3>1. Moves(p, l.pc, l.migs, l.applied, l.at, l.ps, l.op, l.stmt + 1)
      BY <1>10, <2>6, MovesByAction
    <3>2. l.stmt + 1 \in 1 .. 4
      <4> DEFINE a == l.stmt
                 b == Len(Statements(p))
      <4>1. a \in 1 .. 4 /\ b \in 1 .. 4 /\ a < b
        BY <1>3, <2>5, <2>6
      <4> HIDE DEF a, b
      <4>2. a + 1 \in 1 .. 4
        BY <4>1
      <4> QED
        BY <4>2 DEF a
    <3> HIDE DEF l
    <3> QED
      BY <1>2, <1>3, <3>1, <3>2, MovedTyped DEF Goal
  <2>7. CASE ~ (l.stmt < Len(Statements(p)))
    <3> DEFINE s == ApplyOp(l.ps, Op(p))
    <3>1. Moves(p, l.pc, l.migs, l.applied, l.at, s, l.op + 1, 1)
      BY <1>10, <2>7, MovesByAction
    <3>2. l.op + 1 \in 1 .. Len(Ops(p)) + 1 /\ l.op + 1 \in Nat
      BY <2>3
    <3>3. l.op + 1 \in 1 .. Len(Migs[l.migs[l.at]].ops) + 1
      BY <2>1, <3>2
    <3> HIDE DEF l, s
    <3> QED
      BY <1>0, <1>2, <1>3, <2>1, <3>1, <3>2, <3>3, MovedTyped DEF Goal
  <2> QED
    BY <2>6, <2>7
<1>11. CASE RecordApplied(p)
  <2>1. Moves(p, "commit", l.migs, l.applied, l.at, l.ps, l.op, l.stmt)
    BY <1>11, MovesByAction
  <2>2. l.pc = "tx"
    BY <1>11 DEF RecordApplied
  <2> HIDE DEF l
  <2> QED
    BY <1>2, <1>3, <2>1, <2>2, MovedTyped DEF Pcs, Goal
<1>12. CASE Commit(p)
  <2>1. Moves(p, "loop", l.migs, l.applied, l.at + 1, l.ps, l.op, l.stmt)
    BY <1>12, MovesByAction
  <2>2. l.pc = "commit"
    BY <1>12 DEF Commit
  <2>3. l.at + 1 \in 1 .. Len(l.migs) + 1 /\ l.at + 1 \in Nat
    BY <1>2, <1>3, <1>4, <2>2
  <2> HIDE DEF l
  <2> QED
    BY <1>2, <1>3, <2>1, <2>3, MovedTyped DEF Pcs, Goal
<1>13. CASE StatementFails(p) \/ Finish(p) \/ Interrupt(p)
  <2> DEFINE e == <<>>
  <2>1. Moves(p, "idle", e, {}, 1, NewProjectState, 1, 1)
    BY <1>13, MovesByAction DEF Stays
  <2>2. e \in Seq(Index) /\ Len(e) = 0 /\ 1 \in 1 .. Len(e) + 1
    BY EmptySeq
  <2> HIDE DEF e
  <2> QED
    BY <1>0, <2>1, <2>2, MovedTyped DEF Pcs, Goal
<1> QED
  BY <1>5, <1>6, <1>7, <1>8, <1>9, <1>10, <1>11, <1>12, <1>13 DEF Acts, Goal

LEMMA ActTxTyped ==
    ASSUME NEW p \in Runner, TypeInv, Acts(p)
    PROVE  \E S : tx' \in Transactions(S)
<1>0. PICK T : tx \in Transactions(T)
  BY DEF TypeInv
<1>1. ASSUME NEW by \in Runner \cup {None}, NEW ts, NEW rec \in Seq(Index),
             TxIs(by, ts, rec)
      PROVE  tx' \in Transactions({ts})
  BY <1>1 DEF TxIs, Transactions
<1>2. CASE ExecStatement(p)
  <2> DEFINE ts == Run(Statements(p)[proc[p].stmt], Seen(p).tables)
  <2>1. TxIs(p, ts, Seen(p).recorded)
    BY <1>2, TxByAction
  <2> HIDE DEF ts
  <2> QED
    BY <1>1, <2>1, SeenFields
<1>3. CASE RecordApplied(p)
  <2>1. TxIs(tx.by, tx.tables, Append(tx.recorded, Mig(p)))
    BY <1>3, TxByAction
  <2>2. proc[p].pc = "tx"
    BY <1>3 DEF RecordApplied
  <2>3. PICK S : proc \in [Runner -> Locals(S)]
    BY DEF TypeInv
  <2>4. proc[p].migs \in Seq(Index) /\ proc[p].at \in 1 .. Len(proc[p].migs)
    BY <2>2, <2>3, LocalFields DEF TypeInv, Within
  <2>5. Mig(p) \in Index
    BY <2>4 DEF Mig
  <2>6. Append(tx.recorded, Mig(p)) \in Seq(Index)
    BY <2>5, TxFields, AppendProperties
  <2> QED
    BY <1>1, <2>1, <2>6, TxFields
<1>4. CASE TxIs(None, <<>>, <<>>)
  <2>1. <<>> \in Seq(Index)
    BY EmptySeq
  <2> QED
    BY <1>1, <1>4, <2>1
<1>5. CASE tx' = tx
  BY <1>0, <1>5
<1> QED
  BY <1>2, <1>3, <1>4, <1>5, TxByAction DEF Acts

LEMMA TypeStep ==
    ASSUME TypeInv, [Next]_vars
    PROVE  TypeInv'
<1>1. dialect' = dialect /\ project' = project
  BY StepKinds
<1>2. ASSUME NEW p \in Runner, Acts(p)
      PROVE  TypeInv'
  <2>1. recorded' \in Seq(Index)
    BY <1>2, ActFrame, TxFields DEF TypeInv
  <2>2. faults' \in 0 .. project'.faults
    <3>1. faults \in 0 .. project.faults /\ project \in Projects /\ project.faults \in Nat
      BY ProjectsAssumption DEF TypeInv
    <3>2. faults' = faults \/ (faults < project.faults /\ faults' = faults + 1)
      BY <1>2, ActFrame
    <3>3. faults' \in 0 .. project.faults
      BY <3>1, <3>2
    <3> QED
      BY <1>1, <3>3
  <2>3. deployed' \subseteq Index /\ tracking' \in BOOLEAN
    BY <1>2, ActFrame DEF TypeInv
  <2>4. dialect' \in Dialects /\ project' \in Projects
    BY <1>1 DEF TypeInv
  <2> QED
    BY <1>2, <2>1, <2>2, <2>3, <2>4, ActTyped, ActTxTyped DEF TypeInv
<1>3. ASSUME NEW i \in Index, Deploy(i)
      PROVE  TypeInv'
  <2>1. deployed' \subseteq Index
    BY <1>3, DeployFrame DEF TypeInv
  <2> QED
    BY <1>1, <1>3, <2>1, DeployFrame DEF TypeInv
<1>4. ASSUME NEW t, NEW r, Insert(t, r)
      PROVE  TypeInv'
  BY <1>1, <1>4, InsertFrame DEF TypeInv
<1>5. CASE UNCHANGED vars
  BY <1>5 DEF TypeInv, vars
<1> QED
  BY <1>2, <1>3, <1>4, <1>5, StepKinds

LEMMA TypeInit == Init => TypeInv
<1> SUFFICES ASSUME Init PROVE TypeInv
  OBVIOUS
<1>1. proc = [p \in Runner |-> Idle] /\ tx = NoTx
  BY DEF Init
<1>2. <<>> \in Seq(Index) /\ Len(<<>>) = 0
  BY EmptySeq
<1>3. Idle \in Locals({NewProjectState})
  BY <1>2 DEF Idle, Locals, Pcs
<1>4. Within(Idle)
  BY <1>2 DEF Idle, Within
<1>5. tx \in Transactions({<<>>})
  BY <1>1, <1>2 DEF NoTx, Transactions
<1>6. proc \in [Runner -> Locals({NewProjectState})] /\ \A p \in Runner : Within(proc[p])
  BY <1>1, <1>3, <1>4
<1>7. faults \in 0 .. project.faults
  BY ProjectsAssumption DEF Init
<1> QED
  BY <1>2, <1>5, <1>6, <1>7 DEF Init, TypeInv

\* TypeOK: the local variables of every run stay within its migrations, their
\* operations and statements, whatever is interrupted and however runs overlap.
THEOREM TypeCorrect == Spec => []TypeOK
<1>1. Init => TypeInv
  BY TypeInit
<1>2. TypeInv /\ [Next]_vars => TypeInv'
  BY TypeStep
<1>3. TypeInv => TypeOK
  BY TypeInvImplies
<1> QED
  BY <1>1, <1>2, <1>3, PTL DEF Spec

-----------------------------------------------------------------------------
(* The lock                                                                *)

MigOf(l) == l.migs[l.at]

\* The transaction is that of the run that wrote in it, and the run that is to
\* commit has recorded its migration in it, on top of what is committed.
Holds(p) ==
    /\ proc[p].pc = "commit" =>
          tx.by = p /\ tx.recorded = Append(recorded, MigOf(proc[p]))
    /\ proc[p].pc = "tx" /\ (proc[p].op > 1 \/ proc[p].stmt > 1) => tx.by = p
    /\ proc[p].pc = "tx" /\ tx.by = p => tx.recorded = recorded

LockInv ==
    /\ tx.by # None => proc[tx.by].pc \in {"tx", "commit"}
    /\ \A p \in Runner : Holds(p)

\* A run that holds no transaction keeps what Holds says of it.
LEMMA HoldsOther ==
    ASSUME NEW p \in Runner, NEW q \in Runner, q # p, TypeInv, LockInv, Others(p),
           tx.by \in {None, p} => tx'.by \in {None, p},
           tx.by \notin {None, p} => tx' = tx /\ recorded' = recorded
    PROVE  Holds(q)'
<1>1. proc'[q] = proc[q]
  BY DEF Others
<1>2. CASE tx.by \in {None, p}
  <2>1. tx.by # q /\ tx'.by # q
    BY <1>2, NoneAssumption
  <2> QED
    BY <1>1, <2>1 DEF Holds, LockInv
<1>3. CASE tx.by \notin {None, p}
  BY <1>1, <1>3 DEF Holds, LockInv
<1> QED
  BY <1>2, <1>3

\* In "tx" past the last operation, the first one has been executed.
LEMMA PastOps ==
    ASSUME NEW p \in Runner, TypeInv, LockInv, RecordApplied(p)
    PROVE  proc[p].pc = "tx" /\ tx.by = p /\ tx.recorded = recorded
           /\ proc[p].op = Len(Ops(p)) + 1 /\ Mig(p) = MigOf(proc[p]) /\ Mig(p) \in Index
<1>1. PICK S : proc \in [Runner -> Locals(S)]
  BY DEF TypeInv
<1>2. proc[p].pc = "tx" /\ ~ (proc[p].op <= Len(Ops(p)))
  BY DEF RecordApplied, InOps
<1>3. proc[p].migs \in Seq(Index) /\ proc[p].at \in 1 .. Len(proc[p].migs)
  BY <1>1, <1>2, LocalFields DEF TypeInv, Within
<1>4. Mig(p) \in Index /\ Mig(p) = MigOf(proc[p])
  BY <1>3 DEF Mig, MigOf
<1>5. Ops(p) = Migs[Mig(p)].ops /\ Len(Ops(p)) \in Nat \ {0}
  BY <1>4, MigsTyped DEF Ops
<1>6. proc[p].op \in 1 .. Len(Ops(p)) + 1
  BY <1>2, <1>5 DEF TypeInv, Within, Mig
<1>7. proc[p].op = Len(Ops(p)) + 1 /\ proc[p].op > 1
  BY <1>2, <1>5, <1>6
<1> QED
  BY <1>2, <1>4, <1>7 DEF LockInv, Holds

LEMMA LockAct ==
    ASSUME NEW p \in Runner, TypeInv, LockInv, Acts(p)
    PROVE  LockInv'
<1> DEFINE l == proc[p]
           m == proc'[p]
<1>0. tx.by \in Runner \cup {None} /\ p # None /\ Holds(p)
  BY TxFields, NoneAssumption DEF LockInv
<1>1. Others(p)
  BY MovesByAction DEF Acts, Moves, Stays
\* The transaction keeps its owner, and so does what the others hold.
<1>2. ASSUME tx.by \in {None, p} => tx'.by \in {None, p},
             tx.by \notin {None, p} => tx' = tx /\ recorded' = recorded,
             tx'.by = p => m.pc \in {"tx", "commit"},
             Holds(p)'
      PROVE  LockInv'
  <2>1. \A q \in Runner : Holds(q)'
    BY <1>1, <1>2, HoldsOther
  <2>2. tx'.by # None => proc'[tx'.by].pc \in {"tx", "commit"}
    <3>1. CASE tx.by \in {None, p}
      BY <1>2, <3>1
    <3>2. CASE tx.by \notin {None, p}
      <4>1. tx'.by = tx.by /\ tx.by \in Runner /\ tx.by # p
        BY <1>0, <1>2, <3>2
      <4> QED
        BY <1>1, <4>1, <1>0 DEF Others, LockInv
    <3> QED
      BY <3>1, <3>2
  <2> QED
    BY <2>1, <2>2 DEF LockInv
<1>3. CASE ExecStatement(p)
  <2>1. CanWrite(p) /\ l.pc = "tx" /\ ~ Commit(p)
    BY <1>3 DEF ExecStatement, Commit
  <2>2. tx.by \in {None, p}
    BY <2>1 DEF CanWrite
  <2>3. tx'.by = p /\ tx'.recorded = Seen(p).recorded
    BY <1>3, TxByAction, TxIsFields
  <2>4. m.pc = "tx"
    BY <1>3, <2>1, MovesByAction DEF Moves, LocalsAre
  <2>5. recorded' = recorded
    BY <1>3, <2>1, ActFrame DEF Acts
  <2>6. Seen(p).recorded = recorded
    BY <2>1, <1>0, SeenFields DEF Holds
  <2> QED
    BY <1>2, <2>2, <2>3, <2>4, <2>5, <2>6 DEF Holds
<1>4. CASE RecordApplied(p)
  <2>1. l.pc = "tx" /\ tx.by = p /\ tx.recorded = recorded /\ Mig(p) = MigOf(l)
    BY <1>4, PastOps
  <2>2. tx'.by = p /\ tx'.recorded = Append(recorded, MigOf(l))
    <3>1. TxIs(tx.by, tx.tables, Append(tx.recorded, Mig(p)))
      BY <1>4, TxByAction
    <3> HIDE DEF l
    <3> QED
      BY <2>1, <3>1, TxIsFields
  <2>3. m.pc = "commit" /\ MigOf(m) = MigOf(l)
    BY <1>4, MovesByAction DEF Moves, LocalsAre, MigOf
  <2>4. recorded' = recorded
    BY <1>4 DEF RecordApplied
  <2> QED
    BY <1>2, <2>1, <2>2, <2>3, <2>4 DEF Holds
<1>5. CASE Commit(p)
  <2>1. l.pc = "commit" /\ tx.by = p
    BY <1>0, <1>5 DEF Commit, Holds
  <2>2. tx'.by = None
    BY <1>5, TxByAction, TxIsFields
  <2>3. m.pc = "loop"
    BY <1>5, MovesByAction DEF Moves, LocalsAre
  <2> QED
    BY <1>0, <1>2, <2>1, <2>2, <2>3 DEF Holds
<1>6. CASE StatementFails(p) \/ Interrupt(p)
  <2>1. IF tx.by = p THEN TxIs(None, <<>>, <<>>) ELSE tx' = tx
    BY <1>6, TxByAction
  <2>2. tx.by = p => tx'.by = None
    BY <2>1, TxIsFields
  <2>3. tx.by # p => tx' = tx
    BY <2>1
  <2>4. m.pc = "idle"
    BY <1>6, MovesByAction DEF Moves, LocalsAre, Stays
  <2>5. recorded' = recorded
    BY <1>6 DEF StatementFails, Interrupt
  <2> QED
    BY <1>0, <1>2, <2>2, <2>3, <2>4, <2>5 DEF Holds
<1>7. CASE Start(p) \/ EnsureTable(p) \/ AppliedSet(p) \/ Finish(p) \/ Skip(p) \/ BeginTx(p)
  <2>1. tx' = tx /\ recorded' = recorded
    BY <1>7, TxByAction DEF Start, EnsureTable, AppliedSet, Finish, Skip, BeginTx
  <2>2. l.pc \notin {"tx", "commit"}
    BY <1>7 DEF Start, EnsureTable, AppliedSet, Finish, Skip, BeginTx
  <2>3. tx.by # p
    BY <1>0, <2>2 DEF LockInv
  <2>4. /\ m.pc # "commit"
        /\ m.pc = "tx" => m.op = 1 /\ m.stmt = 1
    BY <1>7, <2>2, MovesByAction DEF Moves, LocalsAre, Stays, Skip
  <2> QED
    BY <1>2, <2>1, <2>3, <2>4 DEF Holds
<1> QED
  BY <1>3, <1>4, <1>5, <1>6, <1>7 DEF Acts

LEMMA LockStep ==
    ASSUME TypeInv, LockInv, [Next]_vars
    PROVE  LockInv'
<1>1. CASE tx' = tx /\ proc' = proc /\ recorded' = recorded
  BY <1>1 DEF LockInv, Holds
<1> QED
  BY <1>1, LockAct, StepKinds, InsertFrame, DeployFrame DEF vars

LEMMA LockInit == Init => LockInv
  BY NoneAssumption DEF Init, LockInv, Holds, NoTx, Idle

\* However runs overlap and wherever they are interrupted: a transaction that
\* has written holds the lock until it ends, and commits, with the tables it
\* wrote, the tracking rows as they are plus the one of its own migration.
THEOREM TransactionsIsolated == Spec => []LockInv
<1>1. Init => TypeInv /\ LockInv
  BY TypeInit, LockInit
<1>2. TypeInv /\ LockInv /\ [Next]_vars => TypeInv' /\ LockInv'
  BY TypeStep, LockStep
<1> QED
  BY <1>1, <1>2, PTL DEF Spec

-----------------------------------------------------------------------------
(* Runs that do not overlap                                                *)

\* The migrations before the one that a run is at.
Before(l) == {l.migs[j] : j \in 1 .. l.at - 1}

\* A run and the tracking rows, while it is the only run: it lists every
\* migration that is recorded; what it has passed is recorded; what it has read
\* as applied is recorded, and nothing else is but what it recorded itself.
Tracks(l, rec, deployedNow) ==
    /\ ToSet(rec) \subseteq ToSet(l.migs) /\ ToSet(l.migs) \subseteq deployedNow
    /\ \A j, k \in 1 .. Len(l.migs) : j < k => l.migs[j] < l.migs[k]
    /\ l.pc \in {"ensure", "scan"} => l.at = 1
    /\ l.pc \in {"loop", "tx", "commit"} =>
          /\ l.applied \subseteq ToSet(rec)
          /\ ToSet(rec) \subseteq l.applied \cup Before(l)
          /\ Before(l) \subseteq ToSet(rec)
    /\ l.pc \in {"tx", "commit"} => MigOf(l) \notin l.applied

LogInv ==
    /\ ToSet(recorded) \subseteq deployed /\ IsInjective(recorded)
    /\ \A p \in Runner : proc[p].pc # "idle" => Tracks(proc[p], recorded, deployed)

LEMMA BeforeGrows ==
    ASSUME NEW l, NEW m, m.migs = l.migs, m.at = l.at + 1, l.at \in Nat \ {0}
    PROVE  Before(m) = Before(l) \cup {MigOf(l)}
<1>1. m.at - 1 = l.at
  BY SMT
<1>2. 1 .. l.at = 1 .. l.at - 1 \cup {l.at}
  BY SMT
<1> QED
  BY <1>1, <1>2 DEF Before, MigOf

\* The migration a run is to apply is not recorded.
LEMMA NotRecorded ==
    ASSUME NEW l, NEW rec, NEW D, Tracks(l, rec, D), l.pc \in {"tx", "commit"},
           Len(l.migs) \in Nat, l.at \in 1 .. Len(l.migs),
           \A j \in 1 .. Len(l.migs) : l.migs[j] \in Nat
    PROVE  MigOf(l) \notin ToSet(rec)
<1>1. ASSUME MigOf(l) \in Before(l) PROVE FALSE
  <2>1. PICK j \in 1 .. l.at - 1 : l.migs[j] = l.migs[l.at]
    BY <1>1 DEF Before, MigOf
  <2>2. j \in 1 .. Len(l.migs) /\ j < l.at
    BY SMT
  <2>3. l.migs[j] < l.migs[l.at]
    BY <2>2 DEF Tracks
  <2>4. l.migs[l.at] \in Nat
    OBVIOUS
  <2> QED
    BY <2>1, <2>3, <2>4
<1> QED
  BY <1>1 DEF Tracks

LEMMA AppendedOnce ==
    ASSUME NEW S, NEW s \in Seq(S), NEW x \in S, IsInjective(s), x \notin ToSet(s)
    PROVE  /\ ToSet(Append(s, x)) = ToSet(s) \cup {x}
           /\ IsInjective(Append(s, x))
<1> DEFINE t == Append(s, x)
<1>1. /\ Len(s) \in Nat /\ DOMAIN s = 1 .. Len(s) /\ DOMAIN t = 1 .. Len(s) + 1
      /\ t[Len(s) + 1] = x /\ \A i \in 1 .. Len(s) : t[i] = s[i]
  OBVIOUS
<1>2. 1 .. Len(s) + 1 = 1 .. Len(s) \cup {Len(s) + 1}
  BY <1>1
<1> HIDE DEF t
<1>3. ToSet(t) = ToSet(s) \cup {x}
  BY <1>1, <1>2 DEF ToSet
<1>4. ASSUME NEW i \in DOMAIN t, NEW j \in DOMAIN t, t[i] = t[j] PROVE i = j
  <2>1. \A k \in 1 .. Len(s) : s[k] # x
    BY <1>1 DEF ToSet
  <2>2. \A k, m \in 1 .. Len(s) : s[k] = s[m] => k = m
    BY <1>1 DEF IsInjective
  <2> QED
    BY <1>1, <1>2, <1>4, <2>1, <2>2
<1>5. IsInjective(t)
  BY <1>4 DEF IsInjective
<1> QED
  BY <1>3, <1>5 DEF t

LEMMA LogAct ==
    ASSUME NEW p \in Runner, TypeInv, LockInv, RunsApart, LogInv, Acts(p)
    PROVE  LogInv'
<1> DEFINE l == proc[p]
           m == proc'[p]
           Now(k) == Tracks(k, recorded, deployed)
           Then(k) == Tracks(k, recorded', deployed)
<1>1. Others(p)
  BY MovesByAction DEF Acts, Moves, Stays
<1>2. PICK S : proc \in [Runner -> Locals(S)]
  BY DEF TypeInv
<1>3. /\ l.pc \in Pcs /\ l.migs \in Seq(Index) /\ l.applied \subseteq Index /\ l.at \in Nat
      /\ Within(l)
  BY <1>2, LocalFields DEF TypeInv
<1>4. /\ Len(l.migs) \in Nat /\ DOMAIN l.migs = 1 .. Len(l.migs)
      /\ l.at \in 1 .. Len(l.migs) + 1 /\ l.at \in Nat \ {0}
      /\ \A j \in 1 .. Len(l.migs) : l.migs[j] \in Index /\ l.migs[j] \in Nat
  BY <1>3, IndexFinite, SMTT(30) DEF Within
<1>5. recorded \in Seq(Index) /\ deployed \subseteq Index
  BY DEF TypeInv
<1>6. deployed' = deployed
  BY ActFrame
<1>7. Mig(p) = MigOf(l)
  BY DEF Mig, MigOf
<1>0. l.pc # "idle" => Now(l)
  BY DEF LogInv
\* Where the tracking rows stay as they are, it is p's own variables that matter.
<1>8. ASSUME recorded' = recorded, m.pc # "idle" => Now(m)
      PROVE  LogInv'
  <2>1. ASSUME NEW q \in Runner, proc'[q].pc # "idle" PROVE Now(proc'[q])
    <3>1. CASE q = p
      BY <1>8, <2>1, <3>1
    <3>2. CASE q # p
      <4>1. proc'[q] = proc[q]
        BY <1>1, <3>2 DEF Others
      <4> QED
        BY <2>1, <4>1 DEF LogInv
    <3> QED
      BY <3>1, <3>2
  <2> QED
    BY <1>6, <1>8, <2>1 DEF LogInv
<1>9. CASE Start(p)
  <2>1. recorded' = recorded /\ LocalsAre(p, "ensure", Listed(deployed), {}, 1, NewProjectState, 1, 1)
    BY <1>9, MovesByAction DEF Moves, Start
  <2>2. m.pc = "ensure" /\ m.migs = Listed(deployed) /\ m.at = 1
    BY <2>1 DEF LocalsAre
  <2>3. /\ Cardinality(deployed) \in Nat
        /\ Listed(deployed) \in Seq(Index) /\ Len(Listed(deployed)) = Cardinality(deployed)
        /\ \A k \in 1 .. Cardinality(deployed) : Listed(deployed)[k] \in deployed
        /\ \A j, k \in 1 .. Cardinality(deployed) :
              j < k => Listed(deployed)[j] < Listed(deployed)[k]
        /\ \A i \in deployed : \E k \in 1 .. Cardinality(deployed) : Listed(deployed)[k] = i
    BY <1>5, ListedLists
  <2>4. DOMAIN Listed(deployed) = 1 .. Cardinality(deployed)
    BY <2>3
  <2>5. ToSet(Listed(deployed)) = deployed
    BY <2>3, <2>4 DEF ToSet
  <2>6. ToSet(recorded) \subseteq deployed
    BY DEF LogInv
  <2>7. Now(m)
    BY <2>2, <2>3, <2>5, <2>6 DEF Tracks
  <2> QED
    BY <1>8, <2>1, <2>7
<1>10. CASE EnsureTable(p)
  <2>1. recorded' = recorded /\ l.pc = "ensure"
    BY <1>10 DEF EnsureTable
  <2>2. m.pc = "scan" /\ m.migs = l.migs /\ m.at = l.at
    BY <1>10, MovesByAction DEF Moves, LocalsAre
  <2>3. Now(m)
    BY <1>0, <2>1, <2>2 DEF Tracks
  <2> QED
    BY <1>8, <2>1, <2>3
<1>11. CASE AppliedSet(p)
  <2>1. recorded' = recorded /\ l.pc = "scan"
    BY <1>11 DEF AppliedSet
  <2>2. m.pc = "loop" /\ m.migs = l.migs /\ m.at = l.at /\ m.applied = ToSet(recorded)
    BY <1>11, MovesByAction DEF Moves, LocalsAre
  <2>3. m.at = 1
    BY <1>0, <2>1, <2>2 DEF Tracks
  <2>4. Before(m) = {}
    BY <2>3 DEF Before
  <2>5. Now(m)
    BY <1>0, <2>1, <2>2, <2>4 DEF Tracks
  <2> QED
    BY <1>8, <2>1, <2>5
<1>12. CASE Skip(p)
  <2>1. recorded' = recorded /\ l.pc = "loop" /\ MigOf(l) \in l.applied
    BY <1>7, <1>12 DEF Skip
  <2>2. m.pc = "loop" /\ m.migs = l.migs /\ m.at = l.at + 1 /\ m.applied = l.applied
    BY <1>12, <2>1, MovesByAction DEF Moves, LocalsAre
  <2>3. Before(m) = Before(l) \cup {MigOf(l)}
    BY <1>4, <2>2, BeforeGrows
  <2>4. Now(m)
    BY <1>0, <2>1, <2>2, <2>3 DEF Tracks
  <2> QED
    BY <1>8, <2>1, <2>4
<1>13. CASE BeginTx(p)
  <2>1. recorded' = recorded /\ l.pc = "loop" /\ MigOf(l) \notin l.applied
    BY <1>7, <1>13 DEF BeginTx
  <2>2. m.pc = "tx" /\ m.migs = l.migs /\ m.at = l.at /\ m.applied = l.applied
    BY <1>13, MovesByAction DEF Moves, LocalsAre
  <2>3. Before(m) = Before(l) /\ MigOf(m) = MigOf(l)
    BY <2>2 DEF Before, MigOf
  <2>4. Now(m)
    BY <1>0, <2>1, <2>2, <2>3 DEF Tracks
  <2> QED
    BY <1>8, <2>1, <2>4
<1>14. CASE ExecStatement(p) \/ RecordApplied(p)
  <2>1. recorded' = recorded /\ l.pc = "tx"
    BY <1>14 DEF ExecStatement, RecordApplied
  <2>2. m.pc \in {"tx", "commit"} /\ m.migs = l.migs /\ m.at = l.at /\ m.applied = l.applied
    BY <1>14, <2>1, MovesByAction DEF Moves, LocalsAre
  <2>3. Before(m) = Before(l) /\ MigOf(m) = MigOf(l)
    BY <2>2 DEF Before, MigOf
  <2>4. Now(m)
    BY <1>0, <2>1, <2>2, <2>3 DEF Tracks
  <2> QED
    BY <1>8, <2>1, <2>4
<1>15. CASE StatementFails(p) \/ Finish(p) \/ Interrupt(p)
  <2>1. recorded' = recorded
    BY <1>15 DEF StatementFails, Finish, Interrupt
  <2>2. m.pc = "idle"
    BY <1>15, MovesByAction DEF Moves, LocalsAre, Stays
  <2> QED
    BY <1>8, <2>1, <2>2
\* No other run is under way, and this one's migration was not recorded.
<1>16. CASE Commit(p)
  <2>1. l.pc = "commit" /\ recorded' = tx.recorded
    BY <1>16 DEF Commit
  <2>2. recorded' = Append(recorded, MigOf(l))
    BY <2>1 DEF LockInv, Holds
  <2>3. m.pc = "loop" /\ m.migs = l.migs /\ m.at = l.at + 1 /\ m.applied = l.applied
    BY <1>16, MovesByAction DEF Moves, LocalsAre
  <2>4. l.at \in 1 .. Len(l.migs)
    BY <1>3, <1>4, <2>1 DEF Within
  <2>5. MigOf(l) \in Index /\ MigOf(l) \in ToSet(l.migs)
    BY <1>4, <2>4 DEF MigOf, ToSet
  <2>6. Now(l)
    BY <1>0, <2>1
  <2>7. MigOf(l) \notin ToSet(recorded)
    BY <1>4, <2>1, <2>4, <2>6, NotRecorded
  <2>8. IsInjective(recorded)
    BY DEF LogInv
  <2>9. ToSet(recorded') = ToSet(recorded) \cup {MigOf(l)} /\ IsInjective(recorded')
    BY <1>5, <2>2, <2>5, <2>7, <2>8, AppendedOnce
  <2>10. Before(m) = Before(l) \cup {MigOf(l)}
    BY <1>4, <2>3, BeforeGrows
  <2>11. Then(m)
    BY <2>1, <2>3, <2>5, <2>6, <2>9, <2>10 DEF Tracks
  <2>12. ToSet(recorded') \subseteq deployed
    BY <2>5, <2>6, <2>9 DEF Tracks, LogInv
  <2>13. ASSUME NEW q \in Runner, proc'[q].pc # "idle", q # p PROVE FALSE
    <3>1. proc[q].pc # "idle"
      BY <1>1, <2>13 DEF Others
    <3> QED
      BY <2>1, <2>13, <3>1 DEF RunsApart
  <2>14. \A q \in Runner : proc'[q].pc # "idle" => Then(proc'[q])
    BY <2>11, <2>13
  <2> QED
    BY <1>6, <2>9, <2>12, <2>14 DEF LogInv
<1> QED
  BY <1>9, <1>10, <1>11, <1>12, <1>13, <1>14, <1>15, <1>16 DEF Acts

LEMMA LogStep ==
    ASSUME TypeInv, LockInv, RunsApart, LogInv, [Next]_vars
    PROVE  LogInv'
<1>1. ASSUME deployed \subseteq deployed', recorded' = recorded, proc' = proc
      PROVE  LogInv'
  BY <1>1 DEF LogInv, Tracks
<1>2. CASE UNCHANGED vars
  BY <1>1, <1>2 DEF vars
<1>3. ASSUME NEW i, Deploy(i) PROVE LogInv'
  BY <1>1, <1>3, DeployFrame
<1>4. ASSUME NEW t, NEW r, Insert(t, r) PROVE LogInv'
  BY <1>1, <1>4, InsertFrame
<1> QED
  BY <1>2, <1>3, <1>4, LogAct, StepKinds

LEMMA LogInit == Init => LogInv
<1> SUFFICES ASSUME Init PROVE LogInv
  OBVIOUS
<1>1. recorded = <<>> /\ \A p \in Runner : proc[p].pc = "idle"
  BY DEF Init, Idle
<1>2. DOMAIN recorded = {}
  BY <1>1
<1> QED
  BY <1>1, <1>2 DEF LogInv, ToSet, IsInjective

\* If no two runs of migrate overlap, no migration is ever applied a second
\* time, wherever a run is interrupted, whatever its migrations do, and
\* although Apply reads what is applied once, before its loop.
THEOREM NeverReapplied == Spec => AppliedOnceApart
<1>1. Init => TypeInv /\ LockInv /\ LogInv
  BY TypeInit, LockInit, LogInit
<1>2. /\ TypeInv /\ LockInv /\ LogInv /\ RunsApart /\ [Next]_vars
      => TypeInv' /\ LockInv' /\ LogInv'
  BY TypeStep, LockStep, LogStep
<1>3. LogInv => AppliedOnce
  BY DEF LogInv, AppliedOnce
<1> QED
  BY <1>1, <1>2, <1>3, PTL DEF Spec, AppliedOnceApart

-----------------------------------------------------------------------------
(***************************************************************************)
(* What the runs of migrate do to the database, statement by statement,    *)
(* is what MigrationLog says of it in one step per migration; and the      *)
(* tables are always those of the migrations that are recorded.            *)
(***************************************************************************)

Replays  == INSTANCE LeftFoldProofs WITH Step <- ApplyAll
LogLoops == INSTANCE LeftFoldProofs WITH Step <- Log!RunOperation

-----------------------------------------------------------------------------
(* The operators of the log are those of the runner                        *)

LEMMA SameReplay == \A D : Log!Replay(D) = Replay(D)
  BY ZenonT(120) DEF Log!Replay, Replay, Log!Listed, Listed, Log!InOrder, InOrder,
         Log!Cardinality, Cardinality, Log!IsFiniteSet, IsFiniteSet,
         Log!StateFromMigrations, StateFromMigrations, Log!NewProjectState,
         NewProjectState, Log!ApplyAll, ApplyAll, Log!Migrations!Fold,
         Migrations!Fold, Log!Migrations!Held, Migrations!Held,
         Log!Operations!Fold, Operations!Fold, Log!Operations!Held,
         Operations!Held, Log!ApplyOp, ApplyOp, Log!ApplyCreateModel,
         ApplyCreateModel, Log!ApplyDeleteModel, ApplyDeleteModel,
         Log!ApplyAddField, ApplyAddField, Log!ApplyRemoveField,
         ApplyRemoveField, Log!ApplyAlterField, ApplyAlterField, Log!With,
         With, Log!WithFields, WithFields, Log!HasField, HasField,
         Log!FieldIndex, FieldIndex, Log!Contains, Contains, Log!RemoveFirst,
         RemoveFirst, Log!Restrict, Restrict, Log!ModelNames, ModelNames,
         Log!RemoveAt, RemoveAt, Log!ReplaceAt, ReplaceAt, Log!Min, Min,
         Log!SelectInSeq, SelectInSeq

LEMMA SameApplyOp == \A ps, op : Log!ApplyOp(ps, op) = ApplyOp(ps, op)
  BY DEF Log!ApplyOp, ApplyOp, Log!ApplyCreateModel, ApplyCreateModel,
         Log!ApplyDeleteModel, ApplyDeleteModel, Log!ApplyAddField,
         ApplyAddField, Log!ApplyRemoveField, ApplyRemoveField,
         Log!ApplyAlterField, ApplyAlterField, Log!With, With, Log!WithFields,
         WithFields, Log!HasField, HasField, Log!FieldIndex, FieldIndex,
         Log!Contains, Contains, Log!RemoveFirst, RemoveFirst, Log!Restrict,
         Restrict, Log!ModelNames, ModelNames, Log!RemoveAt, RemoveAt,
         Log!ReplaceAt, ReplaceAt, Log!Min, Min, Log!SelectInSeq, SelectInSeq

LEMMA SameSQL == \A op, ps : Log!SQL(op, ps) = SQL(op, ps)
  BY DEF Log!SQL, SQL, Log!Create, Create, Log!Copy, Copy, Log!Drop, Drop,
         Log!Rename, Rename, Log!AddColumn, AddColumn, Log!TmpTable, TmpTable,
         Log!ColumnDef, ColumnDef, Log!Columns, Columns, Log!RebuildTable,
         RebuildTable, Log!FieldsBut, FieldsBut, Log!At, At, Log!InOrder,
         InOrder, Log!Cardinality, Cardinality, Log!IsFiniteSet, IsFiniteSet,
         Log!ToSet, ToSet, Log!ApplyAlterField, ApplyAlterField,
         Log!WithFields, WithFields, Log!HasField, HasField, Log!FieldIndex,
         FieldIndex, Log!Min, Min, Log!ReplaceAt, ReplaceAt

LEMMA SameRenders == \A op, ps : Log!Renders(op, ps) = Renders(op, ps)
  BY DEF Log!Renders, Renders, Log!ModelNames, ModelNames, Log!HasField,
         HasField

LEMMA SameStatements == \A acc, s : Log!Exec!Fold(acc, s) = Exec!Fold(acc, s)
  BY DEF Log!Exec!Fold, Exec!Fold, Log!Exec!Held, Exec!Held, Log!RunStatement,
         RunStatement, Log!CanRun, CanRun, Log!CanCreate, CanCreate,
         Log!CanCopy, CanCopy, Log!CanDrop, CanDrop, Log!CanRename, CanRename,
         Log!CanAddColumn, CanAddColumn, Log!CopiedRow, CopiedRow,
         Log!ColumnsOf, ColumnsOf, Log!ColumnOf, ColumnOf, Log!Assignable,
         Assignable, Log!Default, Default, Log!ReferencedBy, ReferencedBy,
         Log!Run, Run, Log!Without, Without, Log!WithColumn, WithColumn,
         Log!With, With, Log!Restrict, Restrict

LEMMA SameOperation == \A acc, op : Log!RunOperation(acc, op) = RunOperation(acc, op)
  BY SameApplyOp, SameSQL, SameRenders, SameStatements
     DEF Log!RunOperation, RunOperation

-----------------------------------------------------------------------------
(* The loops, step by step                                                 *)

LEMMA MigrationsSteps ==
    ASSUME NEW base, NEW s, Len(s) \in Nat
    PROVE  /\ Migrations!Held(base, s)[0] = base
           /\ \A n \in 1 .. Len(s) :
                 Migrations!Held(base, s)[n] = ApplyAll(Migrations!Held(base, s)[n - 1], s[n])
           /\ Migrations!Fold(base, s) = Migrations!Held(base, s)[Len(s)]
<1>1. Migrations!Held(base, s) = Replays!Held(base, s)
  BY DEF Migrations!Held, Replays!Held
<1> QED
  BY <1>1, Replays!HeldSteps DEF Migrations!Fold

LEMMA MigrationsAgree ==
    ASSUME NEW base, NEW s, NEW t, Len(s) \in Nat, Len(t) \in Nat, Len(s) <= Len(t),
           \A n \in 1 .. Len(s) : s[n] = t[n]
    PROVE  Migrations!Held(base, s)[Len(s)] = Migrations!Held(base, t)[Len(s)]
<1>1. \A u : Migrations!Held(base, u) = Replays!Held(base, u)
  BY DEF Migrations!Held, Replays!Held
<1>2. Len(s) <= Len(s)
  OBVIOUS
<1>3. Replays!Held(base, s)[Len(s)] = Replays!Held(base, t)[Len(s)]
  BY <1>2, Replays!HeldAgree
<1> QED
  BY <1>1, <1>3

LEMMA SameAttempt ==
    ASSUME NEW d, NEW ops, NEW ps, NEW ts, Len(ops) \in Nat
    PROVE  Log!Attempt(d, ops, ps, ts) = Attempt(d, ops, ps, ts)
<1> DEFINE base == [ok |-> TRUE, dialect |-> d, ps |-> ps, tables |-> ts]
           h == Log!Loop!Held(base, ops)
<1>1. h = LogLoops!Held(base, ops)
  BY DEF Log!Loop!Held, LogLoops!Held
<1> HIDE DEF base
<1>2. /\ h[0] = base
      /\ \A n \in 1 .. Len(ops) : h[n] = Log!RunOperation(h[n - 1], ops[n])
  BY <1>1, LogLoops!HeldSteps
<1>3. \A n \in 1 .. Len(ops) : h[n] = RunOperation(h[n - 1], ops[n])
  BY <1>2, SameOperation
<1>4. Loop!Held(base, ops) = Loops!Held(base, ops)
  BY DEF Loop!Held, Loops!Held
<1> HIDE DEF h
<1>5. \A n \in 0 .. Len(ops) : h[n] = Loops!Held(base, ops)[n]
  BY <1>2, <1>3, Loops!HeldUnique
<1>6. h[Len(ops)] = Loop!Held(base, ops)[Len(ops)]
  BY <1>4, <1>5
<1> QED
  BY <1>6 DEF h, base, Log!Attempt, Attempt, Log!Loop!Fold, Loop!Fold

-----------------------------------------------------------------------------
(* How far a run is in its migrations and in its transaction               *)

OpsListed(migs) == [k \in DOMAIN migs |-> Migs[migs[k]].ops]

\* The state that the first k migrations of a run add up to.
StateAt(l, k) == Migrations!Held(NewProjectState, OpsListed(l.migs))[k]

OpsOf(l) == Migs[MigOf(l)].ops

\* After how many operations of its migration a run is where, on these tables,
\* and after how many statements of the operation it is at.
Done(l, d, ts) == Loop!Held(Good(d, StateAt(l, l.at - 1), ts), OpsOf(l))
Now(l, d, ts)  == Exec!Held(Done(l, d, ts)[l.op - 1], SQL(OpsOf(l)[l.op], l.ps))

\* A run holds the state of the migrations before the one it is at and of the
\* operations of that one that it has executed, and sees what they and the
\* statements executed since make of the committed tables ts.
Carries(l, d, ts, seen) ==
    /\ l.pc \in {"ensure", "scan"} => l.at = 1 /\ l.ps = NewProjectState
    /\ l.pc = "loop" => l.ps = StateAt(l, l.at - 1)
    /\ l.pc \in {"tx", "commit"} =>
          l.ps = Operations!Held(StateAt(l, l.at - 1), OpsOf(l))[l.op - 1]
    /\ l.pc = "tx" /\ l.op <= Len(OpsOf(l)) =>
          /\ \E x : Done(l, d, ts)[l.op - 1] = Good(d, l.ps, x)
          /\ Now(l, d, ts)[l.stmt - 1] = Good(d, l.ps, seen)
          /\ l.stmt = 1 \/ l.stmt <= Len(SQL(OpsOf(l)[l.op], l.ps))
    /\ l.pc = "commit" \/ (l.pc = "tx" /\ ~ (l.op <= Len(OpsOf(l)))) =>
          /\ l.op = Len(OpsOf(l)) + 1
          /\ Done(l, d, ts)[l.op - 1] = Good(d, l.ps, seen)

ProgressInv ==
    \A p \in Runner :
        proc[p].pc # "idle" => Carries(proc[p], dialect, tables, Seen(p).tables)

\* What is known of a run in every state.
Proper(l) ==
    /\ l.pc \in Pcs /\ Len(l.migs) \in Nat /\ DOMAIN l.migs = 1 .. Len(l.migs)
    /\ \A j \in 1 .. Len(l.migs) : l.migs[j] \in Index
    /\ l.at \in 1 .. Len(l.migs) + 1 /\ l.op \in Nat /\ l.stmt \in 1 .. 4

LEMMA ProcProper ==
    ASSUME NEW p \in Runner, TypeInv
    PROVE  /\ Proper(proc[p]) /\ Within(proc[p])
           /\ Mig(p) = MigOf(proc[p]) /\ Ops(p) = OpsOf(proc[p])
           /\ Op(p) = OpsOf(proc[p])[proc[p].op]
           /\ Statements(p) = SQL(OpsOf(proc[p])[proc[p].op], proc[p].ps)
<1>1. PICK S : proc \in [Runner -> Locals(S)]
  BY DEF TypeInv
<1>2. /\ proc[p].pc \in Pcs /\ proc[p].migs \in Seq(Index)
      /\ proc[p].op \in Nat /\ Within(proc[p])
  BY <1>1, LocalFields DEF TypeInv
<1>3. Mig(p) = MigOf(proc[p]) /\ Ops(p) = OpsOf(proc[p])
  BY DEF Mig, MigOf, Ops, OpsOf
<1>4. Op(p) = OpsOf(proc[p])[proc[p].op]
  BY <1>3 DEF Op
<1>5. Proper(proc[p])
  BY <1>2 DEF Proper, Within
<1> QED
  BY <1>2, <1>3, <1>4, <1>5 DEF Statements

LEMMA OpsProper ==
    ASSUME NEW l, Proper(l), l.at <= Len(l.migs)
    PROVE  /\ MigOf(l) \in Index /\ Len(OpsOf(l)) \in Nat \ {0}
           /\ \A k \in 1 .. Len(OpsOf(l)) : IsOperation(OpsOf(l)[k])
<1>1. MigOf(l) \in Index
  BY DEF Proper, MigOf
<1> QED
  BY <1>1, MigsTyped DEF OpsOf

LEMMA StateSteps ==
    ASSUME NEW l, Proper(l)
    PROVE  /\ StateAt(l, 0) = NewProjectState
           /\ \A k \in 1 .. Len(l.migs) :
                 StateAt(l, k) = ApplyAll(StateAt(l, k - 1), Migs[l.migs[k]].ops)
<1> DEFINE s == OpsListed(l.migs)
<1>1. DOMAIN l.migs = 1 .. Len(l.migs) /\ Len(l.migs) \in Nat
  BY DEF Proper
<1>2. Len(s) = Len(l.migs) /\ \A k \in 1 .. Len(l.migs) : s[k] = Migs[l.migs[k]].ops
  BY <1>1 DEF OpsListed
<1> HIDE DEF s
<1>3. /\ Migrations!Held(NewProjectState, s)[0] = NewProjectState
      /\ \A k \in 1 .. Len(s) : Migrations!Held(NewProjectState, s)[k] =
            ApplyAll(Migrations!Held(NewProjectState, s)[k - 1], s[k])
  BY <1>1, <1>2, MigrationsSteps
<1> QED
  BY <1>1, <1>2, <1>3 DEF StateAt, s

-----------------------------------------------------------------------------
(* Progress is kept                                                        *)

\* A run whose transaction has not begun sees the committed tables.
LEMMA CarriesFirst ==
    ASSUME NEW l, Proper(l), l.pc = "tx", l.at <= Len(l.migs), l.op = 1, l.stmt = 1,
           l.ps = StateAt(l, l.at - 1), NEW d, NEW ts
    PROVE  Carries(l, d, ts, ts)
<1>1. Len(OpsOf(l)) \in Nat \ {0}
  BY OpsProper
<1>2. l.op - 1 = 0 /\ l.stmt - 1 = 0 /\ l.op <= Len(OpsOf(l))
  BY <1>1
<1>3. Operations!Held(StateAt(l, l.at - 1), OpsOf(l))[0] = StateAt(l, l.at - 1)
  BY <1>1, OperationsSteps
<1>4. Done(l, d, ts)[0] = Good(d, l.ps, ts)
  BY <1>1, LoopSteps DEF Done
<1>5. Len(SQL(OpsOf(l)[l.op], l.ps)) \in Nat
  <2>1. l.op \in 1 .. Len(OpsOf(l))
    BY <1>1
  <2>2. IsOperation(OpsOf(l)[l.op])
    BY <2>1, OpsProper
  <2>3. Len(SQL(OpsOf(l)[l.op], l.ps)) \in 1 .. 4
    BY <2>2, SqlLength
  <2> QED
    BY <2>3
<1>6. Now(l, d, ts)[0] = Done(l, d, ts)[0]
  BY <1>2, <1>5, ExecSteps DEF Now
<1> QED
  BY <1>2, <1>3, <1>4, <1>6 DEF Carries

\* The operations of a migration, executed to the end.
LEMMA StateAfter ==
    ASSUME NEW l, Proper(l), l.at <= Len(l.migs)
    PROVE  StateAt(l, l.at) = Operations!Held(StateAt(l, l.at - 1), OpsOf(l))[Len(OpsOf(l))]
<1>1. l.at \in 1 .. Len(l.migs) /\ Len(OpsOf(l)) \in Nat
  BY OpsProper DEF Proper
<1>2. StateAt(l, l.at) = ApplyAll(StateAt(l, l.at - 1), OpsOf(l))
  BY <1>1, StateSteps DEF OpsOf, MigOf
<1> QED
  BY <1>1, <1>2, OperationsSteps

\* A statement, in the middle of an operation or at its end.
LEMMA CarriesStatement ==
    ASSUME NEW l, NEW m, NEW d, NEW ts, NEW seen, Proper(l), Proper(m),
           l.pc = "tx", l.at <= Len(l.migs), l.op >= 1, l.op <= Len(OpsOf(l)),
           Carries(l, d, ts, seen), NEW st, st = SQL(OpsOf(l)[l.op], l.ps)[l.stmt],
           CanRun(d, st, seen), Renders(OpsOf(l)[l.op], l.ps),
           m.pc = "tx", m.migs = l.migs, m.at = l.at,
           IF l.stmt < Len(SQL(OpsOf(l)[l.op], l.ps))
           THEN m.ps = l.ps /\ m.op = l.op /\ m.stmt = l.stmt + 1
           ELSE m.ps = ApplyOp(l.ps, OpsOf(l)[l.op]) /\ m.op = l.op + 1 /\ m.stmt = 1
    PROVE  Carries(m, d, ts, Run(st, seen))
<1> DEFINE ops == OpsOf(l)
           op == ops[l.op]
           sql == SQL(op, l.ps)
           after == Run(st, seen)
<1>1. Len(ops) \in Nat /\ l.op \in 1 .. Len(ops) /\ IsOperation(op)
  BY OpsProper DEF Proper
<1>2. Len(sql) \in 1 .. 4 /\ Len(sql) \in Nat
  <2>1. Len(sql) \in 1 .. 4
    BY <1>1, SqlLength
  <2> QED
    BY <2>1
<1>3. MigOf(m) = MigOf(l) /\ OpsOf(m) = ops /\ \A k \in Nat : StateAt(m, k) = StateAt(l, k)
  BY DEF MigOf, OpsOf, StateAt
<1>4. l.at - 1 \in Nat
  BY DEF Proper
<1>5. Done(m, d, ts) = Done(l, d, ts)
  BY <1>3, <1>4 DEF Done
<1>6. /\ l.stmt \in 1 .. Len(sql)
      /\ Now(l, d, ts)[l.stmt - 1] = Good(d, l.ps, seen)
  <2>1. l.stmt \in 1 .. 4 /\ (l.stmt = 1 \/ l.stmt <= Len(sql))
    BY DEF Carries, Proper
  <2>2. Now(l, d, ts)[l.stmt - 1] = Good(d, l.ps, seen)
    BY DEF Carries
  <2>3. l.stmt \in 1 .. Len(sql)
    <3> DEFINE n == Len(sql)
               k == l.stmt
    <3>1. n \in 1 .. 4 /\ k \in 1 .. 4 /\ (k = 1 \/ k <= n)
      BY <1>2, <2>1
    <3> HIDE DEF n, k
    <3>2. k \in 1 .. n
      BY ONLY <3>1
    <3> QED
      BY <3>2 DEF n, k
  <2> QED
    BY <2>2, <2>3
<1>7. Now(l, d, ts)[l.stmt] = Good(d, l.ps, after)
  <2>1. Now(l, d, ts)[l.stmt] = RunStatement(Now(l, d, ts)[l.stmt - 1], sql[l.stmt])
    BY <1>2, <1>6, ExecSteps DEF Now
  <2> QED
    BY <1>6, <2>1, GoodStatement
<1>8. PICK x : Done(l, d, ts)[l.op - 1] = Good(d, l.ps, x)
  BY DEF Carries
<1>9. l.ps = Operations!Held(StateAt(l, l.at - 1), ops)[l.op - 1]
  BY DEF Carries
<1>10. CASE l.stmt < Len(sql)
  <2>1. m.ps = l.ps /\ m.op = l.op /\ m.stmt = l.stmt + 1
    BY <1>10
  <2>2. Now(m, d, ts) = Now(l, d, ts)
    BY <1>3, <1>5, <2>1 DEF Now
  <2>3. m.stmt - 1 = l.stmt /\ m.stmt <= Len(sql)
    <3> HIDE DEF sql
    <3> QED
      BY <1>2, <1>6, <1>10, <2>1
  <2>4. Now(m, d, ts)[m.stmt - 1] = Good(d, m.ps, after)
    BY <1>7, <2>1, <2>2, <2>3
  <2>5. Done(m, d, ts)[m.op - 1] = Good(d, m.ps, x)
    BY <1>5, <1>8, <2>1
  <2>6. m.ps = Operations!Held(StateAt(m, m.at - 1), OpsOf(m))[m.op - 1]
    BY <1>3, <1>4, <1>9, <2>1
  <2>7. m.op <= Len(OpsOf(m)) /\ SQL(OpsOf(m)[m.op], m.ps) = sql
    BY <1>3, <2>1
  <2> HIDE DEF sql, ops, op, after
  <2>8. Carries(m, d, ts, after)
    BY <2>3, <2>4, <2>5, <2>6, <2>7 DEF Carries
  <2> QED
    BY <2>8 DEF after
<1>11. CASE ~ (l.stmt < Len(sql))
  <2>1. m.ps = ApplyOp(l.ps, op) /\ m.op = l.op + 1 /\ m.stmt = 1
    BY <1>11
  <2>2. l.stmt = Len(sql)
    <3> HIDE DEF sql
    <3> QED
      BY <1>2, <1>6, <1>11
  <2>3. Exec!Fold(Good(d, l.ps, x), sql) = Good(d, l.ps, after)
    BY <1>2, <1>7, <1>8, <2>2, ExecSteps DEF Now
  <2>4. RunOperation(Good(d, l.ps, x), op) = Good(d, m.ps, after)
    BY <2>1, <2>3, GoodOperation
  <2>5. Done(l, d, ts)[l.op] = RunOperation(Done(l, d, ts)[l.op - 1], op)
    BY <1>1, LoopSteps DEF Done
  <2>6. Done(m, d, ts)[m.op - 1] = Good(d, m.ps, after)
    <3>1. m.op - 1 = l.op
      BY <1>1, <2>1
    <3> QED
      BY <1>5, <1>8, <2>4, <2>5, <3>1
  <2>7. m.ps = Operations!Held(StateAt(m, m.at - 1), OpsOf(m))[m.op - 1]
    <3>1. m.op - 1 = l.op
      BY <1>1, <2>1
    <3>2. Operations!Held(StateAt(l, l.at - 1), ops)[l.op] =
            ApplyOp(Operations!Held(StateAt(l, l.at - 1), ops)[l.op - 1], op)
      BY <1>1, OperationsSteps
    <3> QED
      BY <1>3, <1>4, <1>9, <2>1, <3>1, <3>2
  <2>8. ASSUME m.op <= Len(OpsOf(m))
        PROVE  Now(m, d, ts)[m.stmt - 1] = Good(d, m.ps, after)
    <3>1. m.op \in 1 .. Len(ops)
      BY <1>1, <1>3, <2>1, <2>8
    <3>2. IsOperation(OpsOf(m)[m.op])
      BY <1>3, <3>1, OpsProper
    <3>3. Len(SQL(OpsOf(m)[m.op], m.ps)) \in 1 .. 4
      BY <3>2, SqlLength
    <3>4. Now(m, d, ts)[0] = Done(m, d, ts)[m.op - 1]
      BY <3>3, ExecSteps DEF Now
    <3> QED
      BY <2>1, <2>6, <3>4
  <2>9. ~ (m.op <= Len(OpsOf(m))) => m.op = Len(OpsOf(m)) + 1
    BY <1>1, <1>3, <2>1
  <2>10. m.stmt = 1
    BY <2>1
  <2> HIDE DEF sql, ops, op, after
  <2>11. Carries(m, d, ts, after)
    BY <2>6, <2>7, <2>8, <2>9, <2>10 DEF Carries
  <2> QED
    BY <2>11 DEF after
<1> QED
  BY <1>10, <1>11

\* A step of one run, and the transaction and tables that the others see.
LEMMA OthersSee ==
    ASSUME NEW p \in Runner, TypeInv, LockInv, Acts(p)
    PROVE  /\ tx.by \in {None, p} => tx'.by \in {None, p}
           /\ tx.by \notin {None, p} => tx' = tx /\ tables' = tables
<1>1. CASE ExecStatement(p)
  <2>1. tx.by \in {None, p}
    BY <1>1 DEF ExecStatement, CanWrite
  <2>2. tx'.by = p
    BY <1>1, TxByAction, TxIsFields
  <2> QED
    BY <2>1, <2>2
<1>2. CASE RecordApplied(p)
  <2>1. tx.by = p
    BY <1>2, PastOps
  <2>2. TxIs(tx.by, tx.tables, Append(tx.recorded, Mig(p)))
    BY <1>2, TxByAction
  <2>3. tx'.by = tx.by
    BY <2>2, TxIsFields
  <2> QED
    BY <2>1, <2>3
<1>3. CASE Commit(p)
  <2>1. tx.by = p
    BY <1>3 DEF Commit, LockInv, Holds
  <2>2. tx'.by = None
    BY <1>3, TxByAction, TxIsFields
  <2> QED
    BY <2>1, <2>2, NoneAssumption
<1>4. CASE StatementFails(p) \/ Interrupt(p)
  <2>1. IF tx.by = p THEN TxIs(None, <<>>, <<>>) ELSE tx' = tx
    BY <1>4, TxByAction
  <2>2. tx.by = p => tx'.by = None
    BY <2>1, TxIsFields
  <2>3. tables' = tables
    BY <1>4 DEF StatementFails, Interrupt
  <2> QED
    BY <2>1, <2>2, <2>3, NoneAssumption
<1>5. CASE Start(p) \/ EnsureTable(p) \/ AppliedSet(p) \/ Finish(p) \/ Skip(p) \/ BeginTx(p)
  BY <1>5 DEF Start, EnsureTable, AppliedSet, Finish, Skip, BeginTx
<1> QED
  BY <1>1, <1>2, <1>3, <1>4, <1>5 DEF Acts

\* What a run carries does not change with the steps of others: either it
\* holds the lock, or its transaction has not begun.
LEMMA CarriesOn ==
    ASSUME NEW q \in Runner, TypeInv, LockInv, ProgressInv, proc[q].pc # "idle",
           dialect' = dialect, proc'[q] = proc[q],
           tx.by # q => tx'.by # q,
           tx.by = q => tx' = tx /\ tables' = tables
    PROVE  Carries(proc[q], dialect, tables', Seen(q)'.tables)
<1> DEFINE l == proc[q]
<1>1. Carries(l, dialect, tables, Seen(q).tables)
  BY DEF ProgressInv
<1>2. CASE tx.by = q
  BY <1>1, <1>2 DEF Seen
<1>3. CASE tx.by # q /\ l.pc \notin {"tx", "commit"}
  BY <1>1, <1>3 DEF Carries
<1>4. CASE tx.by # q /\ l.pc \in {"tx", "commit"}
  <2>1. l.pc = "tx" /\ l.op <= 1 /\ l.stmt <= 1
    <3>1. l.pc # "commit"
      BY <1>4 DEF LockInv, Holds
    <3>2. ~ (l.op > 1 \/ l.stmt > 1)
      BY <1>4, <3>1 DEF LockInv, Holds
    <3>3. l.op \in Nat /\ l.stmt \in 1 .. 4
      BY ProcProper DEF Proper
    <3> QED
      BY <1>4, <3>1, <3>2, <3>3
  <2>2. Proper(l) /\ l.at <= Len(l.migs)
    BY <2>1, ProcProper DEF Within
  <2>3. l.op \in 1 .. Len(OpsOf(l)) + 1 /\ Len(OpsOf(l)) \in Nat \ {0}
    <3>1. Len(OpsOf(l)) \in Nat \ {0}
      BY <2>2, OpsProper
    <3> QED
      BY <2>1, <3>1, ProcProper DEF Within, OpsOf, MigOf
  <2>4. l.stmt = 1 /\ l.op = 1
    BY <2>1, <2>2, <2>3 DEF Proper
  <2>5. l.ps = StateAt(l, l.at - 1)
    <3>1. l.ps = Operations!Held(StateAt(l, l.at - 1), OpsOf(l))[0]
      BY <1>1, <2>1, <2>4 DEF Carries
    <3> QED
      BY <2>3, <3>1, OperationsSteps
  <2>6. Seen(q)'.tables = tables'
    BY <1>4 DEF Seen
  <2> QED
    BY <2>1, <2>2, <2>4, <2>5, <2>6, CarriesFirst
<1> QED
  BY <1>2, <1>3, <1>4

\* What the run that takes a step carries after it.
LEMMA CarriesAct ==
    ASSUME NEW p \in Runner, TypeInv, TypeInv', LockInv, LockInv', ProgressInv, Acts(p),
           dialect' = dialect, proc'[p].pc # "idle"
    PROVE  Carries(proc'[p], dialect, tables', Seen(p)'.tables)
<1> DEFINE l == proc[p]
           m == proc'[p]
<1>1. /\ Proper(l) /\ Within(l) /\ Mig(p) = MigOf(l) /\ Ops(p) = OpsOf(l)
      /\ Op(p) = OpsOf(l)[l.op] /\ Statements(p) = SQL(OpsOf(l)[l.op], l.ps)
  BY ProcProper
<1>2. Proper(m)
  <2>1. PICK S : proc' \in [Runner -> Locals(S)]
    BY DEF TypeInv
  <2>2. /\ m.pc \in Pcs /\ m.migs \in Seq(Index) /\ m.op \in Nat /\ Within(m)
    BY <2>1, LocalFields DEF TypeInv
  <2> QED
    BY <2>2 DEF Proper, Within
<1>3. l.pc # "idle" => Carries(l, dialect, tables, Seen(p).tables)
  BY DEF ProgressInv
<1>4. CASE Start(p)
  <2>1. m.pc = "ensure" /\ m.at = 1 /\ m.ps = NewProjectState
    BY <1>4, MovesByAction DEF Moves, LocalsAre
  <2> QED
    BY <2>1 DEF Carries
<1>5. CASE EnsureTable(p)
  <2>1. l.pc = "ensure" /\ m.pc = "scan" /\ m.at = l.at /\ m.ps = l.ps
    BY <1>5, MovesByAction DEF Moves, LocalsAre, EnsureTable
  <2> QED
    BY <1>3, <2>1 DEF Carries
<1>6. CASE AppliedSet(p)
  <2>1. l.pc = "scan" /\ m.pc = "loop" /\ m.at = l.at /\ m.ps = l.ps
    BY <1>6, MovesByAction DEF Moves, LocalsAre, AppliedSet
  <2>2. m.at = 1 /\ m.ps = NewProjectState
    BY <1>3, <2>1 DEF Carries
  <2>3. m.ps = StateAt(m, m.at - 1)
    <3>1. m.at - 1 = 0
      BY <2>2
    <3> QED
      BY <1>2, <2>2, <3>1, StateSteps
  <2> QED
    BY <2>1, <2>3 DEF Carries
<1>7. CASE Skip(p)
  <2>1. l.pc = "loop" /\ l.at <= Len(l.migs)
    BY <1>7 DEF Skip, More
  <2>2. m.pc = "loop" /\ m.at = l.at + 1 /\ m.migs = l.migs /\ m.ps = ApplyAll(l.ps, Ops(p))
    BY <1>7, <2>1, MovesByAction DEF Moves, LocalsAre
  <2>3. l.ps = StateAt(l, l.at - 1)
    BY <1>3, <2>1 DEF Carries
  <2>4. l.at \in 1 .. Len(l.migs) /\ m.at - 1 = l.at
    BY <1>1, <2>1, <2>2 DEF Proper
  <2>5. StateAt(l, l.at) = m.ps
    BY <1>1, <2>2, <2>3, <2>4, StateSteps DEF OpsOf, MigOf
  <2>6. m.ps = StateAt(m, m.at - 1)
    BY <2>2, <2>4, <2>5 DEF StateAt
  <2> QED
    BY <2>2, <2>6 DEF Carries
<1>8. CASE BeginTx(p)
  <2>1. l.pc = "loop" /\ l.at <= Len(l.migs) /\ tx' = tx
    BY <1>8 DEF BeginTx, More
  <2>2. m.pc = "tx" /\ m.at = l.at /\ m.migs = l.migs /\ m.ps = l.ps /\ m.op = 1 /\ m.stmt = 1
    BY <1>8, MovesByAction DEF Moves, LocalsAre
  <2>3. m.ps = StateAt(m, m.at - 1)
    BY <1>3, <2>1, <2>2 DEF Carries, StateAt
  <2>4. tx.by # p
    BY <2>1, TxFields, NoneAssumption DEF LockInv
  <2>5. Seen(p)'.tables = tables'
    BY <2>1, <2>4 DEF Seen
  <2> QED
    BY <1>2, <2>1, <2>2, <2>3, <2>5, CarriesFirst
<1>9. CASE ExecStatement(p)
  <2> DEFINE st == Statements(p)[l.stmt]
             seen == Seen(p).tables
  <2>1. /\ l.pc = "tx" /\ l.op <= Len(Ops(p)) /\ Renders(Op(p), l.ps)
        /\ CanRun(dialect, st, seen) /\ tables' = tables
    BY <1>9 DEF ExecStatement, InOps
  <2>2. tx'.by = p /\ tx'.tables = Run(st, seen)
    BY <1>9, TxByAction, TxIsFields
  <2>3. Seen(p)'.tables = Run(st, seen)
    BY <2>2 DEF Seen
  <2>4. m.pc = "tx" /\ m.migs = l.migs /\ m.at = l.at
    BY <1>9, <2>1, MovesByAction DEF Moves, LocalsAre
  <2>5. IF l.stmt < Len(Statements(p))
        THEN m.ps = l.ps /\ m.op = l.op /\ m.stmt = l.stmt + 1
        ELSE m.ps = ApplyOp(l.ps, Op(p)) /\ m.op = l.op + 1 /\ m.stmt = 1
    BY <1>9, MovesByAction DEF Moves, LocalsAre
  <2>6. Carries(l, dialect, tables, seen)
    BY <1>3, <2>1
  <2>7. l.at <= Len(l.migs) /\ l.op >= 1
    <3>1. l.at <= Len(l.migs) /\ l.op \in 1 .. Len(Migs[l.migs[l.at]].ops) + 1
      BY <1>1, <2>1 DEF Within
    <3>2. Len(Migs[l.migs[l.at]].ops) \in Nat
      BY <1>1, <3>1, OpsProper DEF OpsOf, MigOf
    <3> QED
      BY <3>1, <3>2
  <2> HIDE DEF l, m, seen
  <2>8. Carries(m, dialect, tables, Run(st, seen))
    BY <1>1, <1>2, <2>1, <2>4, <2>5, <2>6, <2>7, CarriesStatement
  <2> QED
    BY <2>1, <2>3, <2>8 DEF m
<1>10. CASE RecordApplied(p)
  <2>1. l.pc = "tx" /\ ~ (l.op <= Len(OpsOf(l))) /\ tables' = tables
    BY <1>1, <1>10 DEF RecordApplied, InOps
  <2>2. tx.by = p
    BY <1>10, PastOps
  <2>3. TxIs(tx.by, tx.tables, Append(tx.recorded, Mig(p)))
    BY <1>10, TxByAction
  <2>4. tx'.by = p /\ tx'.tables = tx.tables
    BY <2>2, <2>3, TxIsFields
  <2>5. Seen(p)'.tables = Seen(p).tables
    BY <2>2, <2>4 DEF Seen
  <2>6. m.pc = "commit" /\ m.migs = l.migs /\ m.at = l.at /\ m.ps = l.ps /\ m.op = l.op
    BY <1>10, MovesByAction DEF Moves, LocalsAre
  <2>7. Carries(l, dialect, tables, Seen(p).tables)
    BY <1>3, <2>1
  <2>8. MigOf(m) = MigOf(l) /\ OpsOf(m) = OpsOf(l) /\ StateAt(m, m.at - 1) = StateAt(l, l.at - 1)
    BY <2>6 DEF MigOf, OpsOf, StateAt
  <2>9. Done(m, dialect, tables) = Done(l, dialect, tables)
    BY <2>8 DEF Done
  <2> QED
    BY <2>1, <2>5, <2>6, <2>7, <2>8, <2>9 DEF Carries
<1>11. CASE Commit(p)
  <2>1. l.pc = "commit" /\ l.at <= Len(l.migs)
    BY <1>1, <1>11 DEF Commit, Within
  <2>2. m.pc = "loop" /\ m.migs = l.migs /\ m.at = l.at + 1 /\ m.ps = l.ps
    BY <1>11, MovesByAction DEF Moves, LocalsAre
  <2>3. Carries(l, dialect, tables, Seen(p).tables)
    BY <1>3, <2>1
  <2>4. l.op = Len(OpsOf(l)) + 1 /\ Len(OpsOf(l)) \in Nat
    BY <1>1, <2>1, <2>3, OpsProper DEF Carries
  <2>5. l.op - 1 = Len(OpsOf(l))
    BY <2>4
  <2>6. l.ps = StateAt(l, l.at)
    BY <1>1, <2>1, <2>3, <2>5, StateAfter DEF Carries
  <2>7. m.at - 1 = l.at
    BY <1>1, <2>2 DEF Proper
  <2>8. m.ps = StateAt(m, m.at - 1)
    BY <2>2, <2>6, <2>7 DEF StateAt
  <2> QED
    BY <2>2, <2>8 DEF Carries
<1>12. CASE StatementFails(p) \/ Finish(p) \/ Interrupt(p)
  BY <1>12, MovesByAction DEF Moves, LocalsAre, Stays
<1> QED
  BY <1>4, <1>5, <1>6, <1>7, <1>8, <1>9, <1>10, <1>11, <1>12 DEF Acts

LEMMA ProgressStep ==
    ASSUME TypeInv, TypeInv', LockInv, LockInv', ProgressInv, [Next]_vars
    PROVE  ProgressInv'
<1>0. dialect' = dialect
  BY StepKinds
<1>1. ASSUME NEW p \in Runner, Acts(p)
      PROVE  ProgressInv'
  <2>1. ASSUME NEW q \in Runner, proc'[q].pc # "idle"
        PROVE  Carries(proc'[q], dialect, tables', Seen(q)'.tables)
    <3>1. CASE q = p
      BY <1>0, <1>1, <2>1, <3>1, CarriesAct
    <3>2. CASE q # p
      <4>1. proc'[q] = proc[q]
        BY <1>1, <3>2, MovesByAction DEF Acts, Moves, Stays, Others
      <4>2. tx.by # q => tx'.by # q
        BY <1>1, <3>2, OthersSee, NoneAssumption
      <4>3. tx.by = q => tx' = tx /\ tables' = tables
        BY <1>1, <3>2, OthersSee, NoneAssumption
      <4> QED
        BY <1>0, <2>1, <4>1, <4>2, <4>3, CarriesOn
    <3> QED
      BY <3>1, <3>2
  <2> QED
    BY <1>0, <2>1 DEF ProgressInv
<1>2. ASSUME proc' = proc, tx' = tx, tx.by = None \/ tables' = tables
      PROVE  ProgressInv'
  <2>1. ASSUME NEW q \in Runner, proc[q].pc # "idle"
        PROVE  Carries(proc[q], dialect, tables', Seen(q)'.tables)
    BY <1>0, <1>2, <2>1, CarriesOn, NoneAssumption
  <2> QED
    BY <1>0, <1>2, <2>1 DEF ProgressInv
<1>3. ASSUME NEW i, Deploy(i) PROVE ProgressInv'
  BY <1>2, <1>3, DeployFrame
<1>4. ASSUME NEW t, NEW r, Insert(t, r) PROVE ProgressInv'
  BY <1>2, <1>4, InsertFrame
<1>5. CASE UNCHANGED vars
  BY <1>2, <1>5 DEF vars
<1> QED
  BY <1>1, <1>3, <1>4, <1>5, StepKinds

LEMMA ProgressInit == Init => ProgressInv
  BY DEF Init, ProgressInv, Idle

-----------------------------------------------------------------------------
(* A commit is one step of the log                                         *)

\* What a commit makes of the tables is what the migration's transaction makes
\* of them from begin to end, each operation with its SQL against the state of
\* everything listed before it.
CommitsWhole(p) ==
    LET l == proc[p]
        end == Attempt(dialect, OpsOf(l), StateAt(l, l.at - 1), tables)
    IN Commit(p) => /\ end.ok /\ tables' = end.tables
                    /\ recorded' = Append(recorded, MigOf(l))

LEMMA CommitWhole ==
    ASSUME NEW p \in Runner, TypeInv, LockInv, ProgressInv
    PROVE  CommitsWhole(p)
<1> DEFINE l == proc[p]
           base == StateAt(l, l.at - 1)
           done == Done(l, dialect, tables)
<1> SUFFICES ASSUME Commit(p)
             PROVE  /\ Attempt(dialect, OpsOf(l), base, tables).ok
                    /\ tables' = Attempt(dialect, OpsOf(l), base, tables).tables
                    /\ recorded' = Append(recorded, MigOf(l))
  BY DEF CommitsWhole
<1>1. l.pc = "commit" /\ tables' = tx.tables /\ recorded' = tx.recorded
  BY DEF Commit
<1>2. tx.by = p /\ tx.recorded = Append(recorded, MigOf(l))
  BY <1>1 DEF LockInv, Holds
<1>3. Carries(l, dialect, tables, tx.tables)
  BY <1>1, <1>2 DEF ProgressInv, Seen
<1>4. Len(OpsOf(l)) \in Nat
  BY <1>1, ProcProper, OpsProper DEF Within
<1>5. l.op - 1 = Len(OpsOf(l)) /\ done[l.op - 1] = Good(dialect, l.ps, tx.tables)
  BY <1>1, <1>3, <1>4 DEF Carries
<1>6. Attempt(dialect, OpsOf(l), base, tables) = Good(dialect, l.ps, tx.tables)
  <2>1. Attempt(dialect, OpsOf(l), base, tables) =
          Loop!Fold(Good(dialect, base, tables), OpsOf(l))
    BY DEF Attempt, Good
  <2>2. Loop!Fold(Good(dialect, base, tables), OpsOf(l)) = done[Len(OpsOf(l))]
    BY <1>4, LoopSteps DEF Done
  <2> QED
    BY <1>5, <2>1, <2>2
<1>7. Good(dialect, l.ps, tx.tables).ok /\ Good(dialect, l.ps, tx.tables).tables = tx.tables
  BY DEF Good
<1> QED
  BY <1>1, <1>2, <1>6, <1>7

\* The state of the migrations before the one a run is at.
LEMMA ReplayBefore ==
    ASSUME NEW l, Proper(l), l.at <= Len(l.migs),
           \A j, k \in 1 .. Len(l.migs) : j < k => l.migs[j] < l.migs[k]
    PROVE  Replay(Before(l)) = StateAt(l, l.at - 1)
<1> DEFINE n == l.at - 1
           f == [k \in 1 .. n |-> l.migs[k]]
           B == Before(l)
           s == OpsListed(f)
           t == OpsListed(l.migs)
<1>1. n \in Nat /\ n <= Len(l.migs) /\ Len(l.migs) \in Nat /\ DOMAIN l.migs = 1 .. Len(l.migs)
  BY DEF Proper
<1>2. B = {l.migs[k] : k \in 1 .. n}
  BY DEF Before
<1> HIDE DEF n, B
<1>3. \A k \in 1 .. n : k \in 1 .. Len(l.migs) /\ l.migs[k] \in Nat
  BY <1>1, IndexFinite DEF Proper
<1>4. B \subseteq Nat /\ f \in [1 .. n -> B] /\ \A i \in B : \E k \in 1 .. n : f[k] = i
  BY <1>2, <1>3
<1>5. Ordered!Increases(f, n)
  BY <1>3 DEF Ordered!Increases
<1> HIDE DEF f
<1>6. f = Ordered!InOrder(B)
  BY <1>1, <1>4, <1>5, Ordered!InOrderUnique
<1>7. Listed(B) = f
  BY <1>6, SameSets DEF Listed
<1>8. Replay(B) = Migrations!Fold(NewProjectState, s)
  BY <1>7 DEF Replay, StateFromMigrations, OpsListed
<1>9. Len(s) = n /\ Len(t) = Len(l.migs) /\ \A k \in 1 .. n : s[k] = t[k]
  <2>1. DOMAIN f = 1 .. n /\ \A k \in 1 .. n : f[k] = l.migs[k]
    BY <1>1 DEF f
  <2>2. Len(s) = n /\ \A k \in 1 .. n : s[k] = Migs[l.migs[k]].ops
    BY <1>1, <2>1 DEF OpsListed
  <2>3. Len(t) = Len(l.migs) /\ \A k \in 1 .. Len(l.migs) : t[k] = Migs[l.migs[k]].ops
    BY <1>1 DEF OpsListed
  <2> QED
    BY <1>3, <2>2, <2>3
<1> HIDE DEF s, t
<1>10. Migrations!Fold(NewProjectState, s) = Migrations!Held(NewProjectState, s)[n]
  BY <1>1, <1>9, MigrationsSteps
<1>11. Migrations!Held(NewProjectState, s)[n] = Migrations!Held(NewProjectState, t)[n]
  BY <1>1, <1>9, MigrationsAgree
<1> QED
  BY <1>8, <1>10, <1>11 DEF B, n, t, StateAt

LEMMA CommitIsApply ==
    ASSUME NEW p \in Runner, TypeInv, LockInv, ProgressInv, LogInv, Commit(p)
    PROVE  Mig(p) \in Index /\ Log!Apply(Mig(p))
<1> DEFINE l == proc[p]
           i == MigOf(l)
           before == {j \in ToSet(recorded) : j < i}
<1>1. l.pc = "commit" /\ deployed' = deployed
  BY DEF Commit
<1>2. Proper(l) /\ l.at <= Len(l.migs) /\ Mig(p) = i
  BY <1>1, ProcProper DEF Within
<1>3. Tracks(l, recorded, deployed)
  BY <1>1 DEF LogInv
<1>4. /\ l.at \in 1 .. Len(l.migs) /\ DOMAIN l.migs = 1 .. Len(l.migs) /\ Len(l.migs) \in Nat
      /\ \A j \in 1 .. Len(l.migs) : l.migs[j] \in Nat /\ l.migs[j] \in Index
  BY <1>2, IndexFinite DEF Proper
<1>5. \A j, k \in 1 .. Len(l.migs) : j < k => l.migs[j] < l.migs[k]
  BY <1>3 DEF Tracks
<1>6. i \notin ToSet(recorded)
  BY <1>1, <1>3, <1>4, NotRecorded
<1>7. i \in Index /\ i \in deployed
  <2>1. i = l.migs[l.at] /\ i \in ToSet(l.migs)
    BY <1>4 DEF MigOf, ToSet
  <2> QED
    BY <1>3, <1>4, <2>1 DEF Tracks
<1>8. before = Before(l)
  <2>1. ASSUME NEW j \in Before(l) PROVE j \in before
    <3>1. PICK k \in 1 .. l.at - 1 : j = l.migs[k]
      BY DEF Before
    <3>2. k \in 1 .. Len(l.migs) /\ k < l.at
      BY <1>4, <3>1
    <3>3. j < i
      BY <1>4, <1>5, <3>1, <3>2 DEF MigOf
    <3>4. j \in ToSet(recorded)
      BY <1>1, <1>3 DEF Tracks
    <3> QED
      BY <3>3, <3>4
  <2>2. ASSUME NEW j \in ToSet(recorded), j < i PROVE j \in Before(l)
    <3>1. j \in ToSet(l.migs)
      BY <1>3 DEF Tracks
    <3>2. PICK k \in 1 .. Len(l.migs) : j = l.migs[k]
      BY <1>4, <3>1 DEF ToSet
    <3>3. l.migs[k] < l.migs[l.at]
      BY <2>2, <3>2 DEF MigOf
    <3>4. ~ (l.at < k) /\ k # l.at
      BY <1>4, <1>5, <3>2, <3>3
    <3>5. k \in 1 .. l.at - 1
      BY <1>4, <3>2, <3>4
    <3> QED
      BY <3>2, <3>5 DEF Before
  <2> QED
    BY <2>1, <2>2
<1>9. Log!Replay(before) = StateAt(l, l.at - 1)
  BY <1>2, <1>5, <1>8, ReplayBefore, SameReplay
<1>10. Len(Migs[i].ops) \in Nat
  BY <1>7, MigsTyped
<1>11. Log!Attempt(dialect, Migs[i].ops, Log!Replay(before), tables) =
          Attempt(dialect, OpsOf(l), StateAt(l, l.at - 1), tables)
  BY <1>9, <1>10, SameAttempt DEF OpsOf
<1>12. CommitsWhole(p)
  BY CommitWhole
<1>13. /\ Attempt(dialect, OpsOf(l), StateAt(l, l.at - 1), tables).ok
       /\ tables' = Attempt(dialect, OpsOf(l), StateAt(l, l.at - 1), tables).tables
       /\ recorded' = Append(recorded, i)
  BY <1>12 DEF CommitsWhole
<1>14. Log!ToSet(recorded) = ToSet(recorded)
  BY DEF Log!ToSet, ToSet
<1> HIDE DEF i
<1>15. Log!Apply(i)
  BY <1>1, <1>6, <1>7, <1>11, <1>13, <1>14 DEF Log!Apply
<1> QED
  BY <1>2, <1>7, <1>15

LEMMA LogSteps ==
    ASSUME TypeInv, LockInv, ProgressInv, LogInv, [Next]_vars
    PROVE  [Log!Next]_(Log!vars)
<1>0. dialect' = dialect
  BY StepKinds
<1>1. ASSUME NEW p \in Runner, Acts(p)
      PROVE  [Log!Next]_(Log!vars)
  <2>1. CASE Commit(p)
    <3>1. Mig(p) \in Index /\ Log!Apply(Mig(p))
      BY <2>1, CommitIsApply
    <3> QED
      BY <1>0, <3>1 DEF Log!Next, Log!Index, Index
  <2>2. CASE ~ Commit(p)
    BY <1>0, <1>1, <2>2, ActFrame DEF Log!vars
  <2> QED
    BY <2>1, <2>2
<1>2. ASSUME NEW i \in Index, Deploy(i)
      PROVE  Log!Next
  <2>1. Log!Deploy(i)
    BY <1>2, DeployFrame DEF Log!Deploy, Log!Index, Index
  <2> QED
    BY <1>0, <2>1 DEF Log!Next, Log!Index, Index
<1>3. ASSUME NEW t \in DOMAIN tables, NEW r \in RowId, Insert(t, r)
      PROVE  Log!Next
  <2>1. Log!Insert(t, r)
    BY <1>3 DEF Insert
  <2> QED
    BY <1>0, <2>1 DEF Log!Next
<1>4. CASE UNCHANGED vars
  BY <1>4 DEF vars, Log!vars
<1> QED
  BY <1>1, <1>2, <1>3, <1>4, StepKinds

-----------------------------------------------------------------------------
\* Whatever is interrupted where, and however runs overlap: a migration takes
\* effect with the COMMIT of its transaction, all of its statements at once and
\* with its tracking row, on the tables that are committed at that moment.
THEOREM AppliedAsAWhole == Spec => [][\A p \in Runner : CommitsWhole(p)]_vars
<1>1. Init => TypeInv /\ LockInv /\ ProgressInv
  BY TypeInit, LockInit, ProgressInit
<1>2. TypeInv /\ LockInv /\ ProgressInv /\ [Next]_vars => (TypeInv /\ LockInv /\ ProgressInv)'
  BY TypeStep, LockStep, ProgressStep
<1>3. TypeInv /\ LockInv /\ ProgressInv => \A p \in Runner : CommitsWhole(p)
  BY CommitWhole
<1> QED
  BY <1>1, <1>2, <1>3, PTL DEF Spec

\* ImplementsMigrationLog: if no two runs of migrate overlap, every behaviour of
\* the runner is one of the log, in which a migration and its tracking row take
\* effect in one step, on the state that the recorded ones before it add up to.
THEOREM RunnerImplementsLog == Spec /\ []RunsApart => ImplementsMigrationLog
<1>1. Init => TypeInv /\ LockInv /\ ProgressInv /\ LogInv /\ Log!Init
  <2>1. Init => Log!Init
    BY DEF Init, Log!Init
  <2> QED
    BY <2>1, TypeInit, LockInit, ProgressInit, LogInit
<1>2. /\ TypeInv /\ LockInv /\ ProgressInv /\ LogInv /\ RunsApart /\ [Next]_vars
      => (TypeInv /\ LockInv /\ ProgressInv /\ LogInv)'
  BY TypeStep, LockStep, ProgressStep, LogStep
<1>3. TypeInv /\ LockInv /\ ProgressInv /\ LogInv /\ [Next]_vars => [Log!Next]_(Log!vars)
  BY LogSteps
<1> QED
  BY <1>1, <1>2, <1>3, PTL DEF Spec, ImplementsMigrationLog, Log!Spec

-----------------------------------------------------------------------------
(* Replay, migration by migration                                          *)

LEMMA ReplayEmpty == Replay({}) = NewProjectState
<1> DEFINE f == Listed({})
           s == OpsListed(f)
<1>1. {} \subseteq Index /\ Cardinality({}) = 0
  BY FS_EmptySet
<1>2. f \in Seq(Index) /\ Len(f) = 0
  BY <1>1, ListedLists
<1>3. Replay({}) = Migrations!Fold(NewProjectState, s)
  BY DEF Replay, StateFromMigrations, OpsListed
<1> HIDE DEF f
<1>4. Len(s) = 0
  BY <1>2 DEF OpsListed
<1> HIDE DEF s
<1> QED
  BY <1>3, <1>4, MigrationsSteps

\* The last migration of a set is applied last.
LEMMA ReplayNext ==
    ASSUME NEW D, D \subseteq Index, NEW i \in Index, \A j \in D : j < i
    PROVE  Replay(D \cup {i}) = ApplyAll(Replay(D), Migs[i].ops)
<1> DEFINE n == Cardinality(D)
           g == Listed(D)
           f == [k \in 1 .. n + 1 |-> IF k <= n THEN g[k] ELSE i]
           E == D \cup {i}
           s == OpsListed(g)
           t == OpsListed(f)
<1>1. /\ n \in Nat /\ g \in Seq(Index) /\ Len(g) = n
      /\ \A k \in 1 .. n : g[k] \in D
      /\ \A k, l \in 1 .. n : k < l => g[k] < g[l]
      /\ \A j \in D : \E k \in 1 .. n : g[k] = j
  BY ListedLists
<1>2. DOMAIN g = 1 .. n /\ E \subseteq Nat /\ n + 1 \in Nat
  BY <1>1, IndexFinite
<1> HIDE DEF n, g
<1>3. /\ n + 1 \in 1 .. n + 1
      /\ \A k \in 1 .. n : k \in 1 .. n + 1 /\ k <= n
      /\ \A k \in 1 .. n + 1 : k \in 1 .. n \/ (k = n + 1 /\ ~ (k <= n))
  BY <1>1
<1>4. f \in [1 .. n + 1 -> E] /\ f[n + 1] = i /\ \A k \in 1 .. n : f[k] = g[k]
  BY <1>1, <1>3
<1> HIDE DEF f
<1>5. Ordered!Increases(f, n + 1)
  <2>1. ASSUME NEW k \in 1 .. n + 1, NEW l \in 1 .. n + 1, k < l PROVE f[k] < f[l]
    <3>1. k \in 1 .. n
      BY <1>1, <2>1
    <3>2. CASE l \in 1 .. n
      BY <1>1, <1>4, <2>1, <3>1, <3>2
    <3>3. CASE l = n + 1
      BY <1>1, <1>4, <3>1, <3>3
    <3> QED
      BY <1>3, <3>2, <3>3
  <2> QED
    BY <2>1 DEF Ordered!Increases
<1>6. \A j \in E : \E k \in 1 .. n + 1 : f[k] = j
  BY <1>1, <1>3, <1>4
<1>7. Listed(E) = f
  <2>1. f = Ordered!InOrder(E)
    BY <1>2, <1>4, <1>5, <1>6, Ordered!InOrderUnique
  <2> QED
    BY <2>1, SameSets DEF Listed
<1>8. Replay(E) = Migrations!Fold(NewProjectState, t)
  BY <1>7 DEF Replay, StateFromMigrations, OpsListed
<1>9. Replay(D) = Migrations!Fold(NewProjectState, s)
  BY DEF Replay, StateFromMigrations, OpsListed, g
<1>10. Len(s) = n /\ \A k \in 1 .. n : s[k] = Migs[g[k]].ops
  BY <1>1, <1>2 DEF OpsListed
<1>11. Len(t) = n + 1 /\ \A k \in 1 .. n + 1 : t[k] = Migs[f[k]].ops
  BY <1>1, <1>4 DEF OpsListed
<1>12. \A k \in 1 .. n : t[k] = s[k]
  BY <1>3, <1>4, <1>10, <1>11
<1>13. t[Len(t)] = Migs[i].ops
  BY <1>3, <1>4, <1>11
<1> HIDE DEF s, t, E
<1>14. \A u : Migrations!Fold(NewProjectState, u) = Replays!Fold(NewProjectState, u)
  BY DEF Migrations!Fold, Replays!Fold, Migrations!Held, Replays!Held
<1>15. Len(s) \in Nat /\ Len(t) = Len(s) + 1 /\ \A k \in 1 .. Len(s) : s[k] = t[k]
  BY <1>1, <1>10, <1>11, <1>12
<1>16. Replays!Fold(NewProjectState, t) = ApplyAll(Replays!Fold(NewProjectState, s), t[Len(t)])
  BY <1>15, Replays!FoldOneMore
<1> QED
  BY <1>8, <1>9, <1>13, <1>14, <1>16 DEF E

Untouched(i, n) == \A k \in 1 .. Len(Migs[i].ops) : Migs[i].ops[k].model # n

\* A model in a set of migrations and in those of them that say something of it.
LEMMA ReplayPart ==
    ASSUME NEW D, D \subseteq Index, NEW E, E \subseteq D, NEW n,
           \A j \in D \ E : Untouched(j, n)
    PROVE  Shaped(Replay(D)) /\ SameModel(Replay(D), Replay(E), n)
<1> DEFINE Right(m) == \A X \in SUBSET Index, Y \in SUBSET Index :
               /\ X \subseteq 1 .. m /\ Y \subseteq X
               /\ \A j \in X \ Y : Untouched(j, n)
               => /\ Shaped(Replay(X)) /\ Shaped(Replay(Y))
                  /\ SameModel(Replay(X), Replay(Y), n)
           Wrong == {m \in Nat : ~Right(m)}
<1>1. Index = 1 .. Len(Migs) /\ Len(Migs) \in Nat
  BY IndexFinite
<1>2. Right(0)
  <2>1. ASSUME NEW X \in SUBSET Index, X \subseteq 1 .. 0 PROVE X = {}
    BY <2>1
  <2>2. Shaped(Replay({}))
    BY ReplayEmpty, NewWellFormed, WellFormedShaped
  <2>3. ASSUME NEW X \in SUBSET Index, NEW Y \in SUBSET Index, X \subseteq 1 .. 0, Y \subseteq X
        PROVE  X = {} /\ Y = {}
    BY <2>1, <2>3
  <2>4. SameModel(Replay({}), Replay({}), n)
    BY DEF SameModel
  <2> QED
    BY <2>2, <2>3, <2>4
<1>3. ASSUME NEW m \in Nat, Right(m) PROVE Right(m + 1)
  <2> DEFINE i == m + 1
  <2>1. \A k \in 1 .. i : k \in 1 .. m \/ k = i
    OBVIOUS
  <2>2. \A k \in 1 .. m : k < i /\ k # i
    OBVIOUS
  <2>0. 1 .. m \subseteq 1 .. i
    OBVIOUS
  <2> SUFFICES ASSUME NEW X \in SUBSET Index, NEW Y \in SUBSET Index,
                      X \subseteq 1 .. i, Y \subseteq X, \A j \in X \ Y : Untouched(j, n)
               PROVE  /\ Shaped(Replay(X)) /\ Shaped(Replay(Y))
                      /\ SameModel(Replay(X), Replay(Y), n)
    OBVIOUS
  <2> HIDE DEF i
  <2>3. CASE i \notin X
    <3>1. X \subseteq 1 .. m
      BY <2>1, <2>3
    <3> QED
      BY <1>3, <3>1
  <2>4. CASE i \in X
    <3> DEFINE X0 == X \ {i}
               Y0 == Y \ {i}
               ops == Migs[i].ops
    <3>1. /\ X0 \in SUBSET Index /\ Y0 \in SUBSET Index /\ X0 \subseteq 1 .. m /\ Y0 \subseteq X0
          /\ X = X0 \cup {i} /\ \A j \in X0 \ Y0 : Untouched(j, n)
      BY <2>1, <2>4
    <3>2. /\ Shaped(Replay(X0)) /\ Shaped(Replay(Y0))
          /\ SameModel(Replay(X0), Replay(Y0), n)
      BY <1>3, <3>1
    <3>3. i \in Index /\ (\A j \in X0 : j < i) /\ \A j \in Y0 : j < i
      BY <2>2, <2>4, <3>1
    <3>4. Len(ops) \in Nat /\ \A k \in 1 .. Len(ops) : IsOperation(ops[k])
      BY <3>3, MigsTyped
    <3>5. Replay(X) = ApplyAll(Replay(X0), ops)
      BY <3>1, <3>3, ReplayNext
    <3> HIDE DEF X0, Y0, ops
    <3>6. Shaped(Replay(X)) /\ SameModel(ApplyAll(Replay(X0), ops), ApplyAll(Replay(Y0), ops), n)
          /\ Shaped(ApplyAll(Replay(Y0), ops))
      BY <3>2, <3>4, <3>5, ApplyAllModel
    <3>7. CASE i \in Y
      <4>1. Y = Y0 \cup {i}
        BY <3>7 DEF Y0
      <4>2. Replay(Y) = ApplyAll(Replay(Y0), ops)
        BY <3>1, <3>3, <4>1, ReplayNext DEF ops
      <4> QED
        BY <3>5, <3>6, <4>2
    <3>8. CASE i \notin Y
      <4>1. Y = Y0
        BY <3>8 DEF Y0
      <4>2. Untouched(i, n)
        BY <2>4, <3>8
      <4>3. SameModel(ApplyAll(Replay(X0), ops), Replay(X0), n)
        <5>1. \A k \in 1 .. Len(ops) : ops[k].model # n
          BY <4>2 DEF Untouched, ops
        <5> QED
          BY <3>2, <3>4, <5>1, ApplyAllApart
      <4>4. SameModel(Replay(X), Replay(Y0), n)
        BY <3>2, <3>5, <4>3 DEF SameModel
      <4> QED
        BY <3>2, <3>6, <4>1, <4>4
    <3> QED
      BY <3>7, <3>8
  <2> QED
    BY <2>3, <2>4
<1> HIDE DEF Right
<1>4. ASSUME Wrong # {} PROVE FALSE
  <2>1. PICK y \in Wrong : \A z \in Wrong : y <= z
    <3>1. Wrong \subseteq Nat
      OBVIOUS
    <3> HIDE DEF Wrong
    <3> QED
      BY <1>4, <3>1, Loops!Smallest
  <2>2. y \in Nat /\ ~Right(y) /\ y # 0
    BY <1>2
  <2>3. y - 1 \in Nat /\ ~ (y <= y - 1) /\ (y - 1) + 1 = y
    BY <2>2
  <2>4. Right(y - 1)
    BY <2>1, <2>3
  <2> QED
    BY <1>3, <2>2, <2>3, <2>4
<1>5. Right(Len(Migs))
  BY <1>1, <1>4
<1>6. D \in SUBSET Index /\ E \in SUBSET Index /\ D \subseteq 1 .. Len(Migs)
  BY <1>1
<1> QED
  BY <1>5, <1>6 DEF Right

-----------------------------------------------------------------------------
(* A later migration of an app is never there without the earlier ones     *)

Closed(S) ==
    \A j \in S : \A i \in project.migs :
        i < j /\ Migs[i].app = Migs[j].app => i \in S

ClosedInv ==
    /\ deployed \subseteq project.migs /\ Closed(deployed) /\ Closed(ToSet(recorded))
    /\ \A p \in Runner : proc[p].pc # "idle" => Closed(ToSet(proc[p].migs))

\* What Commit adds to the tracking rows.
LEMMA CommitRecords ==
    ASSUME NEW p \in Runner, TypeInv, LockInv, ProgressInv, LogInv, ClosedInv, Commit(p)
    PROVE  LET i == MigOf(proc[p])
               B == {j \in ToSet(recorded) : j < i} IN
           /\ i \in project.migs /\ i \in Index /\ i \notin ToSet(recorded)
           /\ ToSet(recorded') = ToSet(recorded) \cup {i}
           /\ {j \in project.migs : j < i /\ Migs[j].app = Migs[i].app} \subseteq B
           /\ Attempt(dialect, Migs[i].ops, Replay(B), tables).ok
           /\ tables' = Attempt(dialect, Migs[i].ops, Replay(B), tables).tables
<1> DEFINE l == proc[p]
           i == MigOf(l)
           R == ToSet(recorded)
           B == {j \in R : j < i}
           mine == {j \in project.migs : j < i /\ Migs[j].app = Migs[i].app}
<1>1. Mig(p) = i /\ i \in Index /\ Log!Apply(i)
  BY CommitIsApply DEF Mig, MigOf
<1>2. Log!ToSet(recorded) = R
  BY DEF Log!ToSet, ToSet
<1>3. /\ i \in deployed \ R /\ recorded' = Append(recorded, i)
      /\ Log!Attempt(dialect, Migs[i].ops, Log!Replay(B), tables).ok
      /\ tables' = Log!Attempt(dialect, Migs[i].ops, Log!Replay(B), tables).tables
  BY <1>1, <1>2 DEF Log!Apply
<1>4. Log!Attempt(dialect, Migs[i].ops, Log!Replay(B), tables) =
        Attempt(dialect, Migs[i].ops, Replay(B), tables)
  <2>1. Len(Migs[i].ops) \in Nat
    BY <1>1, MigsTyped
  <2>2. Log!Replay(B) = Replay(B)
    BY SameReplay
  <2> HIDE DEF i, B
  <2> QED
    BY <2>1, <2>2, SameAttempt
<1>5. ToSet(recorded') = R \cup {i}
  BY <1>1, <1>3, AppendedOnce DEF TypeInv, LogInv
<1>6. mine \subseteq B
  <2>1. l.pc = "commit"
    BY DEF Commit
  <2>2. Proper(l) /\ l.at <= Len(l.migs)
    BY <2>1, ProcProper DEF Within
  <2>3. /\ l.at \in 1 .. Len(l.migs) /\ DOMAIN l.migs = 1 .. Len(l.migs) /\ Len(l.migs) \in Nat
        /\ \A k \in 1 .. Len(l.migs) : l.migs[k] \in Nat
    BY <2>2, IndexFinite DEF Proper
  <2>4. Tracks(l, recorded, deployed) /\ Closed(ToSet(l.migs))
    BY <2>1 DEF LogInv, ClosedInv
  <2>5. i \in ToSet(l.migs) /\ i = l.migs[l.at]
    BY <2>3 DEF MigOf, ToSet
  <2>6. ASSUME NEW j \in mine PROVE j \in R
    <3>1. j \in ToSet(l.migs)
      BY <2>4, <2>5, <2>6 DEF Closed
    <3>2. PICK k \in 1 .. Len(l.migs) : j = l.migs[k]
      BY <2>3, <3>1 DEF ToSet
    <3>3. l.migs[k] < l.migs[l.at]
      BY <2>5, <2>6, <3>2
    <3>4. ~ (l.at < k) /\ k # l.at
      BY <2>3, <2>4, <3>2, <3>3 DEF Tracks
    <3>5. k \in 1 .. l.at - 1
      BY <2>3, <3>2, <3>4
    <3>6. j \in Before(l)
      BY <3>2, <3>5 DEF Before
    <3> QED
      BY <2>1, <2>4, <3>6 DEF Tracks
  <2> QED
    BY <2>6
<1>7. i \in project.migs
  BY <1>3 DEF ClosedInv
<1> QED
  BY <1>1, <1>3, <1>4, <1>5, <1>6, <1>7

LEMMA ClosedStep ==
    ASSUME TypeInv, LockInv, ProgressInv, LogInv, RunsApart, ClosedInv, [Next]_vars
    PROVE  ClosedInv'
<1>0. project' = project
  BY StepKinds
<1>1. ASSUME NEW p \in Runner, Acts(p) PROVE ClosedInv'
  <2> DEFINE l == proc[p]
             m == proc'[p]
  <2>1. Others(p)
    BY <1>1, MovesByAction DEF Acts, Moves, Stays
  <2>2. deployed' = deployed
    BY <1>1, ActFrame
  <2>3. m.pc = "idle" \/ (m.migs = l.migs /\ l.pc # "idle") \/ m.migs = Listed(deployed)
    <3>1. Start(p) => m.migs = Listed(deployed)
      BY MovesByAction DEF Moves, LocalsAre
    <3>2. EnsureTable(p) \/ AppliedSet(p) \/ Skip(p) \/ BeginTx(p) \/ RecordApplied(p) \/ Commit(p)
          => m.migs = l.migs
      BY MovesByAction DEF Moves, LocalsAre
    <3>3. ExecStatement(p) => m.migs = l.migs
      BY MovesByAction DEF Moves, LocalsAre
    <3>4. StatementFails(p) \/ Finish(p) \/ Interrupt(p) => m.pc = "idle"
      BY MovesByAction DEF Moves, LocalsAre, Stays
    <3>5. EnsureTable(p) \/ AppliedSet(p) \/ Skip(p) \/ BeginTx(p) \/ RecordApplied(p) \/ Commit(p)
          \/ ExecStatement(p) => l.pc # "idle"
      BY DEF EnsureTable, AppliedSet, Skip, BeginTx, RecordApplied, Commit, ExecStatement
    <3> QED
      BY <1>1, <3>1, <3>2, <3>3, <3>4, <3>5 DEF Acts
  <2>4. ToSet(Listed(deployed)) = deployed
    <3>1. deployed \subseteq Index
      BY DEF TypeInv
    <3>2. /\ DOMAIN Listed(deployed) = 1 .. Cardinality(deployed)
          /\ \A k \in 1 .. Cardinality(deployed) : Listed(deployed)[k] \in deployed
          /\ \A i \in deployed : \E k \in 1 .. Cardinality(deployed) : Listed(deployed)[k] = i
      BY <3>1, ListedLists
    <3> QED
      BY <3>2 DEF ToSet
  <2>5. \A q \in Runner : proc'[q].pc # "idle" => Closed(ToSet(proc'[q].migs))
    <3> TAKE q \in Runner
    <3>1. CASE q = p
      BY <2>3, <2>4, <3>1 DEF ClosedInv
    <3>2. CASE q # p
      BY <2>1, <3>2 DEF Others, ClosedInv
    <3> QED
      BY <3>1, <3>2
  <2>6. Closed(ToSet(recorded'))
    <3>1. CASE ~ Commit(p)
      BY <1>1, <3>1, ActFrame DEF ClosedInv
    <3>2. CASE Commit(p)
      <4> DEFINE i == MigOf(l)
                 R == ToSet(recorded)
      <4>1. /\ ToSet(recorded') = R \cup {i}
            /\ {j \in project.migs : j < i /\ Migs[j].app = Migs[i].app} \subseteq R
        BY <3>2, CommitRecords
      <4>2. Closed(R)
        BY DEF ClosedInv
      <4> HIDE DEF i, R
      <4> QED
        BY <4>1, <4>2 DEF Closed
    <3> QED
      BY <3>1, <3>2
  <2> QED
    BY <1>0, <2>2, <2>5, <2>6 DEF ClosedInv, Closed
<1>2. ASSUME NEW i, Deploy(i) PROVE ClosedInv'
  <2>1. /\ i \in project.migs /\ deployed' = deployed \cup {i}
        /\ recorded' = recorded /\ proc' = proc
        /\ \A j \in project.migs : j < i /\ Migs[j].app = Migs[i].app => j \in deployed
    BY <1>2 DEF Deploy
  <2> QED
    BY <1>0, <2>1 DEF ClosedInv, Closed
<1>3. ASSUME NEW t, NEW r, Insert(t, r) PROVE ClosedInv'
  BY <1>0, <1>3, InsertFrame DEF ClosedInv, Closed
<1>4. CASE UNCHANGED vars
  BY <1>4 DEF vars, ClosedInv, Closed
<1> QED
  BY <1>1, <1>2, <1>3, <1>4, StepKinds

LEMMA ClosedInit == Init => ClosedInv
<1> SUFFICES ASSUME Init PROVE ClosedInv
  OBVIOUS
<1>1. deployed = {} /\ recorded = <<>> /\ \A p \in Runner : proc[p].pc = "idle"
  BY DEF Init, Idle
<1>2. ToSet(recorded) = {}
  BY <1>1 DEF ToSet
<1> QED
  BY <1>1, <1>2 DEF ClosedInv, Closed

-----------------------------------------------------------------------------
(* The tables are those of the recorded migrations                         *)

SchemaInv == Agrees(tables, Replay(ToSet(recorded)))

\* The operations of a migration say something of models that are not touched
\* by what is recorded after it.
LEMMA CommitAgrees ==
    ASSUME NEW p \in Runner, TypeInv, LockInv, ProgressInv, LogInv, ClosedInv, SchemaInv,
           Commit(p)
    PROVE  SchemaInv'
<1> DEFINE i == MigOf(proc[p])
           R == ToSet(recorded)
           B == {j \in R : j < i}
           mine == {j \in project.migs : j < i /\ Migs[j].app = Migs[i].app}
           ops == Migs[i].ops
           W == Replay(R)
           ps == Replay(B)
           V == ApplyAll(W, ops)
<1>1. /\ i \in project.migs /\ i \in Index /\ i \notin R
      /\ ToSet(recorded') = R \cup {i} /\ mine \subseteq B
      /\ Attempt(dialect, ops, ps, tables).ok
      /\ tables' = Attempt(dialect, ops, ps, tables).tables
  BY CommitRecords
<1>2. R \subseteq Index /\ R \subseteq project.migs /\ Closed(R)
  <2>1. recorded \in Seq(Index)
    BY DEF TypeInv
  <2>2. R \subseteq Index
    BY <2>1 DEF ToSet
  <2> QED
    BY <2>2 DEF LogInv, ClosedInv
<1>3. Len(ops) \in Nat /\ \A k \in 1 .. Len(ops) : IsOperation(ops[k])
  BY <1>1, MigsTyped
<1>4. Agrees(tables, W)
  BY DEF SchemaInv
<1>5. project \in Projects
  BY DEF TypeInv
<1>6. SoundAll(ops, Replay(mine))
  BY <1>1, <1>5, SoundAssumption
<1>7. B \subseteq R /\ R \subseteq Nat /\ i \in Nat /\ \A j \in B : j < i
  BY <1>1, <1>2, IndexFinite
<1>8. \A j \in R \ B : i < j
  BY <1>1, <1>7
\* Migrations that say something of the same model are of one app.
<1>9. ASSUME NEW k \in 1 .. Len(ops), NEW j \in Index, Migs[j].app # Migs[i].app
      PROVE  Untouched(j, ops[k].model)
  <2>1. DOMAIN ops = 1 .. Len(ops) /\ DOMAIN Migs[j].ops = 1 .. Len(Migs[j].ops)
    BY <1>1, <1>9, MigsTyped
  <2>2. i \in DOMAIN Migs /\ j \in DOMAIN Migs
    BY <1>1 DEF Index
  <2> QED
    BY <1>9, <2>1, <2>2, AppsAssumption DEF Untouched
<1>10. ASSUME NEW j \in R \ B PROVE Migs[j].app # Migs[i].app
  BY <1>1, <1>2, <1>8 DEF Closed
<1>11. B \ mine \subseteq Index /\ mine \subseteq Index /\ \A j \in B \ mine : Migs[j].app # Migs[i].app
  BY <1>1, <1>2, <1>7
<1> HIDE DEF i, R, B, mine, ops
<1>12. Shaped(W) /\ Shaped(ps)
  <2>1. \A j \in R \ R : Untouched(j, 0)
    OBVIOUS
  <2>2. \A j \in B \ B : Untouched(j, 0)
    OBVIOUS
  <2> QED
    BY <1>2, <1>7, <2>1, <2>2, ReplayPart
<1>13. \A k \in 1 .. Len(ops) : SameModel(W, ps, ops[k].model)
  <2> TAKE k \in 1 .. Len(ops)
  <2>1. \A j \in R \ B : Untouched(j, ops[k].model)
    BY <1>2, <1>9, <1>10
  <2> QED
    BY <1>2, <1>7, <2>1, ReplayPart
<1>14. \A k \in 1 .. Len(ops) : Sound(ops[k], Operations!Held(ps, ops)[k - 1])
  <2> TAKE k \in 1 .. Len(ops)
  <2> DEFINE qs == Replay(mine)
             n == ops[k].model
  <2>1. Shaped(qs) /\ SameModel(ps, qs, n)
    <3>1. \A j \in B \ mine : Untouched(j, n)
      BY <1>9, <1>11
    <3>2. \A j \in mine \ mine : Untouched(j, n)
      OBVIOUS
    <3>3. B \subseteq Index
      BY <1>2, <1>7
    <3> QED
      BY <1>1, <1>11, <3>1, <3>2, <3>3, ReplayPart
  <2> HIDE DEF qs
  <2>2. k - 1 \in 0 .. Len(ops)
    BY <1>3
  <2>3. /\ Shaped(Operations!Held(ps, ops)[k - 1]) /\ Shaped(Operations!Held(qs, ops)[k - 1])
        /\ SameModel(Operations!Held(ps, ops)[k - 1], Operations!Held(qs, ops)[k - 1], n)
    BY <1>3, <1>12, <2>1, <2>2, HeldModel
  <2>4. Sound(ops[k], Operations!Held(qs, ops)[k - 1])
    <3>1. DOMAIN ops = 1 .. Len(ops)
      BY <1>1, MigsTyped DEF ops
    <3> QED
      BY <1>6, <3>1 DEF SoundAll, qs
  <2>5. IsOperation(ops[k])
    BY <1>3
  <2> QED
    BY <2>3, <2>4, <2>5, RendersSame
<1>15. \A k \in 1 .. Len(ops) : SameModel(ps, W, ops[k].model)
  BY <1>13 DEF SameModel
<1>16. Agrees(tables', V)
  BY <1>1, <1>3, <1>4, <1>12, <1>14, <1>15, AttemptAgrees
<1>17. Shaped(V) /\ Shaped(ApplyAll(ps, ops))
       /\ \A n : SameModel(W, ps, n) => SameModel(V, ApplyAll(ps, ops), n)
  BY <1>3, <1>12, ApplyAllModel
<1> DEFINE R2 == R \cup {i}
           W2 == Replay(R2)
<1>18. R2 \subseteq Index
  BY <1>1, <1>2
<1>19. Replay(B \cup {i}) = ApplyAll(ps, ops)
  <2>1. B \subseteq Index
    BY <1>2, <1>7
  <2> QED
    BY <1>1, <1>7, <2>1, ReplayNext DEF ops
<1>20. ASSUME NEW n PROVE SameModel(V, W2, n) /\ Shaped(W2)
  <2>1. CASE \E k \in 1 .. Len(ops) : ops[k].model = n
    <3>1. PICK k \in 1 .. Len(ops) : ops[k].model = n
      BY <2>1
    <3>2. SameModel(V, ApplyAll(ps, ops), n)
      BY <1>13, <1>17, <3>1
    <3>3. \A j \in R2 \ (B \cup {i}) : Untouched(j, n)
      BY <1>2, <1>9, <1>10, <3>1
    <3>4. B \cup {i} \subseteq R2
      BY <1>7
    <3>5. Shaped(W2) /\ SameModel(W2, Replay(B \cup {i}), n)
      BY <1>18, <3>3, <3>4, ReplayPart
    <3> HIDE DEF W2, V
    <3> QED
      BY <1>19, <3>2, <3>5 DEF SameModel
  <2>2. CASE \A k \in 1 .. Len(ops) : ops[k].model # n
    <3>1. SameModel(V, W, n)
      BY <1>3, <1>12, <2>2, ApplyAllApart
    <3>2. \A j \in R2 \ R : Untouched(j, n)
      BY <2>2 DEF Untouched, ops
    <3>3. Shaped(W2) /\ SameModel(W2, W, n)
      BY <1>18, <3>2, ReplayPart
    <3> HIDE DEF W2, V
    <3> QED
      BY <3>1, <3>3 DEF SameModel
  <2> QED
    BY <2>1, <2>2
<1> HIDE DEF V, W2
<1>21. Agrees(tables', W2)
  BY <1>16, <1>20, SameAgrees
<1> QED
  BY <1>1, <1>21 DEF SchemaInv, W2, R, i

LEMMA InsertAgrees ==
    ASSUME SchemaInv, NEW t \in DOMAIN tables, NEW r, Insert(t, r)
    PROVE  SchemaInv'
<1>1. \E row : tables' = [tables EXCEPT ![t].rows = With(@, r, row)]
  BY DEF Insert, Log!Insert, Log!With, With
<1>2. PICK rows : tables' = [tables EXCEPT ![t].rows = rows]
  BY <1>1
<1>3. recorded' = recorded
  BY InsertFrame
<1>4. Agrees([tables EXCEPT ![t].rows = rows], Replay(ToSet(recorded)))
  BY RowsAgree DEF SchemaInv
<1> QED
  BY <1>2, <1>3, <1>4 DEF SchemaInv

LEMMA SchemaStep ==
    ASSUME TypeInv, LockInv, ProgressInv, LogInv, ClosedInv, SchemaInv, [Next]_vars
    PROVE  SchemaInv'
<1>1. ASSUME tables' = tables, recorded' = recorded PROVE SchemaInv'
  BY <1>1 DEF SchemaInv
<1>2. ASSUME NEW p \in Runner, Acts(p) PROVE SchemaInv'
  BY <1>1, <1>2, ActFrame, CommitAgrees
<1>3. ASSUME NEW i, Deploy(i) PROVE SchemaInv'
  BY <1>1, <1>3, DeployFrame
<1>4. CASE UNCHANGED vars
  BY <1>1, <1>4 DEF vars
<1> QED
  BY <1>2, <1>3, <1>4, InsertAgrees, StepKinds

LEMMA SchemaInit == Init => SchemaInv
<1> SUFFICES ASSUME Init PROVE SchemaInv
  OBVIOUS
<1>1. ToSet(recorded) = {} /\ tables = <<>>
  BY DEF Init, ToSet
<1>2. Replay({}) = NewProjectState /\ WellFormed(NewProjectState)
  BY ReplayEmpty, NewWellFormed
<1>3. Tabled(<<>>)
  BY DEF Tabled
<1>4. ModelNames(NewProjectState) = {}
  BY DEF ModelNames, NewProjectState
<1>5. Matches(<<>>, NewProjectState)
  BY <1>4 DEF Matches, DescribedTables
<1> QED
  BY <1>1, <1>2, <1>3, <1>5 DEF SchemaInv, Agrees

\* SchemaMatchesRecords: if no two runs of migrate overlap, the tables are at
\* every moment those of the state that the recorded migrations add up to, in
\* the order of the registry, wherever a run was interrupted, and in whichever
\* order the migrations of different apps were released and applied.
THEOREM SchemaAsRecorded == Spec /\ []RunsApart => []SchemaMatchesRecords
<1>1. Init => TypeInv /\ LockInv /\ ProgressInv /\ LogInv /\ ClosedInv /\ SchemaInv
  BY TypeInit, LockInit, ProgressInit, LogInit, ClosedInit, SchemaInit
<1>2. /\ TypeInv /\ LockInv /\ ProgressInv /\ LogInv /\ ClosedInv /\ SchemaInv
      /\ RunsApart /\ [Next]_vars
      => (TypeInv /\ LockInv /\ ProgressInv /\ LogInv /\ ClosedInv /\ SchemaInv)'
  BY TypeStep, LockStep, ProgressStep, LogStep, ClosedStep, SchemaStep
<1>3. SchemaInv => SchemaMatchesRecords
  BY DEF SchemaInv, Agrees, SchemaMatchesRecords
<1> QED
  BY <1>1, <1>2, <1>3, PTL DEF Spec
=============================================================================
