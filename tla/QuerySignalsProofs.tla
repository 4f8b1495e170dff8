------------------------- MODULE QuerySignalsProofs -------------------------
(***************************************************************************)
(* Proofs about QuerySignals, for any clients, rows, pool and handlers.    *)
(*                                                                         *)
(* Two inductive invariants.  TableInv relates the stage of a call to the  *)
(* table: a row not created yet is nowhere, a row deleted is in gone from  *)
(* the step that takes it away, and a transaction holds its connection     *)
(* from Begin to Finish.  RunInv adds the registry: the lists are in the   *)
(* order of registration, so every handler already run for an object is    *)
(* below every one still to run, and a handler registered throughout a     *)
(* call is in each snapshot the call takes.                                *)
(***************************************************************************)
EXTENDS QuerySignals, SequenceTheorems, FiniteSetTheorems, TLAPS

-----------------------------------------------------------------------------
(* The registry, the calls and the table. *)

(* A list of handlers in the order of their registration. *)
Increasing(s) == \A i, j \in DOMAIN s : i < j => s[i] < s[j]

(* The shape of the registry: each list in the order of registration. *)
RegistryOK ==
    \A k \in Kind :
        /\ Ids(handlers[k]) = active[k]
        /\ Increasing(handlers[k])
        /\ \A h \in active[k] : h <= nextID

(* Between the first step of a call and its return. *)
Running(c) == call[c].stage \notin {"idle", "done"}

(* start and seen bracket the handlers registered while a call runs. *)
HistoryOK(c) ==
    \A k \in Kind :
        /\ \A h \in call[c].start[k] : h <= nextID
        /\ Running(c) => active[k] \subseteq call[c].seen[k]

(* A transaction holds its connection from Begin to Finish. *)
Matched(c) ==
    c \in holders <=> call[c].atomic /\ call[c].stage \notin {"idle", "begin", "done"}

HoldersMatch == IsFiniteSet(holders) /\ \A c \in Client : Matched(c)

(* The stages of the two operations. *)
Creating == {"idle", "begin", "preSave", "insert", "postSave", "finish", "done"}
Deleting == {"begin", "has", "hasPost", "all", "preDelete", "delete", "postDelete", "finish", "done"}

(* A handler of PostSave has run. *)
Saved(c) == \E i \in DOMAIN call[c].ran : call[c].ran[i][1] = "postSave"

(* A Create: its object, and the change its transaction holds. *)
CreateShape(c) ==
    call[c].op = "create" =>
        /\ call[c].stage \in Creating
        /\ call[c].stage = "idle" \/ call[c].rows = {Object[c]}
        /\ call[c].del = {} /\ call[c].gone = {}
        /\ call[c].ins \subseteq {Object[c]}
        /\ call[c].stage \in {"idle", "begin", "preSave", "insert", "done"} => call[c].ins = {}
        /\ call[c].atomic /\ call[c].stage \in {"postSave", "finish"} /\ call[c].out = "ok"
               => call[c].ins = {Object[c]}
        /\ call[c].stage \in {"idle", "begin", "preSave", "insert"} => ~Saved(c)

(* A Delete: nothing fetched, nothing deleted before its stage. *)
DeleteShape(c) ==
    call[c].op = "delete" =>
        /\ call[c].stage \in Deleting
        /\ call[c].ins = {}
        /\ call[c].stage \in {"begin", "has", "hasPost", "all"} => call[c].rows = {}
        /\ call[c].stage \in {"begin", "has", "hasPost", "all", "preDelete", "delete"}
               => call[c].del = {} /\ call[c].gone = {}
        /\ call[c].atomic /\ call[c].stage # "done" => call[c].del = call[c].gone
        /\ call[c].stage = "done" => call[c].del = {}

(* What the stage of a call says of the rest of it. *)
CallShape(c) ==
    /\ CreateShape(c) /\ DeleteShape(c)
    /\ ~call[c].atomic => /\ call[c].ins = {} /\ call[c].del = {}
                          /\ call[c].stage # "begin"
    /\ call[c].stage \notin {"finish", "done"} => call[c].out = "ok"
    /\ call[c].pending \subseteq call[c].rows
    /\ call[c].stage \in Kind => call[c].pending # {}
    /\ call[c].firing => call[c].stage \in Kind /\ call[c].at \in call[c].pending

(* The row c would create cannot have reached the table yet, or has not. *)
Absent(c) ==
    \/ call[c].op = "delete"
    \/ call[c].stage \in {"idle", "begin", "preSave", "insert"}
    \/ /\ call[c].atomic
       /\ (call[c].stage # "done" \/ call[c].out = "err")
    \/ (call[c].stage = "finish" /\ call[c].out = "err" /\ ~Saved(c))

(* Such a row is nowhere, and nobody has deleted it. *)
AbsentRow(c) ==
    Absent(c) => /\ Object[c] \notin table
                 /\ \A d \in Client : Object[c] \notin call[d].gone

(* The row c created must have been in the table. *)
Created(c) ==
    /\ call[c].op = "create"
    /\ \/ /\ call[c].out = "ok"
          /\ call[c].stage = "done" \/ (~call[c].atomic /\ call[c].stage \in {"postSave", "finish"})
       \/ /\ call[c].out = "err" /\ ~call[c].atomic
          /\ call[c].stage = "finish" /\ Saved(c)

(* It is there, unless somebody has deleted it. *)
CreatedThere(c) == Created(c) => Object[c] \in table \cup GoneElsewhere(c)

(* c has not committed what it deletes, and perhaps never will. *)
Uncommitted(c) ==
    call[c].op = "delete" /\ call[c].atomic /\ (call[c].stage # "done" \/ call[c].out = "err")

(* Its rows are there, unless somebody else has deleted them. *)
Kept(c) == call[c].gone \subseteq table \cup GoneElsewhere(c)
DeletedKept(c) == Uncommitted(c) => Kept(c)

(* What c deleted is committed. *)
Committed(c) ==
    call[c].op = "delete" /\ call[c].out = "ok" /\ (call[c].stage = "done" \/ ~call[c].atomic)

(* Its rows are not there. *)
Taken(c) == call[c].gone \cap table = {}
DeletedGone(c) == Committed(c) => Taken(c)

(* c cannot know whether what it deletes is committed: it is or it is not. *)
Unknown(c) == call[c].op = "delete" /\ call[c].out = "unknown"
DeletedWhole(c) == Unknown(c) => Kept(c) \/ Taken(c)

(* What the table has to do with the calls. *)
TableFacts == \A c \in Client : /\ AbsentRow(c) /\ CreatedThere(c)
                                /\ DeletedKept(c) /\ DeletedGone(c) /\ DeletedWhole(c)

(* The inductive invariant behind CallOutcome. *)
TableInv ==
    TypeOK /\ HoldersMatch /\ (\A c \in Client : CallShape(c)) /\ TableFacts

(* The handlers registered since before the call began. *)
Due(c, k) == active[k] \cap call[c].start[k]

(* The handler h of k has run for r. *)
Ran(c, k, h, r) == \E i \in DOMAIN call[c].ran : call[c].ran[i] = <<k, h, r>>

(* The stages a call reaches after it has fired k. *)
Behind == [preSave |-> {"insert", "postSave", "finish"}, postSave |-> {"finish"},
           preDelete |-> {"delete", "postDelete", "finish"}, postDelete |-> {"finish"}]

(* The runs for one object are in the order of registration, ... *)
RanOrdered(c) ==
    \A i, j \in DOMAIN call[c].ran :
        /\ i < j /\ call[c].ran[i][1] = call[c].ran[j][1]
        /\ call[c].ran[i][3] = call[c].ran[j][3]
        => call[c].ran[i][2] < call[c].ran[j][2]

(* ... of handlers seen while the call ran, in a stage reached, ... *)
RanSeen(c) ==
    \A i \in DOMAIN call[c].ran :
        /\ call[c].ran[i][2] \in call[c].seen[call[c].ran[i][1]]
        /\ \/ call[c].stage = call[c].ran[i][1]
           \/ call[c].stage \in Behind[call[c].ran[i][1]]

(* ... and of no pending object, but for the one whose snapshot runs. *)
RanPending(c) ==
    \A i \in DOMAIN call[c].ran :
        call[c].stage = call[c].ran[i][1] /\ call[c].ran[i][3] \in call[c].pending
        => /\ call[c].firing /\ call[c].ran[i][3] = call[c].at
           /\ \A n \in DOMAIN call[c].todo : call[c].ran[i][2] < call[c].todo[n]

RanOK(c) == RanOrdered(c) /\ RanSeen(c) /\ RanPending(c)

(* The snapshot being run: in order, seen, and all that is still due. *)
TodoOK(c) ==
    call[c].firing =>
        /\ Increasing(call[c].todo)
        /\ Ids(call[c].todo) \subseteq call[c].seen[call[c].stage]
        /\ \A h \in Due(c, call[c].stage) :
               h \in Ids(call[c].todo) \/ Ran(c, call[c].stage, h, call[c].at)

(* All that is due has run for r. *)
FiredFor(c, k, r) == \A h \in Due(c, k) : Ran(c, k, h, r)

(* Done for the objects no longer pending and the signals behind. *)
FiredOK(c) ==
    call[c].out = "ok" =>
        /\ call[c].stage \in Kind =>
             \A r \in call[c].rows \ call[c].pending : FiredFor(c, call[c].stage, r)
        /\ \A k \in KindsOf(call[c].op) : call[c].stage \in Behind[k] =>
             \A r \in call[c].rows : FiredFor(c, k, r)

(* No handler of a delete is due. *)
NoneDue(c) == Due(c, "preDelete") = {} /\ Due(c, "postDelete") = {}

(* With one connection, the rows deleted are the rows fetched for. *)
FetchedOK(c) ==
    PoolSize = 1 /\ call[c].op = "delete" /\ call[c].atomic =>
        /\ call[c].stage = "hasPost" => Due(c, "preDelete") = {}
        /\ call[c].stage \in {"preDelete", "delete"} => table \subseteq call[c].rows \/ NoneDue(c)
        /\ call[c].stage \in {"postDelete", "finish"} /\ call[c].out = "ok"
               => call[c].gone \subseteq call[c].rows \/ NoneDue(c)

(* What is known of the handlers of one call. *)
RunOK(c) == HistoryOK(c) /\ RanOK(c) /\ TodoOK(c) /\ FiredOK(c) /\ FetchedOK(c)

(* The inductive invariant behind HandlersRun. *)
RunInv == TableInv /\ RegistryOK /\ \A c \in Client : RunOK(c)
-----------------------------------------------------------------------------
(* Types, and what each step does to the call it belongs to. *)

(* The other calls are left alone. *)
Others(c) == \A d \in Client \ {c} : call'[d] = call[d]

(* The stages of a call. *)
StageSet == Kind \cup {"idle", "begin", "has", "hasPost", "all",
                       "insert", "delete", "finish", "done"}

\* The empty values of a call that is idle.
LEMMA EmptyTypes ==
    /\ <<>> \in Seq(Id) /\ <<>> \in Seq(Kind \X Id \X Row)
    /\ [k \in Kind |-> {}] \in [Kind -> SUBSET Id]
OBVIOUS

\* A client that has not called yet.
LEMMA IdleType == ASSUME NEW c \in Client PROVE Idle(c) \in Call
BY EmptyTypes, RowAssumption DEF Idle, Call

\* nextID stays within the identifiers while handlers may be registered.
LEMMA IdType ==
    ASSUME NEW s \in Settings, NEW n \in Nat, n < s.handlers
    PROVE  n + 1 \in Id /\ n + 1 <= s.handlers
BY BoundAssumption DEF Id

\* Handlers are compared by their identifiers.
LEMMA IdsAreNaturals == ASSUME NEW h \in Id PROVE h \in Nat
BY BoundAssumption DEF Id

(* The fields that stages do not touch. *)
KeepsRest(f, k) ==
    /\ f.op = k.op /\ f.atomic = k.atomic /\ f.rows = k.rows /\ f.ran = k.ran
    /\ f.ins = k.ins /\ f.del = k.del /\ f.gone = k.gone /\ f.start = k.start
    /\ f.seen = k.seen

(* f is what Fire makes of k. *)
FireIs(f, k, kind, rs) ==
    /\ f \in Call
    /\ f.stage = IF rs = {} THEN After[kind] ELSE kind
    /\ f.pending = rs /\ f.firing = FALSE /\ f.todo = <<>>
    /\ f.out = k.out /\ KeepsRest(f, k)

(* Fire is a change of four fields. *)
LEMMA FireType ==
    ASSUME NEW k \in Call, NEW kind \in Kind, NEW rs \in SUBSET Row
    PROVE  FireIs(Fire(k, kind, rs), k, kind, rs)
<1> DEFINE st == IF rs = {} THEN After[kind] ELSE kind
           f == Fire(k, kind, rs)
<1>1. st \in StageSet
  BY DEF After, Kind, StageSet
<1>2. f = [k EXCEPT !.stage = st, !.pending = rs, !.firing = FALSE, !.todo = <<>>]
  BY DEF Fire
<1> HIDE DEF st, f
<1>3. f \in Call
  BY <1>1, <1>2, EmptyTypes DEF Call, StageSet
<1>4. /\ f.stage = st /\ f.pending = rs /\ f.firing = FALSE /\ f.todo = <<>>
      /\ f.out = k.out /\ KeepsRest(f, k)
  BY <1>2 DEF Call, KeepsRest
<1> QED
  BY <1>3, <1>4 DEF st, f, FireIs

\* Failed ends a call with an error and keeps what it did.
LEMMA FailedType ==
    ASSUME NEW k \in Call
    PROVE  LET f == Failed(k)
           IN /\ f \in Call
              /\ f.stage = "finish" /\ f.out = "err" /\ f.todo = <<>>
              /\ f.pending = k.pending /\ f.firing = k.firing /\ KeepsRest(f, k)
BY EmptyTypes DEF Call, Failed, KeepsRest

\* InDoubt is Failed with another outcome.
LEMMA InDoubtType ==
    ASSUME NEW k \in Call
    PROVE  LET f == InDoubt(k)
           IN /\ f \in Call
              /\ f.stage = "finish" /\ f.out = "unknown" /\ f.todo = <<>>
              /\ f.pending = k.pending /\ f.firing = k.firing /\ KeepsRest(f, k)
<1> DEFINE m == Failed(k)
           f == [m EXCEPT !.out = "unknown"]
<1>1. /\ m \in Call /\ m.stage = "finish" /\ m.todo = <<>>
      /\ m.pending = k.pending /\ m.firing = k.firing /\ KeepsRest(m, k)
  BY FailedType
<1> HIDE DEF m
<1>2. /\ f \in Call /\ f.stage = "finish" /\ f.out = "unknown" /\ f.todo = <<>>
      /\ f.pending = k.pending /\ f.firing = k.firing /\ KeepsRest(f, k)
  BY <1>1 DEF Call, KeepsRest
<1> QED
  BY <1>2 DEF InDoubt, m

\* Step replaces the record of one call.
LEMMA StepType ==
    ASSUME TypeOK, NEW c \in Client, NEW to \in Call, Step(c, to)
    PROVE  /\ call' \in [Client -> Call] /\ call'[c] = to /\ Others(c)
           /\ UNCHANGED <<handlers, nextID, active, holders>>
BY DEF Step, TypeOK, Others

(* The call of c goes on as Fire says. *)
Fires(c, k, rs) ==
    /\ call'[c].stage = (IF rs = {} THEN After[k] ELSE k)
    /\ call'[c].pending = rs /\ call'[c].firing = FALSE /\ call'[c].todo = <<>>
(* The snapshot is left alone. *)
KeepsFiring(c) ==
    /\ call'[c].pending = call[c].pending /\ call'[c].firing = call[c].firing
    /\ call'[c].at = call[c].at /\ call'[c].todo = call[c].todo
(* A step of c that touches no registry and no pool. *)
Quiet(c) ==
    /\ call' \in [Client -> Call] /\ Others(c)
    /\ UNCHANGED <<handlers, nextID, active, holders>>

\* Start: what the record of the call is afterwards.
LEMMA StartEffect ==
    ASSUME TypeOK, NEW c \in Client, Start(c)
    PROVE  /\ Quiet(c) /\ table' = table /\ call[c].stage = "idle"
           /\ call'[c].ins = {} /\ call'[c].del = {} /\ call'[c].gone = {}
           /\ call'[c].out = "ok" /\ call'[c].ran = <<>>
           /\ call'[c].start = active /\ call'[c].seen = active
           /\ call'[c].firing = FALSE
           /\ \/ /\ call'[c].atomic /\ call'[c].stage = "begin" /\ call'[c].pending = {}
                 /\ \/ call'[c].op = "create" /\ call'[c].rows = {Object[c]}
                    \/ call'[c].op = "delete" /\ call'[c].rows = {}
              \/ /\ ~call'[c].atomic /\ call'[c].op = "create" /\ call'[c].rows = {Object[c]}
                 /\ call'[c].stage = "preSave" /\ call'[c].pending = {Object[c]}
              \/ /\ ~call'[c].atomic /\ call'[c].op = "delete" /\ call'[c].rows = {}
                 /\ call'[c].stage = "has" /\ call'[c].pending = {}
<1>1. PICK op \in {"create", "delete"}, atomic \in BOOLEAN :
         LET new == [Idle(c) EXCEPT !.op = op, !.atomic = atomic,
                        !.rows = IF op = "create" THEN {Object[c]} ELSE {},
                        !.start = active, !.seen = active]
         IN call' = [call EXCEPT ![c] =
                IF atomic THEN [new EXCEPT !.stage = "begin"] ELSE Body(new)]
  BY DEF Start
<1> DEFINE rs == IF op = "create" THEN {Object[c]} ELSE {}
           new == [Idle(c) EXCEPT !.op = op, !.atomic = atomic, !.rows = rs,
                        !.start = active, !.seen = active]
           to == IF atomic THEN [new EXCEPT !.stage = "begin"] ELSE Body(new)
<1>2. call' = [call EXCEPT ![c] = to]
  BY <1>1
<1>3. rs \in SUBSET Row /\ active \in [Kind -> SUBSET Id]
  BY RowAssumption DEF TypeOK
<1> HIDE DEF rs
<1>4. new \in Call
  BY <1>3, IdleType, ZenonT(60) DEF Call
<1>5. /\ new.op = op /\ new.atomic = atomic /\ new.rows = rs /\ new.start = active
      /\ new.seen = active /\ new.ins = {} /\ new.del = {} /\ new.gone = {}
      /\ new.out = "ok" /\ new.ran = <<>> /\ new.firing = FALSE /\ new.pending = {}
  BY DEF Idle
<1> HIDE DEF new
<1>6. CASE atomic
  <2>1. to = [new EXCEPT !.stage = "begin"] /\ to \in Call
    BY <1>4, <1>6 DEF Call
  <2>2. /\ to.op = op /\ to.atomic = atomic /\ to.rows = rs /\ to.start = active
        /\ to.seen = active /\ to.ins = {} /\ to.del = {} /\ to.gone = {}
        /\ to.out = "ok" /\ to.ran = <<>> /\ to.firing = FALSE /\ to.pending = {}
        /\ to.stage = "begin"
    BY <2>1, <1>4, <1>5, ZenonT(60) DEF Call
  <2> HIDE DEF to
  <2> QED
    BY <1>2, <1>6, <2>1, <2>2 DEF TypeOK, Others, Quiet, Start, rs
<1>7. CASE ~atomic /\ op = "create"
  <2>1. to = Fire(new, "preSave", {Object[c]}) /\ {Object[c]} \in SUBSET Row
    BY <1>7, <1>5, <1>3 DEF Body, rs
  <2> HIDE DEF to
  <2>2. "preSave" \in Kind /\ {Object[c]} # {}
    BY DEF Kind
  <2>3. /\ to.op = op /\ to.atomic = atomic /\ to.rows = rs /\ to.start = active
        /\ to.seen = active /\ to.ins = {} /\ to.del = {} /\ to.gone = {}
        /\ to.out = "ok" /\ to.ran = <<>> /\ to.firing = FALSE
        /\ to.pending = {Object[c]} /\ to.stage = "preSave" /\ to \in Call
    <3>1. FireIs(to, new, "preSave", {Object[c]})
      BY <2>1, <2>2, <1>4, FireType
    <3> QED
      BY <3>1, <2>2, <1>5 DEF KeepsRest, FireIs
  <2> QED
    BY <1>2, <1>7, <2>2, <2>3 DEF TypeOK, Others, Quiet, Start, rs
<1>8. CASE ~atomic /\ op = "delete"
  <2>1. to = [new EXCEPT !.stage = "has"] /\ to \in Call
    BY <1>4, <1>5, <1>8 DEF Call, Body
  <2>2. /\ to.op = op /\ to.atomic = atomic /\ to.rows = rs /\ to.start = active
        /\ to.seen = active /\ to.ins = {} /\ to.del = {} /\ to.gone = {}
        /\ to.out = "ok" /\ to.ran = <<>> /\ to.firing = FALSE /\ to.pending = {}
        /\ to.stage = "has"
    BY <2>1, <1>4, <1>5, ZenonT(60) DEF Call
  <2> HIDE DEF to
  <2> QED
    BY <1>2, <1>8, <2>1, <2>2 DEF TypeOK, Others, Quiet, Start, rs
<1> QED
  BY <1>6, <1>7, <1>8

\* Begin: what changes in the record of the call.
LEMMA BeginEffect ==
    ASSUME TypeOK, NEW c \in Client, CreateShape(c), DeleteShape(c), Begin(c)
    PROVE  /\ call' \in [Client -> Call] /\ Others(c) /\ table' = table
           /\ UNCHANGED <<handlers, nextID, active>>
           /\ Free /\ holders' = holders \cup {c} /\ call[c].stage = "begin"
           /\ call'[c].op = call[c].op /\ call'[c].atomic = call[c].atomic
           /\ call'[c].ins = call[c].ins /\ call'[c].del = call[c].del
           /\ call'[c].gone = call[c].gone /\ call'[c].out = call[c].out
           /\ call'[c].ran = call[c].ran /\ call'[c].rows = call[c].rows
           /\ call'[c].start = call[c].start /\ call'[c].seen = call[c].seen
           /\ \/ /\ call[c].op = "create" /\ call'[c].stage = "preSave"
                 /\ call'[c].pending = call[c].rows /\ call[c].rows = {Object[c]}
                 /\ call'[c].firing = FALSE
              \/ /\ call[c].op = "delete" /\ call'[c].stage = "has"
                 /\ call'[c].pending = call[c].pending /\ call'[c].firing = call[c].firing
<1> DEFINE to == Body(call[c])
<1>1. call' = [call EXCEPT ![c] = to] /\ call[c] \in Call /\ call[c].stage = "begin"
  BY DEF Begin, TypeOK
<1>2. CASE call[c].op = "create"
  <2>1. to = Fire(call[c], "preSave", call[c].rows) /\ call[c].rows \in SUBSET Row
        /\ call[c].rows = {Object[c]} /\ "preSave" \in Kind /\ call[c].rows # {}
    BY <1>1, <1>2 DEF Body, Call, Kind, CreateShape
  <2> HIDE DEF to
  <2>2. FireIs(to, call[c], "preSave", call[c].rows)
    BY <1>1, <2>1, FireType
  <2> QED
    BY <1>1, <1>2, <2>1, <2>2 DEF FireIs, KeepsRest, Begin, Others, TypeOK
<1>3. CASE call[c].op = "delete"
  <2>1. to = [call[c] EXCEPT !.stage = "has"]
    BY <1>3 DEF Body
  <2>2. to \in Call
    BY <1>1, <2>1 DEF Call
  <2>3. /\ KeepsRest(to, call[c]) /\ to.stage = "has" /\ to.out = call[c].out
        /\ to.pending = call[c].pending /\ to.firing = call[c].firing
    BY <1>1, <2>1 DEF Call, KeepsRest
  <2> HIDE DEF to
  <2> QED
    BY <1>1, <1>3, <2>2, <2>3 DEF KeepsRest, Begin, Others, TypeOK
<1> QED
  BY <1>1, <1>2, <1>3 DEF Call

\* Snapshot: fire copies the handlers registered now.
LEMMA SnapshotEffect ==
    ASSUME TypeOK, NEW c \in Client, Snapshot(c)
    PROVE  /\ Quiet(c) /\ table' = table
           /\ call[c].stage \in Kind /\ ~call[c].firing
           /\ KeepsRest(call'[c], call[c]) /\ call'[c].out = call[c].out
           /\ call'[c].stage = call[c].stage /\ call'[c].pending = call[c].pending
           /\ call'[c].firing /\ call'[c].at \in call[c].pending
           /\ call'[c].todo = handlers[call[c].stage]
<1>1. PICK r \in call[c].pending :
         Step(c, [call[c] EXCEPT !.firing = TRUE, !.at = r,
                                 !.todo = handlers[call[c].stage]])
  BY DEF Snapshot
<1> DEFINE to == [call[c] EXCEPT !.firing = TRUE, !.at = r, !.todo = handlers[call[c].stage]]
<1>2. call[c] \in Call /\ r \in Row /\ handlers[call[c].stage] \in Seq(Id)
  BY DEF Snapshot, TypeOK, Call
<1>3. to \in Call
  BY <1>2 DEF Call
<1>4. /\ KeepsRest(to, call[c]) /\ to.out = call[c].out /\ to.stage = call[c].stage
      /\ to.pending = call[c].pending /\ to.firing /\ to.at = r
      /\ to.todo = handlers[call[c].stage]
  BY <1>2 DEF Call, KeepsRest
<1> HIDE DEF to
<1>5. Quiet(c) /\ call'[c] = to
  BY <1>1, <1>3, StepType DEF Quiet, to
<1> QED
  BY <1>4, <1>5 DEF Snapshot

\* RunHandler: one entry of the snapshot becomes one of ran.
LEMMA RunHandlerEffect ==
    ASSUME TypeOK, NEW c \in Client, CallShape(c), RunHandler(c)
    PROVE  /\ Quiet(c) /\ table' = table
           /\ call[c].firing /\ call[c].todo # <<>> /\ call[c].todo \in Seq(Id)
           /\ call'[c].op = call[c].op /\ call'[c].atomic = call[c].atomic
           /\ call'[c].ins = call[c].ins /\ call'[c].del = call[c].del
           /\ call'[c].gone = call[c].gone /\ call'[c].rows = call[c].rows
           /\ call'[c].start = call[c].start /\ call'[c].seen = call[c].seen
           /\ call'[c].ran = Append(call[c].ran, <<call[c].stage, Head(call[c].todo), call[c].at>>)
           /\ call'[c].pending = call[c].pending
           /\ \/ /\ call'[c].stage = call[c].stage /\ call'[c].firing /\ call'[c].at = call[c].at
                 /\ call'[c].todo = Tail(call[c].todo) /\ call'[c].out = call[c].out
              \/ call'[c].stage = "finish" /\ call'[c].out = "err" /\ call'[c].firing = FALSE
<1> DEFINE now == [call[c] EXCEPT !.todo = Tail(@),
                       !.ran = Append(@, <<call[c].stage, Head(call[c].todo), call[c].at>>)]
           end == [Failed(now) EXCEPT !.firing = FALSE]
           entry == <<call[c].stage, Head(call[c].todo), call[c].at>>
<1>1. /\ call[c].firing /\ call[c].todo # <<>> /\ call[c] \in Call /\ call[c].todo \in Seq(Id)
      /\ call[c].stage \in Kind /\ call[c].ran \in Seq(Kind \X Id \X Row) /\ call[c].at \in Row
      /\ table' = table
  BY DEF RunHandler, TypeOK, CallShape, Call
<1>2. Head(call[c].todo) \in Id /\ Tail(call[c].todo) \in Seq(Id)
  BY <1>1
<1>3. entry \in Kind \X Id \X Row
  BY <1>1, <1>2
<1> HIDE DEF entry
<1>4. Append(call[c].ran, entry) \in Seq(Kind \X Id \X Row)
  BY <1>1, <1>3
<1>5. now \in Call
  BY <1>1, <1>2, <1>4 DEF Call, entry
<1>6. /\ now.op = call[c].op /\ now.atomic = call[c].atomic
      /\ now.ins = call[c].ins /\ now.del = call[c].del
      /\ now.gone = call[c].gone /\ now.rows = call[c].rows
      /\ now.start = call[c].start /\ now.seen = call[c].seen
      /\ now.ran = Append(call[c].ran, entry) /\ now.out = call[c].out
      /\ now.stage = call[c].stage /\ now.todo = Tail(call[c].todo)
      /\ now.pending = call[c].pending /\ now.at = call[c].at /\ now.firing
  BY <1>1, <1>4 DEF Call, entry
<1>7. Step(c, now) \/ Step(c, end)
  BY DEF RunHandler
<1> HIDE DEF now, end
<1>8. /\ end \in Call /\ KeepsRest(end, now) /\ end.stage = "finish" /\ end.out = "err"
      /\ end.firing = FALSE /\ end.pending = now.pending
  <2>1. Failed(now) \in Call
    BY <1>5, FailedType
  <2> QED
    BY <1>5, <2>1, FailedType DEF end, Call, KeepsRest
<1>9. CASE Step(c, now)
  BY <1>1, <1>5, <1>6, <1>9, StepType DEF Quiet, entry
<1>10. CASE Step(c, end)
  BY <1>1, <1>5, <1>6, <1>8, <1>10, StepType DEF Quiet, KeepsRest, entry
<1> QED
  BY <1>7, <1>9, <1>10

\* Fired: the object is done, and the stage if it was the last.
LEMMA FiredEffect ==
    ASSUME TypeOK, NEW c \in Client, CallShape(c), Fired(c)
    PROVE  /\ Quiet(c) /\ table' = table
           /\ call[c].firing /\ call[c].todo = <<>> /\ call[c].stage \in Kind
           /\ KeepsRest(call'[c], call[c]) /\ call'[c].out = call[c].out
           /\ Fires(c, call[c].stage, call[c].pending \ {call[c].at})
<1> DEFINE rs == call[c].pending \ {call[c].at}
           to == Fire(call[c], call[c].stage, rs)
<1>1. /\ call[c].firing /\ call[c].todo = <<>> /\ call[c].stage \in Kind /\ table' = table
      /\ call[c] \in Call /\ rs \in SUBSET Row
  BY DEF Fired, CallShape, TypeOK, Call
<1>2. Step(c, to)
  BY DEF Fired
<1> HIDE DEF rs
<1>3. /\ to \in Call /\ KeepsRest(to, call[c]) /\ to.out = call[c].out
      /\ to.stage = IF rs = {} THEN After[call[c].stage] ELSE call[c].stage
      /\ to.pending = rs /\ to.firing = FALSE /\ to.todo = <<>>
  <2>1. FireIs(to, call[c], call[c].stage, rs)
    BY <1>1, FireType
  <2> QED
    BY <2>1 DEF FireIs
<1> HIDE DEF to
<1>4. Quiet(c) /\ call'[c] = to
  BY <1>2, <1>3, StepType DEF Quiet
<1> QED
  BY <1>1, <1>3, <1>4 DEF Fires, rs

\* Insert: the row is in the transaction, or in the table.
LEMMA InsertEffect ==
    ASSUME TypeOK, NEW c \in Client, CreateShape(c), DeleteShape(c), Insert(c)
    PROVE  /\ Quiet(c) /\ Conn(c) /\ call[c].stage = "insert" /\ call[c].op = "create"
           /\ call[c].rows = {Object[c]}
           /\ call'[c].op = call[c].op /\ call'[c].atomic = call[c].atomic
           /\ call'[c].del = call[c].del /\ call'[c].gone = call[c].gone
           /\ call'[c].rows = call[c].rows /\ call'[c].ran = call[c].ran
           /\ call'[c].start = call[c].start /\ call'[c].seen = call[c].seen
           /\ call'[c].out = call[c].out
           /\ call'[c].stage = "postSave" /\ call'[c].pending = {Object[c]}
           /\ call'[c].firing = FALSE
           /\ \/ /\ c \in holders /\ table' = table
                 /\ call'[c].ins = call[c].ins \cup {Object[c]}
              \/ /\ c \notin holders /\ table' = table \cup {Object[c]}
                 /\ call'[c].ins = call[c].ins
<1> DEFINE mid == [call[c] EXCEPT !.ins = @ \cup call[c].rows]
           to == Fire(mid, "postSave", {Object[c]})
           out == Fire(call[c], "postSave", {Object[c]})
<1>1. /\ call[c].stage = "insert" /\ Conn(c) /\ call[c] \in Call /\ call[c].op = "create"
      /\ call[c].rows = {Object[c]} /\ {Object[c]} \in SUBSET Row /\ {Object[c]} # {}
      /\ "postSave" \in Kind
  BY DEF Insert, CreateShape, DeleteShape, Deleting, TypeOK, Call, Kind
<1>2. CASE c \in holders
  <2>1. Step(c, to) /\ table' = table
    BY <1>1, <1>2 DEF Insert
  <2>2. mid \in Call
    BY <1>1 DEF Call
  <2>3. /\ mid.op = call[c].op /\ mid.atomic = call[c].atomic
        /\ mid.ins = call[c].ins \cup {Object[c]} /\ mid.del = call[c].del
        /\ mid.gone = call[c].gone /\ mid.rows = call[c].rows
        /\ mid.start = call[c].start /\ mid.seen = call[c].seen
        /\ mid.ran = call[c].ran /\ mid.out = call[c].out
    BY <1>1 DEF Call
  <2> HIDE DEF mid
  <2>4. /\ to \in Call /\ KeepsRest(to, mid) /\ to.out = mid.out
        /\ to.stage = "postSave" /\ to.pending = {Object[c]} /\ to.firing = FALSE
    <3>1. FireIs(to, mid, "postSave", {Object[c]})
      BY <1>1, <2>2, FireType
    <3> QED
      BY <3>1, <1>1 DEF FireIs
  <2> HIDE DEF to
  <2>5. Quiet(c) /\ call'[c] = to
    BY <2>1, <2>4, StepType DEF Quiet
  <2> QED
    BY <1>1, <1>2, <2>1, <2>3, <2>4, <2>5 DEF KeepsRest
<1>3. CASE c \notin holders
  <2>1. Step(c, out) /\ table' = table \cup {Object[c]}
    BY <1>1, <1>3 DEF Insert
  <2>4. /\ out \in Call /\ KeepsRest(out, call[c]) /\ out.out = call[c].out
        /\ out.stage = "postSave" /\ out.pending = {Object[c]} /\ out.firing = FALSE
    <3>1. FireIs(out, call[c], "postSave", {Object[c]})
      BY <1>1, FireType
    <3> QED
      BY <3>1, <1>1 DEF FireIs
  <2> HIDE DEF out
  <2>5. Quiet(c) /\ call'[c] = out
    BY <2>1, <2>4, StepType DEF Quiet
  <2> QED
    BY <1>1, <1>3, <2>1, <2>4, <2>5 DEF KeepsRest
<1> QED
  BY <1>2, <1>3

\* A step that only goes to another stage.
LEMMA StageEffect ==
    ASSUME TypeOK, NEW c \in Client, NEW st \in StageSet,
           Step(c, [call[c] EXCEPT !.stage = st])
    PROVE  /\ Quiet(c) /\ KeepsRest(call'[c], call[c]) /\ KeepsFiring(c)
           /\ call'[c].out = call[c].out /\ call'[c].stage = st
<1> DEFINE to == [call[c] EXCEPT !.stage = st]
<1>1. call[c] \in Call
  BY DEF TypeOK
<1>2. to \in Call
  BY <1>1 DEF Call, StageSet
<1>3. /\ KeepsRest(to, call[c]) /\ to.out = call[c].out /\ to.stage = st
      /\ to.pending = call[c].pending /\ to.firing = call[c].firing
      /\ to.at = call[c].at /\ to.todo = call[c].todo
  BY <1>1 DEF Call, KeepsRest
<1>4. Step(c, to)
  OBVIOUS
<1> HIDE DEF to
<1> QED
  BY <1>2, <1>3, <1>4, StepType DEF Quiet, KeepsFiring

\* Has and HasPost: where hasDeleteHandlers leads.
LEMMA HasEffect ==
    ASSUME TypeOK, NEW c \in Client, Has(c) \/ HasPost(c)
    PROVE  /\ Quiet(c) /\ KeepsRest(call'[c], call[c]) /\ KeepsFiring(c)
           /\ call'[c].out = call[c].out /\ table' = table
           /\ \/ call[c].stage \in {"has", "hasPost"} /\ call'[c].stage = "all"
              \/ /\ call[c].stage = "has" /\ call'[c].stage = "hasPost"
                 /\ handlers["preDelete"] = <<>>
              \/ /\ call[c].stage = "hasPost" /\ call'[c].stage = "delete"
                 /\ handlers["postDelete"] = <<>>
BY StageEffect DEF Has, HasPost, StageSet

\* All: the rows to fire for are those visible now.
LEMMA AllEffect ==
    ASSUME TypeOK, NEW c \in Client, All(c)
    PROVE  /\ Quiet(c) /\ table' = table /\ call[c].stage = "all"
           /\ call'[c].op = call[c].op /\ call'[c].atomic = call[c].atomic
           /\ call'[c].ins = call[c].ins /\ call'[c].del = call[c].del
           /\ call'[c].gone = call[c].gone /\ call'[c].ran = call[c].ran
           /\ call'[c].start = call[c].start /\ call'[c].seen = call[c].seen
           /\ call'[c].out = call[c].out /\ call'[c].rows = Visible(c)
           /\ Fires(c, "preDelete", Visible(c))
<1> DEFINE mid == [call[c] EXCEPT !.rows = Visible(c)]
           to == Fire(mid, "preDelete", Visible(c))
<1>1. /\ call[c].stage = "all" /\ call[c] \in Call /\ Visible(c) \in SUBSET Row
      /\ "preDelete" \in Kind /\ table' = table /\ Step(c, to)
  BY DEF All, TypeOK, Call, Visible, Kind
<1>2. mid \in Call
  BY <1>1 DEF Call
<1>3. /\ mid.op = call[c].op /\ mid.atomic = call[c].atomic
      /\ mid.ins = call[c].ins /\ mid.del = call[c].del
      /\ mid.gone = call[c].gone /\ mid.rows = Visible(c)
      /\ mid.start = call[c].start /\ mid.seen = call[c].seen
      /\ mid.ran = call[c].ran /\ mid.out = call[c].out
  BY <1>1 DEF Call
<1> HIDE DEF mid
<1>4. /\ to \in Call /\ KeepsRest(to, mid) /\ to.out = mid.out
      /\ to.stage = (IF Visible(c) = {} THEN After["preDelete"] ELSE "preDelete")
      /\ to.pending = Visible(c) /\ to.firing = FALSE /\ to.todo = <<>>
  <2>1. FireIs(to, mid, "preDelete", Visible(c))
    BY <1>1, <1>2, FireType
  <2> QED
    BY <2>1 DEF FireIs
<1> HIDE DEF to
<1>5. Quiet(c) /\ call'[c] = to
  BY <1>1, <1>4, StepType DEF Quiet
<1> QED
  BY <1>1, <1>3, <1>4, <1>5 DEF KeepsRest, Fires

\* Delete: the rows visible now are gone.
LEMMA DeleteEffect ==
    ASSUME TypeOK, NEW c \in Client, Delete(c)
    PROVE  /\ Quiet(c) /\ call[c].stage = "delete" /\ Conn(c)
           /\ call'[c].op = call[c].op /\ call'[c].atomic = call[c].atomic
           /\ call'[c].ins = call[c].ins /\ call'[c].ran = call[c].ran
           /\ call'[c].start = call[c].start /\ call'[c].seen = call[c].seen
           /\ call'[c].out = call[c].out /\ call'[c].rows = call[c].rows
           /\ call'[c].gone = Visible(c)
           /\ Fires(c, "postDelete", call[c].rows)
           /\ \/ c \in holders /\ table' = table /\ call'[c].del = Visible(c)
              \/ /\ c \notin holders /\ table' = table \ Visible(c)
                 /\ call'[c].del = call[c].del
<1> DEFINE mid == [call[c] EXCEPT !.gone = Visible(c)]
           to == Fire(mid, "postDelete", call[c].rows)
           tx == [to EXCEPT !.del = Visible(c)]
<1>1. /\ call[c].stage = "delete" /\ call[c] \in Call /\ Visible(c) \in SUBSET Row
      /\ "postDelete" \in Kind /\ Conn(c) /\ call[c].rows \in SUBSET Row
  BY DEF Delete, TypeOK, Call, Visible, Kind
<1>6. IF c \in holders THEN Step(c, tx) /\ table' = table
      ELSE Step(c, to) /\ table' = table \ Visible(c)
  BY DEF Delete
<1>2. mid \in Call
  BY <1>1 DEF Call
<1>3. /\ mid.op = call[c].op /\ mid.atomic = call[c].atomic
      /\ mid.ins = call[c].ins /\ mid.del = call[c].del
      /\ mid.gone = Visible(c) /\ mid.rows = call[c].rows
      /\ mid.start = call[c].start /\ mid.seen = call[c].seen
      /\ mid.ran = call[c].ran /\ mid.out = call[c].out
  BY <1>1 DEF Call
<1> HIDE DEF mid
<1>4. /\ to \in Call /\ KeepsRest(to, mid) /\ to.out = mid.out
      /\ to.stage = (IF call[c].rows = {} THEN After["postDelete"] ELSE "postDelete")
      /\ to.pending = call[c].rows /\ to.firing = FALSE /\ to.todo = <<>>
  <2>1. FireIs(to, mid, "postDelete", call[c].rows)
    BY <1>1, <1>2, FireType
  <2> QED
    BY <2>1 DEF FireIs
<1> HIDE DEF to
<1>7. CASE c \notin holders
  <2>5. Quiet(c) /\ call'[c] = to /\ table' = table \ Visible(c)
    BY <1>6, <1>7, <1>4, StepType DEF Quiet
  <2> QED
    BY <1>1, <1>3, <1>4, <1>7, <2>5 DEF KeepsRest, Fires
<1>8. CASE c \in holders
  <2>1. tx \in Call
    BY <1>1, <1>4 DEF Call
  <2>2. /\ tx.op = to.op /\ tx.atomic = to.atomic /\ tx.ins = to.ins /\ tx.gone = to.gone
        /\ tx.rows = to.rows /\ tx.start = to.start /\ tx.seen = to.seen /\ tx.ran = to.ran
        /\ tx.out = to.out /\ tx.stage = to.stage /\ tx.pending = to.pending
        /\ tx.firing = to.firing /\ tx.todo = to.todo /\ tx.del = Visible(c)
    BY <1>1, <1>4 DEF Call
  <2> HIDE DEF tx
  <2>5. Quiet(c) /\ call'[c] = tx /\ table' = table
    BY <1>6, <1>8, <2>1, StepType DEF Quiet
  <2> QED
    BY <1>1, <1>3, <1>4, <1>8, <2>2, <2>5 DEF KeepsRest, Fires
<1> QED
  BY <1>7, <1>8

\* QueryFails: only the outcome and the stage change.
LEMMA QueryFailsEffect ==
    ASSUME TypeOK, NEW c \in Client, QueryFails(c)
    PROVE  /\ Quiet(c) /\ table' = table /\ call[c].stage \in {"insert", "all", "delete"}
           /\ KeepsRest(call'[c], call[c])
           /\ call'[c].stage = "finish"
           /\ call'[c].out = IF call[c].stage = "all" \/ c \in holders THEN "err" ELSE "unknown"
           /\ call'[c].pending = call[c].pending /\ call'[c].firing = call[c].firing
<1> DEFINE sure == call[c].stage = "all" \/ c \in holders
           to == IF sure THEN Failed(call[c]) ELSE InDoubt(call[c])
<1>1. Step(c, to) /\ call[c] \in Call
  BY DEF QueryFails, TypeOK
<1>2. /\ to \in Call /\ KeepsRest(to, call[c]) /\ to.stage = "finish"
      /\ to.out = (IF sure THEN "err" ELSE "unknown")
      /\ to.pending = call[c].pending /\ to.firing = call[c].firing
  BY <1>1, FailedType, InDoubtType
<1> HIDE DEF to
<1> QED
  BY <1>1, <1>2, StepType DEF Quiet, QueryFails

\* InsertLost: the row is in the table, and the caller cannot know.
LEMMA InsertLostEffect ==
    ASSUME TypeOK, NEW c \in Client, InsertLost(c)
    PROVE  /\ Quiet(c) /\ call[c].stage = "insert" /\ c \notin holders /\ Conn(c)
           /\ table' = table \cup call[c].rows
           /\ KeepsRest(call'[c], call[c])
           /\ call'[c].stage = "finish" /\ call'[c].out = "unknown"
           /\ call'[c].pending = call[c].pending /\ call'[c].firing = call[c].firing
<1> DEFINE to == InDoubt(call[c])
<1>1. Step(c, to) /\ call[c] \in Call
  BY DEF InsertLost, TypeOK
<1>2. /\ to \in Call /\ KeepsRest(to, call[c]) /\ to.stage = "finish" /\ to.out = "unknown"
      /\ to.pending = call[c].pending /\ to.firing = call[c].firing
  BY <1>1, InDoubtType
<1> HIDE DEF to
<1> QED
  BY <1>1, <1>2, StepType DEF Quiet, InsertLost, Conn

\* DeleteLost: the rows visible are gone, and the caller cannot know.
LEMMA DeleteLostEffect ==
    ASSUME TypeOK, NEW c \in Client, DeleteLost(c)
    PROVE  /\ Quiet(c) /\ call[c].stage = "delete" /\ c \notin holders /\ Conn(c)
           /\ table' = table \ Visible(c)
           /\ call'[c].op = call[c].op /\ call'[c].atomic = call[c].atomic
           /\ call'[c].ins = call[c].ins /\ call'[c].ran = call[c].ran
           /\ call'[c].start = call[c].start /\ call'[c].seen = call[c].seen
           /\ call'[c].rows = call[c].rows /\ call'[c].del = call[c].del
           /\ call'[c].gone = Visible(c)
           /\ call'[c].stage = "finish" /\ call'[c].out = "unknown"
           /\ call'[c].pending = call[c].pending /\ call'[c].firing = call[c].firing
<1> DEFINE mid == InDoubt(call[c])
           to == [mid EXCEPT !.gone = Visible(c)]
<1>1. Step(c, to) /\ call[c] \in Call /\ Visible(c) \in SUBSET Row
  BY DEF DeleteLost, TypeOK, Call, Visible
<1>2. /\ mid \in Call /\ KeepsRest(mid, call[c]) /\ mid.stage = "finish" /\ mid.out = "unknown"
      /\ mid.pending = call[c].pending /\ mid.firing = call[c].firing
  BY <1>1, InDoubtType
<1> HIDE DEF mid
<1>3. /\ to \in Call /\ to.stage = "finish" /\ to.out = "unknown" /\ to.gone = Visible(c)
      /\ to.pending = mid.pending /\ to.firing = mid.firing
      /\ to.op = mid.op /\ to.atomic = mid.atomic /\ to.rows = mid.rows /\ to.ran = mid.ran
      /\ to.ins = mid.ins /\ to.del = mid.del /\ to.start = mid.start /\ to.seen = mid.seen
  BY <1>1, <1>2 DEF Call
<1> HIDE DEF to
<1>4. Quiet(c) /\ call'[c] = to
  BY <1>1, <1>3, StepType DEF Quiet
<1> QED
  BY <1>2, <1>3, <1>4 DEF DeleteLost, Conn, KeepsRest

\* Finish: a commit, one whose answer is lost, one that fails or a rollback,
\* or no transaction.
LEMMA FinishEffect ==
    ASSUME TypeOK, NEW c \in Client, Finish(c)
    PROVE  /\ call' \in [Client -> Call] /\ Others(c)
           /\ UNCHANGED <<handlers, nextID, active>>
           /\ holders' = holders \ {c} /\ call[c].stage = "finish"
           /\ call'[c].op = call[c].op /\ call'[c].atomic = call[c].atomic
           /\ call'[c].rows = call[c].rows /\ call'[c].gone = call[c].gone
           /\ call'[c].ins = {} /\ call'[c].del = {} /\ call'[c].stage = "done"
           /\ call'[c].pending = {} /\ call'[c].firing = FALSE /\ call'[c].ran = <<>>
           /\ call'[c].start = [k \in Kind |-> {}]
           /\ \/ /\ c \in holders /\ call[c].out = "ok" /\ call'[c].out = "ok"
                 /\ table' = (table \cup call[c].ins) \ call[c].del
              \/ /\ c \in holders /\ call[c].out = "ok" /\ call'[c].out = "unknown"
                 /\ table' \in {table, (table \cup call[c].ins) \ call[c].del}
              \/ /\ c \in holders /\ call[c].out # "ok" /\ call'[c].out = call[c].out
                 /\ table' = table
              \/ /\ c \notin holders /\ call'[c].out = call[c].out /\ table' = table
<1>1. PICK answer \in IF c \in holders /\ Commits(c) THEN {"ok", "fails", "lost"} ELSE {"ok"} :
         /\ table' = IF c \in holders /\ Commits(c) /\ answer # "fails"
                     THEN (table \cup call[c].ins) \ call[c].del ELSE table
         /\ call' = [call EXCEPT ![c] = [Idle(c) EXCEPT
                         !.stage = "done", !.op = call[c].op, !.rows = call[c].rows,
                         !.atomic = call[c].atomic, !.gone = call[c].gone,
                         !.out = IF answer = "ok" THEN call[c].out ELSE "unknown"]]
  BY DEF Finish
<1> DEFINE out == IF answer = "ok" THEN call[c].out ELSE "unknown"
           to == [Idle(c) EXCEPT
                         !.stage = "done", !.op = call[c].op, !.rows = call[c].rows,
                         !.atomic = call[c].atomic, !.gone = call[c].gone,
                         !.out = out]
<1>2. call[c] \in Call /\ out \in {"ok", "err", "unknown"} /\ Idle(c) \in Call
      /\ answer \in {"ok", "fails", "lost"}
  BY IdleType DEF TypeOK, Call
<1>3. call' = [call EXCEPT ![c] = to]
  BY <1>1
<1> HIDE DEF out
<1>4. to \in Call
  BY <1>2 DEF Call
<1>5. /\ to.op = call[c].op /\ to.atomic = call[c].atomic
      /\ to.rows = call[c].rows /\ to.gone = call[c].gone
      /\ to.ins = {} /\ to.del = {} /\ to.stage = "done" /\ to.out = out
      /\ to.pending = {} /\ to.firing = FALSE /\ to.ran = <<>>
      /\ to.start = [k \in Kind |-> {}]
  BY DEF Idle
<1> HIDE DEF to
<1>6. call' \in [Client -> Call] /\ Others(c) /\ call'[c] = to
  BY <1>3, <1>4 DEF TypeOK, Others
<1>7. \/ /\ c \in holders /\ call[c].out = "ok" /\ out = "ok"
         /\ table' = (table \cup call[c].ins) \ call[c].del
      \/ /\ c \in holders /\ call[c].out = "ok" /\ out = "unknown"
         /\ table' \in {table, (table \cup call[c].ins) \ call[c].del}
      \/ /\ c \in holders /\ call[c].out # "ok" /\ out = call[c].out /\ table' = table
      \/ /\ c \notin holders /\ out = call[c].out /\ table' = table
  BY <1>1, <1>2 DEF Commits, out, Call
<1> QED
  BY <1>5, <1>6, <1>7 DEF Finish, Release

-----------------------------------------------------------------------------
(* Registering and cancelling a handler. *)

(* A call is the same but for the handlers seen while it runs. *)
SameBut(d) ==
    /\ call'[d].op = call[d].op /\ call'[d].atomic = call[d].atomic
    /\ call'[d].rows = call[d].rows /\ call'[d].stage = call[d].stage
    /\ call'[d].pending = call[d].pending /\ call'[d].firing = call[d].firing
    /\ call'[d].at = call[d].at /\ call'[d].todo = call[d].todo
    /\ call'[d].ins = call[d].ins /\ call'[d].del = call[d].del
    /\ call'[d].out = call[d].out /\ call'[d].ran = call[d].ran
    /\ call'[d].start = call[d].start /\ call'[d].gone = call[d].gone

\* Register: a running call has seen the new handler, the rest is the same.
LEMMA RegisterEffect ==
    ASSUME TypeOK, NEW k \in Kind, Register(k), UNCHANGED setting
    PROVE  /\ call' \in [Client -> Call] /\ table' = table /\ holders' = holders
           /\ nextID \in Nat /\ nextID' = nextID + 1 /\ nextID' \in Id
           /\ nextID' \in 0 .. setting.handlers
           /\ handlers' \in [Kind -> Seq(Id)] /\ active' \in [Kind -> SUBSET Id]
           /\ \A j \in Kind \ {k} : handlers'[j] = handlers[j] /\ active'[j] = active[j]
           /\ handlers'[k] = Append(handlers[k], nextID')
           /\ active'[k] = active[k] \cup {nextID'}
           /\ \A d \in Client :
                /\ SameBut(d)
                /\ call[d].stage \in {"idle", "done"} => call'[d].seen = call[d].seen
                /\ call[d].stage \notin {"idle", "done"} =>
                     call'[d].seen = [call[d].seen EXCEPT ![k] = @ \cup {nextID'}]
<1>1. /\ nextID \in Nat /\ setting \in Settings /\ setting.handlers \in Nat
      /\ nextID < setting.handlers /\ nextID' = nextID + 1
  BY BoundAssumption DEF TypeOK, Register
<1>2. nextID' \in Id /\ nextID' \in 0 .. setting.handlers
  BY <1>1, IdType
<1>3. /\ handlers' = [handlers EXCEPT ![k] = Append(@, nextID')]
      /\ active' = [active EXCEPT ![k] = @ \cup {nextID'}]
      /\ table' = table /\ holders' = holders
  BY DEF Register
<1>4. /\ handlers' \in [Kind -> Seq(Id)] /\ active' \in [Kind -> SUBSET Id]
      /\ \A j \in Kind \ {k} : handlers'[j] = handlers[j] /\ active'[j] = active[j]
      /\ handlers'[k] = Append(handlers[k], nextID')
      /\ active'[k] = active[k] \cup {nextID'}
  <2>1. Append(handlers[k], nextID') \in Seq(Id)
    BY <1>2 DEF TypeOK
  <2> QED
    BY <1>2, <1>3, <2>1 DEF TypeOK
<1> DEFINE new(d) == [call[d] EXCEPT !.seen[k] = @ \cup {nextID'}]
           to(d) == IF call[d].stage \in {"idle", "done"} THEN call[d] ELSE new(d)
<1>5. call' = [d \in Client |-> to(d)]
  BY DEF Register
<1>6. ASSUME NEW d \in Client
      PROVE  /\ to(d) \in Call
             /\ to(d).op = call[d].op /\ to(d).atomic = call[d].atomic
             /\ to(d).rows = call[d].rows /\ to(d).stage = call[d].stage
             /\ to(d).pending = call[d].pending /\ to(d).firing = call[d].firing
             /\ to(d).at = call[d].at /\ to(d).todo = call[d].todo
             /\ to(d).ins = call[d].ins /\ to(d).del = call[d].del
             /\ to(d).out = call[d].out /\ to(d).ran = call[d].ran
             /\ to(d).start = call[d].start /\ to(d).gone = call[d].gone
             /\ call[d].stage \in {"idle", "done"} => to(d).seen = call[d].seen
             /\ call[d].stage \notin {"idle", "done"} =>
                  to(d).seen = [call[d].seen EXCEPT ![k] = @ \cup {nextID'}]
  <2>1. call[d] \in Call
    BY DEF TypeOK
  <2> DEFINE seen == [call[d].seen EXCEPT ![k] = @ \cup {nextID'}]
  <2>2. seen \in [Kind -> SUBSET Id] /\ new(d) = [call[d] EXCEPT !.seen = seen]
    BY <2>1, <1>2 DEF Call
  <2> HIDE DEF seen
  <2>3. /\ new(d) \in Call
        /\ new(d).op = call[d].op /\ new(d).atomic = call[d].atomic
        /\ new(d).rows = call[d].rows /\ new(d).stage = call[d].stage
        /\ new(d).pending = call[d].pending /\ new(d).firing = call[d].firing
        /\ new(d).at = call[d].at /\ new(d).todo = call[d].todo
        /\ new(d).ins = call[d].ins /\ new(d).del = call[d].del
        /\ new(d).out = call[d].out /\ new(d).ran = call[d].ran
        /\ new(d).start = call[d].start /\ new(d).gone = call[d].gone
        /\ new(d).seen = seen
    BY <2>1, <2>2 DEF Call
  <2> HIDE DEF new
  <2> QED
    BY <2>1, <2>3 DEF seen
<1> HIDE DEF to
<1>7. call' \in [Client -> Call] /\ \A d \in Client : call'[d] = to(d)
  BY <1>5, <1>6
<1> QED
  BY <1>1, <1>2, <1>3, <1>4, <1>6, <1>7 DEF SameBut

(* t is s without its i-th entry. *)
IsSplice(t, s, i) ==
    /\ t \in Seq(Id) /\ Len(t) = Len(s) - 1
    /\ \A n \in 1 .. Len(s) - 1 : t[n] = IF n < i THEN s[n] ELSE s[n + 1]

\* What the splice of the cancel function leaves, position by position.
LEMMA SpliceType ==
    ASSUME NEW s \in Seq(Id), NEW i \in DOMAIN s
    PROVE  IsSplice(SubSeq(s, 1, i - 1) \o SubSeq(s, i + 1, Len(s)), s, i)
<1> DEFINE a == SubSeq(s, 1, i - 1)
           b == SubSeq(s, i + 1, Len(s))
<1>1. i \in 1 .. Len(s) /\ Len(s) \in Nat
  OBVIOUS
<1>2. a \in Seq(Id) /\ Len(a) = i - 1 /\ \A n \in 1 .. i - 1 : a[n] = s[n]
  BY <1>1
<1>3. b \in Seq(Id) /\ Len(b) = Len(s) - i
      /\ \A n \in 1 .. Len(s) - i : b[n] = s[n + i]
  BY <1>1
<1> HIDE DEF a, b
<1>4. a \o b \in Seq(Id) /\ Len(a \o b) = Len(s) - 1
      /\ \A n \in 1 .. Len(s) - 1 : (a \o b)[n] = IF n < i THEN s[n] ELSE s[n + 1]
  BY <1>1, <1>2, <1>3, SMTT(30)
<1> QED
  BY <1>4 DEF a, b, IsSplice

(* The splice of cancel takes one entry out of a strictly increasing list. *)
LEMMA RemoveType ==
    ASSUME NEW s \in Seq(Id), NEW id \in Ids(s), Increasing(s)
    PROVE  /\ Remove(s, id) \in Seq(Id) /\ Increasing(Remove(s, id))
           /\ Ids(Remove(s, id)) = Ids(s) \ {id}
<1> DEFINE i == CHOOSE i \in DOMAIN s : s[i] = id
           t == Remove(s, id)
<1>1. i \in DOMAIN s /\ s[i] = id
  BY DEF Ids
<1>2. t = SubSeq(s, 1, i - 1) \o SubSeq(s, i + 1, Len(s))
  BY DEF Remove
<1> HIDE DEF i, t
<1>3. /\ t \in Seq(Id) /\ Len(t) = Len(s) - 1 /\ i \in 1 .. Len(s) /\ Len(s) \in Nat
      /\ \A n \in 1 .. Len(s) - 1 : t[n] = IF n < i THEN s[n] ELSE s[n + 1]
  <2>1. IsSplice(t, s, i)
    BY <1>1, <1>2, SpliceType
  <2> QED
    BY <2>1, <1>1 DEF IsSplice
<1>4. DOMAIN t = 1 .. Len(s) - 1 /\ DOMAIN s = 1 .. Len(s)
  BY <1>3
<1>5. \A n \in DOMAIN s : s[n] \in Nat
  BY IdsAreNaturals
<1>6. Increasing(t)
  <2> SUFFICES ASSUME NEW m \in DOMAIN t, NEW n \in DOMAIN t, m < n
               PROVE  t[m] < t[n]
    BY DEF Increasing
  <2>1. m \in 1 .. Len(s) - 1 /\ n \in 1 .. Len(s) - 1
    BY <1>4
  <2>2. \A p, q \in 1 .. Len(s) : p < q => s[p] < s[q]
    BY <1>4 DEF Increasing
  <2>3. CASE n < i
    <3>1. t[m] = s[m] /\ t[n] = s[n] /\ m \in 1 .. Len(s) /\ n \in 1 .. Len(s)
      BY <2>1, <2>3, <1>3
    <3> QED
      BY <3>1, <2>2
  <2>4. CASE ~(n < i) /\ m < i
    <3>1. t[m] = s[m] /\ t[n] = s[n + 1] /\ m \in 1 .. Len(s) /\ n + 1 \in 1 .. Len(s) /\ m < n + 1
      BY <2>1, <2>4, <1>3
    <3> QED
      BY <3>1, <2>2
  <2>5. CASE ~(m < i)
    <3>1. t[m] = s[m + 1] /\ t[n] = s[n + 1] /\ m + 1 \in 1 .. Len(s) /\ n + 1 \in 1 .. Len(s)
          /\ m + 1 < n + 1
      BY <2>1, <2>5, <1>3
    <3> QED
      BY <3>1, <2>2
  <2> QED
    BY <2>3, <2>4, <2>5, <2>1, <1>3
<1>7. ASSUME NEW h \in Ids(t) PROVE h \in Ids(s) \ {id}
  <2>1. PICK n \in DOMAIN t : h = t[n]
    BY DEF Ids
  <2>2. CASE n < i
    <3>1. h = s[n] /\ n \in DOMAIN s
      BY <2>1, <2>2, <1>3, <1>4
    <3>2. s[n] < s[i]
      BY <3>1, <2>2, <1>1 DEF Increasing
    <3> QED
      BY <3>1, <3>2, <1>1, <1>5 DEF Ids
  <2>3. CASE ~(n < i)
    <3>1. h = s[n + 1] /\ n + 1 \in DOMAIN s /\ i < n + 1
      BY <2>1, <2>3, <1>3, <1>4
    <3>2. s[i] < s[n + 1]
      BY <3>1, <1>1 DEF Increasing
    <3> QED
      BY <3>1, <3>2, <1>1, <1>5 DEF Ids
  <2> QED
    BY <2>2, <2>3
<1>8. ASSUME NEW h \in Ids(s) \ {id} PROVE h \in Ids(t)
  <2>1. PICK n \in DOMAIN s : h = s[n]
    BY DEF Ids
  <2>2. n # i /\ n \in 1 .. Len(s)
    BY <2>1, <1>1, <1>4
  <2>3. CASE n < i
    <3>1. n \in DOMAIN t /\ t[n] = h
      BY <2>1, <2>2, <2>3, <1>3, <1>4
    <3> QED
      BY <3>1 DEF Ids
  <2>4. CASE i < n
    <3>1. n - 1 \in DOMAIN t /\ t[n - 1] = h
      BY <2>1, <2>2, <2>4, <1>3, <1>4
    <3> QED
      BY <3>1 DEF Ids
  <2> QED
    BY <2>2, <2>3, <2>4, <1>3
<1> QED
  BY <1>3, <1>6, <1>7, <1>8 DEF t

\* Cancel: one handler less, and the lists stay in order.
LEMMA CancelEffect ==
    ASSUME TypeOK, RegistryOK, NEW k \in Kind, Cancel(k)
    PROVE  /\ UNCHANGED <<table, nextID, holders, call>>
           /\ handlers' \in [Kind -> Seq(Id)] /\ active' \in [Kind -> SUBSET Id]
           /\ \A j \in Kind : active'[j] \subseteq active[j]
           /\ RegistryOK'
<1>1. PICK id \in active[k] :
        /\ handlers' = [handlers EXCEPT ![k] = Remove(@, id)]
        /\ active' = [active EXCEPT ![k] = @ \ {id}]
        /\ UNCHANGED <<table, nextID, holders, call>>
  BY DEF Cancel
<1>2. /\ Remove(handlers[k], id) \in Seq(Id) /\ Increasing(Remove(handlers[k], id))
      /\ Ids(Remove(handlers[k], id)) = active[k] \ {id}
  BY RemoveType DEF RegistryOK, TypeOK
<1>3. /\ handlers' \in [Kind -> Seq(Id)] /\ active' \in [Kind -> SUBSET Id]
      /\ \A j \in Kind : active'[j] \subseteq active[j]
  BY <1>1, <1>2 DEF TypeOK
<1>4. ASSUME NEW j \in Kind
      PROVE  /\ Ids(handlers'[j]) = active'[j] /\ Increasing(handlers'[j])
             /\ \A h \in active'[j] : h <= nextID'
  <2>1. CASE j = k
    BY <1>1, <1>2, <2>1 DEF RegistryOK, TypeOK
  <2>2. CASE j # k
    BY <1>1, <2>2 DEF RegistryOK, TypeOK
  <2> QED
    BY <2>1, <2>2
<1> QED
  BY <1>1, <1>3, <1>4 DEF RegistryOK

\* A new identifier is above all the others, so appending keeps the order.
LEMMA RegisterRegistry ==
    ASSUME TypeOK, RegistryOK, NEW k \in Kind, Register(k), UNCHANGED setting
    PROVE  RegistryOK'
<1>1. ASSUME NEW j \in Kind \ {k}
      PROVE  /\ Ids(handlers'[j]) = active'[j] /\ Increasing(handlers'[j])
             /\ \A h \in active'[j] : h <= nextID'
  <2>1. \A h \in active[j] : h <= nextID /\ h \in Nat
    BY IdsAreNaturals DEF RegistryOK, TypeOK
  <2> QED
    BY <2>1, RegisterEffect, SMTT(30) DEF RegistryOK
<1>2. /\ Ids(handlers'[k]) = active'[k] /\ Increasing(handlers'[k])
      /\ \A h \in active'[k] : h <= nextID'
  <2> DEFINE s == handlers[k]
             t == Append(s, nextID')
  <2>1. s \in Seq(Id) /\ Increasing(s) /\ Ids(s) = active[k]
        /\ \A h \in active[k] : h <= nextID /\ h \in Nat
    BY IdsAreNaturals DEF RegistryOK, TypeOK
  <2>2. handlers'[k] = t /\ nextID' = nextID + 1 /\ nextID \in Nat
        /\ active'[k] = active[k] \cup {nextID'}
    BY RegisterEffect
  <2> HIDE DEF s
  <2>3. /\ DOMAIN t = 1 .. Len(s) + 1 /\ DOMAIN s = 1 .. Len(s) /\ Len(s) \in Nat
        /\ \A n \in 1 .. Len(s) : t[n] = s[n]
        /\ t[Len(s) + 1] = nextID'
    BY <2>1, AppendProperties
  <2> HIDE DEF t
  <2>4. Ids(t) = Ids(s) \cup {nextID'}
    BY <2>3 DEF Ids
  <2>5. \A n \in 1 .. Len(s) : s[n] \in active[k]
    BY <2>1, <2>3 DEF Ids
  <2>6. Increasing(t)
    <3> SUFFICES ASSUME NEW m \in DOMAIN t, NEW n \in DOMAIN t, m < n
                 PROVE  t[m] < t[n]
      BY DEF Increasing
    <3>1. CASE n = Len(s) + 1
      BY <3>1, <2>1, <2>2, <2>3, <2>5
    <3>2. CASE n # Len(s) + 1
      BY <3>2, <2>1, <2>3 DEF Increasing
    <3> QED
      BY <3>1, <3>2
  <2> QED
    BY <2>1, <2>2, <2>4, <2>6
<1> QED
  BY <1>1, <1>2 DEF RegistryOK

-----------------------------------------------------------------------------
(* The shape of a call, stage by stage. *)

(* Of every call. *)
Shape == \A d \in Client : CallShape(d)

\* Start keeps the shape of the call and the pool in agreement.
LEMMA StartShape ==
    ASSUME TypeOK, HoldersMatch, NEW c \in Client, CallShape(c), Start(c)
    PROVE  CallShape(c)' /\ Matched(c)'
<1>1. c \notin holders
  BY StartEffect DEF HoldersMatch, Matched
<1>2. ~Saved(c)'
  <2>1. call'[c].ran = <<>>
    BY StartEffect
  <2> QED
    BY <2>1 DEF Saved
<1> QED
  BY <1>1, <1>2, StartEffect DEF CallShape, CreateShape, DeleteShape, Creating, Deleting, Kind, Quiet, Matched

\* Begin keeps the shape of the call and the pool in agreement.
LEMMA BeginShape ==
    ASSUME TypeOK, HoldersMatch, NEW c \in Client, CallShape(c), Begin(c)
    PROVE  CallShape(c)' /\ Matched(c)'
<1>1. CreateShape(c) /\ DeleteShape(c)
  BY DEF CallShape
<1>2. call[c].atomic \in BOOLEAN /\ call[c].stage = "begin" /\ call[c].atomic
  BY <1>1, BeginEffect DEF TypeOK, Call, CallShape
<1>3. Saved(c)' <=> Saved(c)
  <2>1. call'[c].ran = call[c].ran
    BY <1>1, BeginEffect
  <2> QED
    BY <2>1 DEF Saved
<1> QED
  BY <1>1, <1>2, <1>3, BeginEffect DEF CallShape, CreateShape, DeleteShape, Creating, Deleting, Kind, Matched

\* Snapshot keeps the shape of the call and the pool in agreement.
LEMMA SnapshotShape ==
    ASSUME TypeOK, HoldersMatch, NEW c \in Client, CallShape(c), Snapshot(c)
    PROVE  CallShape(c)' /\ Matched(c)'
BY SnapshotEffect DEF CallShape, CreateShape, DeleteShape, Creating, Deleting, Quiet, KeepsRest,
    HoldersMatch, Matched, Kind, Saved

\* RunHandler: a handler of PostSave has run once one runs, and not before.
LEMMA RunHandlerSaved ==
    ASSUME TypeOK, NEW c \in Client, CallShape(c), RunHandler(c)
    PROVE  Saved(c)' <=> Saved(c) \/ call[c].stage = "postSave"
<1> DEFINE h == <<call[c].stage, Head(call[c].todo), call[c].at>>
<1>1. /\ call[c].ran \in Seq(Kind \X Id \X Row) /\ h[1] = call[c].stage
      /\ call'[c].ran = Append(call[c].ran, h)
  BY RunHandlerEffect DEF TypeOK, Call
<1> HIDE DEF h
<1>2. /\ DOMAIN call'[c].ran = DOMAIN call[c].ran \cup {Len(call[c].ran) + 1}
      /\ call'[c].ran[Len(call[c].ran) + 1] = h
      /\ \A i \in DOMAIN call[c].ran : call'[c].ran[i] = call[c].ran[i]
  BY <1>1
<1> QED
  BY <1>1, <1>2 DEF Saved

\* RunHandler keeps the shape of the call and the pool in agreement.
LEMMA RunHandlerShape ==
    ASSUME TypeOK, HoldersMatch, NEW c \in Client, CallShape(c), RunHandler(c)
    PROVE  CallShape(c)' /\ Matched(c)'
BY RunHandlerEffect, RunHandlerSaved DEF CallShape, CreateShape, DeleteShape, Creating, Deleting,
    Quiet, HoldersMatch, Matched, Kind

\* Fired keeps the shape of the call and the pool in agreement.
LEMMA FiredShape ==
    ASSUME TypeOK, HoldersMatch, NEW c \in Client, CallShape(c), Fired(c)
    PROVE  CallShape(c)' /\ Matched(c)'
<1> DEFINE rs == call[c].pending \ {call[c].at}
<1>1. /\ call[c].stage \in Kind /\ Quiet(c) /\ KeepsRest(call'[c], call[c])
      /\ call'[c].out = call[c].out /\ call'[c].pending = rs /\ call'[c].firing = FALSE
      /\ call'[c].stage = IF rs = {} THEN After[call[c].stage] ELSE call[c].stage
      /\ rs \subseteq call[c].rows
  BY FiredEffect DEF Fires, CallShape
<1> HIDE DEF rs
<1>2. CASE rs # {}
  BY <1>1, <1>2 DEF CallShape, CreateShape, DeleteShape, Quiet, KeepsRest, HoldersMatch, Matched, Kind, Saved
<1>3. CASE rs = {}
  <2>1. \/ call[c].stage = "preSave" /\ call'[c].stage = "insert"
        \/ call[c].stage = "preDelete" /\ call'[c].stage = "delete"
        \/ call[c].stage \in {"postSave", "postDelete"} /\ call'[c].stage = "finish"
    BY <1>1, <1>3 DEF After, Kind
  <2> QED
    BY <1>1, <2>1 DEF CallShape, CreateShape, DeleteShape, Creating, Deleting, Quiet, KeepsRest,
       HoldersMatch, Matched, Kind, Saved
<1> QED
  BY <1>2, <1>3

\* Insert keeps the shape of the call and the pool in agreement.
LEMMA InsertShape ==
    ASSUME TypeOK, HoldersMatch, NEW c \in Client, CallShape(c), Insert(c)
    PROVE  CallShape(c)' /\ Matched(c)'
<1>1. CreateShape(c) /\ DeleteShape(c)
  BY DEF CallShape
<1>2. /\ Quiet(c) /\ call[c].stage = "insert" /\ call'[c].stage = "postSave"
      /\ call'[c].firing = FALSE /\ call'[c].pending = {Object[c]} /\ call[c].op = "create"
  BY <1>1, InsertEffect
<1>3. (call[c].atomic <=> c \in holders) /\ call[c].ins = {} /\ call[c].out = "ok"
  BY <1>1, <1>2 DEF HoldersMatch, Matched, CallShape, CreateShape
<1>4. Matched(c)'
  BY <1>1, <1>2, <1>3, InsertEffect DEF Matched, Quiet
<1>5. CreateShape(c)' /\ DeleteShape(c)'
  BY <1>1, <1>2, <1>3, InsertEffect DEF CreateShape, DeleteShape, Creating
<1> QED
  BY <1>1, <1>2, <1>3, <1>4, <1>5, InsertEffect DEF CallShape, Kind

\* Has and HasPost keeps the shape of the call and the pool in agreement.
LEMMA HasShape ==
    ASSUME TypeOK, HoldersMatch, NEW c \in Client, CallShape(c), Has(c) \/ HasPost(c)
    PROVE  CallShape(c)' /\ Matched(c)'
BY HasEffect DEF CallShape, CreateShape, DeleteShape, Creating, Deleting, Quiet, KeepsRest,
    KeepsFiring, HoldersMatch, Matched, Kind

\* All keeps the shape of the call and the pool in agreement.
LEMMA AllShape ==
    ASSUME TypeOK, HoldersMatch, NEW c \in Client, CallShape(c), All(c)
    PROVE  CallShape(c)' /\ Matched(c)'
<1>1. \/ call'[c].stage = "preDelete" /\ Visible(c) # {}
      \/ call'[c].stage = "delete" /\ Visible(c) = {}
  BY AllEffect DEF Fires, After
<1>2. /\ Quiet(c) /\ call[c].stage = "all" /\ call'[c].firing = FALSE
      /\ call'[c].pending = Visible(c)
  BY AllEffect DEF Fires
<1>3. call[c].op = "delete" /\ call[c].out = "ok" /\ "preDelete" \in Kind
  BY <1>2 DEF CallShape, CreateShape, Creating, TypeOK, Call, Kind
<1>4. Matched(c)'
  BY <1>1, <1>2, AllEffect DEF Matched, HoldersMatch, Quiet
<1>5. CreateShape(c)' /\ DeleteShape(c)'
  BY <1>1, <1>2, <1>3, AllEffect DEF CallShape, CreateShape, DeleteShape, Deleting, Quiet, Matched,
     HoldersMatch
<1> QED
  BY <1>1, <1>2, <1>3, <1>4, <1>5, AllEffect DEF CallShape, Kind, HoldersMatch, Matched

\* Delete keeps the shape of the call and the pool in agreement.
LEMMA DeleteShapeStep ==
    ASSUME TypeOK, HoldersMatch, NEW c \in Client, CallShape(c), Delete(c)
    PROVE  CallShape(c)' /\ Matched(c)'
<1>1. \/ call'[c].stage = "postDelete" /\ call[c].rows # {}
      \/ call'[c].stage = "finish" /\ call[c].rows = {}
  BY DeleteEffect DEF Fires, After
<1>2. /\ Quiet(c) /\ call[c].stage = "delete" /\ call'[c].firing = FALSE
      /\ call'[c].pending = call[c].rows
  BY DeleteEffect DEF Fires
<1>3. call[c].op = "delete" /\ call[c].out = "ok" /\ "postDelete" \in Kind
  BY <1>2 DEF CallShape, CreateShape, Creating, TypeOK, Call, Kind
<1>4. Matched(c)'
  BY <1>1, <1>2, DeleteEffect DEF Matched, HoldersMatch, Quiet
<1>5. CreateShape(c)' /\ DeleteShape(c)'
  BY <1>1, <1>2, <1>3, DeleteEffect DEF CallShape, CreateShape, DeleteShape, Deleting, Quiet, Matched,
     HoldersMatch
<1> QED
  BY <1>1, <1>2, <1>3, <1>4, <1>5, DeleteEffect DEF CallShape, Kind, HoldersMatch, Matched

\* QueryFails keeps the shape of the call and the pool in agreement.
LEMMA QueryFailsShape ==
    ASSUME TypeOK, HoldersMatch, NEW c \in Client, CallShape(c), QueryFails(c)
    PROVE  CallShape(c)' /\ Matched(c)'
BY QueryFailsEffect DEF CallShape, CreateShape, DeleteShape, Creating, Deleting, Quiet, KeepsRest,
    HoldersMatch, Matched, Kind

\* InsertLost keeps the shape of the call and the pool in agreement.
LEMMA InsertLostShape ==
    ASSUME TypeOK, HoldersMatch, NEW c \in Client, CallShape(c), InsertLost(c)
    PROVE  CallShape(c)' /\ Matched(c)'
BY InsertLostEffect DEF CallShape, CreateShape, DeleteShape, Creating, Deleting, Quiet, KeepsRest,
    HoldersMatch, Matched, Kind, Saved

\* DeleteLost keeps the shape of the call and the pool in agreement.
LEMMA DeleteLostShape ==
    ASSUME TypeOK, HoldersMatch, NEW c \in Client, CallShape(c), DeleteLost(c)
    PROVE  CallShape(c)' /\ Matched(c)'
<1>1. /\ Quiet(c) /\ call[c].stage = "delete" /\ call'[c].stage = "finish" /\ c \notin holders
      /\ call'[c].pending = call[c].pending /\ call'[c].firing = call[c].firing
  BY DeleteLostEffect
<1>2. call[c].op = "delete" /\ call[c].out = "ok" /\ call[c].atomic \in BOOLEAN
  BY <1>1 DEF CallShape, CreateShape, Creating, TypeOK, Call
<1>3. ~call[c].atomic
  BY <1>1, <1>2 DEF HoldersMatch, Matched
<1>4. Matched(c)'
  BY <1>1, <1>3, DeleteLostEffect DEF Matched, Quiet
<1>5. CreateShape(c)' /\ DeleteShape(c)'
  BY <1>1, <1>2, <1>3, DeleteLostEffect DEF CallShape, CreateShape, DeleteShape, Deleting
<1> QED
  BY <1>1, <1>2, <1>3, <1>4, <1>5, DeleteLostEffect DEF CallShape, Kind

\* Finish keeps the shape of the call and the pool in agreement.
LEMMA FinishShape ==
    ASSUME TypeOK, HoldersMatch, NEW c \in Client, CallShape(c), Finish(c)
    PROVE  CallShape(c)' /\ Matched(c)'
BY FinishEffect, ZenonT(60) DEF CallShape, CreateShape, DeleteShape, Creating, Deleting,
    HoldersMatch, Matched, Kind

(* The pool is not overdrawn. *)
LEMMA HoldersStep ==
    ASSUME TypeOK, HoldersMatch, NEW c \in Client,
           \/ holders' = holders
           \/ Free /\ holders' = holders \cup {c}
           \/ holders' = holders \ {c}
    PROVE  /\ holders' \in SUBSET Client /\ IsFiniteSet(holders')
           /\ Cardinality(holders') <= PoolSize
<1>1. /\ holders \in SUBSET Client /\ IsFiniteSet(holders)
      /\ Cardinality(holders) <= PoolSize /\ Cardinality(holders) \in Nat /\ PoolSize \in Nat
  BY FS_CardinalityType, BoundAssumption DEF TypeOK, HoldersMatch
<1>2. CASE holders' = holders
  BY <1>1, <1>2
<1>3. CASE Free /\ holders' = holders \cup {c}
  BY <1>1, <1>3, FS_AddElement DEF Free
<1>4. CASE holders' = holders \ {c}
  BY <1>1, <1>4, FS_RemoveElement
<1> QED
  BY <1>2, <1>3, <1>4

\* Types, the pool and the shape of every call outlive a step of a client.
LEMMA ShapeStep ==
    ASSUME TypeOK, HoldersMatch, Shape, NEW c \in Client, Start(c) \/ ClientStep(c),
           UNCHANGED setting
    PROVE  TypeOK' /\ HoldersMatch' /\ Shape'
<1> CallShape(c) /\ CreateShape(c) /\ DeleteShape(c)
  BY DEF Shape, CallShape
<1>1. CallShape(c)' /\ Matched(c)'
  BY StartShape, BeginShape, SnapshotShape, RunHandlerShape, FiredShape, InsertShape, HasShape,
     AllShape, DeleteShapeStep, QueryFailsShape, InsertLostShape, DeleteLostShape,
     FinishShape DEF ClientStep
<1>2. /\ call' \in [Client -> Call] /\ Others(c) /\ UNCHANGED <<handlers, nextID, active>>
      /\ \/ holders' = holders
         \/ Free /\ holders' = holders \cup {c}
         \/ holders' = holders \ {c}
  BY StartEffect, BeginEffect, SnapshotEffect, RunHandlerEffect, FiredEffect, InsertEffect,
     HasEffect, AllEffect, DeleteEffect, QueryFailsEffect, InsertLostEffect,
     DeleteLostEffect, FinishEffect, ZenonT(60) DEF ClientStep, Quiet
<1>3. table' \in SUBSET Row
  <2>1. table \in SUBSET Row /\ call[c] \in Call /\ {Object[c]} \in SUBSET Row
    BY RowAssumption DEF TypeOK
  <2>2. call[c].ins \in SUBSET Row /\ call[c].rows \in SUBSET Row
    BY <2>1 DEF Call
  <2>3. \/ table' = table \/ table' = table \cup {Object[c]} \/ table' = table \ Visible(c)
        \/ table' = table \cup call[c].rows
        \/ table' = (table \cup call[c].ins) \ call[c].del
    BY StartEffect, BeginEffect, SnapshotEffect, RunHandlerEffect, FiredEffect, InsertEffect,
     HasEffect, AllEffect, DeleteEffect, QueryFailsEffect, InsertLostEffect,
     DeleteLostEffect, FinishEffect DEF ClientStep
  <2> QED
    BY <2>1, <2>2, <2>3
<1>4. holders' \in SUBSET Client /\ IsFiniteSet(holders') /\ Cardinality(holders') <= PoolSize
  BY <1>2, HoldersStep
<1>5. TypeOK'
  BY <1>2, <1>3, <1>4 DEF TypeOK
<1>6. ASSUME NEW d \in Client \ {c}
      PROVE  CallShape(d)' /\ Matched(d)'
  BY <1>2 DEF Shape, CallShape, CreateShape, DeleteShape, HoldersMatch, Matched, Others, Saved
<1> QED
  BY <1>1, <1>4, <1>5, <1>6 DEF Shape, HoldersMatch

\* They outlive a registration and a cancellation.
LEMMA SignalShape ==
    ASSUME TypeOK, HoldersMatch, Shape, RegistryOK, NEW k \in Kind, Register(k) \/ Cancel(k),
           UNCHANGED setting
    PROVE  TypeOK' /\ HoldersMatch' /\ Shape'
<1>1. CASE Register(k)
  <2>1. TypeOK'
    BY <1>1, RegisterEffect DEF TypeOK
  <2>2. ASSUME NEW d \in Client PROVE CallShape(d)'
    <3>1. SameBut(d) /\ CallShape(d)
      BY <1>1, RegisterEffect DEF Shape
    <3>2. CreateShape(d)' /\ DeleteShape(d)'
      BY <3>1 DEF SameBut, CallShape, CreateShape, DeleteShape, Saved
    <3> QED
      BY <3>1, <3>2 DEF SameBut, CallShape
  <2> QED
    BY <1>1, <2>1, <2>2, RegisterEffect DEF SameBut, Shape, HoldersMatch, Matched
<1>2. CASE Cancel(k)
  BY <1>2, CancelEffect DEF TypeOK, HoldersMatch, Matched, Shape, CallShape, CreateShape, DeleteShape, Saved
<1> QED
  BY <1>1, <1>2

-----------------------------------------------------------------------------
(* The table and what the calls did to it. *)

\* A row deleted elsewhere is one that some other call has deleted.
LEMMA GoneMember ==
    ASSUME NEW c \in Client, NEW r
    PROVE  /\ r \in GoneElsewhere(c) <=> \E d \in Client \ {c} : r \in call[d].gone
           /\ r \in GoneElsewhere(c)' <=> \E d \in Client \ {c} : r \in call'[d].gone
BY DEF GoneElsewhere

(* A step that neither changes the table nor what a call has deleted. *)
LEMMA QuietFacts ==
    ASSUME TableInv, NEW c \in Client, table' = table, Others(c),
           call'[c].gone = call[c].gone,
           Absent(c)' => Absent(c), Created(c)' => Created(c),
           Uncommitted(c)' => Uncommitted(c) \/ call[c].gone = {},
           Committed(c)' => Committed(c) \/ call[c].gone = {},
           Unknown(c)' => Unknown(c) \/ Uncommitted(c) \/ call[c].gone = {}
    PROVE  TableFacts'
<1> SUFFICES ASSUME NEW d \in Client
             PROVE  /\ AbsentRow(d)' /\ CreatedThere(d)'
                    /\ DeletedKept(d)' /\ DeletedGone(d)' /\ DeletedWhole(d)'
  BY DEF TableFacts
<1>1. AbsentRow(d) /\ CreatedThere(d) /\ DeletedKept(d) /\ DeletedGone(d) /\ DeletedWhole(d)
  BY DEF TableInv, TableFacts
<1>2. \A e \in Client : call'[e].gone = call[e].gone
  BY DEF Others
<1>3. GoneElsewhere(d)' = GoneElsewhere(d)
  BY <1>2 DEF GoneElsewhere
<1>4. /\ Absent(d)' => Absent(d)
      /\ Created(d)' => Created(d)
      /\ Uncommitted(d)' => Uncommitted(d) \/ call[d].gone = {}
      /\ Committed(d)' => Committed(d) \/ call[d].gone = {}
      /\ Unknown(d)' => Unknown(d) \/ Uncommitted(d) \/ call[d].gone = {}
  <2>1. CASE d = c
    BY <2>1
  <2>2. CASE d # c
    <3>1. call'[d] = call[d]
      BY <2>2 DEF Others
    <3> QED
      BY <3>1 DEF Absent, Created, Uncommitted, Committed, Unknown, Saved
  <2> QED
    BY <2>1, <2>2
<1>5. AbsentRow(d)'
  BY <1>1, <1>2, <1>4 DEF AbsentRow
<1>6. CreatedThere(d)'
  BY <1>1, <1>3, <1>4 DEF CreatedThere
<1>8. (Kept(d) => Kept(d)') /\ (Taken(d) => Taken(d)') /\ (call[d].gone = {} => Kept(d)' /\ Taken(d)')
  BY <1>2, <1>3 DEF Kept, Taken
<1>7. DeletedKept(d)' /\ DeletedGone(d)' /\ DeletedWhole(d)'
  BY <1>1, <1>4, <1>8 DEF DeletedKept, DeletedGone, DeletedWhole
<1> QED
  BY <1>5, <1>6, <1>7

\* A call that has not begun is recorded as a create of nothing.
LEMMA IdleCreates ==
    ASSUME TypeOK, NEW c \in Client, CallShape(c), call[c].stage = "idle"
    PROVE  call[c].op = "create" /\ call[c].gone = {}
BY DEF TypeOK, Call, CallShape, CreateShape, DeleteShape, Deleting

\* Start leaves the table and what is known of it alone.
LEMMA StartFacts ==
    ASSUME TableInv, NEW c \in Client, Start(c)
    PROVE  TableFacts'
<1>1. TypeOK /\ CallShape(c)
  BY DEF TableInv
<1>2. Absent(c)
  BY <1>1, StartEffect DEF Absent
<1>3. ~Created(c)' /\ ~Unknown(c)'
  BY <1>1, StartEffect DEF Created, Unknown
<1> QED
  BY <1>1, <1>2, <1>3, StartEffect, IdleCreates, QuietFacts DEF Quiet

\* Begin leaves the table and what is known of it alone.
LEMMA BeginFacts ==
    ASSUME TableInv, NEW c \in Client, Begin(c)
    PROVE  TableFacts'
<1>1. TypeOK /\ CallShape(c) /\ CreateShape(c) /\ DeleteShape(c)
  BY DEF TableInv, CallShape
<1>2. Absent(c) /\ call[c].atomic
  BY <1>1, BeginEffect DEF Absent, CallShape, TypeOK, Call
<1>3. /\ ~Created(c)' /\ ~Committed(c)' /\ (Uncommitted(c)' => Uncommitted(c))
      /\ Unknown(c)' => Unknown(c)
  BY <1>1, <1>2, BeginEffect DEF Created, Committed, Uncommitted, Unknown
<1> QED
  BY <1>1, <1>2, <1>3, BeginEffect, QuietFacts

\* Snapshot leaves the table and what is known of it alone.
LEMMA SnapshotFacts ==
    ASSUME TableInv, NEW c \in Client, Snapshot(c)
    PROVE  TableFacts'
<1>1. TypeOK
  BY DEF TableInv
<1>2. /\ Absent(c)' => Absent(c)
      /\ Created(c)' => Created(c)
      /\ Uncommitted(c)' => Uncommitted(c)
      /\ Committed(c)' => Committed(c)
      /\ Unknown(c)' => Unknown(c)
  BY <1>1, SnapshotEffect DEF Absent, Saved, Created, Uncommitted, Committed, Unknown, KeepsRest
<1> QED
  BY <1>1, <1>2, SnapshotEffect, QuietFacts DEF Quiet, KeepsRest

\* RunHandler leaves the table and what is known of it alone.
LEMMA RunHandlerFacts ==
    ASSUME TableInv, NEW c \in Client, RunHandler(c)
    PROVE  TableFacts'
<1>1. TypeOK /\ CallShape(c) /\ CreateShape(c) /\ DeleteShape(c) /\ call[c].stage \in Kind
  BY RunHandlerEffect DEF TableInv, CallShape
<1>2. /\ call[c].op = "create" => call[c].stage \in {"preSave", "postSave"}
      /\ call[c].op \in {"create", "delete"} /\ call[c].out = "ok"
  BY <1>1 DEF CreateShape, Creating, Kind, TypeOK, Call, CallShape
<1>4. Absent(c)' => Absent(c)
  BY <1>1, <1>2, RunHandlerEffect, RunHandlerSaved DEF Absent, Kind
<1>3. /\ Created(c)' => Created(c)
      /\ Uncommitted(c)' => Uncommitted(c)
      /\ Committed(c)' => Committed(c)
      /\ ~Unknown(c)'
  BY <1>1, <1>2, RunHandlerEffect, RunHandlerSaved DEF Created, Uncommitted, Committed, Unknown, Kind,
     CreateShape
<1> QED
  BY <1>1, <1>3, <1>4, RunHandlerEffect, QuietFacts DEF Quiet

\* Fired leaves the table and what is known of it alone.
LEMMA FiredFacts ==
    ASSUME TableInv, NEW c \in Client, Fired(c)
    PROVE  TableFacts'
<1>1. TypeOK /\ CallShape(c) /\ CreateShape(c) /\ DeleteShape(c) /\ call[c].stage \in Kind
      /\ call[c].out = "ok"
  BY FiredEffect DEF TableInv, CallShape, Kind
<1>2. \/ call'[c].stage = call[c].stage
      \/ call[c].stage = "preSave" /\ call'[c].stage = "insert"
      \/ call[c].stage = "preDelete" /\ call'[c].stage = "delete"
      \/ call[c].stage \in {"postSave", "postDelete"} /\ call'[c].stage = "finish"
  <2> DEFINE rs == call[c].pending \ {call[c].at}
  <2>1. call'[c].stage = IF rs = {} THEN After[call[c].stage] ELSE call[c].stage
    BY <1>1, FiredEffect DEF Fires
  <2> HIDE DEF rs
  <2> QED
    BY <1>1, <2>1 DEF After, Kind
<1>3. /\ Absent(c)' => Absent(c)
      /\ Created(c)' => Created(c)
      /\ Uncommitted(c)' => Uncommitted(c)
      /\ Committed(c)' => Committed(c)
      /\ Unknown(c)' => Unknown(c)
  BY <1>1, <1>2, FiredEffect DEF Absent, Created, Uncommitted, Committed, Unknown, Kind, KeepsRest,
     CreateShape, Creating
<1> QED
  BY <1>1, <1>3, FiredEffect, QuietFacts DEF Quiet, KeepsRest

\* Has and HasPost leaves the table and what is known of it alone.
LEMMA HasFacts ==
    ASSUME TableInv, NEW c \in Client, Has(c) \/ HasPost(c)
    PROVE  TableFacts'
<1>1. TypeOK /\ CallShape(c) /\ CreateShape(c)
  BY DEF TableInv, CallShape
<1>2. call[c].op = "delete"
  BY <1>1, HasEffect DEF CreateShape, Creating, TypeOK, Call
<1>3. /\ Absent(c) /\ ~Created(c)'
      /\ Uncommitted(c)' => Uncommitted(c)
      /\ Committed(c)' => Committed(c)
      /\ Unknown(c)' => Unknown(c)
  BY <1>1, <1>2, HasEffect DEF Absent, Created, Uncommitted, Committed, Unknown, KeepsRest
<1> QED
  BY <1>1, <1>3, HasEffect, QuietFacts DEF Quiet, KeepsRest

\* All leaves the table and what is known of it alone.
LEMMA AllFacts ==
    ASSUME TableInv, NEW c \in Client, All(c)
    PROVE  TableFacts'
<1>1. TypeOK /\ CallShape(c) /\ CreateShape(c)
  BY DEF TableInv, CallShape
<1>2. call[c].op = "delete" /\ call'[c].stage # "done"
  BY <1>1, AllEffect DEF CreateShape, Creating, TypeOK, Call, Fires, After
<1>3. /\ Absent(c) /\ ~Created(c)'
      /\ Uncommitted(c)' => Uncommitted(c)
      /\ Committed(c)' => Committed(c)
      /\ Unknown(c)' => Unknown(c)
  BY <1>1, <1>2, AllEffect DEF Absent, Created, Uncommitted, Committed, Unknown
<1> QED
  BY <1>1, <1>3, AllEffect, QuietFacts DEF Quiet

\* QueryFails leaves the table and what is known of it alone.
LEMMA QueryFailsFacts ==
    ASSUME TableInv, NEW c \in Client, QueryFails(c)
    PROVE  TableFacts'
<1>1. /\ TypeOK /\ CallShape(c) /\ CreateShape(c) /\ DeleteShape(c)
      /\ call[c].op \in {"create", "delete"} /\ Matched(c) /\ call[c].atomic \in BOOLEAN
  BY DEF TableInv, CallShape, HoldersMatch, TypeOK, Call
<1>2. /\ call[c].stage \in {"insert", "all", "delete"} /\ call[c].stage # "done"
      /\ KeepsRest(call'[c], call[c]) /\ call'[c].stage = "finish"
      /\ call'[c].out = IF call[c].stage = "all" \/ c \in holders THEN "err" ELSE "unknown"
  BY <1>1, QueryFailsEffect
<1>3. (Saved(c)' <=> Saved(c)) /\ (call[c].op = "create" => call[c].stage = "insert" /\ ~Saved(c))
  BY <1>1, <1>2 DEF Saved, KeepsRest, CreateShape, Creating
<1>4. call[c].op = "delete" => call[c].gone = {}
  BY <1>1, <1>2 DEF DeleteShape, Deleting
<1>5. /\ Absent(c) /\ ~Created(c)'
      /\ Uncommitted(c)' => Uncommitted(c)
      /\ Committed(c)' => Committed(c)
      /\ Unknown(c)' => call[c].gone = {}
  BY <1>1, <1>2, <1>3, <1>4 DEF Absent, Created, Uncommitted, Committed, Unknown, KeepsRest
<1> QED
  BY <1>1, <1>5, QueryFailsEffect, QuietFacts DEF Quiet, KeepsRest

(* A row put in the table is a row of nobody else's. *)
LEMMA OtherInsert ==
    ASSUME TableInv, NEW c \in Client, NEW d \in Client \ {c}, Absent(c), Others(c),
           call'[c].gone = call[c].gone, table' = table \cup {Object[c]}
    PROVE  /\ AbsentRow(d)' /\ CreatedThere(d)'
           /\ DeletedKept(d)' /\ DeletedGone(d)' /\ DeletedWhole(d)'
<1>1. AbsentRow(d) /\ CreatedThere(d) /\ DeletedKept(d) /\ DeletedGone(d)
      /\ DeletedWhole(d) /\ AbsentRow(c)
  BY DEF TableInv, TableFacts
<1>2. call'[d] = call[d] /\ Object[d] # Object[c] /\ \A e \in Client : call'[e].gone = call[e].gone
  BY RowAssumption DEF Others
<1>3. GoneElsewhere(d)' = GoneElsewhere(d)
  BY <1>2 DEF GoneElsewhere
<1>4. /\ Absent(d)' => Absent(d)
      /\ Created(d)' => Created(d)
      /\ Uncommitted(d)' => Uncommitted(d)
      /\ Committed(d)' => Committed(d)
      /\ Unknown(d)' => Unknown(d)
  BY <1>2 DEF Absent, Created, Uncommitted, Committed, Unknown, Saved
<1>5. (Kept(d) => Kept(d)') /\ (Taken(d) => Taken(d)')
  BY <1>1, <1>2, <1>3 DEF Kept, Taken, AbsentRow
<1>6. AbsentRow(d)'
  BY <1>1, <1>2, <1>4 DEF AbsentRow
<1> QED
  BY <1>1, <1>3, <1>4, <1>5, <1>6 DEF CreatedThere, DeletedKept, DeletedGone, DeletedWhole

(* Rows taken from the table are in gone from that step on at the latest. *)
LEMMA OtherDelete ==
    ASSUME TableInv, NEW c \in Client, NEW d \in Client \ {c}, Others(c),
           call[c].gone \subseteq call'[c].gone, call'[c].gone \subseteq call[c].gone \cup table,
           table \ call'[c].gone \subseteq table', table' \subseteq table
    PROVE  /\ AbsentRow(d)' /\ CreatedThere(d)'
           /\ DeletedKept(d)' /\ DeletedGone(d)' /\ DeletedWhole(d)'
<1>1. AbsentRow(d) /\ CreatedThere(d) /\ DeletedKept(d) /\ DeletedGone(d) /\ DeletedWhole(d)
  BY DEF TableInv, TableFacts
<1>2. call'[d] = call[d]
  BY DEF Others
<1>4. /\ Absent(d)' => Absent(d)
      /\ Created(d)' => Created(d)
      /\ Uncommitted(d)' => Uncommitted(d)
      /\ Committed(d)' => Committed(d)
      /\ Unknown(d)' => Unknown(d)
  BY <1>2 DEF Absent, Created, Uncommitted, Committed, Unknown, Saved
<1>5. ASSUME NEW r, r \in table \cup GoneElsewhere(d)
      PROVE  r \in table' \cup GoneElsewhere(d)'
  <2>1. CASE r \in table
    BY <2>1, GoneMember
  <2>2. CASE r \in GoneElsewhere(d)
    <3>1. PICK e \in Client \ {d} : r \in call[e].gone
      BY <2>2, GoneMember
    <3>2. r \in call'[e].gone
      BY <3>1 DEF Others
    <3> QED
      BY <3>1, <3>2, GoneMember
  <2> QED
    BY <1>5, <2>1, <2>2
<1>6. (Kept(d) => Kept(d)') /\ (Taken(d) => Taken(d)')
  BY <1>2, <1>5 DEF Kept, Taken
<1>7. CreatedThere(d)' /\ AbsentRow(d)'
  BY <1>1, <1>4, <1>5 DEF CreatedThere, AbsentRow, Others
<1> QED
  BY <1>1, <1>4, <1>6, <1>7 DEF DeletedKept, DeletedGone, DeletedWhole

\* Insert: nobody has deleted the row before, as it was nowhere.
LEMMA InsertFacts ==
    ASSUME TableInv, NEW c \in Client, Insert(c)
    PROVE  TableFacts'
<1>1. TypeOK /\ CallShape(c) /\ CreateShape(c) /\ DeleteShape(c) /\ Matched(c)
      /\ call[c].atomic \in BOOLEAN
  BY DEF TableInv, CallShape, HoldersMatch, TypeOK, Call
<1>2. Absent(c) /\ (call[c].atomic <=> c \in holders)
  BY <1>1, InsertEffect DEF Absent, Matched
<1>3. CASE c \in holders
  <2>1. Absent(c) /\ ~Created(c)' /\ ~Uncommitted(c)' /\ ~Committed(c)' /\ ~Unknown(c)'
    BY <1>1, <1>2, <1>3, InsertEffect DEF Created, Uncommitted, Committed, Unknown
  <2> QED
    BY <1>1, <1>3, <2>1, InsertEffect, QuietFacts DEF Quiet
<1>4. CASE c \notin holders
  <2>1. /\ call'[c].gone = call[c].gone /\ table' = table \cup {Object[c]} /\ Others(c)
    BY <1>1, <1>4, InsertEffect DEF Quiet
  <2>2. ~Absent(c)' /\ ~Uncommitted(c)' /\ ~Committed(c)' /\ ~Unknown(c)'
    BY <1>1, <1>2, <1>4, InsertEffect DEF Absent, Uncommitted, Committed, Unknown
  <2>3. /\ AbsentRow(c)' /\ CreatedThere(c)'
        /\ DeletedKept(c)' /\ DeletedGone(c)' /\ DeletedWhole(c)'
    BY <2>1, <2>2 DEF AbsentRow, CreatedThere, DeletedKept, DeletedGone, DeletedWhole
  <2> QED
    BY <1>2, <2>1, <2>3, OtherInsert DEF TableFacts
<1> QED
  BY <1>3, <1>4

\* InsertLost: the row is there as after an Insert.
LEMMA InsertLostFacts ==
    ASSUME TableInv, NEW c \in Client, InsertLost(c)
    PROVE  TableFacts'
<1>1. TypeOK /\ CallShape(c) /\ CreateShape(c) /\ DeleteShape(c) /\ Matched(c)
      /\ call[c].atomic \in BOOLEAN /\ call[c].op \in {"create", "delete"}
  BY DEF TableInv, CallShape, HoldersMatch, TypeOK, Call
<1>2. Absent(c) /\ call[c].op = "create" /\ call[c].rows = {Object[c]} /\ ~call[c].atomic
  BY <1>1, InsertLostEffect DEF Absent, Matched, DeleteShape, Deleting, CreateShape
<1>3. /\ call'[c].gone = call[c].gone /\ table' = table \cup {Object[c]} /\ Others(c)
  BY <1>1, <1>2, InsertLostEffect DEF Quiet, KeepsRest
<1>4. ~Absent(c)' /\ ~Uncommitted(c)' /\ ~Committed(c)' /\ ~Unknown(c)'
  BY <1>1, <1>2, InsertLostEffect DEF Absent, Uncommitted, Committed, Unknown, KeepsRest
<1>5. /\ AbsentRow(c)' /\ CreatedThere(c)'
      /\ DeletedKept(c)' /\ DeletedGone(c)' /\ DeletedWhole(c)'
  BY <1>3, <1>4 DEF AbsentRow, CreatedThere, DeletedKept, DeletedGone, DeletedWhole
<1> QED
  BY <1>2, <1>3, <1>5, OtherInsert DEF TableFacts

\* Delete: what leaves the table is in gone from the same step on.
LEMMA DeleteFacts ==
    ASSUME TableInv, NEW c \in Client, Delete(c)
    PROVE  TableFacts'
<1>1. TypeOK /\ CallShape(c) /\ CreateShape(c) /\ DeleteShape(c) /\ Matched(c)
      /\ call[c].atomic \in BOOLEAN /\ call[c].op \in {"create", "delete"}
  BY DEF TableInv, CallShape, HoldersMatch, TypeOK, Call
<1>2. /\ call[c].op = "delete" /\ (call[c].atomic <=> c \in holders) /\ Visible(c) = table
      /\ call[c].gone = {} /\ call'[c].stage \in {"postDelete", "finish"}
  <2>1. call[c].stage = "delete"
    BY <1>1, DeleteEffect
  <2>2. call[c].op = "delete" /\ (call[c].atomic <=> c \in holders)
    BY <1>1, <2>1 DEF Matched, CreateShape, Creating
  <2>3. call[c].ins = {} /\ call[c].del = {} /\ call[c].gone = {}
    BY <1>1, <2>1, <2>2 DEF DeleteShape
  <2>4. call'[c].stage \in {"postDelete", "finish"}
    BY <1>1, DeleteEffect DEF Fires, After
  <2> QED
    BY <2>2, <2>3, <2>4 DEF Visible
<1>3. /\ Others(c) /\ call'[c].gone = table /\ call'[c].op = "delete"
      /\ call'[c].atomic = call[c].atomic
      /\ \/ c \in holders /\ table' = table
         \/ c \notin holders /\ table' = {}
  BY <1>1, <1>2, DeleteEffect DEF Quiet
<1>4. /\ AbsentRow(c)' /\ CreatedThere(c)'
      /\ DeletedKept(c)' /\ DeletedGone(c)' /\ DeletedWhole(c)'
  <2>1. ~Created(c)' /\ Absent(c) /\ AbsentRow(c)
    BY <1>2, <1>3 DEF Created, Absent, TableInv, TableFacts
  <2>2. AbsentRow(c)'
    BY <1>3, <2>1 DEF AbsentRow, Others
  <2>3. DeletedKept(c)'
    BY <1>2, <1>3 DEF DeletedKept, Uncommitted, Kept
  <2>4. DeletedGone(c)'
    BY <1>2, <1>3 DEF DeletedGone, Committed, Taken
  <2>5. DeletedWhole(c)'
    BY <1>3 DEF DeletedWhole, Kept, Taken
  <2> QED
    BY <2>1, <2>2, <2>3, <2>4, <2>5 DEF CreatedThere
<1>5. \A d \in Client \ {c} : /\ AbsentRow(d)' /\ CreatedThere(d)'
                               /\ DeletedKept(d)' /\ DeletedGone(d)' /\ DeletedWhole(d)'
  BY <1>2, <1>3, OtherDelete
<1> QED
  BY <1>4, <1>5 DEF TableFacts

\* DeleteLost: the rows are gone as after a Delete.
LEMMA DeleteLostFacts ==
    ASSUME TableInv, NEW c \in Client, DeleteLost(c)
    PROVE  TableFacts'
<1>1. TypeOK /\ CallShape(c) /\ CreateShape(c) /\ DeleteShape(c) /\ Matched(c)
      /\ call[c].atomic \in BOOLEAN /\ call[c].op \in {"create", "delete"}
  BY DEF TableInv, CallShape, HoldersMatch, TypeOK, Call
<1>2. /\ call[c].op = "delete" /\ ~call[c].atomic /\ Visible(c) = table /\ call[c].gone = {}
  BY <1>1, DeleteLostEffect DEF Matched, CreateShape, Creating, DeleteShape, Visible
<1>3. /\ Others(c) /\ call'[c].gone = table /\ table' = {}
      /\ call'[c].op = "delete" /\ ~call'[c].atomic /\ call'[c].out = "unknown"
  BY <1>1, <1>2, DeleteLostEffect DEF Quiet
<1>4. /\ AbsentRow(c)' /\ CreatedThere(c)'
      /\ DeletedKept(c)' /\ DeletedGone(c)' /\ DeletedWhole(c)'
  <2>1. ~Created(c)' /\ ~Uncommitted(c)' /\ ~Committed(c)' /\ Absent(c) /\ AbsentRow(c)
    BY <1>2, <1>3 DEF Created, Uncommitted, Committed, Absent, TableInv, TableFacts
  <2>2. AbsentRow(c)'
    BY <1>3, <2>1 DEF AbsentRow, Others
  <2>3. DeletedWhole(c)'
    BY <1>3 DEF DeletedWhole, Taken
  <2> QED
    BY <2>1, <2>2, <2>3 DEF CreatedThere, DeletedKept, DeletedGone
<1>5. \A d \in Client \ {c} : /\ AbsentRow(d)' /\ CreatedThere(d)'
                               /\ DeletedKept(d)' /\ DeletedGone(d)' /\ DeletedWhole(d)'
  BY <1>2, <1>3, OtherDelete
<1> QED
  BY <1>4, <1>5 DEF TableFacts

\* Finish: a commit applies the changes at once, its answer lost or not;
\* anything else none.
LEMMA FinishFacts ==
    ASSUME TableInv, NEW c \in Client, Finish(c)
    PROVE  TableFacts'
<1>1. TypeOK /\ CallShape(c) /\ CreateShape(c) /\ DeleteShape(c) /\ Matched(c)
      /\ call[c].atomic \in BOOLEAN /\ call[c].op \in {"create", "delete"}
      /\ call[c].out \in {"ok", "err", "unknown"}
  BY DEF TableInv, CallShape, HoldersMatch, TypeOK, Call
<1>2. (call[c].atomic <=> c \in holders) /\ call[c].stage = "finish"
  BY <1>1, FinishEffect DEF Matched
<1>3. /\ Others(c) /\ call'[c].gone = call[c].gone /\ call'[c].op = call[c].op
      /\ call'[c].atomic = call[c].atomic /\ call'[c].stage = "done"
  BY <1>1, FinishEffect
<1>4. CASE /\ table' = table
           /\ \/ c \in holders /\ call'[c].out = "unknown" /\ call[c].out = "ok"
              \/ c \in holders /\ call'[c].out = call[c].out /\ call[c].out # "ok"
              \/ c \notin holders /\ call'[c].out = call[c].out
  <2>1. /\ Absent(c)' => Absent(c)
        /\ Created(c)' => Created(c)
        /\ Uncommitted(c)' => Uncommitted(c)
        /\ Committed(c)' => Committed(c)
        /\ Unknown(c)' => Unknown(c) \/ Uncommitted(c)
    BY <1>1, <1>2, <1>3, <1>4 DEF Absent, Created, Uncommitted, Committed, Unknown
  <2> QED
    BY <1>3, <1>4, <2>1, QuietFacts
<1>5. CASE /\ c \in holders /\ call[c].out = "ok" /\ call'[c].out \in {"ok", "unknown"}
           /\ table' = (table \cup call[c].ins) \ call[c].del
  <2>1. AbsentRow(c) /\ CreatedThere(c) /\ DeletedKept(c) /\ DeletedGone(c) /\ DeletedWhole(c)
    BY DEF TableInv, TableFacts
  <2>2. CASE call[c].op = "create"
    <3>1. table' = table \cup {Object[c]} /\ Absent(c)
      BY <1>1, <1>2, <1>5, <2>2 DEF CreateShape, Absent
    <3>2. ~Absent(c)' /\ ~Uncommitted(c)' /\ ~Committed(c)' /\ ~Unknown(c)'
      BY <1>2, <1>3, <1>5, <2>2 DEF Absent, Uncommitted, Committed, Unknown
    <3>3. /\ AbsentRow(c)' /\ CreatedThere(c)'
          /\ DeletedKept(c)' /\ DeletedGone(c)' /\ DeletedWhole(c)'
      BY <3>1, <3>2 DEF AbsentRow, CreatedThere, DeletedKept, DeletedGone, DeletedWhole
    <3> QED
      BY <1>3, <3>1, <3>3, OtherInsert DEF TableFacts
  <2>3. CASE call[c].op = "delete"
    <3>1. table' = table \ call[c].gone
      BY <1>1, <1>2, <1>5, <2>3 DEF DeleteShape
    <3>2. ~Created(c)' /\ ~Uncommitted(c)' /\ Absent(c)
      BY <1>3, <1>5, <2>3 DEF Created, Uncommitted, Absent
    <3>3. AbsentRow(c)'
      BY <1>3, <2>1, <3>1, <3>2 DEF AbsentRow, Others
    <3>4. Taken(c)'
      BY <1>3, <3>1 DEF Taken
    <3>5. /\ CreatedThere(c)'
          /\ DeletedKept(c)' /\ DeletedGone(c)' /\ DeletedWhole(c)'
      BY <3>2, <3>4 DEF CreatedThere, DeletedKept, DeletedGone, DeletedWhole
    <3> QED
      BY <1>3, <3>1, <3>3, <3>5, OtherDelete DEF TableFacts
  <2> QED
    BY <1>1, <2>2, <2>3
<1> QED
  BY <1>1, <1>4, <1>5, FinishEffect

\* The registry of signals has no part in the table.
LEMMA SignalFacts ==
    ASSUME TableInv, RegistryOK, NEW k \in Kind, Register(k) \/ Cancel(k), UNCHANGED setting
    PROVE  TableFacts'
<1>1. table' = table /\ \A d \in Client : SameBut(d)
  BY RegisterEffect, CancelEffect, ZenonT(60) DEF TableInv, SameBut
<1> SUFFICES ASSUME NEW d \in Client
             PROVE  /\ AbsentRow(d)' /\ CreatedThere(d)'
                    /\ DeletedKept(d)' /\ DeletedGone(d)' /\ DeletedWhole(d)'
  BY DEF TableFacts
<1>2. AbsentRow(d) /\ CreatedThere(d) /\ DeletedKept(d) /\ DeletedGone(d) /\ DeletedWhole(d)
  BY DEF TableInv, TableFacts
<1>3. \A e \in Client : call'[e].gone = call[e].gone
  BY <1>1 DEF SameBut
<1>4. GoneElsewhere(d)' = GoneElsewhere(d)
  BY <1>3 DEF GoneElsewhere
<1>5. /\ Absent(d)' => Absent(d)
      /\ Created(d)' => Created(d)
      /\ Uncommitted(d)' => Uncommitted(d)
      /\ Committed(d)' => Committed(d)
      /\ Unknown(d)' => Unknown(d)
  BY <1>1 DEF SameBut, Absent, Created, Uncommitted, Committed, Unknown, Saved
<1>6. AbsentRow(d)'
  BY <1>1, <1>2, <1>3, <1>5 DEF AbsentRow
<1>7. Kept(d)' = Kept(d) /\ Taken(d)' = Taken(d)
  BY <1>1, <1>3, <1>4 DEF Kept, Taken
<1> QED
  BY <1>1, <1>2, <1>4, <1>5, <1>6, <1>7 DEF CreatedThere, DeletedKept, DeletedGone, DeletedWhole

\* One step of the system keeps the table and the calls in agreement.
LEMMA TableStep ==
    ASSUME TableInv, RegistryOK, [Next]_vars
    PROVE  TableInv'
<1> TypeOK /\ HoldersMatch /\ Shape
  BY DEF TableInv, Shape
<1>1. ASSUME NEW c \in Client, Start(c) \/ ClientStep(c), UNCHANGED setting
      PROVE  TableInv'
  <2>1. TypeOK' /\ HoldersMatch' /\ Shape'
    BY <1>1, ShapeStep
  <2>2. TableFacts'
    BY <1>1, StartFacts, BeginFacts, SnapshotFacts, RunHandlerFacts, FiredFacts, InsertFacts,
       HasFacts, AllFacts, DeleteFacts, QueryFailsFacts, InsertLostFacts,
       DeleteLostFacts, FinishFacts DEF ClientStep
  <2> QED
    BY <2>1, <2>2 DEF TableInv, Shape
<1>2. ASSUME NEW k \in Kind, Register(k) \/ Cancel(k), UNCHANGED setting
      PROVE  TableInv'
  BY <1>2, SignalShape, SignalFacts DEF TableInv, Shape
<1>3. CASE UNCHANGED vars
  BY <1>3 DEF vars, TableInv, TypeOK, HoldersMatch, Matched, CallShape, CreateShape, DeleteShape,
     TableFacts, AbsentRow, Absent, Saved, CreatedThere, Created, GoneElsewhere, DeletedKept,
     Uncommitted, DeletedGone, Committed, DeletedWhole, Unknown, Kept, Taken
<1> QED
  BY <1>1, <1>2, <1>3 DEF Next, ClientStep

\* Only Register and Cancel touch the registry.
LEMMA RegistryStep ==
    ASSUME TypeOK, RegistryOK, TableInv, [Next]_vars
    PROVE  RegistryOK'
<1> HoldersMatch /\ Shape
  BY DEF TableInv, Shape
<1>1. ASSUME NEW c \in Client, Start(c) \/ ClientStep(c)
      PROVE  RegistryOK'
  <2>1. CallShape(c) /\ CreateShape(c) /\ DeleteShape(c)
    BY DEF Shape, CallShape
  <2>2. UNCHANGED <<handlers, nextID, active>>
    BY <1>1, <2>1, StartEffect, BeginEffect, SnapshotEffect, RunHandlerEffect, FiredEffect,
       InsertEffect, HasEffect, AllEffect, DeleteEffect, QueryFailsEffect, InsertLostEffect,
     DeleteLostEffect, FinishEffect
       DEF ClientStep, Quiet
  <2> QED
    BY <2>2 DEF RegistryOK
<1>2. ASSUME NEW k \in Kind, Register(k) \/ Cancel(k), UNCHANGED setting
      PROVE  RegistryOK'
  BY <1>2, RegisterRegistry, CancelEffect
<1>3. CASE UNCHANGED vars
  BY <1>3 DEF vars, RegistryOK
<1> QED
  BY <1>1, <1>2, <1>3 DEF Next

\* The first state: an idle system.
LEMMA TableInit ==
    ASSUME Init
    PROVE  TableInv /\ RegistryOK
<1>1. /\ table = Stored /\ handlers = [k \in Kind |-> <<>>] /\ nextID = 0
      /\ active = [k \in Kind |-> {}] /\ holders = {} /\ call = [c \in Client |-> Idle(c)]
      /\ setting \in Settings /\ setting.handlers \in Nat
  BY BoundAssumption DEF Init
<1>2. TypeOK
  <2>1. Cardinality({}) = 0 /\ PoolSize \in Nat
    BY FS_EmptySet, BoundAssumption
  <2>2. call \in [Client -> Call]
    BY <1>1, IdleType
  <2> QED
    BY <1>1, <2>1, <2>2, EmptyTypes, RowAssumption DEF TypeOK
<1>3. RegistryOK
  BY <1>1 DEF RegistryOK, Ids, Increasing
<1>4. \A c \in Client : call[c] = Idle(c)
  BY <1>1
<1>5. ASSUME NEW c \in Client
      PROVE  /\ call[c].op = "create" /\ call[c].stage = "idle" /\ call[c].atomic = FALSE
             /\ call[c].out = "ok" /\ call[c].gone = {} /\ call[c].ins = {} /\ call[c].del = {}
             /\ call[c].pending = {} /\ call[c].rows = {} /\ call[c].firing = FALSE
             /\ ~Saved(c)
  <2>1. call[c] = Idle(c)
    BY <1>4
  <2> QED
    BY <2>1 DEF Idle, Saved
<1>6. HoldersMatch /\ Shape
  BY <1>1, <1>5, FS_EmptySet, ZenonT(60) DEF HoldersMatch, Matched, Shape, CallShape, CreateShape, DeleteShape,
     Creating, Kind
<1>7. TableFacts
  BY <1>1, <1>5, RowAssumption DEF TableFacts, AbsentRow, CreatedThere, Created, DeletedKept,
     Uncommitted, DeletedGone, Committed, DeletedWhole, Unknown
<1> QED
  BY <1>2, <1>3, <1>6, <1>7 DEF TableInv, Shape

\* TableInv and RegistryOK are inductive.
LEMMA TableInvariance == Spec => [](TableInv /\ RegistryOK)
<1>1. Init => TableInv /\ RegistryOK
  BY TableInit
<1>2. TableInv /\ RegistryOK /\ [Next]_vars => (TableInv /\ RegistryOK)'
  BY TableStep, RegistryStep DEF TableInv
<1> QED
  BY <1>1, <1>2, PTL DEF Spec

(* The types of the model, and that Atomic never holds more connections    *)
(* than the pool has (db.conn takes none inside a transaction).            *)
THEOREM TypeCorrect == Spec => []TypeOK
<1>1. TableInv => TypeOK
  BY DEF TableInv
<1> QED
  BY <1>1, TableInvariance, PTL

(***************************************************************************)
(* What Create and Delete tell their callers is true of the table, for any *)
(* number of clients, rows, connections and handlers (orm/execute.go       *)
(* Create, Delete; db.Atomic around them).                                 *)
(***************************************************************************)
THEOREM CallOutcomeHolds == Spec => []CallOutcome
<1>1. TableInv => CallOutcome
  <2> SUFFICES ASSUME TableInv, NEW c \in Client
      PROVE  LET k == call[c]
            saved == \E i \in DOMAIN k.ran : k.ran[i][1] = "postSave"
        IN /\ k.op = "create" /\ k.out = "err" /\ (IF k.atomic THEN Done(c) ELSE Returning(c) /\ ~saved)
              => k.rows \cap table = {}
           /\ k.op = "create"
              /\ (IF k.out = "ok" THEN Done(c)
                  ELSE k.out = "err" /\ ~k.atomic /\ Returning(c) /\ saved)
              => k.rows \subseteq table \cup GoneElsewhere(c)
           /\ k.op = "delete" /\ k.out = "err" /\ k.atomic /\ Done(c)
              => k.gone \subseteq table \cup GoneElsewhere(c)
           /\ k.op = "delete" /\ k.out = "ok" /\ Done(c) => k.gone \cap table = {}
           /\ k.op = "delete" /\ k.out = "unknown" /\ Done(c)
              => k.gone \subseteq table \cup GoneElsewhere(c) \/ k.gone \cap table = {}
    BY DEF CallOutcome
  <2>1. /\ CreateShape(c) /\ AbsentRow(c) /\ CreatedThere(c)
        /\ DeletedKept(c) /\ DeletedGone(c) /\ DeletedWhole(c)
    BY DEF TableInv, TableFacts, CallShape
  <2>2. call[c].op = "create" /\ call[c].stage # "idle" => call[c].rows = {Object[c]}
    BY <2>1 DEF CreateShape
  <2>3. /\ call[c].op = "create" /\ call[c].out = "err"
        /\ (IF call[c].atomic THEN Done(c) ELSE Returning(c) /\ ~Saved(c))
        => call[c].rows \cap table = {}
    BY <2>1, <2>2 DEF AbsentRow, Absent, Done, Returning
  <2>4. /\ call[c].op = "create"
        /\ (IF call[c].out = "ok" THEN Done(c)
            ELSE call[c].out = "err" /\ ~call[c].atomic /\ Returning(c) /\ Saved(c))
        => call[c].rows \subseteq table \cup GoneElsewhere(c)
    BY <2>1, <2>2 DEF CreatedThere, Created, Done, Returning
  <2>5. call[c].op = "delete" /\ call[c].out = "err" /\ call[c].atomic /\ Done(c)
        => call[c].gone \subseteq table \cup GoneElsewhere(c)
    BY <2>1 DEF DeletedKept, Kept, Uncommitted, Done
  <2>6. call[c].op = "delete" /\ call[c].out = "ok" /\ Done(c) => call[c].gone \cap table = {}
    BY <2>1 DEF DeletedGone, Taken, Committed, Done
  <2>7. call[c].op = "delete" /\ call[c].out = "unknown" /\ Done(c)
        => call[c].gone \subseteq table \cup GoneElsewhere(c) \/ call[c].gone \cap table = {}
    BY <2>1 DEF DeletedWhole, Unknown, Kept, Taken
  <2> QED
    BY <2>3, <2>4, <2>5, <2>6, <2>7 DEF Saved
<1> QED
  BY <1>1, TableInvariance, PTL

-----------------------------------------------------------------------------
(* The handlers a call has run, and those it still has to run. *)

(* What a step of c leaves of the facts about c when it runs nothing. *)
LEMMA SameRan ==
    ASSUME NEW c \in Client, call'[c].ran = call[c].ran, call'[c].seen = call[c].seen,
           RanOK(c),
           \A i \in DOMAIN call[c].ran :
              /\ \/ call'[c].stage = call[c].ran[i][1]
                 \/ call'[c].stage \in Behind[call[c].ran[i][1]]
              /\ ~(call'[c].stage = call[c].ran[i][1] /\ call[c].ran[i][3] \in call'[c].pending)
    PROVE  RanOK(c)'
BY DEF RanOK, RanOrdered, RanSeen, RanPending

(* Nothing has run before the first stage that fires. *)
LEMMA EarlyRan ==
    ASSUME TypeOK, NEW c \in Client, RanOK(c),
           call[c].stage \in {"begin", "has", "hasPost", "all"}
    PROVE  \A i \in DOMAIN call[c].ran : FALSE
<1>1. ASSUME NEW i \in DOMAIN call[c].ran PROVE FALSE
  <2>1. call[c].ran \in Seq(Kind \X Id \X Row)
    BY DEF TypeOK, Call
  <2>2. call[c].ran[i][1] \in Kind
    BY <2>1
  <2>3. call[c].stage = call[c].ran[i][1] \/ call[c].stage \in Behind[call[c].ran[i][1]]
    BY DEF RanOK, RanSeen
  <2> QED
    BY <2>2, <2>3 DEF Kind, Behind
<1> QED
  BY <1>1

\* An entry of ran: a kind, a handler, an object.
LEMMA RanKind ==
    ASSUME TypeOK, NEW c \in Client, NEW i \in DOMAIN call[c].ran
    PROVE  /\ call[c].ran[i] \in Kind \X Id \X Row /\ call[c].ran[i][1] \in Kind
           /\ call[c].ran[i][2] \in Id /\ call[c].ran[i][2] \in Nat
<1>1. call[c].ran \in Seq(Kind \X Id \X Row)
  BY DEF TypeOK, Call
<1>2. call[c].ran[i] \in Kind \X Id \X Row
  BY <1>1
<1> QED
  BY <1>2, IdsAreNaturals

\* What a call remembers of the registry while it runs.
LEMMA SameHistory ==
    ASSUME NEW c \in Client, HistoryOK(c), UNCHANGED <<nextID, active>>,
           call'[c].start = call[c].start, call'[c].seen = call[c].seen, Running(c)
    PROVE  HistoryOK(c)'
BY DEF HistoryOK

\* Handlers stay due while the registry is left alone.
LEMMA SameDue ==
    ASSUME NEW c \in Client, UNCHANGED active, call'[c].start = call[c].start
    PROVE  \A k : Due(c, k)' = Due(c, k)
BY DEF Due

\* What has run has run.
LEMMA SameFired ==
    ASSUME NEW c \in Client, UNCHANGED active, call'[c].start = call[c].start,
           call'[c].ran = call[c].ran, NEW k, NEW r, FiredFor(c, k, r)
    PROVE  FiredFor(c, k, r)'
BY DEF FiredFor, Ran, Due

\* The stages that are behind no signal.
LEMMA EarlyStages ==
    /\ \A op : KindsOf(op) \subseteq Kind
    /\ \A k \in Kind : Behind[k] \cap {"idle", "begin", "preSave", "has", "hasPost", "all",
                                       "preDelete", "done"} = {}
    /\ \A k \in KindsOf("create") : "postSave" \in Behind[k] => "insert" \in Behind[k]
BY DEF KindsOf, Kind, Behind

\* Start keeps the handlers of the call in order and complete.
LEMMA StartRun ==
    ASSUME TypeOK, RegistryOK, NEW c \in Client, Start(c)
    PROVE  RunOK(c)'
<1>1. HistoryOK(c)'
  BY StartEffect DEF HistoryOK, RegistryOK, Quiet
<1>2. RanOK(c)'
  <2>1. call'[c].ran = <<>>
    BY StartEffect
  <2>2. \A i \in DOMAIN call'[c].ran : FALSE
    BY <2>1
  <2> QED
    BY <2>2 DEF RanOK, RanOrdered, RanSeen, RanPending
<1>3. TodoOK(c)' /\ FiredOK(c)'
  <2>1. /\ call'[c].stage \in {"begin", "preSave", "has"} /\ call'[c].firing = FALSE
        /\ call'[c].stage \in Kind => call'[c].rows \ call'[c].pending = {}
    BY StartEffect DEF Kind
  <2> QED
    BY <2>1, EarlyStages DEF FiredOK, TodoOK
<1>4. FetchedOK(c)'
  BY StartEffect DEF FetchedOK
<1> QED
  BY <1>1, <1>2, <1>3, <1>4 DEF RunOK

\* Begin keeps the handlers of the call in order and complete.
LEMMA BeginRun ==
    ASSUME TypeOK, NEW c \in Client, CallShape(c), RunOK(c), Begin(c)
    PROVE  RunOK(c)'
<1> CreateShape(c) /\ DeleteShape(c)
  BY DEF CallShape
<1>1. HistoryOK(c)'
  BY BeginEffect, SameHistory DEF Running, RunOK
<1>2. \A i \in DOMAIN call[c].ran : FALSE
  BY BeginEffect, EarlyRan DEF RunOK
<1>3. RanOK(c)'
  BY <1>2, BeginEffect DEF RanOK, RanOrdered, RanSeen, RanPending
<1>4. TodoOK(c)'
  BY BeginEffect DEF TodoOK, CallShape, Kind
<1>5. FiredOK(c)'
  <2>1. /\ call'[c].stage \in {"preSave", "has"}
        /\ call'[c].stage \in Kind => call'[c].rows \ call'[c].pending = {}
    BY BeginEffect DEF Kind
  <2> QED
    BY <2>1, EarlyStages DEF FiredOK
<1>6. FetchedOK(c)'
  BY BeginEffect DEF FetchedOK
<1> QED
  BY <1>1, <1>3, <1>4, <1>5, <1>6 DEF RunOK

\* Snapshot keeps the handlers of the call in order and complete.
LEMMA SnapshotRun ==
    ASSUME TypeOK, RegistryOK, NEW c \in Client, CallShape(c), RunOK(c), Snapshot(c)
    PROVE  RunOK(c)'
<1>1. /\ call[c].stage \in Kind /\ ~call[c].firing /\ Quiet(c) /\ table' = table
      /\ KeepsRest(call'[c], call[c]) /\ call'[c].out = call[c].out
      /\ call'[c].stage = call[c].stage /\ call'[c].pending = call[c].pending
      /\ call'[c].firing /\ call'[c].at \in call[c].pending
      /\ call'[c].todo = handlers[call[c].stage]
  BY SnapshotEffect
<1>2. HistoryOK(c)'
  BY <1>1, SameHistory DEF Running, RunOK, Kind, KeepsRest, Quiet
<1>3. \A k : Due(c, k)' = Due(c, k)
  BY <1>1, SameDue DEF Quiet, KeepsRest
<1>4. RanOK(c)'
  BY <1>1, ZenonT(60) DEF RunOK, RanOK, RanOrdered, RanSeen, RanPending, KeepsRest
<1>5. TodoOK(c)'
  <2>1. Increasing(handlers[call[c].stage]) /\ Ids(handlers[call[c].stage]) = active[call[c].stage]
    BY <1>1 DEF RegistryOK
  <2>2. active[call[c].stage] \subseteq call[c].seen[call[c].stage]
    BY <1>1 DEF RunOK, HistoryOK, Running, Kind
  <2>3. Due(c, call[c].stage)' \subseteq active[call[c].stage]
    BY <1>1, <1>3 DEF Due
  <2> QED
    BY <1>1, <2>1, <2>2, <2>3 DEF TodoOK, KeepsRest
<1>6. FiredOK(c)'
  <2>1. ASSUME NEW k, NEW r, FiredFor(c, k, r) PROVE FiredFor(c, k, r)'
    BY <1>1, <2>1, SameFired DEF Quiet, KeepsRest
  <2>2. FiredOK(c)
    BY DEF RunOK
  <2> QED
    BY <1>1, <2>1, <2>2 DEF FiredOK, KeepsRest
<1>7. FetchedOK(c)'
  BY <1>1, <1>3 DEF RunOK, FetchedOK, NoneDue, KeepsRest
<1> QED
  BY <1>2, <1>4, <1>5, <1>6, <1>7 DEF RunOK

\* Fired keeps the handlers of the call in order and complete.
LEMMA FiredRun ==
    ASSUME TypeOK, NEW c \in Client, CallShape(c), RunOK(c), Fired(c)
    PROVE  RunOK(c)'
<1> CreateShape(c) /\ DeleteShape(c)
  BY DEF CallShape
<1> DEFINE rs == call[c].pending \ {call[c].at}
<1>1. /\ call[c].firing /\ call[c].todo = <<>> /\ call[c].stage \in Kind /\ Quiet(c)
      /\ table' = table /\ KeepsRest(call'[c], call[c]) /\ call'[c].out = call[c].out
      /\ call'[c].pending = rs /\ call'[c].firing = FALSE
      /\ call'[c].stage = IF rs = {} THEN After[call[c].stage] ELSE call[c].stage
      /\ call[c].at \in call[c].pending
  BY FiredEffect DEF Fires, CallShape
<1>2. HistoryOK(c)'
  BY <1>1, SameHistory DEF Running, RunOK, Kind, KeepsRest, Quiet
<1>3. \A k : Due(c, k)' = Due(c, k)
  BY <1>1, SameDue DEF Quiet, KeepsRest
<1>4. TodoOK(c)'
  BY <1>1 DEF TodoOK
<1>5. FiredFor(c, call[c].stage, call[c].at)
  BY <1>1 DEF RunOK, TodoOK, FiredFor, Ids
<1>6. \A k, r : FiredFor(c, k, r) => FiredFor(c, k, r)'
  BY <1>1, SameFired DEF Quiet, KeepsRest
<1>7. CASE rs # {}
  <2>1. call'[c].stage = call[c].stage
    BY <1>1, <1>7
  <2>2. ASSUME NEW i \in DOMAIN call[c].ran
        PROVE  /\ \/ call'[c].stage = call[c].ran[i][1]
                  \/ call'[c].stage \in Behind[call[c].ran[i][1]]
               /\ ~(call'[c].stage = call[c].ran[i][1] /\ call[c].ran[i][3] \in rs)
    BY <1>1, <2>1 DEF RunOK, RanOK, RanSeen, RanPending
  <2>3. RanOK(c)'
    BY <1>1, <2>2, SameRan DEF RunOK, KeepsRest
  <2>4. FiredOK(c)'
    <3> SUFFICES ASSUME call[c].out = "ok" PROVE FiredOK(c)'
      BY <1>1 DEF FiredOK
    <3>1. ASSUME NEW k, k = call[c].stage, NEW r \in call[c].rows \ rs PROVE FiredFor(c, k, r)'
      <4>1. FiredFor(c, k, r)
        BY <1>1, <1>5, <3>1 DEF RunOK, FiredOK
      <4> QED
        BY <4>1, <1>6
    <3>2. ASSUME NEW k \in KindsOf(call[c].op), call[c].stage \in Behind[k], NEW r \in call[c].rows
          PROVE  FiredFor(c, k, r)'
      <4>1. FiredFor(c, k, r)
        BY <3>2 DEF RunOK, FiredOK
      <4> QED
        BY <4>1, <1>6
    <3> QED
      BY <1>1, <2>1, <3>1, <3>2 DEF FiredOK, KeepsRest
  <2>5. FetchedOK(c)'
    BY <1>1, <1>3, <2>1 DEF RunOK, FetchedOK, NoneDue, KeepsRest
  <2> QED
    BY <1>2, <1>4, <2>3, <2>4, <2>5 DEF RunOK
<1>8. CASE rs = {}
  <2>1. \/ call[c].stage = "preSave" /\ call'[c].stage = "insert" /\ call[c].op = "create"
        \/ call[c].stage = "postSave" /\ call'[c].stage = "finish" /\ call[c].op = "create"
        \/ call[c].stage = "preDelete" /\ call'[c].stage = "delete" /\ call[c].op = "delete"
        \/ call[c].stage = "postDelete" /\ call'[c].stage = "finish" /\ call[c].op = "delete"
    <3>1. call'[c].stage = After[call[c].stage] /\ call[c].op \in {"create", "delete"}
      BY <1>1, <1>8 DEF TypeOK, Call
    <3> QED
      BY <1>1, <3>1 DEF After, Kind, CreateShape, DeleteShape, Creating, Deleting
  <2>2. ASSUME NEW i \in DOMAIN call[c].ran
        PROVE  /\ \/ call'[c].stage = call[c].ran[i][1]
                  \/ call'[c].stage \in Behind[call[c].ran[i][1]]
               /\ ~(call'[c].stage = call[c].ran[i][1] /\ call[c].ran[i][3] \in rs)
    <3>1. call[c].stage = call[c].ran[i][1] \/ call[c].stage \in Behind[call[c].ran[i][1]]
      BY DEF RunOK, RanOK, RanSeen
    <3>2. call[c].ran[i][1] \in Kind
      BY RanKind
    <3> QED
      BY <1>8, <2>1, <3>1, <3>2 DEF Kind, Behind
  <2>3. RanOK(c)'
    BY <1>1, <2>2, SameRan DEF RunOK, KeepsRest
  <2>4. FiredOK(c)'
    <3> SUFFICES ASSUME call[c].out = "ok" PROVE FiredOK(c)'
      BY <1>1 DEF FiredOK
    <3>1. ASSUME NEW r \in call[c].rows PROVE FiredFor(c, call[c].stage, r)
      BY <1>1, <1>5, <1>8 DEF RunOK, FiredOK
    <3>2. ASSUME NEW k \in KindsOf(call[c].op), call'[c].stage \in Behind[k], NEW r \in call[c].rows
          PROVE  FiredFor(c, k, r)'
      <4>1. k = call[c].stage \/ call[c].stage \in Behind[k]
        BY <2>1, <3>2 DEF KindsOf, Behind
      <4>2. FiredFor(c, k, r)
        BY <3>1, <4>1 DEF RunOK, FiredOK
      <4> QED
        BY <4>2, <1>6
    <3>3. call'[c].stage \notin Kind
      BY <2>1 DEF Kind
    <3> QED
      BY <1>1, <3>2, <3>3 DEF FiredOK, KeepsRest
  <2>5. FetchedOK(c)'
    BY <1>1, <1>3, <2>1 DEF RunOK, FetchedOK, NoneDue, KeepsRest
  <2> QED
    BY <1>2, <1>4, <2>3, <2>4, <2>5 DEF RunOK
<1> QED
  BY <1>7, <1>8

\* Insert keeps the handlers of the call in order and complete.
LEMMA InsertRun ==
    ASSUME TypeOK, NEW c \in Client, CallShape(c), RunOK(c), Insert(c)
    PROVE  RunOK(c)'
<1> CreateShape(c) /\ DeleteShape(c)
  BY DEF CallShape
<1>1. HistoryOK(c)'
  BY InsertEffect, SameHistory DEF Running, RunOK, Quiet
<1>2. \A k : Due(c, k)' = Due(c, k)
  BY InsertEffect, SameDue DEF Quiet
<1>3. RanOK(c)' 
  <2>1. ASSUME NEW i \in DOMAIN call[c].ran
        PROVE  /\ \/ call'[c].stage = call[c].ran[i][1]
                  \/ call'[c].stage \in Behind[call[c].ran[i][1]]
               /\ ~(call'[c].stage = call[c].ran[i][1] /\ call[c].ran[i][3] \in call'[c].pending)
    <3>1. "insert" = call[c].ran[i][1] \/ "insert" \in Behind[call[c].ran[i][1]]
      BY InsertEffect, ZenonT(60) DEF RunOK, RanOK, RanSeen
    <3> QED
      <4>1. call[c].ran[i][1] = "preSave"
        BY <3>1, RanKind DEF Kind, Behind
      <4> QED
        <5>1. call'[c].stage = "postSave"
          BY InsertEffect
        <5> QED
          BY <4>1, <5>1 DEF Behind
  <2> QED
    BY <2>1, InsertEffect, SameRan DEF RunOK
<1>4. TodoOK(c)'
  BY InsertEffect DEF TodoOK
<1>5. FiredOK(c)'
  <2> SUFFICES ASSUME call[c].out = "ok" PROVE FiredOK(c)'
    BY InsertEffect DEF FiredOK
  <2>1. ASSUME NEW k \in KindsOf("create"), "postSave" \in Behind[k], NEW r \in call[c].rows
        PROVE  FiredFor(c, k, r)'
    <3>1. "insert" \in Behind[k] /\ call[c].stage = "insert" /\ call[c].op = "create"
      BY <2>1, InsertEffect, EarlyStages
    <3>2. FiredFor(c, k, r)
      BY <2>1, <3>1 DEF RunOK, FiredOK
    <3> QED
      BY <3>2, SameFired, InsertEffect DEF Quiet
  <2>2. call'[c].rows \ call'[c].pending = {}
    BY InsertEffect
  <2> QED
    BY <2>1, <2>2, InsertEffect, ZenonT(60) DEF FiredOK
<1>6. FetchedOK(c)'
  BY InsertEffect DEF FetchedOK
<1> QED
  BY <1>1, <1>3, <1>4, <1>5, <1>6 DEF RunOK

\* Has and HasPost keeps the handlers of the call in order and complete.
LEMMA HasRun ==
    ASSUME TypeOK, RegistryOK, NEW c \in Client, CallShape(c), RunOK(c), Has(c) \/ HasPost(c)
    PROVE  RunOK(c)'
<1> CreateShape(c) /\ DeleteShape(c)
  BY DEF CallShape
<1>1. /\ call[c].stage \in {"has", "hasPost"} /\ Quiet(c) /\ KeepsRest(call'[c], call[c])
      /\ call'[c].firing = call[c].firing /\ call'[c].out = call[c].out
      /\ call'[c].pending = call[c].pending /\ call[c].firing = FALSE
  BY HasEffect DEF CallShape, Kind, KeepsFiring, TypeOK, Call
<1>2. \/ call'[c].stage = "all"
      \/ call'[c].stage = "hasPost" /\ handlers["preDelete"] = <<>>
      \/ call[c].stage = "hasPost" /\ call'[c].stage = "delete" /\ handlers["postDelete"] = <<>>
  BY HasEffect
<1>3. call[c].op = "delete" /\ call[c].rows = {}
  BY <1>1 DEF CreateShape, DeleteShape, Creating, TypeOK, Call
<1>4. HistoryOK(c)'
  BY <1>1, SameHistory DEF Running, RunOK, Quiet, KeepsRest
<1>5. \A k : Due(c, k)' = Due(c, k)
  BY <1>1, SameDue DEF Quiet, KeepsRest
<1>6. \A i \in DOMAIN call[c].ran : FALSE
  BY <1>1, EarlyRan DEF RunOK
<1>7. RanOK(c)'
  BY <1>1, <1>6 DEF RanOK, RanOrdered, RanSeen, RanPending, KeepsRest
<1>8. TodoOK(c)'
  BY <1>1 DEF TodoOK
<1>9. FiredOK(c)'
  BY <1>1, <1>2, <1>3 DEF FiredOK, KeepsRest, Kind
<1>10. FetchedOK(c)'
  <2>1. \A k \in {"preDelete", "postDelete"} : handlers[k] = <<>> => Due(c, k) = {}
    BY DEF RegistryOK, Due, Ids, Kind
  <2> QED
    BY <1>1, <1>2, <1>3, <1>5, <2>1 DEF FetchedOK, NoneDue, RunOK, KeepsRest
<1> QED
  BY <1>4, <1>7, <1>8, <1>9, <1>10 DEF RunOK

\* All keeps the handlers of the call in order and complete.
LEMMA AllRun ==
    ASSUME TypeOK, NEW c \in Client, CallShape(c), RunOK(c), All(c)
    PROVE  RunOK(c)'
<1> CreateShape(c) /\ DeleteShape(c)
  BY DEF CallShape
<1>1. call[c].stage = "all" /\ call[c].op = "delete"
  BY AllEffect DEF CreateShape, Creating, TypeOK, Call
<1>2. Visible(c) = table
  BY <1>1 DEF DeleteShape, Visible
<1>3. /\ Quiet(c) /\ table' = table /\ call'[c].rows = table /\ call'[c].pending = table
      /\ call'[c].firing = FALSE /\ call'[c].op = "delete" /\ call'[c].ran = call[c].ran
      /\ call'[c].start = call[c].start /\ call'[c].seen = call[c].seen
      /\ \/ call'[c].stage = "preDelete"
         \/ call'[c].stage = "delete" /\ table = {}
  BY <1>1, <1>2, AllEffect DEF Fires, After
<1>4. HistoryOK(c)'
  BY <1>1, <1>3, SameHistory DEF Running, RunOK, Quiet
<1>5. \A i \in DOMAIN call[c].ran : FALSE
  BY <1>1, EarlyRan DEF RunOK
<1>6. RanOK(c)'
  BY <1>3, <1>5 DEF RanOK, RanOrdered, RanSeen, RanPending
<1>7. TodoOK(c)' /\ FetchedOK(c)'
  BY <1>3 DEF TodoOK, FetchedOK
<1>8. FiredOK(c)'
  BY <1>3 DEF FiredOK, KindsOf, Behind, Kind
<1> QED
  BY <1>4, <1>6, <1>7, <1>8 DEF RunOK

\* Delete keeps the handlers of the call in order and complete.
LEMMA DeleteRun ==
    ASSUME TypeOK, NEW c \in Client, CallShape(c), RunOK(c), Delete(c)
    PROVE  RunOK(c)'
<1> CreateShape(c) /\ DeleteShape(c)
  BY DEF CallShape
<1>1. call[c].stage = "delete" /\ call[c].op = "delete"
  BY DeleteEffect DEF CreateShape, Creating, TypeOK, Call
<1>2. Visible(c) = table
  BY <1>1 DEF DeleteShape, Visible
<1>3. /\ Quiet(c) /\ call'[c].gone = table /\ call'[c].pending = call[c].rows
      /\ call'[c].firing = FALSE /\ call'[c].op = "delete" /\ call'[c].ran = call[c].ran
      /\ call'[c].start = call[c].start /\ call'[c].seen = call[c].seen
      /\ call'[c].rows = call[c].rows /\ call'[c].out = call[c].out
      /\ call'[c].atomic = call[c].atomic
      /\ \/ call'[c].stage = "postDelete"
         \/ call'[c].stage = "finish" /\ call[c].rows = {}
  BY <1>1, <1>2, DeleteEffect DEF Fires, After
<1>4. HistoryOK(c)'
  BY <1>1, <1>3, SameHistory DEF Running, RunOK, Quiet
<1>5. \A k : Due(c, k)' = Due(c, k)
  BY <1>3, SameDue DEF Quiet
<1>6. RanOK(c)'
  <2>1. ASSUME NEW i \in DOMAIN call[c].ran
        PROVE  /\ \/ call'[c].stage = call[c].ran[i][1]
                  \/ call'[c].stage \in Behind[call[c].ran[i][1]]
               /\ ~(call'[c].stage = call[c].ran[i][1] /\ call[c].ran[i][3] \in call'[c].pending)
    <3>1. "delete" = call[c].ran[i][1] \/ "delete" \in Behind[call[c].ran[i][1]]
      BY <1>1 DEF RunOK, RanOK, RanSeen
    <3>2. call[c].ran[i][1] = "preDelete"
      BY <3>1, RanKind DEF Kind, Behind
    <3> QED
      BY <1>3, <3>2 DEF Behind
  <2> QED
    BY <1>3, <2>1, SameRan DEF RunOK
<1>7. TodoOK(c)'
  BY <1>3 DEF TodoOK
<1>8. FiredOK(c)'
  <2> SUFFICES ASSUME call[c].out = "ok" PROVE FiredOK(c)'
    BY <1>3 DEF FiredOK
  <2>1. ASSUME NEW k \in KindsOf("delete"), call'[c].stage \in Behind[k], NEW r \in call[c].rows
        PROVE  FiredFor(c, k, r)'
    <3>1. "delete" \in Behind[k]
      BY <1>3, <2>1 DEF KindsOf, Behind
    <3>2. FiredFor(c, k, r)
      BY <1>1, <2>1, <3>1 DEF RunOK, FiredOK
    <3> QED
      BY <1>3, <1>5, <3>2 DEF FiredFor, Ran
  <2>2. call'[c].rows \ call'[c].pending = {}
    BY <1>3
  <2> QED
    BY <1>3, <2>1, <2>2 DEF FiredOK
<1>9. FetchedOK(c)'
  BY <1>1, <1>3, <1>5 DEF RunOK, FetchedOK, NoneDue
<1> QED
  BY <1>4, <1>6, <1>7, <1>8, <1>9 DEF RunOK

\* A query that returns an error keeps the handlers of the call in order.
LEMMA ErrorRun ==
    ASSUME TypeOK, NEW c \in Client, CallShape(c), RunOK(c),
           QueryFails(c) \/ InsertLost(c) \/ DeleteLost(c)
    PROVE  RunOK(c)'
<1>1. /\ call[c].stage \in {"insert", "all", "delete"} /\ Quiet(c)
      /\ call'[c].ran = call[c].ran /\ call'[c].seen = call[c].seen
      /\ call'[c].start = call[c].start
      /\ call'[c].stage = "finish" /\ call'[c].out # "ok"
      /\ call'[c].firing = call[c].firing
  BY QueryFailsEffect, InsertLostEffect, DeleteLostEffect DEF KeepsRest
<1>5. ~call'[c].firing
  BY <1>1 DEF CallShape, Kind
<1>2. HistoryOK(c)'
  BY <1>1, SameHistory DEF Running, RunOK, Quiet
<1>3. RanOK(c)'
  <2>1. ASSUME NEW i \in DOMAIN call[c].ran
        PROVE  /\ \/ call'[c].stage = call[c].ran[i][1]
                  \/ call'[c].stage \in Behind[call[c].ran[i][1]]
               /\ ~(call'[c].stage = call[c].ran[i][1] /\ call[c].ran[i][3] \in call'[c].pending)
    BY <1>1, RanKind DEF Kind, Behind
  <2> QED
    BY <1>1, <2>1, SameRan DEF RunOK
<1>4. TodoOK(c)' /\ FiredOK(c)' /\ FetchedOK(c)'
  BY <1>1, <1>5 DEF TodoOK, FiredOK, FetchedOK
<1> QED
  BY <1>2, <1>3, <1>4 DEF RunOK

\* Finish keeps the handlers of the call in order and complete.
LEMMA FinishRun ==
    ASSUME TypeOK, NEW c \in Client, Finish(c)
    PROVE  RunOK(c)'
<1>1. /\ call'[c].stage = "done" /\ call'[c].firing = FALSE /\ call'[c].ran = <<>>
      /\ call'[c].start = [k \in Kind |-> {}]
  BY FinishEffect
<1>2. HistoryOK(c)'
  BY <1>1 DEF HistoryOK, Running
<1>3. RanOK(c)' /\ TodoOK(c)' /\ FetchedOK(c)'
  BY <1>1 DEF RanOK, RanOrdered, RanSeen, RanPending, TodoOK, FetchedOK
<1>4. FiredOK(c)'
  BY <1>1, EarlyStages DEF FiredOK, Kind
<1> QED
  BY <1>2, <1>3, <1>4 DEF RunOK

\* A handler runs: its identifier is above those run and below those to run.
LEMMA RunHandlerRun ==
    ASSUME TypeOK, NEW c \in Client, CallShape(c), RunOK(c), RunHandler(c)
    PROVE  RunOK(c)'
<1> CreateShape(c) /\ DeleteShape(c)
  BY DEF CallShape
<1> DEFINE st == call[c].stage
           ran == call[c].ran
           todo == call[c].todo
           new == <<st, Head(todo), call[c].at>>
           n == Len(ran) + 1
<1>1. /\ call[c].firing /\ todo # <<>> /\ todo \in Seq(Id) /\ Quiet(c) /\ table' = table
      /\ call'[c].op = call[c].op /\ call'[c].atomic = call[c].atomic
      /\ call'[c].rows = call[c].rows /\ call'[c].gone = call[c].gone
      /\ call'[c].start = call[c].start /\ call'[c].seen = call[c].seen
      /\ call'[c].ran = Append(ran, new) /\ call'[c].pending = call[c].pending
      /\ \/ /\ call'[c].stage = st /\ call'[c].firing /\ call'[c].at = call[c].at
            /\ call'[c].todo = Tail(todo) /\ call'[c].out = call[c].out
         \/ call'[c].stage = "finish" /\ call'[c].out = "err" /\ call'[c].firing = FALSE
      /\ st \in Kind /\ call[c].at \in call[c].pending
  BY RunHandlerEffect DEF CallShape
<1>2. ran \in Seq(Kind \X Id \X Row) /\ call[c].seen \in [Kind -> SUBSET Id] /\ call[c].at \in Row
  BY DEF TypeOK, Call
<1>3. HistoryOK(c)'
  BY <1>1, SameHistory DEF Running, RunOK, Kind, Quiet
<1>4. \A k : Due(c, k)' = Due(c, k)
  BY <1>1, SameDue DEF Quiet
<1>5. /\ Len(todo) \in Nat \ {0} /\ DOMAIN todo = 1 .. Len(todo) /\ Head(todo) = todo[1]
      /\ Tail(todo) \in Seq(Id) /\ DOMAIN Tail(todo) = 1 .. Len(todo) - 1
      /\ \A i \in 1 .. Len(todo) - 1 : Tail(todo)[i] = todo[i + 1]
  BY <1>1
<1>6. /\ new[1] = st /\ new[2] = todo[1] /\ new[3] = call[c].at
      /\ Len(ran) \in Nat /\ DOMAIN ran = 1 .. Len(ran)
      /\ DOMAIN call'[c].ran = 1 .. n
      /\ \A i \in 1 .. Len(ran) : call'[c].ran[i] = ran[i]
      /\ call'[c].ran[n] = new
  <2>1. new \in Kind \X Id \X Row
    BY <1>1, <1>2, <1>5
  <2> HIDE DEF ran
  <2>2. new[1] = st /\ new[2] = todo[1] /\ new[3] = call[c].at
    BY <1>5
  <2> HIDE DEF new
  <2> QED
    BY <1>1, <1>2, <2>1, <2>2, AppendProperties
<1>7. /\ Increasing(todo) /\ Ids(todo) \subseteq call[c].seen[st]
      /\ \A h \in Due(c, st) : h \in Ids(todo) \/ Ran(c, st, h, call[c].at)
  BY <1>1 DEF RunOK, TodoOK
<1> HIDE DEF new, n
<1>8. \A i \in DOMAIN call'[c].ran : i \in DOMAIN ran \/ i = n
  BY <1>6 DEF n
<1>9. RanOrdered(c)'
  <2> SUFFICES ASSUME NEW i \in DOMAIN call'[c].ran, NEW j \in DOMAIN call'[c].ran, i < j,
                      call'[c].ran[i][1] = call'[c].ran[j][1],
                      call'[c].ran[i][3] = call'[c].ran[j][3]
               PROVE  call'[c].ran[i][2] < call'[c].ran[j][2]
    BY DEF RanOrdered
  <2>1. i \in DOMAIN ran /\ call'[c].ran[i] = ran[i]
    BY <1>6, SMTT(30) DEF n
  <2>2. CASE j \in DOMAIN ran
    BY <2>1, <2>2, <1>6 DEF RunOK, RanOK, RanOrdered
  <2>3. CASE j = n
    <3>1. ran[i][1] = st /\ ran[i][3] = call[c].at
      BY <2>1, <2>3, <1>6
    <3>2. ran[i][2] < todo[1]
      <4>1. \A m \in DOMAIN todo : ran[i][2] < todo[m]
        BY <2>1, <3>1, <1>1 DEF RunOK, RanOK, RanPending
      <4>2. 1 \in DOMAIN todo
        BY <1>5
      <4> QED
        BY <4>1, <4>2
    <3> QED
      BY <2>1, <2>3, <3>2, <1>6
  <2> QED
    BY <1>8, <2>2, <2>3
<1>10. RanSeen(c)'
  <2> SUFFICES ASSUME NEW i \in DOMAIN call'[c].ran
               PROVE  /\ call'[c].ran[i][2] \in call[c].seen[call'[c].ran[i][1]]
                      /\ \/ call'[c].stage = call'[c].ran[i][1]
                         \/ call'[c].stage \in Behind[call'[c].ran[i][1]]
    BY <1>1 DEF RanSeen
  <2>1. \A k \in Kind : "finish" \in Behind[k]
    BY DEF Kind, Behind
  <2>2. CASE i \in DOMAIN ran
    BY <1>1, <1>6, <2>1, <2>2, RanKind, ZenonT(60) DEF RunOK, RanOK, RanSeen
  <2>3. CASE i = n
    <3>1. todo[1] \in Ids(todo)
      BY <1>5 DEF Ids
    <3> QED
      BY <1>1, <1>6, <1>7, <2>1, <2>3, <3>1
  <2> QED
    BY <1>8, <2>2, <2>3
<1>11. RanPending(c)'
  <2> SUFFICES ASSUME NEW i \in DOMAIN call'[c].ran, call'[c].stage = call'[c].ran[i][1],
                      call'[c].ran[i][3] \in call[c].pending
               PROVE  /\ call'[c].firing /\ call'[c].ran[i][3] = call'[c].at
                      /\ \A m \in DOMAIN call'[c].todo : call'[c].ran[i][2] < call'[c].todo[m]
    BY <1>1 DEF RanPending
  <2>1. call'[c].ran[i][1] \in Kind
    BY <1>1, <1>6, <1>8, RanKind
  <2>2. /\ call'[c].stage = st /\ call'[c].firing /\ call'[c].at = call[c].at
        /\ call'[c].todo = Tail(todo)
    BY <1>1, <2>1 DEF Kind
  <2>3. CASE i \in DOMAIN ran
    <3>1. ran[i][3] = call[c].at /\ \A m \in DOMAIN todo : ran[i][2] < todo[m]
      BY <1>6, <2>2, <2>3 DEF RunOK, RanOK, RanPending
    <3>2. ASSUME NEW m \in DOMAIN Tail(todo) PROVE ran[i][2] < Tail(todo)[m]
      <4>1. m + 1 \in DOMAIN todo /\ Tail(todo)[m] = todo[m + 1]
        BY <1>5
      <4> QED
        BY <3>1, <4>1
    <3>3. call'[c].ran[i] = ran[i]
      BY <1>6, <2>3
    <3> QED
      BY <2>2, <3>1, <3>2, <3>3
  <2>4. CASE i = n
    <3>1. \A m \in 1 .. Len(todo) - 1 : todo[1] < todo[m + 1]
      BY <1>5, <1>7 DEF Increasing
    <3>2. \A m \in DOMAIN Tail(todo) : todo[1] < Tail(todo)[m]
      BY <1>5, <3>1
    <3>3. call'[c].ran[i][2] = todo[1] /\ call'[c].ran[i][3] = call[c].at
      BY <1>6, <2>4
    <3> QED
      BY <2>2, <3>2, <3>3
  <2> QED
    BY <1>8, <2>3, <2>4
<1>12. ASSUME NEW k, NEW h, NEW r, Ran(c, k, h, r) PROVE Ran(c, k, h, r)'
  <2>1. PICK i \in DOMAIN ran : ran[i] = <<k, h, r>>
    BY <1>12 DEF Ran
  <2>2. i \in DOMAIN call'[c].ran /\ call'[c].ran[i] = <<k, h, r>>
    BY <2>1, <1>6 DEF n
  <2> QED
    BY <2>2 DEF Ran
<1>13. TodoOK(c)'
  <2> SUFFICES ASSUME call'[c].firing PROVE TodoOK(c)'
    BY DEF TodoOK
  <2>1. /\ call'[c].stage = st /\ call'[c].at = call[c].at /\ call'[c].todo = Tail(todo)
    BY <1>1
  <2>2. Increasing(Tail(todo))
    <3>1. ASSUME NEW p \in DOMAIN Tail(todo), NEW q \in DOMAIN Tail(todo), p < q
          PROVE  Tail(todo)[p] < Tail(todo)[q]
      <4>1. /\ p + 1 \in DOMAIN todo /\ Tail(todo)[p] = todo[p + 1]
            /\ q + 1 \in DOMAIN todo /\ Tail(todo)[q] = todo[q + 1] /\ p + 1 < q + 1
        BY <3>1, <1>5
      <4> QED
        BY <4>1, <1>7 DEF Increasing
    <3> QED
      BY <3>1 DEF Increasing
  <2>3. Ids(Tail(todo)) \subseteq call[c].seen[st]
    BY <1>5, <1>7 DEF Ids
  <2>4. ASSUME NEW k, k = st, NEW a, a = call[c].at, NEW h \in Due(c, k)
        PROVE  h \in Ids(Tail(todo)) \/ Ran(c, k, h, a)'
    <3>1. CASE Ran(c, k, h, a)
      BY <3>1, <1>12
    <3>2. CASE h \in Ids(todo)
      <4>1. PICK i \in 1 .. Len(todo) : h = todo[i]
        BY <3>2, <1>5 DEF Ids
      <4>2. CASE i = 1
        <5>1. n \in DOMAIN call'[c].ran /\ call'[c].ran[n] = <<k, h, a>>
          BY <4>1, <4>2, <1>5, <1>6, <2>4 DEF n, new
        <5> QED
          BY <5>1 DEF Ran
      <4>3. CASE i # 1
        <5>1. i - 1 \in 1 .. Len(todo) - 1 /\ h = Tail(todo)[i - 1]
          BY <4>1, <4>3, <1>5
        <5> QED
          BY <5>1, <1>5 DEF Ids
      <4> QED
        BY <4>2, <4>3
    <3> QED
      BY <1>7, <2>4, <3>1, <3>2
  <2> QED
    BY <1>1, <1>4, <2>1, <2>2, <2>3, <2>4 DEF TodoOK
<1>14. FiredOK(c)'
  <2> SUFFICES ASSUME call'[c].out = "ok" PROVE FiredOK(c)'
    BY DEF FiredOK
  <2>1. ASSUME NEW k, NEW r, FiredFor(c, k, r) PROVE FiredFor(c, k, r)'
    BY <2>1, <1>4, <1>12 DEF FiredFor
  <2>2. FiredOK(c) /\ call'[c].stage = st /\ call[c].out = "ok"
    BY <1>1 DEF RunOK
  <2> QED
    BY <1>1, <2>1, <2>2 DEF FiredOK
<1>15. FetchedOK(c)'
  BY <1>1, <1>4 DEF RunOK, FetchedOK, NoneDue
<1> QED
  BY <1>3, <1>9, <1>10, <1>11, <1>13, <1>14, <1>15 DEF RunOK, RanOK

(* The only connection: nobody else changes the table. *)
LEMMA TablePinned ==
    ASSUME TableInv, PoolSize = 1, NEW d \in holders, NEW c \in Client \ {d},
           Start(c) \/ ClientStep(c)
    PROVE  table' = table
<1> TypeOK /\ HoldersMatch /\ CallShape(c) /\ CreateShape(c) /\ DeleteShape(c)
  BY DEF TableInv, CallShape
<1>1. IsFiniteSet(holders) /\ Cardinality(holders) <= 1
  BY DEF TypeOK, HoldersMatch
<1>2. c \notin holders /\ ~Free
  <2>1. /\ {d} \subseteq holders /\ IsFiniteSet({d}) /\ Cardinality({d}) = 1
        /\ Cardinality(holders) \in Nat
    BY <1>1, FS_Singleton, FS_CardinalityType
  <2>2. Cardinality(holders) = 1
    BY <1>1, <2>1, FS_Subset
  <2>3. PICK e : holders = {e}
    BY <1>1, <2>2, FS_Singleton
  <2> QED
    BY <2>2, <2>3 DEF Free
<1>3. ~Conn(c)
  BY <1>2 DEF Conn
<1> QED
  BY <1>2, <1>3, StartEffect, BeginEffect, SnapshotEffect, RunHandlerEffect, FiredEffect,
     InsertEffect, HasEffect, AllEffect, DeleteEffect, QueryFailsEffect, InsertLostEffect,
     DeleteLostEffect, FinishEffect
     DEF ClientStep

(* The facts about a call outlive the steps of the others. *)
LEMMA OthersRun ==
    ASSUME TableInv, NEW d \in Client, NEW c \in Client \ {d}, RunOK(d), Start(c) \/ ClientStep(c)
    PROVE  RunOK(d)'
<1> TypeOK /\ HoldersMatch /\ CallShape(c) /\ CreateShape(c) /\ DeleteShape(c)
  BY DEF TableInv, CallShape
<1>1. call'[d] = call[d] /\ UNCHANGED <<nextID, active>>
  <2>1. Others(c) /\ UNCHANGED <<handlers, nextID, active>>
    BY StartEffect, BeginEffect, SnapshotEffect, RunHandlerEffect, FiredEffect, InsertEffect,
       HasEffect, AllEffect, DeleteEffect, QueryFailsEffect, InsertLostEffect,
     DeleteLostEffect, FinishEffect, ZenonT(60) DEF ClientStep, Quiet
  <2> QED
    BY <2>1 DEF Others
<1>2. HistoryOK(d)'
  BY <1>1 DEF RunOK, HistoryOK, Running
<1>3. RanOK(d)'
  BY <1>1 DEF RunOK, RanOK, RanOrdered, RanSeen, RanPending
<1>4. \A k : Due(d, k)' = Due(d, k)
  BY <1>1, SameDue
<1>5. TodoOK(d)'
  BY <1>1, <1>4 DEF RunOK, TodoOK, Ran, Due
<1>6. FiredOK(d)'
  BY <1>1, <1>4, SMTT(30) DEF RunOK, FiredOK, FiredFor, Ran, Due
<1>7. FetchedOK(d)'
  <2>1. PoolSize = 1 /\ call[d].atomic /\ call[d].stage \in {"preDelete", "delete"} => table' = table
    BY TablePinned DEF HoldersMatch, Matched
  <2> QED
    BY <1>1, <1>4, <2>1 DEF RunOK, FetchedOK, NoneDue
<1> QED
  BY <1>2, <1>3, <1>5, <1>6, <1>7 DEF RunOK

\* A registration adds no handler that is due; a cancellation takes one away.
LEMMA SignalRun ==
    ASSUME TypeOK, RegistryOK, NEW c \in Client, CallShape(c), RunOK(c), NEW k \in Kind,
           Register(k) \/ Cancel(k), UNCHANGED setting
    PROVE  RunOK(c)'
<1>1. /\ SameBut(c) /\ table' = table
      /\ nextID <= nextID' /\ nextID \in Nat /\ nextID' \in Nat
      /\ call[c].seen \in [Kind -> SUBSET Id] /\ call[c].start \in [Kind -> SUBSET Id]
  <2>1. call[c] \in Call /\ nextID \in Nat
    BY BoundAssumption DEF TypeOK
  <2>2. call[c].seen \in [Kind -> SUBSET Id] /\ call[c].start \in [Kind -> SUBSET Id]
    BY <2>1 DEF Call
  <2>3. CASE Register(k)
    <3>1. SameBut(c) /\ table' = table /\ nextID' = nextID + 1
      BY <2>3, RegisterEffect
    <3> QED
      BY <2>1, <2>2, <3>1
  <2>4. CASE Cancel(k)
    BY <2>1, <2>2, <2>4, CancelEffect DEF SameBut
  <2> QED
    BY <2>3, <2>4
<1>2. \A j \in Kind : call[c].seen[j] \subseteq call'[c].seen[j]
  <2>1. CASE Register(k)
    <3>1. \/ call'[c].seen = call[c].seen
          \/ call'[c].seen = [call[c].seen EXCEPT ![k] = @ \cup {nextID'}]
      BY <2>1, RegisterEffect
    <3> QED
      BY <1>1, <3>1
  <2>2. CASE Cancel(k)
    BY <2>2, CancelEffect
  <2> QED
    BY <2>1, <2>2
<1>3. \A j \in Kind : Due(c, j)' \subseteq Due(c, j)
  <2>1. CASE Register(k)
    <3> SUFFICES ASSUME NEW j \in Kind, NEW h \in active'[j], h \in call[c].start[j]
                 PROVE  h \in active[j]
      BY <1>1 DEF Due, SameBut
    <3>1. h <= nextID /\ nextID' = nextID + 1
      BY <2>1, RegisterEffect DEF RunOK, HistoryOK
    <3>2. h # nextID'
      BY <1>1, <3>1
    <3> QED
      BY <2>1, <3>2, RegisterEffect
  <2>2. CASE Cancel(k)
    BY <1>1, <2>2, CancelEffect DEF Due, SameBut
  <2> QED
    BY <2>1, <2>2
<1>4. HistoryOK(c)'
  <2>1. ASSUME NEW j \in Kind, NEW h \in call[c].start[j] PROVE h <= nextID'
    <3>1. h <= nextID /\ h \in Nat
      BY <1>1, IdsAreNaturals DEF RunOK, HistoryOK
    <3> QED
      BY <1>1, <3>1
  <2>2. ASSUME NEW j \in Kind, Running(c) PROVE active'[j] \subseteq call'[c].seen[j]
    <3>1. active[j] \subseteq call[c].seen[j]
      BY <2>2 DEF RunOK, HistoryOK
    <3>2. CASE Register(k)
      <4>1. call'[c].seen = [call[c].seen EXCEPT ![k] = @ \cup {nextID'}]
        BY <2>2, <3>2, RegisterEffect DEF Running
      <4>2. CASE j = k
        <5>1. active'[k] = active[k] \cup {nextID'}
          BY <3>2, RegisterEffect
        <5>2. call'[c].seen[k] = call[c].seen[k] \cup {nextID'}
          BY <1>1, <4>1
        <5> QED
          BY <3>1, <4>2, <5>1, <5>2
      <4>3. CASE j # k
        BY <1>1, <3>1, <3>2, <4>1, <4>3, RegisterEffect
      <4> QED
        BY <4>2, <4>3
    <3>3. CASE Cancel(k)
      BY <3>1, <3>3, CancelEffect
    <3> QED
      BY <3>2, <3>3
  <2> QED
    BY <1>1, <2>1, <2>2 DEF HistoryOK, Running, SameBut
<1>5. RanOK(c)'
  <2>1. RanSeen(c)'
    <3> SUFFICES ASSUME NEW i \in DOMAIN call[c].ran
                 PROVE  /\ call[c].ran[i][2] \in call'[c].seen[call[c].ran[i][1]]
                        /\ \/ call[c].stage = call[c].ran[i][1]
                           \/ call[c].stage \in Behind[call[c].ran[i][1]]
      BY <1>1 DEF RanSeen, SameBut
    <3> QED
      BY <1>2, RanKind DEF RunOK, RanOK, RanSeen
  <2> QED
    BY <1>1, <2>1 DEF RunOK, RanOK, RanOrdered, RanPending, SameBut
<1>6. ASSUME NEW j \in Kind, NEW h, NEW r, Ran(c, j, h, r) PROVE Ran(c, j, h, r)'
  BY <1>1, <1>6 DEF Ran, SameBut
<1>7. TodoOK(c)'
  <2> SUFFICES ASSUME call[c].firing PROVE TodoOK(c)'
    BY <1>1 DEF TodoOK, SameBut
  <2>1. call[c].stage \in Kind
    BY DEF CallShape
  <2>2. /\ Increasing(call[c].todo) /\ Ids(call[c].todo) \subseteq call'[c].seen[call[c].stage]
    BY <1>2, <2>1 DEF RunOK, TodoOK
  <2>3. ASSUME NEW j, j = call[c].stage, NEW a, a = call[c].at, NEW h \in Due(c, j)'
        PROVE  h \in Ids(call[c].todo) \/ Ran(c, j, h, a)'
    <3>1. h \in Due(c, j) /\ j \in Kind
      BY <1>3, <2>1, <2>3
    <3>2. h \in Ids(call[c].todo) \/ Ran(c, j, h, a)
      BY <2>3, <3>1 DEF RunOK, TodoOK
    <3> QED
      BY <1>6, <3>1, <3>2
  <2> QED
    BY <1>1, <2>2, <2>3 DEF TodoOK, SameBut
<1>8. FiredOK(c)'
  <2>1. ASSUME NEW j \in Kind, NEW r, FiredFor(c, j, r) PROVE FiredFor(c, j, r)'
    BY <2>1, <1>3, <1>6 DEF FiredFor
  <2> QED
    BY <1>1, <2>1, EarlyStages DEF RunOK, FiredOK, SameBut
<1>9. FetchedOK(c)'
  <2>1. \A j \in {"preDelete", "postDelete"} : Due(c, j)' \subseteq Due(c, j)
    BY <1>3 DEF Kind
  <2> QED
    BY <1>1, <2>1 DEF RunOK, FetchedOK, NoneDue, SameBut
<1> QED
  BY <1>4, <1>5, <1>7, <1>8, <1>9 DEF RunOK

\* One step of the system keeps every call in order.
LEMMA RunStep ==
    ASSUME RunInv, [Next]_vars
    PROVE  RunInv'
<1> TableInv /\ RegistryOK /\ TypeOK /\ HoldersMatch /\ Shape
  BY DEF RunInv, TableInv, Shape
<1>1. TableInv' /\ RegistryOK'
  BY TableStep, RegistryStep
<1>2. ASSUME NEW c \in Client, Start(c) \/ ClientStep(c), NEW d \in Client
      PROVE  RunOK(d)'
  <2>1. CASE d # c
    BY <1>2, <2>1, OthersRun DEF RunInv
  <2>2. CASE d = c
    <3>1. RunOK(c) /\ CallShape(c)
      BY DEF RunInv, Shape
    <3>2. RunOK(c)'
      BY <1>2, <3>1, StartRun, BeginRun, SnapshotRun, RunHandlerRun, FiredRun, InsertRun, HasRun,
         AllRun, DeleteRun, ErrorRun, FinishRun DEF ClientStep
    <3> QED
      BY <2>2, <3>2
  <2> QED
    BY <2>1, <2>2
<1>3. ASSUME NEW k \in Kind, Register(k) \/ Cancel(k), UNCHANGED setting, NEW d \in Client
      PROVE  RunOK(d)'
  BY <1>3, SignalRun DEF RunInv, Shape
<1>4. ASSUME UNCHANGED vars, NEW d \in Client PROVE RunOK(d)'
  <2>1. UNCHANGED <<nextID, active, call, table>> /\ RunOK(d)
    BY <1>4 DEF vars, RunInv
  <2>2. HistoryOK(d)' /\ RanOK(d)'
    BY <2>1 DEF RunOK, HistoryOK, Running, RanOK, RanOrdered, RanSeen, RanPending
  <2>3. TodoOK(d)' /\ FiredOK(d)' /\ FetchedOK(d)'
    BY <2>1, SMTT(30) DEF RunOK, TodoOK, Due, Ran, FiredOK, FiredFor, FetchedOK, NoneDue
  <2> QED
    BY <2>2, <2>3 DEF RunOK
<1> QED
  BY <1>1, <1>2, <1>3, <1>4 DEF Next, RunInv

\* At the start no handler has run.
LEMMA RunInit ==
    ASSUME Init
    PROVE  RunInv
<1>1. TableInv /\ RegistryOK
  BY TableInit
<1>2. ASSUME NEW c \in Client PROVE RunOK(c)
  <2>1. call[c] = Idle(c)
    BY DEF Init
  <2>2. /\ call[c].stage = "idle" /\ call[c].firing = FALSE /\ call[c].ran = <<>>
        /\ call[c].start = [k \in Kind |-> {}]
    BY <2>1 DEF Idle
  <2>3. \A i \in DOMAIN call[c].ran : FALSE
    BY <2>2
  <2>4. HistoryOK(c) /\ TodoOK(c) /\ FetchedOK(c)
    BY <2>2 DEF HistoryOK, Running, TodoOK, FetchedOK
  <2>5. RanOK(c)
    BY <2>3 DEF RanOK, RanOrdered, RanSeen, RanPending
  <2>6. FiredOK(c)
    BY <2>2, EarlyStages DEF FiredOK, Kind
  <2> QED
    BY <2>4, <2>5, <2>6 DEF RunOK
<1> QED
  BY <1>1, <1>2 DEF RunInv

\* A call about to return has run what was due, for every object.
LEMMA RunsAll ==
    ASSUME RunInv
    PROVE  HandlersRun
<1> SUFFICES ASSUME NEW c \in Client, Returning(c), NEW k \in Kind, NEW r \in Row
    PROVE  /\ \A h \in Id : RunsOf(c, k, h, r) # {} => h \in call[c].seen[k]
           /\ call[c].out = "ok" /\ k \in KindsOf(call[c].op) /\ r \in ObjectsOf(c)
              => \A h \in active[k] \cap call[c].start[k] :
                     \E i \in RunsOf(c, k, h, r) :
                         /\ RunsOf(c, k, h, r) = {i}
                         /\ \A g \in active[k] \cap call[c].start[k] : g < h =>
                                \E j \in RunsOf(c, k, g, r) : j < i
  BY DEF HandlersRun
<1>1. TypeOK /\ RunOK(c) /\ CallShape(c) /\ CreateShape(c) /\ call[c].stage = "finish"
      /\ call[c].op \in {"create", "delete"} /\ call[c].ran \in Seq(Kind \X Id \X Row)
      /\ DOMAIN call[c].ran \subseteq Nat
  BY DEF RunInv, TableInv, CallShape, Returning, TypeOK, Call
<1>2. ASSUME NEW h \in Id, RunsOf(c, k, h, r) # {} PROVE h \in call[c].seen[k]
  <2>1. PICK i \in DOMAIN call[c].ran : call[c].ran[i] = <<k, h, r>>
    BY <1>2 DEF RunsOf
  <2>2. call[c].ran[i][1] = k /\ call[c].ran[i][2] = h
    BY <2>1
  <2> QED
    BY <1>1, <2>2 DEF RunOK, RanOK, RanSeen
<1>3. ASSUME call[c].out = "ok", k \in KindsOf(call[c].op), r \in ObjectsOf(c),
             NEW h \in active[k] \cap call[c].start[k]
      PROVE  \E i \in RunsOf(c, k, h, r) :
                 /\ RunsOf(c, k, h, r) = {i}
                 /\ \A g \in active[k] \cap call[c].start[k] : g < h =>
                        \E j \in RunsOf(c, k, g, r) : j < i
  <2>1. r \in call[c].rows
    <3> SUFFICES ASSUME r \notin call[c].rows PROVE FALSE
      OBVIOUS
    <3>1. call[c].atomic /\ PoolSize = 1 /\ r \in call[c].gone
      BY <1>3 DEF ObjectsOf
    <3>2. call[c].op = "delete"
      BY <1>1, <3>1 DEF CreateShape
    <3>3. NoneDue(c) /\ k \in {"preDelete", "postDelete"}
      BY <1>1, <1>3, <3>1, <3>2 DEF RunOK, FetchedOK, KindsOf
    <3> QED
      BY <1>3, <3>3 DEF NoneDue, Due
  <2>2. FiredFor(c, k, r)
    <3>1. "finish" \in Behind[k]
      BY DEF Behind, Kind
    <3> QED
      BY <1>1, <1>3, <2>1, <3>1 DEF RunOK, FiredOK
  <2>3. \A g \in active[k] \cap call[c].start[k] : RunsOf(c, k, g, r) # {}
    BY <2>2 DEF FiredFor, Ran, RunsOf, Due
  <2>4. ASSUME NEW g \in Nat, NEW f \in Nat, NEW i \in RunsOf(c, k, g, r),
               NEW j \in RunsOf(c, k, f, r)
        PROVE  (i < j => g < f) /\ (i = j => g = f) /\ i \in Nat /\ j \in Nat
    <3>1. /\ i \in DOMAIN call[c].ran /\ j \in DOMAIN call[c].ran
          /\ call[c].ran[i] = <<k, g, r>> /\ call[c].ran[j] = <<k, f, r>>
      BY DEF RunsOf
    <3>2. /\ call[c].ran[i][1] = k /\ call[c].ran[i][2] = g /\ call[c].ran[i][3] = r
          /\ call[c].ran[j][1] = k /\ call[c].ran[j][2] = f /\ call[c].ran[j][3] = r
      BY <3>1
    <3>3. i < j => g < f
      BY <1>1, <3>1, <3>2 DEF RunOK, RanOK, RanOrdered
    <3> QED
      BY <1>1, <3>1, <3>2, <3>3
  <2>5. \A g \in active[k] : g \in Nat
    BY <1>1, IdsAreNaturals DEF TypeOK
  <2>6. PICK i \in RunsOf(c, k, h, r) : TRUE
    BY <2>3
  <2>7. ASSUME NEW j \in RunsOf(c, k, h, r) PROVE j = i
    BY <2>4, <2>5
  <2>8. ASSUME NEW g \in active[k] \cap call[c].start[k], g < h
        PROVE  \E j \in RunsOf(c, k, g, r) : j < i
    <3>1. PICK j \in RunsOf(c, k, g, r) : TRUE
      BY <2>3
    <3>2. g \in Nat /\ h \in Nat
      BY <2>5
    <3>3. (i < j => h < g) /\ (i = j => h = g) /\ i \in Nat /\ j \in Nat
      BY <2>4, <3>2
    <3>4. j < i
      BY <2>8, <3>2, <3>3
    <3> QED
      BY <3>4
  <2> QED
    BY <2>7, <2>8
<1> QED
  BY <1>2, <1>3

(***************************************************************************)
(* signals.fire runs every handler that is registered throughout a call    *)
(* exactly once for each object, in the order of registration, and none    *)
(* that the call never saw.                                                *)
(***************************************************************************)
THEOREM HandlersRunHolds == Spec => []HandlersRun
<1>1. Init => RunInv
  BY RunInit
<1>2. RunInv /\ [Next]_vars => RunInv'
  BY RunStep
<1>3. RunInv => HandlersRun
  BY RunsAll
<1> QED
  BY <1>1, <1>2, <1>3, PTL DEF Spec
=============================================================================
