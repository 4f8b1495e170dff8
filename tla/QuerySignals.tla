---------------------------- MODULE QuerySignals ----------------------------
(***************************************************************************)
(* orm/execute.go (Create, Delete) and orm/signals.go: clients that create *)
(* and delete rows of one table while handlers of its signals are          *)
(* registered and cancelled.  A client may call inside db.Atomic; it then  *)
(* keeps a connection of the pool from the first step to the last, and its *)
(* handlers query through the context that carries the transaction.        *)
(*                                                                         *)
(* The queryset of every Delete matches the whole table.  Transactions are *)
(* READ COMMITTED: a statement sees the committed rows and its own         *)
(* changes, and a DELETE waits for the locks on the rows it meets.         *)
(***************************************************************************)
EXTENDS Naturals, Sequences, FiniteSets

CONSTANTS
    Client,        \* goroutines that call the ORM, one call each
    Row,           \* the rows
    Stored,        \* the rows of the table at the start
    Object,        \* the row a client would create
    PoolSize,      \* connections in the pool; 1 for an in-memory SQLite
    Settings       \* what bounds a behaviour, [clients, handlers]

ASSUME RowAssumption ==
    /\ Stored \subseteq Row
    /\ Object \in [Client -> Row \ Stored]
    /\ \A c, d \in Client : Object[c] = Object[d] => c = d
ASSUME BoundAssumption ==
    /\ PoolSize \in Nat \ {0}
    /\ \A s \in Settings : s.clients \subseteq Client /\ s.handlers \in Nat

VARIABLES
    setting,    \* bounds the clients that call, and the registrations of handlers
    table,      \* the committed rows
    handlers,   \* signals.handlers of the model: per kind, the ids in order
    nextID,     \* signals.nextID
    active,     \* history: the handlers registered and not cancelled
    holders,    \* the clients whose transaction holds a connection
    call        \* the call of each client

vars == <<setting, table, handlers, nextID, active, holders, call>>

Kind == {"preSave", "postSave", "preDelete", "postDelete"}
Id == UNION {1 .. s.handlers : s \in Settings}

(***************************************************************************)
(* rows are the objects a call fires signals for, pending those the        *)
(* current stage has still to do, todo the rest of the snapshot for the    *)
(* object at.  ins and del are the changes of the open transaction.  ran,  *)
(* start, seen and gone are history: the handlers run, those registered    *)
(* when the call began and at any time since, and the rows deleted.  out   *)
(* tells apart the errors a call returns: "unknown" is that of COMMIT, or  *)
(* of a write outside a transaction, which may have taken effect.          *)
(***************************************************************************)
Call == [op : {"create", "delete"}, atomic : BOOLEAN, rows : SUBSET Row,
         stage : Kind \cup {"idle", "begin", "has", "hasPost", "all",
                            "insert", "delete", "finish", "done"},
         pending : SUBSET Row, firing : BOOLEAN, at : Row, todo : Seq(Id),
         ins : SUBSET Row, del : SUBSET Row, out : {"ok", "err", "unknown"},
         ran : Seq(Kind \X Id \X Row), start : [Kind -> SUBSET Id],
         seen : [Kind -> SUBSET Id], gone : SUBSET Row]

TypeOK ==
    /\ table \in SUBSET Row
    /\ handlers \in [Kind -> Seq(Id)]
    /\ setting \in Settings
    /\ nextID \in 0 .. setting.handlers
    /\ active \in [Kind -> SUBSET Id]
    /\ holders \in SUBSET Client /\ Cardinality(holders) <= PoolSize
    /\ call \in [Client -> Call]

Idle(c) == [op |-> "create", atomic |-> FALSE, rows |-> {}, stage |-> "idle",
         pending |-> {}, firing |-> FALSE, at |-> Object[c], todo |-> <<>>,
         ins |-> {}, del |-> {}, out |-> "ok", ran |-> <<>>,
         start |-> [k \in Kind |-> {}], seen |-> [k \in Kind |-> {}],
         gone |-> {}]

Ids(s) == {s[i] : i \in DOMAIN s}

Init ==
    /\ setting \in Settings
    /\ table = Stored
    /\ handlers = [k \in Kind |-> <<>>]
    /\ nextID = 0
    /\ active = [k \in Kind |-> {}]
    /\ holders = {}
    /\ call = [c \in Client |-> Idle(c)]

-----------------------------------------------------------------------------
(* The registry of signals. *)

(* onSignal: the new entry comes last. *)
Register(k) ==
    /\ nextID < setting.handlers
    /\ nextID' = nextID + 1
    /\ handlers' = [handlers EXCEPT ![k] = Append(@, nextID')]
    /\ active' = [active EXCEPT ![k] = @ \cup {nextID'}]
    /\ call' = [c \in Client |->
                   IF call[c].stage \in {"idle", "done"} THEN call[c]
                   ELSE [call[c] EXCEPT !.seen[k] = @ \cup {nextID'}]]
    /\ UNCHANGED <<table, holders>>

(* A fault: the cancel function drops the last entry, whichever it is. *)
RemoveLast(s, id) == IF s = <<>> THEN s ELSE SubSeq(s, 1, Len(s) - 1)

Remove(s, id) ==
    LET i == CHOOSE i \in DOMAIN s : s[i] = id
    IN SubSeq(s, 1, i - 1) \o SubSeq(s, i + 1, Len(s))

(* The cancel function of a handler. *)
Cancel(k) ==
    \E id \in active[k] :
        /\ handlers' = [handlers EXCEPT ![k] = Remove(@, id)]
        /\ active' = [active EXCEPT ![k] = @ \ {id}]
        /\ UNCHANGED <<table, nextID, holders, call>>

-----------------------------------------------------------------------------
(* The steps of a call. *)

(* The pool has a connection that no transaction holds. *)
Free == Cardinality(holders) < PoolSize

(* A fault: a query takes a connection of the pool even inside Atomic. *)
ConnIgnoresTx(c) == Free

(* db.conn(ctx): the connection of the transaction, or one of the pool. *)
Conn(c) == c \in holders \/ Free

(* What a statement of c sees. *)
Visible(c) == (table \cup call[c].ins) \ call[c].del

After == [preSave |-> "insert", postSave |-> "finish",
          preDelete |-> "delete", postDelete |-> "finish"]

(* Go to the stage that fires k for rs, or past it when rs is empty. *)
Fire(c, k, rs) ==
    [c EXCEPT !.stage = IF rs = {} THEN After[k] ELSE k,
              !.pending = rs, !.firing = FALSE, !.todo = <<>>]

Failed(c) == [c EXCEPT !.stage = "finish", !.out = "err", !.todo = <<>>]
InDoubt(c) == [Failed(c) EXCEPT !.out = "unknown"]

Body(c) == IF c.op = "create" THEN Fire(c, "preSave", c.rows)
           ELSE [c EXCEPT !.stage = "has"]

Start(c) ==
    /\ c \in setting.clients
    /\ call[c].stage = "idle"
    /\ \E op \in {"create", "delete"}, atomic \in BOOLEAN :
         LET new == [Idle(c) EXCEPT !.op = op, !.atomic = atomic,
                        !.rows = IF op = "create" THEN {Object[c]} ELSE {},
                        !.start = active, !.seen = active]
         IN call' = [call EXCEPT ![c] =
                IF atomic THEN [new EXCEPT !.stage = "begin"] ELSE Body(new)]
    /\ UNCHANGED <<table, handlers, nextID, active, holders>>

(* Atomic takes a connection and keeps it. *)
Begin(c) ==
    /\ call[c].stage = "begin"
    /\ Free
    /\ holders' = holders \cup {c}
    /\ call' = [call EXCEPT ![c] = Body(@)]
    /\ UNCHANGED <<table, handlers, nextID, active>>

Step(c, to) ==
    /\ call' = [call EXCEPT ![c] = to]
    /\ UNCHANGED <<handlers, nextID, active, holders>>

(* fire: the snapshot of the handlers, one for every object. *)
Snapshot(c) ==
    /\ call[c].stage \in Kind
    /\ ~call[c].firing
    /\ \E r \in call[c].pending :
         Step(c, [call[c] EXCEPT !.firing = TRUE, !.at = r,
                                 !.todo = handlers[call[c].stage]])
    /\ UNCHANGED table

(* A handler runs, queries through the context, and fails or does not. *)
RunHandler(c) ==
    /\ call[c].firing
    /\ call[c].todo # <<>>
    /\ Conn(c)
    /\ LET now == [call[c] EXCEPT !.todo = Tail(@),
                       !.ran = Append(@, <<call[c].stage, Head(call[c].todo), call[c].at>>)]
       IN Step(c, now) \/ Step(c, [Failed(now) EXCEPT !.firing = FALSE])
    /\ UNCHANGED table

Fired(c) ==
    /\ call[c].firing
    /\ call[c].todo = <<>>
    /\ Step(c, Fire(call[c], call[c].stage, call[c].pending \ {call[c].at}))
    /\ UNCHANGED table

(* A fault: PostSave is not fired for a row created in a transaction. *)
InsertWithoutPostSave(c) ==
    /\ call[c].stage = "insert"
    /\ Conn(c)
    /\ IF c \in holders
       THEN /\ Step(c, [call[c] EXCEPT !.ins = @ \cup call[c].rows, !.stage = "finish"])
            /\ UNCHANGED table
       ELSE /\ table' = table \cup call[c].rows
            /\ Step(c, Fire(call[c], "postSave", call[c].rows))

Insert(c) ==
    /\ call[c].stage = "insert"
    /\ Conn(c)
    /\ IF c \in holders
       THEN /\ Step(c, Fire([call[c] EXCEPT !.ins = @ \cup call[c].rows],
                            "postSave", call[c].rows))
            /\ UNCHANGED table
       ELSE /\ table' = table \cup call[c].rows
            /\ Step(c, Fire(call[c], "postSave", call[c].rows))

(* hasDeleteHandlers: two reads, each under the lock. *)
Has(c) ==
    /\ call[c].stage = "has"
    /\ Step(c, [call[c] EXCEPT !.stage =
                    IF handlers["preDelete"] # <<>> THEN "all" ELSE "hasPost"])
    /\ UNCHANGED table

(* A fault: handlers of PostDelete alone do not make Delete fetch. *)
HasPostForgotten(c) ==
    /\ call[c].stage = "hasPost"
    /\ Step(c, [call[c] EXCEPT !.stage = "delete"])
    /\ UNCHANGED table

HasPost(c) ==
    /\ call[c].stage = "hasPost"
    /\ Step(c, [call[c] EXCEPT !.stage =
                    IF handlers["postDelete"] # <<>> THEN "all" ELSE "delete"])
    /\ UNCHANGED table

(* deleteWithSignals: the rows to fire for. *)
All(c) ==
    /\ call[c].stage = "all"
    /\ Conn(c)
    /\ Step(c, Fire([call[c] EXCEPT !.rows = Visible(c)], "preDelete", Visible(c)))
    /\ UNCHANGED table

(* deleteRows: every matching row, fetched or not. *)
Delete(c) ==
    /\ call[c].stage = "delete"
    /\ Conn(c)
    /\ \A d \in Client \ {c} : Visible(c) \cap call[d].del = {}
    /\ LET now == Fire([call[c] EXCEPT !.gone = Visible(c)], "postDelete", call[c].rows)
       IN IF c \in holders
          THEN /\ Step(c, [now EXCEPT !.del = Visible(c)])
               /\ UNCHANGED table
          ELSE Step(c, now) /\ table' = table \ Visible(c)

(* A query fails and has no effect: the call returns its error. *)
QueryFails(c) ==
    /\ call[c].stage \in {"insert", "all", "delete"}
    /\ Conn(c)
    /\ Step(c, IF call[c].stage = "all" \/ c \in holders THEN Failed(call[c])
               ELSE InDoubt(call[c]))
    /\ UNCHANGED table

(* A write outside a transaction takes effect and its answer is lost; in a *)
(* transaction it would be rolled back like one that had failed.           *)
InsertLost(c) ==
    /\ call[c].stage = "insert"
    /\ c \notin holders /\ Free
    /\ Step(c, InDoubt(call[c]))
    /\ table' = table \cup call[c].rows

DeleteLost(c) ==
    /\ call[c].stage = "delete"
    /\ c \notin holders /\ Free
    /\ \A d \in Client \ {c} : Visible(c) \cap call[d].del = {}
    /\ Step(c, [InDoubt(call[c]) EXCEPT !.gone = Visible(c)])
    /\ table' = table \ Visible(c)

(* A fault: Atomic commits whatever its function returned. *)
CommitsAlways(c) == TRUE

(* Atomic commits when its function returned nil. *)
Commits(c) == call[c].out = "ok"

(* A fault: the connection of a failed transaction is not given back. *)
ReleaseOnCommit(c) == IF call[c].out = "ok" THEN holders \ {c} ELSE holders

Release(c) == holders \ {c}

(* The call returns.  A COMMIT may fail, or take effect and its answer be *)
(* lost: Atomic returns an error for both.                                *)
Finish(c) ==
    /\ call[c].stage = "finish"
    /\ holders' = Release(c)
    /\ \E answer \in IF c \in holders /\ Commits(c) THEN {"ok", "fails", "lost"} ELSE {"ok"} :
         /\ table' = IF c \in holders /\ Commits(c) /\ answer # "fails"
                     THEN (table \cup call[c].ins) \ call[c].del ELSE table
         /\ call' = [call EXCEPT ![c] = [Idle(c) EXCEPT
                         !.stage = "done", !.op = call[c].op, !.rows = call[c].rows,
                         !.atomic = call[c].atomic, !.gone = call[c].gone,
                         !.out = IF answer = "ok" THEN call[c].out ELSE "unknown"]]
    /\ UNCHANGED <<handlers, nextID, active>>

ClientStep(c) ==
    /\ UNCHANGED setting
    /\ \/ Begin(c) \/ Snapshot(c) \/ RunHandler(c) \/ Fired(c) \/ Insert(c)
       \/ Has(c) \/ HasPost(c) \/ All(c) \/ Delete(c) \/ QueryFails(c)
       \/ InsertLost(c) \/ DeleteLost(c) \/ Finish(c)

Next ==
    \/ \E c \in Client : (Start(c) /\ UNCHANGED setting) \/ ClientStep(c)
    \/ \E k \in Kind : (Register(k) \/ Cancel(k)) /\ UNCHANGED setting

(* A goroutine that has begun a call goes on running; nobody has to call, *)
(* to register a handler or to cancel one.                                *)
Fairness == \A c \in Client : WF_vars(ClientStep(c))

Spec == Init /\ [][Next]_vars /\ Fairness
-----------------------------------------------------------------------------
(* Properties. *)

(* About to return: the history of the call is forgotten when it has. *)
Returning(c) == call[c].stage = "finish"
Done(c) == call[c].stage = "done"

(* The rows some other call has deleted, its transaction committed or not. *)
GoneElsewhere(c) == UNION {call[d].gone : d \in Client \ {c}}

(***************************************************************************)
(* What a call tells its caller is true of the table.  A Create that a     *)
(* PreSave handler stops, and any call inside Atomic that fails before     *)
(* COMMIT, leaves nothing behind ("An error aborts the create and no row   *)
(* is written"); one that a PostSave handler stops outside Atomic leaves   *)
(* its row there.  What a successful call did stands as long as nobody     *)
(* undoes it.  After an error that leaves the outcome in doubt, that of    *)
(* COMMIT or of a write of its own, a Delete has still taken every row of  *)
(* its queryset away or none.                                              *)
(***************************************************************************)
CallOutcome ==
    \A c \in Client :
        LET k == call[c]
            saved == \E i \in DOMAIN k.ran : k.ran[i][1] = "postSave"
        IN /\ k.op = "create" /\ k.out = "err" /\ (IF k.atomic THEN Done(c) ELSE Returning(c) /\ ~saved)
              => k.rows \cap table = {}
           /\ k.op = "create"
              /\ (IF k.out = "ok" THEN Done(c)
                  ELSE k.out = "err" /\ ~k.atomic /\ Returning(c) /\ saved)
              => k.rows \subseteq table \cup GoneElsewhere(c)
           /\ k.op = "delete" /\ k.out = "err" /\ k.atomic /\ Done(c)
              => k.gone \subseteq table \cup GoneElsewhere(c)
           /\ k.op = "delete" /\ k.out = "ok" /\ Done(c) => k.gone \cap table = {}
           /\ k.op = "delete" /\ k.out = "unknown" /\ Done(c)
              => k.gone \subseteq table \cup GoneElsewhere(c) \/ k.gone \cap table = {}

KindsOf(op) == IF op = "create" THEN {"preSave", "postSave"}
               ELSE {"preDelete", "postDelete"}

(***************************************************************************)
(* A successful call runs every handler that was registered from before it *)
(* began until it returns exactly once for each of its objects, in the     *)
(* order of registration, however many others come and go meanwhile (fire: *)
(* "in registration order"), and runs none that was never registered while *)
(* the call ran: a cancelled handler may run late, in a call that began    *)
(* before it was cancelled, and in no other.  The objects of a Delete      *)
(* inside Atomic are all the rows it deleted ("fired before" and "after a  *)
(* matching T is deleted"); fetching and deleting are two statements, so   *)
(* this takes a transaction that nothing commits into: that of the only    *)
(* connection.                                                             *)
(***************************************************************************)
ObjectsOf(c) ==
    call[c].rows \cup IF call[c].atomic /\ PoolSize = 1 THEN call[c].gone ELSE {}

(* The runs of a handler for one object, as positions in the history. *)
RunsOf(c, k, h, r) == {i \in DOMAIN call[c].ran : call[c].ran[i] = <<k, h, r>>}

HandlersRun ==
    \A c \in Client : Returning(c) =>
        \A k \in Kind, r \in Row :
            /\ \A h \in Id : RunsOf(c, k, h, r) # {} => h \in call[c].seen[k]
            /\ call[c].out = "ok" /\ k \in KindsOf(call[c].op) /\ r \in ObjectsOf(c)
               => \A h \in active[k] \cap call[c].start[k] :
                      \E i \in RunsOf(c, k, h, r) :
                          /\ RunsOf(c, k, h, r) = {i}
                          /\ \A g \in active[k] \cap call[c].start[k] : g < h =>
                                 \E j \in RunsOf(c, k, g, r) : j < i

(***************************************************************************)
(* Every call that has begun returns, although the pool may have a single  *)
(* connection and the handlers of a call inside Atomic query while it      *)
(* holds it (sqlite.Open pins the pool of an in-memory database to one).   *)
(***************************************************************************)
EveryCallReturns ==
    \A c \in Client : call[c].stage # "idle" ~> Done(c)
=============================================================================
