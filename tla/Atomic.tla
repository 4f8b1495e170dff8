------------------------------- MODULE Atomic -------------------------------
(***************************************************************************)
(* orm/transaction.go: nested calls of orm.DB.Atomic made by one goroutine *)
(* over one *sql.DB.  The outermost call begins a *sql.Tx, every call made *)
(* with a context that carries it sets a SAVEPOINT named after the nesting *)
(* depth found in that context.                                            *)
(*                                                                         *)
(* User code is free: inside a block it runs any statement, opens further  *)
(* blocks, and its function returns nil, returns an error or panics.  The  *)
(* connection can be lost and a context can be cancelled at any moment.    *)
(***************************************************************************)
EXTENDS Naturals, Sequences

CONSTANTS
    Row,               \* the rows a statement can insert or delete
    MaxFrames,         \* bound on the nesting of Atomic calls
    MaxSavepoints,     \* bound on the savepoints the connection holds
    NestedDeadlines,   \* a nested block may get a context of its own lifetime
    CapturedContexts   \* a block may use the context of an enclosing block

ASSUME BoundsAssumption == MaxFrames \in Nat /\ MaxSavepoints \in Nat
ASSUME ContextsAssumption ==
    /\ NestedDeadlines \in BOOLEAN
    /\ CapturedContexts \in BOOLEAN
    /\ ~(NestedDeadlines /\ CapturedContexts)

VARIABLES
    db,        \* the committed rows
    tx,        \* the *sql.Tx: "none" begun, "open", or "done" (lost)
    work,      \* the rows visible to the connection that holds the tx
    sps,       \* its savepoints, oldest first
    aborted,   \* PostgreSQL: a statement failed since the last savepoint
    frames,    \* the running Atomic calls, outermost first
    ret        \* fn's result and Atomic's result, for the last call that ended

conn == <<tx, work, sps, aborted>>
vars == <<db, conn, frames, ret>>

Savepoint == [name : Nat, snap : SUBSET Row]

(***************************************************************************)
(* depth and cancelled describe the context the block was called with, fn  *)
(* is the result of its function.  entry is a history variable: the rows   *)
(* the block found, which is what its failure has to bring back.           *)
(***************************************************************************)
Frame == [depth : Nat, cancelled : BOOLEAN, entry : SUBSET Row,
          pc : {"body", "closing", "unwinding"},
          fn : {"nil", "err", "panic"}]

TypeOK ==
    /\ db \in SUBSET Row
    /\ tx \in {"none", "open", "done"}
    /\ work \in SUBSET Row
    /\ sps \in Seq(Savepoint)
    /\ aborted \in BOOLEAN
    /\ frames \in Seq(Frame)
    /\ ret \in [fn : {"nil", "err", "panic", "notrun"},
                out : {"nil", "err", "panic"}]

Top == frames[Len(frames)]
Pop == SubSeq(frames, 1, Len(frames) - 1)
WithTop(f) == [frames EXCEPT ![Len(frames)] = f]

Init ==
    /\ db = {}
    /\ tx = "none"
    /\ work = {}
    /\ sps = <<>>
    /\ aborted = FALSE
    /\ frames = <<>>
    /\ ret = [fn |-> "nil", out |-> "nil"]

-----------------------------------------------------------------------------
(* database/sql and the database, as far as transaction.go relies on them *)

\* ExecContext sends nothing when its context is cancelled or the tx is done,
\* and PostgreSQL refuses every statement of a failed transaction.
Sendable(f) == tx = "open" /\ ~f.cancelled
Usable(f)   == Sendable(f) /\ ~aborted

\* A savepoint name stands for the newest savepoint that has it.
Named(name) == {k \in 1 .. Len(sps) : sps[k].name = name}
Newest(name) ==
    CHOOSE k \in Named(name) : \A j \in Named(name) : j <= k

\* The transaction ends and the connection sees the committed rows again.
EndTx(state) ==
    /\ tx' = state
    /\ work' = db'
    /\ sps' = <<>>
    /\ aborted' = FALSE

\* database/sql rolls back when the context given to BeginTx is cancelled,
\* and a broken connection loses the transaction at any time.
TxLost ==
    /\ tx = "open"
    /\ UNCHANGED <<db, frames, ret>>
    /\ EndTx("done")

\* The context of block i is cancelled or times out, and with it those that
\* were derived from it.
Cancel(i) ==
    /\ ~frames[i].cancelled
    /\ i = 1 \/ NestedDeadlines
    /\ frames' = [j \in 1 .. Len(frames) |->
                    IF j < i THEN frames[j]
                    ELSE [frames[j] EXCEPT !.cancelled = TRUE]]
    /\ UNCHANGED <<db, conn, ret>>

-----------------------------------------------------------------------------
(* The user's code *)

InBody == frames # <<>> => Top.pc = "body"

\* A terminal query runs through conn(ctx): in the transaction bound to the
\* context or, without one, directly on the pool.
Statement(rows) ==
    /\ InBody
    /\ IF frames = <<>>
       THEN db' = rows /\ work' = rows /\ UNCHANGED <<tx, sps, aborted>>
       ELSE /\ Usable(Top)
            /\ work' = rows
            /\ UNCHANGED <<db, tx, sps, aborted>>
    /\ UNCHANGED <<frames, ret>>

\* A statement is rejected by the database. SQLite goes on as before.
StatementFails ==
    /\ frames # <<>> /\ InBody
    /\ Usable(Top)
    /\ aborted' = TRUE
    /\ UNCHANGED <<db, tx, work, sps, frames, ret>>

FnReturns(fn) ==
    /\ frames # <<>> /\ InBody
    /\ frames' = WithTop([Top EXCEPT !.fn = fn,
                     !.pc = IF fn = "nil" THEN "closing" ELSE "unwinding"])
    /\ UNCHANGED <<db, conn, ret>>

-----------------------------------------------------------------------------
(* Atomic *)

NewFrame(depth) ==
    [depth |-> depth, cancelled |-> FALSE, entry |-> work,
     pc |-> "body", fn |-> "nil"]

\* atomicBegin: BeginTx succeeds and fn starts.
AtomicBegin ==
    /\ frames = <<>> /\ MaxFrames > 0
    /\ tx' = "open"
    /\ frames' = <<NewFrame(0)>>
    /\ UNCHANGED <<db, work, sps, aborted, ret>>

\* Mutant: the nested call reuses the depth it finds.
SavepointDepthNotIncremented(ctx) == ctx.depth

\* The depth a nested call puts in the name of its savepoint.
SavepointDepth(ctx) == ctx.depth + 1

\* The contexts in scope: the block's own, or an enclosing block's as well.
InScope(i) == i = Len(frames) \/ CapturedContexts

\* atomicSavepoint, called with the context of block i: SAVEPOINT succeeds
\* and fn starts.
AtomicSavepoint(i) ==
    /\ InBody /\ InScope(i)
    /\ Len(frames) < MaxFrames /\ Len(sps) < MaxSavepoints
    /\ Usable(frames[i])
    /\ LET depth == SavepointDepth(frames[i]) IN
       /\ sps' = Append(sps, [name |-> depth, snap |-> work])
       /\ frames' = Append(frames, NewFrame(depth))
    /\ UNCHANGED <<db, tx, work, aborted, ret>>

\* BEGIN or SAVEPOINT fails and fn never runs.
AtomicRefused ==
    /\ InBody
    /\ frames # <<>> => ~Usable(Top)
    /\ ret' = [fn |-> "notrun", out |-> "err"]
    /\ UNCHANGED <<db, conn, frames>>

Failure(fn) == IF fn = "panic" THEN "panic" ELSE "err"

Returns(fn, out) == frames' = Pop /\ ret' = [fn |-> fn, out |-> out]

\* fn returned nil in a nested block: RELEASE SAVEPOINT also removes every
\* savepoint set since.
Release ==
    /\ Len(frames) > 1 /\ Top.pc = "closing"
    /\ Usable(Top) /\ Named(Top.depth) # {}
    /\ sps' = SubSeq(sps, 1, Newest(Top.depth) - 1)
    /\ Returns("nil", "nil")
    /\ UNCHANGED <<db, tx, work, aborted>>

\* RELEASE fails: released stays false and the deferred function takes over.
\* PostgreSQL then counts the transaction as failed, SQLite does not.
ReleaseFails ==
    /\ Len(frames) > 1 /\ Top.pc = "closing"
    /\ ~Usable(Top) \/ Named(Top.depth) = {}
    /\ frames' = WithTop([Top EXCEPT !.pc = "unwinding"])
    /\ aborted' \in {aborted, aborted \/ Usable(Top)}
    /\ UNCHANGED <<db, tx, work, sps, ret>>

\* A mutant: the error path forgets to roll back to the savepoint.
RollbackToForgotten ==
    /\ Len(frames) > 1 /\ Top.pc = "unwinding"
    /\ Returns(Top.fn, Failure(Top.fn))
    /\ UNCHANGED <<db, conn>>

\* The deferred ROLLBACK TO SAVEPOINT; the savepoint itself stays set. The
\* statement's own error is dropped, so the block ends either way.
RollbackTo ==
    /\ Len(frames) > 1 /\ Top.pc = "unwinding"
    /\ IF Sendable(Top) /\ Named(Top.depth) # {}
       THEN LET k == Newest(Top.depth) IN
            /\ work' = sps[k].snap
            /\ sps' = SubSeq(sps, 1, k)
            /\ aborted' = FALSE
       ELSE /\ UNCHANGED <<work, sps>>
            /\ aborted' \in {aborted, aborted \/ Sendable(Top)}
    /\ Returns(Top.fn, Failure(Top.fn))
    /\ UNCHANGED <<db, tx>>

\* fn returned nil in the outermost block. Commit first looks at the context
\* of BeginTx, and PostgreSQL does not commit a failed transaction.
Commit ==
    /\ Len(frames) = 1 /\ Top.pc = "closing"
    /\ Usable(Top)
    /\ db' = work
    /\ EndTx("none")
    /\ Returns("nil", "nil")

\* The database committed but the answer is lost: Atomic reports an error
\* and its deferred Rollback finds the tx done.
CommitAckLost ==
    /\ Len(frames) = 1 /\ Top.pc = "closing"
    /\ Usable(Top)
    /\ db' = work
    /\ EndTx("none")
    /\ Returns("nil", "err")

\* A mutant: the error of Commit is not returned.
CommitErrorDropped ==
    /\ Len(frames) = 1 /\ Top.pc = "closing"
    /\ UNCHANGED db
    /\ EndTx("none")
    /\ Returns("nil", "nil")

\* Commit fails. It leaves the tx open only when it stopped at the context.
CommitFails ==
    /\ Len(frames) = 1 /\ Top.pc = "closing"
    /\ frames' = WithTop([Top EXCEPT !.pc = "unwinding"])
    /\ UNCHANGED <<db, ret>>
    /\ \/ Sendable(Top) /\ EndTx("done")
       \/ ~Sendable(Top) /\ UNCHANGED conn

\* A mutant: only the !committed branch rolls back, the recover() branch just
\* re-panics.
RollbackMissedOnPanic ==
    /\ Len(frames) = 1 /\ Top.pc = "unwinding"
    /\ db' = db
    /\ IF Top.fn = "panic" THEN UNCHANGED conn ELSE EndTx("none")
    /\ Returns(Top.fn, Failure(Top.fn))

\* The deferred Rollback of the outermost block.
Rollback ==
    /\ Len(frames) = 1 /\ Top.pc = "unwinding"
    /\ db' = db
    /\ EndTx("none")
    /\ Returns(Top.fn, Failure(Top.fn))

-----------------------------------------------------------------------------
Next ==
    \/ \E rows \in SUBSET Row : Statement(rows)
    \/ StatementFails
    \/ \E fn \in {"nil", "err", "panic"} : FnReturns(fn)
    \/ AtomicBegin
    \/ \E i \in 1 .. Len(frames) : AtomicSavepoint(i)
    \/ AtomicRefused
    \/ Release
    \/ ReleaseFails
    \/ RollbackTo
    \/ Commit
    \/ CommitAckLost
    \/ CommitFails
    \/ Rollback
    \/ TxLost
    \/ \E i \in 1 .. Len(frames) : Cancel(i)

Spec == Init /\ [][Next]_vars

-----------------------------------------------------------------------------
(* Correctness *)

\* Savepoints are found again: while the transaction is open, the newest
\* savepoint that carries a nested block's name is the one that block set,
\* although savepoints of blocks that failed before are left on the stack
\* (the deferred ROLLBACK TO never releases them) and bear the same names.
SavepointsMatch ==
    tx = "open" =>
        \A i \in 2 .. Len(frames) :
            \E k \in 1 .. Len(sps) :
                /\ sps[k] = [name |-> frames[i].depth, snap |-> frames[i].entry]
                /\ \A m \in k + 1 .. Len(sps) : sps[m].name > frames[i].depth

\* No transaction outlives the outermost Atomic call, whichever way that call
\* ends: the connection goes back to the pool without savepoints, without a
\* failed statement to recover from, and reading the committed rows.
NoTransactionLeaks ==
    frames = <<>> => tx = "none" /\ sps = <<>> /\ ~aborted /\ work = db

\* A nested Atomic that reports a failure in a transaction that is still alive
\* has undone its block.
FailureUndone ==
    (/\ Len(frames) > 1
     /\ Len(frames') < Len(frames)
     /\ ret'.out # "nil"
     /\ Sendable(frames[1]))
    => /\ work' = Top.entry
       /\ tx' = "open"
       /\ ~aborted'

\* "so a failure rolls back only the nested block and not the enclosing
\* transaction": when a nested Atomic reports a failure inside a transaction
\* that is still alive, its rows are gone, everything written before it is
\* there, and the enclosing block can go on.
FailureRollsBackOnlyTheBlock == [][FailureUndone]_vars

-----------------------------------------------------------------------------
(* The inductive invariant, for blocks that use their own contexts          *)

OwnContexts == ~NestedDeadlines /\ ~CapturedContexts

\* The context of a block carries the number of blocks around it and lives as
\* long as the outermost one; all blocks but the innermost wait in fn.
FramesNested ==
    /\ \A i \in 1 .. Len(frames) :
          /\ frames[i].depth = i - 1
          /\ frames[i].cancelled = frames[1].cancelled
    /\ \A i \in 1 .. Len(frames) - 1 : frames[i].pc = "body"

\* A connection without an open transaction sees what is committed, and the
\* outermost block found what is still committed.
ConnectionMatches ==
    /\ frames = <<>> <=> tx = "none"
    /\ tx # "open" => sps = <<>> /\ ~aborted /\ work = db
    /\ tx = "open" => frames[1].entry = db

\* What the proofs of AtomicProofs carry from one step to the next: the
\* depths make the names of the running blocks increase along the stack of
\* savepoints, so that none hides another.
IInv == TypeOK /\ FramesNested /\ ConnectionMatches /\ SavepointsMatch

-----------------------------------------------------------------------------
(* Refinement *)

\* The transaction can still commit: it is there and the context it was begun
\* with is not cancelled.
Alive == tx = "open" /\ ~frames[1].cancelled

\* Without such a transaction every open block is back at the committed rows.
AbsDoomed == frames # <<>> /\ ~Alive
AbsCur    == IF Alive THEN work ELSE db
AbsSaved  == [i \in 1 .. Len(frames) |-> IF Alive THEN frames[i].entry ELSE db]

\* Atomic implements NestedTx: an outermost call commits everything its
\* block left or nothing, a nested call that does not return nil leaves no
\* trace, and Atomic answers with an error for committed rows only when the
\* answer to a COMMIT was lost.
Abstract == INSTANCE NestedTx WITH
    cur <- AbsCur, saved <- AbsSaved, doomed <- AbsDoomed

ImplementsNestedTx == Abstract!Spec

=============================================================================
