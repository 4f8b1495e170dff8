------------------------------ MODULE NestedTx ------------------------------
(***************************************************************************)
(* What orm.DB.Atomic promises its caller, without savepoints, contexts or *)
(* a driver: nested blocks over one table, where a block that does not     *)
(* return nil leaves no trace of what ran inside it and the outermost      *)
(* block publishes everything at once or nothing.                          *)
(*                                                                         *)
(* Atomic.tla is the detailed specification and implements this one.       *)
(***************************************************************************)
EXTENDS Naturals, Sequences

CONSTANT Row          \* the rows a statement can insert or delete

VARIABLES
    db,               \* the committed rows
    cur,              \* the rows a statement of the running block reads
    saved,            \* for each open block, the rows it found when entered
    doomed,           \* the enclosing transaction has been lost
    ret               \* fn's result and Atomic's result, for the last block

vars == <<db, cur, saved, doomed, ret>>

FnResults == {"nil", "err", "panic", "notrun"}
Returns   == [fn : FnResults, out : {"nil", "err", "panic"}]

\* What Atomic hands its caller for a block it did not complete.
Failure(fn) == IF fn = "panic" THEN "panic" ELSE "err"

Front(s) == SubSeq(s, 1, Len(s) - 1)

Init ==
    /\ db = {}
    /\ cur = {}
    /\ saved = <<>>
    /\ doomed = FALSE
    /\ ret = [fn |-> "nil", out |-> "nil"]

\* A block opens and remembers what it found.
Enter ==
    /\ ~doomed
    /\ saved' = Append(saved, cur)
    /\ UNCHANGED <<db, cur, doomed, ret>>

\* Atomic returns an error without having run its block.
Refuse ==
    /\ ret' = [fn |-> "notrun", out |-> "err"]
    /\ UNCHANGED <<db, cur, saved, doomed>>

\* A statement replaces the rows the block sees; outside every block it is
\* committed at once.
Statement ==
    /\ ~doomed
    /\ cur' \in SUBSET Row
    /\ db' = IF saved = <<>> THEN cur' ELSE db
    /\ UNCHANGED <<saved, doomed, ret>>

\* The block returned nil and Atomic returns nil: its rows become the
\* enclosing block's, or the database's when it was the outermost.
Succeed ==
    /\ saved # <<>>
    /\ ~doomed
    /\ saved' = Front(saved)
    /\ db' = IF Len(saved) = 1 THEN cur ELSE db
    /\ ret' = [fn |-> "nil", out |-> "nil"]
    /\ UNCHANGED <<cur, doomed>>

\* Atomic returns an error or re-panics: the block leaves no trace.
Fail(fn) ==
    /\ saved # <<>>
    /\ saved' = Front(saved)
    /\ cur' = saved[Len(saved)]
    /\ doomed' = (doomed /\ Len(saved) > 1)
    /\ ret' = [fn |-> fn, out |-> Failure(fn)]
    /\ UNCHANGED db

\* The acknowledgement of the outermost commit is lost. This is the only way
\* in which Atomic may return an error for rows that are in the database,
\* and only a block whose fn returned nil can meet it.
CommitUnknown ==
    /\ Len(saved) = 1
    /\ ~doomed
    /\ saved' = <<>>
    /\ db' = cur
    /\ ret' = [fn |-> "nil", out |-> "err"]
    /\ UNCHANGED <<cur, doomed>>

\* The transaction is lost: every open block is back at the committed rows.
Doom ==
    /\ saved # <<>>
    /\ ~doomed
    /\ doomed' = TRUE
    /\ cur' = db
    /\ saved' = [i \in 1 .. Len(saved) |-> db]
    /\ UNCHANGED <<db, ret>>

Next ==
    \/ Enter
    \/ Refuse
    \/ Statement
    \/ Succeed
    \/ \E fn \in {"nil", "err", "panic"} : Fail(fn)
    \/ CommitUnknown
    \/ Doom

Spec == Init /\ [][Next]_vars

=============================================================================
