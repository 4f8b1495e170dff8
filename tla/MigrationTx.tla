----------------------------- MODULE MigrationTx ----------------------------
(***************************************************************************)
(* The body of the loop of migrations.Apply as a function: what the        *)
(* transaction of one migration makes of the tables, and whether it gets   *)
(* to its COMMIT.                                                          *)
(***************************************************************************)
EXTENDS Database

\* The statements of one operation, stopping at the first that fails.
RunStatement(acc, st) ==
    IF acc.ok /\ CanRun(acc.dialect, st, acc.tables)
    THEN [acc EXCEPT !.tables = Run(st, @)]
    ELSE [acc EXCEPT !.ok = FALSE]

Exec == INSTANCE LeftFold WITH Step <- RunStatement

\* One operation: its SQL against the state before it, then that state moves.
RunOperation(acc, op) ==
    IF acc.ok /\ Renders(op, acc.ps)
    THEN LET run == Exec!Fold(acc, SQL(op, acc.ps))
         IN [run EXCEPT !.ps = ApplyOp(acc.ps, op)]
    ELSE [acc EXCEPT !.ok = FALSE]

Loop == INSTANCE LeftFold WITH Step <- RunOperation

Attempt(dialect, mig, ps, tables) ==
    Loop!Fold([ok |-> TRUE, dialect |-> dialect, ps |-> ps, tables |-> tables], mig)

=============================================================================
