SPECIFICATION Spec
CONSTANTS
    r1 = r1
    r2 = r2
    Row <- MCRow
    MaxFrames = 3
    MaxSavepoints = 3
    NestedDeadlines = FALSE
    CapturedContexts = FALSE
INVARIANTS
    SavepointsMatch
    NoTransactionLeaks
    IInv
PROPERTIES
    FailureRollsBackOnlyTheBlock
    ImplementsNestedTx
