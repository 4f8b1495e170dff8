SPECIFICATION Spec
CONSTANTS
    r1 = r1
    r2 = r2
    Row <- MCRow
    MaxFrames = 2
    MaxSavepoints = 3
    NestedDeadlines = TRUE
    CapturedContexts = FALSE
PROPERTIES
    FailureRollsBackOnlyTheBlock
