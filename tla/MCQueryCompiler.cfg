SPECIFICATION Spec
CONSTANTS
    null = null
    Null <- MCNull
    InitTables <- MCTables
    Assignments <- MCAssignments
    Objects <- MCObjects
    MaxRows = 4
    Dialects = {"sqlite", "postgres"}
    Programs <- MCPrograms
CHECK_DEADLOCK FALSE
INVARIANTS
    ReadsAnswer
    ErrorsReported
PROPERTIES
    WritesExact
