SPECIFICATION FairSpec
CONSTANTS
    NoRef = NoRef
    Null = Null
    Generated = Generated
    None = None
    Dialects = {"sqlite"}
    v1 = v1
    p1 = p1
    p2 = p2
    Value <- MCValue
    RowId <- MCRowId
    Migs <- MCMigs
    Runner <- MCRunner
    Projects <- MCProjects
INVARIANTS
    TypeOK
    SchemaMatchesRecords
PROPERTIES
    AppliedOnceApart
    ImplementsMigrationLog
    Converges
