SPECIFICATION Spec
CONSTANTS
    NoRef = NoRef
    Null = Null
    Generated = Generated
    Dialects = {"sqlite", "postgres"}
    v1 = v1
    Value <- MCValue
    RowId <- MCRowId
    ProjectStates <- MCProjectStates
    MaxMigrations = 2
INVARIANTS
    DatabaseMatchesHistory
    RenamesDetected
PROPERTIES
    ReplayReachesModels
    SurvivingDataKept
CHECK_DEADLOCK FALSE
