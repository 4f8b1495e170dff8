SPECIFICATION Spec
CONSTANTS
    c1 = c1
    c2 = c2
    r0 = r0
    r1 = r1
    r2 = r2
    Client <- MCClient
    Row <- MCRow
    Stored <- MCStored
    Object <- MCObject
    Settings <- MCSettings
    PoolSize = 1
CHECK_DEADLOCK FALSE
INVARIANTS
    CallOutcome
    HandlersRun
PROPERTIES
    EveryCallReturns
