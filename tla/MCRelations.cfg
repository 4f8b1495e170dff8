SPECIFICATION Spec
CONSTANTS
    Author = {1, 2}
    Book = {1, 2}
    Schemas <- MCSchemas
    Shelves <- MCShelves
    Changes = 2
CHECK_DEADLOCK FALSE
INVARIANTS
    LoadedMatchesKey
    JoinAgrees
    PrefetchAgrees
