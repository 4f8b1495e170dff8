SPECIFICATION Spec
CONSTANTS
    None = None
    Name = {"ann", "bob"}
    Password = {"pw", "pw2"}
    Group = {"g1", "g2"}
    Perm = {"p1"}
    Wanted = {"p1"}
    Caller = {"c1", "c2"}
    Checker = {"r1", "r2"}
    Value = {"v"}
    Stores = {"db", "cookie"}
    FirstAccounts <- MCAccounts
    MaxChanges = 2
    Headers <- MCHeaders
    Settings <- MCSettings
CHECK_DEADLOCK FALSE
INVARIANTS
    NoMixture
    NewestPagePosts
    StaffOnly
    AnswersJustified
    OneCreated
PROPERTIES
    SequentialSession
