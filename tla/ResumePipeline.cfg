SPECIFICATION Spec
CONSTANTS
    Runs = {n1, n2}
    Requests = {r1}
    MaxMessages = 1
    SendsMayFail = FALSE
    CrashesAllowed = TRUE
    TasksMayDie = TRUE
    Workers = {w1, w2}
    Contents = {"a", "b"}
    MaxProfiles = 2
SYMMETRY Symmetry
INVARIANTS
    TypeOK
    ResultsAreBacked
    OneExtraction
    ProfileHistoryIsSound
PROPERTIES
    ConfirmedIsImmutable
    ArchivedIsFrozen
CHECK_DEADLOCK FALSE
