SPECIFICATION FairSpec
CONSTANTS
    Runs = {n1}
    Requests = {r1}
    MaxMessages = 1
    SendsMayFail = TRUE
    CrashesAllowed = FALSE
    TasksMayDie = FALSE
    Workers = {w1}
    Contents = {"a"}
    MaxProfiles = 1
PROPERTIES
    PendingEnds
CHECK_DEADLOCK FALSE
