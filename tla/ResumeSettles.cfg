SPECIFICATION FairSpec
CONSTANTS
    Runs = {n1}
    Requests = {r1}
    MaxMessages = 2
    SendsMayFail = TRUE
    CrashesAllowed = TRUE
    TasksMayDie = TRUE
    Workers = {w1, w2}
    Contents = {"a"}
    MaxProfiles = 1
PROPERTIES
    RunningEnds
CHECK_DEADLOCK FALSE
