SPECIFICATION Spec
CONSTANTS
    Runs = {n1, n2}
    Requests = {r1}
    MaxMessages = 1
    SendsMayFail = FALSE
    CrashesAllowed = FALSE
    TasksMayDie = FALSE
    Workers = {w1}
    Contents = {"a"}
    MaxProfiles = 1
INVARIANTS
    WorkersEndTheirRuns
CHECK_DEADLOCK FALSE
