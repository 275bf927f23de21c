SPECIFICATION Spec
CONSTANTS
    Runs = {n1, n2}
    Requests = {r1}
    MaxMessages = 1
    SendsMayFail = FALSE
    CrashesAllowed = FALSE
    TasksMayDie = TRUE
    JDTasks = {j1, j2}
    Drafts = {"a", "b"}
    Mapped = {"a"}
    MaxRevisions = 1
    Candidates = {1}
    BatchTasks = {b1}
INVARIANTS
    DraftIsOfCurrentJD
CHECK_DEADLOCK FALSE
