SPECIFICATION Spec
CONSTANTS
    Runs = {n1, n2}
    Requests = {r1}
    MaxMessages = 1
    SendsMayFail = FALSE
    CrashesAllowed = FALSE
    TasksMayDie = TRUE
    JDTasks = {j1}
    Drafts = {"a", "b"}
    Mapped = {"a"}
    MaxRevisions = 1
    Candidates = {1, 2}
    BatchTasks = {b1, b2}
SYMMETRY Symmetry
CONSTRAINTS
    Separately
    OneUpload
INVARIANTS
    TypeOK
    ReadyHasProfile
    CompletedBatchIsWhole
    ReadyHasDraft
PROPERTIES
    OwnershipMovesOn
CHECK_DEADLOCK FALSE
