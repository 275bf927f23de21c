SPECIFICATION Spec
CONSTANTS
    Runs = {n1, n2}
    Requests = {r1}
    MaxMessages = 1
    SendsMayFail = FALSE
    CrashesAllowed = FALSE
    TasksMayDie = TRUE
    FileRows <- MCFileRows
    ChunkSize = 2
    Importers = {w1, w2}
    JobCount = 3
    DiscoveryChunk = 2
    Miners = {w1, w2}
    Clients = {c1, c2, c3}
    Bodies = {"a", "b"}
    Askers = {c1, c2, c3}
    MaxConfirmed = 2
    MaxGraphs = 2
    Uploads = {w1, w2}
    CatalogFiles <- MCCatalogFiles
    GraphRoles <- MCGraphRoles
    MaxVersions = 3
    Users = {u1, u2}
    Callers = {w1, w2}
    SessionIds = {s1}
    FailureLimit = 2
    MaxChanges = 1
    LabelInputs <- MCLabelInputs
    MiningInputs <- MCMiningInputs
    ProposalInputs <- MCProposalInputs
    RowInputs <- MCRowInputs
    ScoreInputs <- MCScoreInputs
    RankInputs <- MCRankInputs
SYMMETRY Symmetry
CONSTRAINTS
    NoRedispatch
    GuessesApart
INVARIANTS
    TypeOK
    OneCurrentVersion
    CountsAreBacked
    CompletedDiscoveryIsWhole
    MatchRunsNeverConflict
    ValidatedRowsFit
    AdminsOutlastChecks
    RevocationIsComplete
    GuessesAreBounded
    LabelsAgree
    MinedAreBest
    ProposalsPublishable
    RowNormalizes
    ScoresAddUp
    RankingIsSettled
PROPERTIES
    ImplementsWriteOnce
CHECK_DEADLOCK FALSE
