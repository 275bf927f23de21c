SPECIFICATION Spec
CONSTANTS
    Proposals = {p1}
    FromDiscovery = {p1}
    Payloads <- MCPayloads
    RoleName <- MCRoleName
    CatalogRoles <- NoCatalogRoles
    CatalogName <- NoCatalogName
    Requests = {r1, r2}
    Reviewers = {r1, r2}
    MaxDecisions = 2
    MaxAttempts = 1
    CrashesAllowed = FALSE
PROPERTIES
    PublishedProposalIsReadOnly
CHECK_DEADLOCK FALSE
