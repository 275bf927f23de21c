SPECIFICATION Spec
CONSTANTS
    Proposals = {p1, p2}
    FromDiscovery = {p1}
    Payloads <- MCPayloads
    RoleName <- MCRoleName
    CatalogRoles <- NoCatalogRoles
    CatalogName <- NoCatalogName
    Requests = {r1, r2}
    Reviewers = {r1}
    MaxDecisions = 1
    MaxAttempts = 1
    CrashesAllowed = FALSE
INVARIANTS
    CurrentCatalogIsComplete
CHECK_DEADLOCK FALSE
