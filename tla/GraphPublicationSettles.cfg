SPECIFICATION FairSpec
CONSTANTS
    Proposals = {p1, p2}
    FromDiscovery = {p1}
    Payloads <- MCPayloads
    RoleName <- MCRoleName
    CatalogRoles <- MCCatalogRoles
    CatalogName <- MCCatalogName
    Requests = {r1, r2}
    Reviewers = {r1}
    MaxDecisions = 1
    MaxAttempts = 2
    CrashesAllowed = FALSE
PROPERTIES
    PublicationSettles
CHECK_DEADLOCK FALSE
